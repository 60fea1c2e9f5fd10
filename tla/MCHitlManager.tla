--------------------------- MODULE MCHitlManager ---------------------------
(* HitlManager on small sets: two calls of one tool, so that results can be *)
(* mixed up, or one call.                                                   *)
EXTENDS HitlManager, TLC

CONSTANTS c1, c2, q1, q2, scan, look

MCTools == {scan, look}
MCExempt == {look}
MCToolOfTwo == (c1 :> scan @@ c2 :> scan)
MCToolOfOne == (c1 :> scan)
MCSymmetry == Permutations(Requests) \cup Permutations(Calls)
=============================================================================
