------------------------ MODULE MCExternalMCPCalls ------------------------
(* ExternalMCPCalls with two calls of two servers and configurations that    *)
(* lower, raise and lift the limits.                                         *)
EXTENDS ExternalMCPCalls

MCTotal == <<2, 1, 0>>
MCPerServer == <<1, 2, 0>>
=============================================================================
