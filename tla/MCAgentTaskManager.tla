------------------------- MODULE MCAgentTaskManager -------------------------
(* AgentTaskManager with up to two requests and two cancel requests.          *)
EXTENDS AgentTaskManager, TLC

CONSTANTS h1, h2, s1, s2

MCSymmetry == Permutations(Stoppers) \cup Permutations(Handlers)
MCStopperSymmetry == Permutations(Stoppers)
=============================================================================
