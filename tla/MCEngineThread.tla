--------------------------- MODULE MCEngineThread ---------------------------
(* EngineThread with three calls that are alike.                            *)
EXTENDS EngineThread, TLC

CONSTANTS c1, c2, c3

MCCalls == {c1, c2, c3}
CallSymmetry == Permutations(MCCalls)
=============================================================================
