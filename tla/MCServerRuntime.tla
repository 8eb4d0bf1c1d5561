--------------------------- MODULE MCServerRuntime ---------------------------
(* ServerRuntime with interchangeable slots for calls.                      *)
EXTENDS ServerRuntime, TLC

CallSymmetry == Permutations(Calls)
=============================================================================
