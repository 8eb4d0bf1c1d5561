------------------------------ MODULE MCGameUpdate ------------------------------
(* GameUpdate for TLC.  The calls of start() are interchangeable.          *)
EXTENDS GameUpdate, TLC

Symmetry == Permutations(Calls)
=============================================================================
