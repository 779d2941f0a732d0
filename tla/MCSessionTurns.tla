---------------------------- MODULE MCSessionTurns ----------------------------
(***************************************************************************)
(* Two turns of two rounds and one /compact on one chat.                   *)
(***************************************************************************)
EXTENDS SessionTurns, TLC

CONSTANTS t1, t2, c1

Symmetry == Permutations(Turns)
===============================================================================
