------------------------------- MODULE MCWire -------------------------------
(***************************************************************************)
(* TLC instances of R2wpWire.  Operation ids are interchangeable.          *)
(***************************************************************************)
EXTENDS R2wpWire, TLC

CONSTANTS o1, o2

OpSymmetry == Permutations(OpIds)
=============================================================================
