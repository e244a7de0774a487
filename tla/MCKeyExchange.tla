--------------------------- MODULE MCKeyExchange ---------------------------
(***************************************************************************)
(* KeyExchange for TLC: handlers that wait are interchangeable, as no      *)
(* property names one.                                                     *)
(***************************************************************************)
EXTENDS KeyExchange, TLC

JobSymmetry == Permutations(Jobs)
=============================================================================
