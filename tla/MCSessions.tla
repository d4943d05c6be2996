----------------------------- MODULE MCSessions -----------------------------
(***************************************************************************)
(* Instances of Sessions for TLC.  Tokens and workers are interchangeable, *)
(* so safety runs take their permutations as symmetry.                     *)
(***************************************************************************)
EXTENDS Sessions, TLC

CONSTANTS t1, t2, t3, w1, w2

Interchangeable == Permutations(Tokens) \cup Permutations(Workers)

=============================================================================
