------------------------------ MODULE Tallies -------------------------------
(***************************************************************************)
(* The sum of a function's values, as the number of its tally marks: one   *)
(* pair <<x, k>> for every k in 1..m[x].  Proofs count these pairs where   *)
(* they could not unfold a fold.                                           *)
(***************************************************************************)
EXTENDS Integers, FiniteSets

Tally(m) == UNION {{x} \X (1..m[x]) : x \in DOMAIN m}
Sum(m)   == Cardinality(Tally(m))
=============================================================================
