------------------------------ MODULE MCRental ------------------------------
(***************************************************************************)
(* Rental on small sets of contracts and units, for TLC.                   *)
(***************************************************************************)
EXTENDS Rental, TLC

\* Ids are interchangeable: no guard compares them but for equality.
Symmetry == Permutations(Contracts) \cup Permutations(Equipments)
=============================================================================
