--------------------------- MODULE MCRentalServer ---------------------------
(***************************************************************************)
(* RentalServer on small sets of contracts, units and slots, for TLC.      *)
(***************************************************************************)
EXTENDS RentalServer, TLC

\* Ids and slots are interchangeable: nothing compares them but for equality.
Symmetry == Permutations(Contracts) \cup Permutations(Equipments) \cup Permutations(Requests)
=============================================================================
