------------------------------ MODULE MCBilling -----------------------------
(***************************************************************************)
(* Billing with two instants a day, short packages and months, and two     *)
(* price tables, for TLC.                                                  *)
(***************************************************************************)
EXTENDS Billing

Short == [monthly |-> 4, biweekly |-> 3, weekly |-> 2, daily |-> 1]

\* In cents; a tenth of 25 rounds up.
Cheap == [daily |-> 10, weekly |-> 15, biweekly |-> Null, monthly |-> 25, indemnity |-> 100]
Dear == [daily |-> 12, weekly |-> Null, biweekly |-> 20, monthly |-> Null, indemnity |-> 140]

TwoTables == {Cheap, Dear}

\* A day or two, made when the start is past, and a day that starts later.
SomePeriods == {<<0, 2>>, <<1, 5>>, <<5, 7>>}


\* Units are interchangeable: no operator compares them but for equality.
Symmetry == Permutations(Equipments)
=============================================================================
