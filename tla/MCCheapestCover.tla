--------------------------- MODULE MCCheapestCover --------------------------
(***************************************************************************)
(* CheapestCover with the real packages and tables chosen for the ties and *)
(* the offers that bring a longer package below a shorter one.             *)
(***************************************************************************)
EXTENDS CheapestCover

\* PACKAGE_DAYS of packages.ts.
Real == [monthly |-> 30, biweekly |-> 15, weekly |-> 7, daily |-> 1]

\* Prices in units of R$ 10, the registry's zero and missing prices included.
\* 1, 5, 8, 10 is the table of billing.spec.ts: seven days at 1 each cost more
\* than the week, and a week with three days as much as the fortnight.
SomeTables ==
  [daily : {0, 1, 2}, weekly : {Null, 0, 5, 7}, biweekly : {Null, 8, 10},
   monthly : {Null, 4, 10, 16}, indemnity : {0}]
=============================================================================
