------------------------------ MODULE Packages ------------------------------
(***************************************************************************)
(* Price tables and the cheapest set of packages that covers a number of   *)
(* days: packages.ts.  Prices are whole cents, as toCents leaves them.     *)
(* XSlip is X with a mistake in it that the code could have.               *)
(***************************************************************************)
EXTENDS Integers, SequencesExt

CONSTANTS
  PACKAGE_DAYS,   \* days each kind of package covers
  Null            \* a package the table does not offer

\* Candidates are tried from the longest package to the shortest (ORDER).
PackageKind == {"monthly", "biweekly", "weekly", "daily"}

ASSUME PackageDaysAssumption ==
  /\ PACKAGE_DAYS \in [PackageKind -> Nat \ {0}]
  /\ PACKAGE_DAYS["daily"] = 1
  /\ \A j, k \in PackageKind : PACKAGE_DAYS[j] = PACKAGE_DAYS[k] => j = k

ASSUME NullAssumption == Null \notin Int /\ Null \notin PackageKind

\* The daily price is always there, be it zero; the others only if positive.
PriceTable ==
  [daily : Nat, weekly : (Nat \ {0}) \cup {Null}, biweekly : (Nat \ {0}) \cup {Null},
   monthly : (Nat \ {0}) \cup {Null}, indemnity : Nat]

priceTableSlip(p) == p
priceTable(p) ==
  LET offered(cents) == IF cents # Null /\ cents > 0 THEN cents ELSE Null IN
  [p EXCEPT !.weekly = offered(@), !.biweekly = offered(@), !.monthly = offered(@)]

offers(prices) == {kind \in PackageKind : prices[kind] # Null}

\* What is known of the best cover of some number of days.
Best == [cost : Nat, covered : Nat, count : Nat, choice : PackageKind \cup {Null}]

Nothing == [cost |-> 0, covered |-> 0, count |-> 0, choice |-> Null]

\* Cheaper first; at one price, fewer days covered, then fewer packages.
betterSlip(a, b) == a.cost < b.cost
better(a, b) ==
  \/ a.cost < b.cost
  \/ a.cost = b.cost /\ a.covered < b.covered
  \/ a.cost = b.cost /\ a.covered = b.covered /\ a.count < b.count

\* A package may cover days past the end of the period, never before its start.
beforeSlip(day, kind) == IF PACKAGE_DAYS[kind] <= day THEN day - PACKAGE_DAYS[kind] ELSE day - 1
before(day, kind) == IF PACKAGE_DAYS[kind] <= day THEN day - PACKAGE_DAYS[kind] ELSE 0

\* The best cover of the day before the package, and the package.
candidate(prices, best, day, kind) ==
  LET rest == best[before(day, kind)] IN
  [cost    |-> rest.cost + prices[kind],
   covered |-> rest.covered + PACKAGE_DAYS[kind],
   count   |-> rest.count + 1,
   choice  |-> kind]

\* The candidate that none betters, the longest package of them.
bestOf(prices, best, day) ==
  LET tried == {candidate(prices, best, day, kind) : kind \in offers(prices)}
      earlier(a, b) == PACKAGE_DAYS[a.choice] > PACKAGE_DAYS[b.choice]
  IN  CHOOSE c \in tried :
        \A d \in tried \ {c} : better(c, d) \/ (~ better(d, c) /\ earlier(c, d))

\* What cheapestCover(prices, days) returns: best[days], the loop of the code
\* as a recursion.  CheapestCover takes it step by step, with the packages.
cheapestCover(prices, days) ==
  LET best[day \in 0..days] == IF day = 0 THEN Nothing ELSE bestOf(prices, best, day)
  IN  best[days]
=============================================================================
