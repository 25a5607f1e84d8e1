---------------------------- MODULE CheapestCover ---------------------------
(***************************************************************************)
(* cheapestCover of packages.ts, step by step: a first loop finds the best *)
(* cover of 1, 2, ... days from those of fewer days, and a second walks    *)
(* back from the last day, counting the package chosen at each stop.       *)
(***************************************************************************)
EXTENDS Packages

CONSTANTS
  Tables,    \* prices to try, as the registry has them
  MaxDays    \* longest period to try

ASSUME TablesAssumption ==
  /\ Tables \subseteq [daily : Nat, weekly : Nat \cup {Null}, biweekly : Nat \cup {Null},
                        monthly : Nat \cup {Null}, indemnity : Nat]
  /\ MaxDays \in Nat

VARIABLES
  prices, days,  \* the arguments
  day,           \* days done by the first loop
  best,          \* best[d], for the days done
  left,          \* days the second loop has still to walk back
  counts         \* packages of each kind counted so far

vars == <<prices, days, day, best, left, counts>>

NoPackages == [kind \in PackageKind |-> 0]

Init ==
  /\ prices \in {priceTable(p) : p \in Tables}
  /\ days \in 1..MaxDays
  /\ day = 0
  /\ best = [d \in {0} |-> Nothing]
  /\ left = days
  /\ counts = NoPackages

moreDaysSlip == day < days - 1
moreDays == day < days

NextDay ==
  /\ moreDays
  /\ day' = day + 1
  /\ best' = [d \in 0..day + 1 |-> IF d <= day THEN best[d] ELSE bestOf(prices, best, day + 1)]
  /\ UNCHANGED <<prices, days, left, counts>>

stepBackSlip(d) == d - 1
stepBack(d) == before(d, best[d].choice)

WalkBack ==
  /\ day = days
  /\ left > 0
  /\ counts' = [counts EXCEPT ![best[left].choice] = @ + 1]
  /\ left' = stepBack(left)
  /\ UNCHANGED <<prices, days, day, best>>

Next == NextDay \/ WalkBack

\* The function runs to its end: nothing else runs in the process meanwhile.
Spec == Init /\ [][Next]_vars /\ WF_vars(Next)

Done == day = days /\ left = 0

-----------------------------------------------------------------------------
\* How many packages of each kind, the cost and the days of it.
Sum(f) == f["monthly"] + f["biweekly"] + f["weekly"] + f["daily"]
CostOf(b) == Sum([kind \in PackageKind |-> IF b[kind] = 0 THEN 0 ELSE b[kind] * prices[kind]])
DaysOf(b) == Sum([kind \in PackageKind |-> b[kind] * PACKAGE_DAYS[kind]])

\* Every basket worth trying for d days: of the longer packages offered, any
\* number up to what would cover d days alone; and the dailies that the rest
\* leaves to cover (more of them would cost and cover no less).
Enough(d, kind) ==
  IF prices[kind] = Null THEN {0} ELSE 0..(d + PACKAGE_DAYS[kind] - 1) \div PACKAGE_DAYS[kind]

Baskets(d) ==
  {[b EXCEPT !["daily"] = IF DaysOf(b) < d THEN d - DaysOf(b) ELSE 0] :
     b \in {[monthly |-> m, biweekly |-> f, weekly |-> w, daily |-> 0] :
              m \in Enough(d, "monthly"), f \in Enough(d, "biweekly"),
              w \in Enough(d, "weekly")}}

CoverTypeOK ==
  /\ prices \in PriceTable /\ days \in Nat \ {0} /\ day \in 0..days
  /\ best \in [0..day -> Best]
  /\ left \in 0..days
  /\ counts \in [PackageKind -> Nat]

\* No basket that covers the period is cheaper, nor as cheap with fewer days
\* past the end, nor with both and fewer packages (the tests of billing.spec.ts
\* "sete diarias custam mais que a semana: cobra a semana" and "dez dias: 1
\* semanal + 3 diarias").
CoverIsCheapest ==
  day = days /\ left = days =>
    \A b \in Baskets(days) :
      /\ best[days].cost <= CostOf(b)
      /\ best[days].cost = CostOf(b) => best[days].covered <= DaysOf(b)
      /\ best[days].cost = CostOf(b) /\ best[days].covered = DaysOf(b) =>
           best[days].count <= Sum(b)

\* The packages listed on the bill add up to its amount, and cover the period:
\* the walk back finds the very packages the costs were made of.
PackagesAddUp ==
  Done => /\ CostOf(counts) = best[days].cost
          /\ DaysOf(counts) = best[days].covered
          /\ Sum(counts) = best[days].count
          /\ best[days].covered >= days

\* A longer period never has a cheaper cover, although a package may be worth
\* less than the days it replaces (the usage of a unit returned early is never
\* billed above what was contracted: rules.ts:109).
LongerNeverCheaper == \A d \in 1..day : best[d - 1].cost <= best[d].cost

\* Both loops end, whatever the table and the period.
Finishes == <>Done
=============================================================================
