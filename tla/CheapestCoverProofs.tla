------------------------- MODULE CheapestCoverProofs ------------------------
(***************************************************************************)
(* Theorems about CheapestCover, for any packages, price tables and        *)
(* periods: the types, that the cover found is the cheapest of all, that   *)
(* the packages counted add up to it and that longer periods cost no less. *)
(***************************************************************************)
EXTENDS CheapestCover, PackagesProofs

Basket == [PackageKind -> Nat]

\* CostOf with the price table as a parameter.
costAt(table, b) ==
  Sum([kind \in PackageKind |-> IF b[kind] = 0 THEN 0 ELSE b[kind] * table[kind]])

\* The packages of a basket are offered.
Offered(table, b) == \A kind \in PackageKind : b[kind] > 0 => kind \in offers(table)

\* c is b with one package more of kind k.
Adds(b, k, c) ==
  c[k] = b[k] + 1 /\ \A kind \in PackageKind : kind # k => c[kind] = b[kind]

\* A cover is cheaper than a basket, or costs the same and covers fewer days past
\* the end, or is equal in both and has no more packages.
NoWorse(cover, table, b) ==
  /\ cover.cost <= costAt(table, b)
  /\ cover.cost = costAt(table, b) => cover.covered <= DaysOf(b)
  /\ cover.cost = costAt(table, b) /\ cover.covered = DaysOf(b) => cover.count <= Sum(b)

\* What is counted and the cover of the days left make the cover of the period.
Remaining ==
  /\ costAt(prices, counts) + best[left].cost = best[days].cost
  /\ DaysOf(counts) + best[left].covered = best[days].covered
  /\ Sum(counts) + best[left].count = best[days].count

\* The inductive invariant.
CoverInv ==
  /\ prices \in PriceTable
  /\ days \in Nat \ {0} /\ day \in 0..days /\ left \in 0..days
  /\ Loop(prices, best, day)
  /\ counts \in Basket /\ Offered(prices, counts)
  /\ day < days => left = days /\ counts = NoPackages
  /\ day = days => Remaining

-----------------------------------------------------------------------------
(***************************************************************************)
(* Baskets.                                                                *)
(***************************************************************************)
LEMMA Kinds ==
  /\ {"monthly", "biweekly", "weekly", "daily"} = PackageKind
  /\ \A kind \in PackageKind : PACKAGE_DAYS[kind] \in Nat \ {0}
BY PackageDaysAssumption DEF PackageKind

LEMMA OneMore ==
  ASSUME NEW n \in Nat, NEW q \in Nat
  PROVE  n * q \in Nat /\ (n + 1) * q = n * q + q /\ 0 * q = 0
OBVIOUS

\* The total of a basket, written out.
LEMMA SumOfFour ==
  ASSUME NEW f \in Basket
  PROVE  /\ Sum(f) = f["monthly"] + f["biweekly"] + f["weekly"] + f["daily"]
         /\ Sum(f) \in Nat
BY DEF Sum, Basket, PackageKind

\* The terms of the sums of a basket.
costs(table, b) == [kind \in PackageKind |-> IF b[kind] = 0 THEN 0 ELSE b[kind] * table[kind]]
daysIn(b) == [kind \in PackageKind |-> b[kind] * PACKAGE_DAYS[kind]]

LEMMA TermsAreNatural ==
  ASSUME NEW table \in PriceTable, NEW b \in Basket, Offered(table, b)
  PROVE  costs(table, b) \in Basket /\ daysIn(b) \in Basket
<1>1. ASSUME NEW kind \in PackageKind, b[kind] # 0
      PROVE  b[kind] * table[kind] \in Nat
  <2>1. b[kind] \in Nat /\ table[kind] \in Nat
    BY <1>1, OfferedPrice DEF Offered, Basket
  <2> QED BY <2>1, OneMore
<1>2. ASSUME NEW kind \in PackageKind PROVE b[kind] * PACKAGE_DAYS[kind] \in Nat
  BY Kinds, OneMore DEF Basket
<1> QED BY <1>1, <1>2 DEF costs, daysIn, Basket

LEMMA BasketTotals ==
  ASSUME NEW table \in PriceTable, NEW b \in Basket, Offered(table, b)
  PROVE  costAt(table, b) \in Nat /\ DaysOf(b) \in Nat /\ Sum(b) \in Nat
BY TermsAreNatural, SumOfFour DEF costAt, DaysOf, costs, daysIn

LEMMA EmptyBasket ==
  ASSUME NEW table
  PROVE  /\ NoPackages \in Basket /\ Offered(table, NoPackages)
         /\ costAt(table, NoPackages) = 0 /\ DaysOf(NoPackages) = 0 /\ Sum(NoPackages) = 0
<1>1. NoPackages \in Basket /\ \A kind \in PackageKind : NoPackages[kind] = 0
  BY DEF NoPackages, Basket
<1>2. costs(table, NoPackages) = NoPackages
  BY <1>1 DEF costs, NoPackages
<1>3. daysIn(NoPackages) = NoPackages
  <2>1. \A kind \in PackageKind : NoPackages[kind] * PACKAGE_DAYS[kind] = 0
    BY <1>1, Kinds, OneMore
  <2> QED BY <2>1 DEF daysIn, NoPackages
<1>4. Sum(NoPackages) = 0
  BY <1>1, SumOfFour, Kinds
<1> QED BY <1>1, <1>2, <1>3, <1>4 DEF Offered, costAt, DaysOf, costs, daysIn

\* A package more adds its price, its days and one.
LEMMA PackageAdded ==
  ASSUME NEW table \in PriceTable, NEW b \in Basket, Offered(table, b),
         NEW k \in offers(table), NEW c \in Basket, Adds(b, k, c)
  PROVE  /\ Offered(table, c)
         /\ costAt(table, c) = costAt(table, b) + table[k]
         /\ DaysOf(c) = DaysOf(b) + PACKAGE_DAYS[k]
         /\ Sum(c) = Sum(b) + 1
<1>1. k \in PackageKind /\ table[k] \in Nat
  BY OfferedPrice
<1>2. /\ c[k] = b[k] + 1 /\ b[k] \in Nat
      /\ \A kind \in PackageKind : kind # k => c[kind] = b[kind]
  BY <1>1 DEF Basket, Adds
<1>3. Offered(table, c)
  BY <1>2 DEF Offered
<1>4. /\ costs(table, c)[k] = costs(table, b)[k] + table[k]
      /\ \A kind \in PackageKind : kind # k => costs(table, c)[kind] = costs(table, b)[kind]
  <2>1. costs(table, c)[k] = c[k] * table[k]
    BY <1>1, <1>2 DEF costs
  <2>2. costs(table, b)[k] = b[k] * table[k]
    BY <1>1, <1>2, OneMore DEF costs
  <2>3. \A kind \in PackageKind : kind # k => costs(table, c)[kind] = costs(table, b)[kind]
    BY <1>2 DEF costs
  <2> QED BY <2>1, <2>2, <2>3, <1>1, <1>2, OneMore
<1>5. /\ daysIn(c)[k] = daysIn(b)[k] + PACKAGE_DAYS[k]
      /\ \A kind \in PackageKind : kind # k => daysIn(c)[kind] = daysIn(b)[kind]
  BY <1>1, <1>2, Kinds, OneMore DEF daysIn
<1>6. ASSUME NEW f \in Basket, NEW g \in Basket, NEW more \in Nat, g[k] = f[k] + more,
             \A kind \in PackageKind : kind # k => g[kind] = f[kind]
      PROVE  Sum(g) = Sum(f) + more
  <2>1. /\ f["monthly"] \in Nat /\ f["biweekly"] \in Nat /\ f["weekly"] \in Nat /\ f["daily"] \in Nat
        /\ g["monthly"] \in Nat /\ g["biweekly"] \in Nat /\ g["weekly"] \in Nat /\ g["daily"] \in Nat
    BY DEF Basket, PackageKind
  <2>2. k \in {"monthly", "biweekly", "weekly", "daily"}
    BY <1>1, Kinds
  <2>3. CASE k = "monthly"
    BY <1>6, <2>1, <2>3, SumOfFour DEF PackageKind
  <2>4. CASE k = "biweekly"
    BY <1>6, <2>1, <2>4, SumOfFour DEF PackageKind
  <2>5. CASE k = "weekly"
    BY <1>6, <2>1, <2>5, SumOfFour DEF PackageKind
  <2>6. CASE k = "daily"
    BY <1>6, <2>1, <2>6, SumOfFour DEF PackageKind
  <2> QED BY <2>2, <2>3, <2>4, <2>5, <2>6
<1>7. Sum(costs(table, c)) = Sum(costs(table, b)) + table[k]
  BY <1>1, <1>2, <1>3, <1>4, <1>6, TermsAreNatural
<1>8. Sum(daysIn(c)) = Sum(daysIn(b)) + PACKAGE_DAYS[k]
  BY <1>1, <1>2, <1>3, <1>5, <1>6, TermsAreNatural, Kinds
<1>9. Sum(c) = Sum(b) + 1
  BY <1>2, <1>6
<1>10. /\ costAt(table, c) = costAt(table, b) + table[k]
       /\ DaysOf(c) = DaysOf(b) + PACKAGE_DAYS[k]
  BY <1>7, <1>8 DEF costAt, DaysOf, costs, daysIn
<1> QED BY <1>2, <1>3, <1>9, <1>10

\* A basket that covers a day has a package to take off.
LEMMA PackageRemoved ==
  ASSUME NEW table \in PriceTable, NEW b \in Basket, Offered(table, b), DaysOf(b) # 0
  PROVE  \E k \in offers(table), a \in Basket :
           Offered(table, a) /\ Adds(a, k, b)
<1>1. PICK k \in PackageKind : b[k] # 0
  <2> SUFFICES ASSUME \A k \in PackageKind : b[k] = 0 PROVE FALSE
    OBVIOUS
  <2>1. b = NoPackages
    BY DEF NoPackages, Basket
  <2> QED BY <2>1, EmptyBasket
<1>2. b[k] \in Nat /\ k \in offers(table)
  BY <1>1 DEF Offered, Basket
<1> DEFINE a == [b EXCEPT ![k] = @ - 1]
<1>3. a \in Basket /\ Offered(table, a)
  BY <1>1, <1>2 DEF Basket, Offered
<1>4. Adds(a, k, b)
  BY <1>2 DEF Basket, Adds
<1> QED BY <1>2, <1>3, <1>4

-----------------------------------------------------------------------------
(***************************************************************************)
(* What the first loop finds.                                              *)
(***************************************************************************)

\* A choice, in numbers.
LEMMA ChosenNumbers ==
  ASSUME NEW table \in PriceTable, NEW n \in Nat, NEW f, Loop(table, f, n), NEW d \in 1..n
  PROVE  LET k == f[d].choice
             r == before(d, k) IN
         /\ k \in offers(table) /\ r \in 0..d - 1 /\ d <= r + PACKAGE_DAYS[k]
         /\ f[d].cost = f[r].cost + table[k]
         /\ f[d].covered = f[r].covered + PACKAGE_DAYS[k]
         /\ f[d].count = f[r].count + 1
<1>1. Chosen(table, f, d)
  BY LoopChooses
<1> DEFINE k == f[d].choice
<1>2. k \in offers(table) /\ f[d] = candidate(table, f, d, k)
  BY <1>1 DEF Chosen
<1>3. k \in PackageKind /\ PACKAGE_DAYS[k] \in Nat
  BY <1>2, OfferedPrice, Kinds
<1>4. before(d, k) \in 0..d - 1 /\ d <= before(d, k) + PACKAGE_DAYS[k]
  BY <1>3, BeforeIsEarlier DEF before
<1> QED BY <1>2, <1>4 DEF candidate

\* And one that was not chosen.
LEMMA OtherNumbers ==
  ASSUME NEW table \in PriceTable, NEW n \in Nat, NEW f, Loop(table, f, n), NEW d \in 1..n,
         NEW k \in offers(table)
  PROVE  LET r == before(d, k) IN
         /\ r \in 0..d - 1 /\ f[r] \in Best /\ f[d] \in Best
         /\ f[d].cost <= f[r].cost + table[k]
         /\ f[d].cost = f[r].cost + table[k] => f[d].covered <= f[r].covered + PACKAGE_DAYS[k]
         /\ f[d].cost = f[r].cost + table[k] /\ f[d].covered = f[r].covered + PACKAGE_DAYS[k] =>
              f[d].count <= f[r].count + 1
<1> DEFINE r == before(d, k)
           c == candidate(table, f, d, k)
<1>1. k \in PackageKind /\ table[k] \in Nat /\ PACKAGE_DAYS[k] \in Nat
  BY OfferedPrice, Kinds
<1>2. r \in 0..d - 1 /\ f[r] \in Best /\ f[d] \in Best
  BY <1>1, BeforeIsEarlier, LoopChooses
<1>3. ~better(c, f[d])
  BY LoopChooses DEF Chosen
<1>4. /\ c.cost = f[r].cost + table[k]
      /\ c.covered = f[r].covered + PACKAGE_DAYS[k]
      /\ c.count = f[r].count + 1
  BY DEF candidate
<1>5. /\ f[r].cost \in Nat /\ f[r].covered \in Nat /\ f[r].count \in Nat
      /\ f[d].cost \in Nat /\ f[d].covered \in Nat /\ f[d].count \in Nat
  BY <1>2 DEF Best
<1> HIDE DEF c, r
<1> QED BY <1>1, <1>2, <1>3, <1>4, <1>5 DEF better, r

\* No basket that covers the days is better than what the loop finds for them.
LEMMA LoopFindsCheapest ==
  ASSUME NEW table \in PriceTable, NEW n \in Nat, NEW f, Loop(table, f, n), NEW d \in 0..n,
         NEW b \in Basket, Offered(table, b), d <= DaysOf(b)
  PROVE  NoWorse(f[d], table, b)
<1> DEFINE beaten(m) == \E c \in Basket : Offered(table, c) /\ m <= DaysOf(c) /\ ~NoWorse(f[m], table, c)
           T == {m \in 0..n : beaten(m)}
<1> SUFFICES ASSUME T # {} PROVE FALSE
  OBVIOUS
<1>1. PICK m \in T : \A e \in T : m <= e
  <2>1. T \in SUBSET Nat
    OBVIOUS
  <2> HIDE DEF T
  <2> QED BY <2>1, Least
<1>2. PICK c \in Basket : Offered(table, c) /\ m <= DaysOf(c) /\ ~NoWorse(f[m], table, c)
  BY <1>1
<1>3. costAt(table, c) \in Nat /\ DaysOf(c) \in Nat /\ Sum(c) \in Nat
  BY <1>2, BasketTotals
<1>4. m # 0
  <2>1. f[0].cost = 0 /\ f[0].covered = 0 /\ f[0].count = 0
    BY LoopChooses DEF Nothing
  <2> QED BY <2>1, <1>2, <1>3 DEF NoWorse
<1>5. m \in 1..n /\ DaysOf(c) # 0
  BY <1>1, <1>2, <1>3, <1>4
<1>6. PICK k \in offers(table), a \in Basket :
        Offered(table, a) /\ Adds(a, k, c)
  BY <1>2, <1>5, PackageRemoved
<1> DEFINE r == before(m, k)
<1>7. /\ costAt(table, c) = costAt(table, a) + table[k]
      /\ DaysOf(c) = DaysOf(a) + PACKAGE_DAYS[k]
      /\ Sum(c) = Sum(a) + 1
  BY <1>6, PackageAdded
<1>8. /\ costAt(table, a) \in Nat /\ DaysOf(a) \in Nat /\ Sum(a) \in Nat
      /\ table[k] \in Nat /\ PACKAGE_DAYS[k] \in Nat
  BY <1>6, BasketTotals, OfferedPrice, Kinds
<1>9. r \in 0..m - 1 /\ r <= DaysOf(a)
  <2>1. r \in 0..m - 1
    BY <1>5, OtherNumbers
  <2> QED BY <2>1, <1>2, <1>5, <1>7, <1>8 DEF before
<1>10. NoWorse(f[r], table, a)
  BY <1>1, <1>5, <1>6, <1>9
<1>11. /\ f[m].cost <= f[r].cost + table[k]
       /\ f[m].cost = f[r].cost + table[k] => f[m].covered <= f[r].covered + PACKAGE_DAYS[k]
       /\ f[m].cost = f[r].cost + table[k] /\ f[m].covered = f[r].covered + PACKAGE_DAYS[k] =>
            f[m].count <= f[r].count + 1
       /\ f[r] \in Best /\ f[m] \in Best
  BY <1>5, OtherNumbers
<1>12. /\ f[r].cost \in Nat /\ f[r].covered \in Nat /\ f[r].count \in Nat
       /\ f[m].cost \in Nat /\ f[m].covered \in Nat /\ f[m].count \in Nat
  BY <1>11 DEF Best
<1> HIDE DEF r
<1>13. NoWorse(f[m], table, c)
  BY <1>7, <1>8, <1>10, <1>11, <1>12 DEF NoWorse
<1> QED BY <1>2, <1>13

\* What the loop finds for some days covers them.
LEMMA LoopCovers ==
  ASSUME NEW table \in PriceTable, NEW n \in Nat, NEW f, Loop(table, f, n), NEW d \in 0..n
  PROVE  d <= f[d].covered
<1> DEFINE T == {m \in 0..n : ~(m <= f[m].covered)}
<1> SUFFICES ASSUME T # {} PROVE FALSE
  OBVIOUS
<1>1. PICK m \in T : \A e \in T : m <= e
  <2>1. T \in SUBSET Nat
    OBVIOUS
  <2> HIDE DEF T
  <2> QED BY <2>1, Least
<1>2. m # 0
  BY <1>1, LoopChooses DEF Nothing
<1>3. m \in 1..n
  BY <1>1, <1>2
<1> DEFINE k == f[m].choice
           r == before(m, k)
<1>4. /\ k \in offers(table) /\ r \in 0..m - 1 /\ m <= r + PACKAGE_DAYS[k]
      /\ f[m].covered = f[r].covered + PACKAGE_DAYS[k]
  BY <1>3, ChosenNumbers
<1>5. PACKAGE_DAYS[k] \in Nat /\ \A e \in 0..n : f[e].covered \in Nat
  <2>1. f \in [0..n -> Best]
    BY LoopChooses
  <2>2. PACKAGE_DAYS[k] \in Nat
    BY <1>4, OfferedPrice, Kinds
  <2> QED BY <2>1, <2>2 DEF Best
<1>6. r \in 0..n /\ r \notin T
  BY <1>1, <1>3, <1>4
<1> HIDE DEF r, k
<1> QED BY <1>1, <1>3, <1>4, <1>5, <1>6

\* A day more costs no less.
LEMMA LoopNeverCheaper ==
  ASSUME NEW table \in PriceTable, NEW n \in Nat, NEW f, Loop(table, f, n), NEW d \in 1..n
  PROVE  f[d - 1].cost <= f[d].cost
<1> DEFINE T == {m \in 1..n : ~(f[m - 1].cost <= f[m].cost)}
<1> SUFFICES ASSUME T # {} PROVE FALSE
  OBVIOUS
<1>1. PICK m \in T : \A e \in T : m <= e
  <2>1. T \in SUBSET Nat
    OBVIOUS
  <2> HIDE DEF T
  <2> QED BY <2>1, Least
<1>2. m \in 1..n /\ \A e \in 0..n : f[e].cost \in Nat
  BY <1>1, LoopChooses DEF Best
<1>3. m # 1
  BY <1>1, <1>2, LoopChooses DEF Nothing
<1> DEFINE k == f[m].choice
           r == before(m, k)
           s == before(m - 1, k)
<1>4. /\ k \in offers(table) /\ r \in 0..m - 1
      /\ f[m].cost = f[r].cost + table[k]
  BY <1>2, ChosenNumbers
<1>5. table[k] \in Nat /\ PACKAGE_DAYS[k] \in Nat \ {0}
  BY <1>4, OfferedPrice, Kinds
<1>6. f[m - 1].cost <= f[s].cost + table[k]
  <2>1. m - 1 \in 1..n
    BY <1>2, <1>3
  <2> HIDE DEF k
  <2> QED BY <2>1, <1>4, OtherNumbers
<1>7. s = r \/ (r # 0 /\ s = r - 1)
  <2> HIDE DEF k
  <2> QED BY <1>2, <1>3, <1>5 DEF before
<1> HIDE DEF k, r
<1>8. r # 0 => f[r - 1].cost <= f[r].cost
  BY <1>1, <1>2, <1>4
<1>9. s \in 0..n /\ r \in 0..n /\ m - 1 \in 0..n
  BY <1>2, <1>4, <1>7
<1> HIDE DEF s
<1>10. f[m - 1].cost <= f[m].cost
  BY <1>2, <1>4, <1>5, <1>6, <1>7, <1>8, <1>9
<1> QED BY <1>1, <1>10

-----------------------------------------------------------------------------
(***************************************************************************)
(* The invariant, step by step.                                            *)
(***************************************************************************)

\* priceTable leaves a table whose packages are offered at a positive price.
LEMMA PriceTableType ==
  ASSUME NEW p \in Tables PROVE priceTable(p) \in PriceTable
<1>1. p \in [daily : Nat, weekly : Nat \cup {Null}, biweekly : Nat \cup {Null},
             monthly : Nat \cup {Null}, indemnity : Nat]
  BY TablesAssumption
<1> DEFINE offered(cents) == IF cents # Null /\ cents > 0 THEN cents ELSE Null
<1>2. ASSUME NEW cents \in Nat \cup {Null}
      PROVE  offered(cents) \in (Nat \ {0}) \cup {Null}
  OBVIOUS
<1>3. priceTable(p) = [p EXCEPT !.weekly = offered(@), !.biweekly = offered(@),
                                !.monthly = offered(@)]
  BY DEF priceTable
<1>4. /\ offered(p.weekly) \in (Nat \ {0}) \cup {Null}
      /\ offered(p.biweekly) \in (Nat \ {0}) \cup {Null}
      /\ offered(p.monthly) \in (Nat \ {0}) \cup {Null}
  <2> HIDE DEF offered
  <2> QED BY <1>1, <1>2
<1> HIDE DEF offered
<1> QED BY <1>1, <1>3, <1>4 DEF PriceTable

LEMMA CoverInit == Init => CoverInv
<1> SUFFICES ASSUME Init PROVE CoverInv
  OBVIOUS
<1>1. prices \in PriceTable
  BY PriceTableType DEF Init
<1>2. days \in Nat \ {0} /\ day = 0 /\ left = days /\ counts = NoPackages
  BY TablesAssumption DEF Init
<1>3. Loop(prices, best, day)
  BY <1>2, LoopStarts DEF Init
<1> QED BY <1>1, <1>2, <1>3, EmptyBasket DEF CoverInv

\* Nothing is counted before the first loop is done.
LEMMA NothingCountedYet ==
  ASSUME NEW table \in PriceTable, NEW n \in Nat, NEW f, Loop(table, f, n)
  PROVE  /\ costAt(table, NoPackages) + f[n].cost = f[n].cost
         /\ DaysOf(NoPackages) + f[n].covered = f[n].covered
         /\ Sum(NoPackages) + f[n].count = f[n].count
<1>1. f[n] \in Best
  BY LoopChooses
<1> QED BY <1>1, EmptyBasket DEF Best

LEMMA NextDayStep == CoverInv /\ NextDay => CoverInv'
<1> SUFFICES ASSUME CoverInv, NextDay PROVE CoverInv'
  OBVIOUS
<1>1. /\ prices \in PriceTable /\ days \in Nat \ {0} /\ day \in 0..days /\ day < days
      /\ left = days /\ counts = NoPackages /\ counts \in Basket /\ Offered(prices, counts)
      /\ Loop(prices, best, day)
  BY DEF CoverInv, NextDay, moreDays
<1>2. UNCHANGED <<prices, days, left, counts>> /\ day' = day + 1
  BY DEF NextDay
<1>3. Loop(prices, best', day + 1)
  BY <1>1, LoopGoesOn DEF NextDay
<1>4. Loop(prices, best, day)'
  BY <1>2, <1>3 DEF Loop
<1>5. day' = days' => Remaining'
  <2> SUFFICES ASSUME day + 1 = days PROVE Remaining'
    BY <1>2
  <2>1. /\ costAt(prices, NoPackages) + best'[days].cost = best'[days].cost
        /\ DaysOf(NoPackages) + best'[days].covered = best'[days].covered
        /\ Sum(NoPackages) + best'[days].count = best'[days].count
    BY <1>1, <1>3, NothingCountedYet
  <2> QED BY <1>1, <1>2, <2>1 DEF Remaining
<1>6. Offered(prices, counts)'
  BY <1>1, <1>2 DEF Offered
<1> QED BY <1>1, <1>2, <1>4, <1>5, <1>6 DEF CoverInv

LEMMA WalkBackStep == CoverInv /\ WalkBack => CoverInv'
<1> SUFFICES ASSUME CoverInv, WalkBack PROVE CoverInv'
  OBVIOUS
<1> DEFINE k == best[left].choice
<1>1. /\ prices \in PriceTable /\ days \in Nat \ {0} /\ day = days /\ left \in 1..days
      /\ counts \in Basket /\ Offered(prices, counts)
      /\ Loop(prices, best, days) /\ Remaining
  BY DEF CoverInv, WalkBack
<1>2. /\ UNCHANGED <<prices, days, day, best>>
      /\ counts' = [counts EXCEPT ![k] = @ + 1] /\ left' = before(left, k)
  BY DEF WalkBack, stepBack
<1>3. /\ k \in offers(prices) /\ left' \in 0..left - 1
      /\ best[left].cost = best[left'].cost + prices[k]
      /\ best[left].covered = best[left'].covered + PACKAGE_DAYS[k]
      /\ best[left].count = best[left'].count + 1
  BY <1>1, <1>2, ChosenNumbers
<1>4. counts' \in Basket /\ Adds(counts, k, counts')
  BY <1>1, <1>2, <1>3, OfferedPrice DEF Basket, Adds
<1>5. /\ Offered(prices, counts')
      /\ costAt(prices, counts') = costAt(prices, counts) + prices[k]
      /\ DaysOf(counts') = DaysOf(counts) + PACKAGE_DAYS[k]
      /\ Sum(counts') = Sum(counts) + 1
  BY <1>1, <1>3, <1>4, PackageAdded
<1>6. best[left'] \in Best /\ prices[k] \in Nat /\ PACKAGE_DAYS[k] \in Nat
  BY <1>1, <1>3, LoopChooses, OfferedPrice, Kinds
<1>7. costAt(prices, counts) \in Nat /\ DaysOf(counts) \in Nat /\ Sum(counts) \in Nat
  BY <1>1, BasketTotals
<1>8. /\ best[left'].cost \in Nat /\ best[left'].covered \in Nat /\ best[left'].count \in Nat
  BY <1>6 DEF Best
<1> HIDE DEF k
<1>9. /\ costAt(prices, counts) + best[left].cost = best[days].cost
       /\ DaysOf(counts) + best[left].covered = best[days].covered
       /\ Sum(counts) + best[left].count = best[days].count
  BY <1>1 DEF Remaining
<1>10. /\ costAt(prices, counts') + best[left'].cost = best[days].cost
      /\ DaysOf(counts') + best[left'].covered = best[days].covered
      /\ Sum(counts') + best[left'].count = best[days].count
  BY <1>3, <1>5, <1>6, <1>7, <1>8, <1>9
<1>11. Remaining'
  BY <1>2, <1>10 DEF Remaining
<1>12. Loop(prices, best, day)' /\ Offered(prices, counts)'
  BY <1>1, <1>2, <1>5 DEF Loop, Offered
<1> QED BY <1>1, <1>2, <1>3, <1>4, <1>11, <1>12 DEF CoverInv

LEMMA CoverStep == CoverInv /\ [Next]_vars => CoverInv'
<1> SUFFICES ASSUME CoverInv, [Next]_vars PROVE CoverInv'
  OBVIOUS
<1>1. CASE NextDay
  BY <1>1, NextDayStep
<1>2. CASE WalkBack
  BY <1>2, WalkBackStep
<1>3. CASE UNCHANGED vars
  BY <1>3 DEF vars, CoverInv, Remaining, Loop, Offered
<1> QED BY <1>1, <1>2, <1>3 DEF Next

LEMMA CoverInvariant == Spec => []CoverInv
BY CoverInit, CoverStep, PTL DEF Spec

-----------------------------------------------------------------------------
(***************************************************************************)
(* The properties.                                                         *)
(***************************************************************************)

\* The variables of the function keep their types, and every day done has a best
\* cover made of packages.
THEOREM CoverTyping == Spec => []CoverTypeOK
<1>1. CoverInv => CoverTypeOK
  BY LoopChooses DEF CoverInv, CoverTypeOK, Basket
<1> QED BY <1>1, CoverInvariant, PTL

\* Every basket that CoverIsCheapest tries is one of those that a cover is no worse
\* than: it covers the period with packages that are offered.
LEMMA TriedBaskets ==
  ASSUME prices \in PriceTable, NEW d \in Nat, NEW b \in Baskets(d)
  PROVE  b \in Basket /\ Offered(prices, b) /\ d <= DaysOf(b)
<1>1. PICK m \in Enough(d, "monthly"), f \in Enough(d, "biweekly"), w \in Enough(d, "weekly") :
        LET a == [monthly |-> m, biweekly |-> f, weekly |-> w, daily |-> 0]
        IN  b = [a EXCEPT !["daily"] = IF DaysOf(a) < d THEN d - DaysOf(a) ELSE 0]
  BY DEF Baskets
<1> DEFINE a == [monthly |-> m, biweekly |-> f, weekly |-> w, daily |-> 0]
           rest == IF DaysOf(a) < d THEN d - DaysOf(a) ELSE 0
<1>2. ASSUME NEW kind \in PackageKind, NEW n \in Enough(d, kind)
      PROVE  n \in Nat /\ (n > 0 => kind \in offers(prices))
  <2>1. CASE prices[kind] = Null
    BY <2>1, <1>2 DEF Enough
  <2>2. CASE prices[kind] # Null
    BY <2>2, <1>2, Kinds DEF Enough, offers
  <2> QED BY <2>1, <2>2
<1>3. a \in Basket /\ Offered(prices, a)
  BY <1>2 DEF Basket, Offered, PackageKind
<1>4. DaysOf(a) \in Nat
  BY <1>3, BasketTotals
<1>5. rest \in Nat
  BY <1>4
<1>6. /\ b["monthly"] = m /\ b["biweekly"] = f /\ b["weekly"] = w /\ b["daily"] = rest
      /\ b \in Basket
  <2>1. b = [a EXCEPT !["daily"] = rest]
    BY <1>1
  <2> HIDE DEF rest
  <2> QED BY <2>1, <1>3, <1>5 DEF Basket, PackageKind
<1>7. Offered(prices, b)
  BY <1>3, <1>6, DailyIsOffered DEF Offered, PackageKind
<1>8. DaysOf(b) = DaysOf(a) + rest
  <2>1. daysIn(b) \in Basket /\ daysIn(a) \in Basket
    BY <1>3, <1>6, <1>7, TermsAreNatural
  <2>2. /\ daysIn(b)["monthly"] = daysIn(a)["monthly"]
        /\ daysIn(b)["biweekly"] = daysIn(a)["biweekly"]
        /\ daysIn(b)["weekly"] = daysIn(a)["weekly"]
    BY <1>6 DEF daysIn, PackageKind
  <2>3. daysIn(b)["daily"] = rest /\ daysIn(a)["daily"] = 0
    <3> HIDE DEF rest
    <3> QED BY <1>5, <1>6, PackageDaysAssumption DEF daysIn, PackageKind
  <2>4. /\ Sum(daysIn(b)) = daysIn(b)["monthly"] + daysIn(b)["biweekly"] + daysIn(b)["weekly"]
                              + daysIn(b)["daily"]
        /\ Sum(daysIn(a)) = daysIn(a)["monthly"] + daysIn(a)["biweekly"] + daysIn(a)["weekly"]
                              + daysIn(a)["daily"]
    BY <2>1, SumOfFour
  <2>5. /\ daysIn(a)["monthly"] \in Nat /\ daysIn(a)["biweekly"] \in Nat
        /\ daysIn(a)["weekly"] \in Nat
    BY <2>1 DEF Basket, PackageKind
  <2>6. Sum(daysIn(b)) = Sum(daysIn(a)) + rest
    <3> HIDE DEF rest, a
    <3> QED BY <2>2, <2>3, <2>4, <2>5, <1>5
  <2> QED BY <2>6 DEF DaysOf, daysIn
<1>9. d <= DaysOf(b)
  BY <1>4, <1>8
<1> QED BY <1>6, <1>7, <1>9

\* No basket that covers the period is cheaper than the cover charged, nor as cheap
\* with fewer days past the end, nor with both and fewer packages: whatever the
\* packages, the prices and the period are.
THEOREM CoverAlwaysCheapest == Spec => []CoverIsCheapest
<1>1. CoverInv => CoverIsCheapest
  <2> SUFFICES ASSUME CoverInv, day = days, NEW b \in Baskets(days)
               PROVE  NoWorse(best[days], prices, b)
    BY Zenon DEF CoverIsCheapest, NoWorse, CostOf, costAt
  <2>1. prices \in PriceTable /\ days \in Nat /\ Loop(prices, best, days)
    BY DEF CoverInv
  <2>2. b \in Basket /\ Offered(prices, b) /\ days <= DaysOf(b)
    BY <2>1, TriedBaskets
  <2> QED BY <2>1, <2>2, LoopFindsCheapest
<1> QED BY <1>1, CoverInvariant, PTL

\* The same of every basket of packages on offer, not only of those worth trying.
THEOREM NoBasketIsBetter ==
  Spec => [](day = days =>
               \A b \in Basket :
                 Offered(prices, b) /\ days <= DaysOf(b) => NoWorse(best[days], prices, b))
<1>1. CoverInv /\ day = days =>
        \A b \in Basket :
          Offered(prices, b) /\ days <= DaysOf(b) => NoWorse(best[days], prices, b)
  BY LoopFindsCheapest DEF CoverInv
<1> QED BY <1>1, CoverInvariant, PTL

\* The packages counted on the way back add up to the cost, the days and the number
\* that the first loop found, and cover the period.
THEOREM PackagesAlwaysAddUp == Spec => []PackagesAddUp
<1>1. CoverInv => PackagesAddUp
  <2> SUFFICES ASSUME CoverInv, day = days, left = 0
               PROVE  /\ costAt(prices, counts) = best[days].cost
                      /\ DaysOf(counts) = best[days].covered
                      /\ Sum(counts) = best[days].count
                      /\ best[days].covered >= days
    BY Zenon DEF PackagesAddUp, Done, CostOf, costAt
  <2>1. /\ prices \in PriceTable /\ days \in Nat /\ Loop(prices, best, days) /\ Remaining
        /\ counts \in Basket /\ Offered(prices, counts)
    BY DEF CoverInv
  <2>2. best[0].cost = 0 /\ best[0].covered = 0 /\ best[0].count = 0
    BY <2>1, LoopChooses DEF Nothing
  <2>3. costAt(prices, counts) \in Nat /\ DaysOf(counts) \in Nat /\ Sum(counts) \in Nat
    BY <2>1, BasketTotals
  <2>4. days <= best[days].covered
    BY <2>1, LoopCovers
  <2>5. best[days] \in Best
    BY <2>1, LoopChooses
  <2> QED BY <2>1, <2>2, <2>3, <2>4, <2>5 DEF Remaining, Best
<1> QED BY <1>1, CoverInvariant, PTL

\* A longer period never costs less, with any packages and prices.
THEOREM LongerIsNeverCheaper == Spec => []LongerNeverCheaper
<1>1. CoverInv => LongerNeverCheaper
  BY LoopNeverCheaper DEF CoverInv, LongerNeverCheaper
<1> QED BY <1>1, CoverInvariant, PTL

\* The two loops return what the operator of Packages does, which is what the
\* statements of Billing charge.
THEOREM LoopsReturnCover == Spec => [](Done => best[days] = cheapestCover(prices, days))
<1>1. CoverInv /\ Done => best[days] = cheapestCover(prices, days)
  BY CoverIsOfLoop DEF CoverInv, Done
<1> QED BY <1>1, CoverInvariant, PTL

=============================================================================
