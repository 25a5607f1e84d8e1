--------------------------- MODULE PackagesProofs ---------------------------
(***************************************************************************)
(* Theorems about Packages, for any packages and any price table: that the *)
(* loop of cheapestCover finds, for each number of days, a candidate that  *)
(* no other candidate betters.                                             *)
(***************************************************************************)
EXTENDS Packages, SumTheorems

\* A candidate comes before another: it is better, or as good and longer.
ahead(a, b) ==
  \/ better(a, b)
  \/ ~better(b, a) /\ PACKAGE_DAYS[a.choice] > PACKAGE_DAYS[b.choice]

\* Of the candidates, one comes before all others.
HasFirst(candidates) == \E c \in candidates : \A d \in candidates \ {c} : ahead(c, d)

Candidate == {c \in Best : c.choice # Null}

\* The candidates of a day.
triedOn(prices, best, day) == {candidate(prices, best, day, kind) : kind \in offers(prices)}

\* best[day], as the loop leaves it: a candidate that none betters.
Chosen(prices, best, day) ==
  /\ best[day].choice \in offers(prices)
  /\ best[day] = candidate(prices, best, day, best[day].choice)
  /\ \A kind \in offers(prices) : ~better(candidate(prices, best, day, kind), best[day])

\* best as the loop leaves it after n days.
Loop(prices, best, n) ==
  best = [day \in 0..n |-> IF day = 0 THEN Nothing ELSE bestOf(prices, best, day)]

-----------------------------------------------------------------------------
LEMMA KindsAreNotNull == Null \notin PackageKind
BY NullAssumption DEF PackageKind

\* Only the first of the candidates is ahead of all.
LEMMA AheadIsAnOrder ==
  ASSUME NEW a \in Candidate, NEW b \in Candidate, NEW c \in Candidate
  PROVE  /\ ahead(a, b) /\ ahead(b, c) => ahead(a, c)
         /\ a.choice # b.choice => ahead(a, b) \/ ahead(b, a)
<1>1. \A k \in PackageKind : PACKAGE_DAYS[k] \in Nat
  BY PackageDaysAssumption
<1>2. \A j, k \in PackageKind : j # k => PACKAGE_DAYS[j] # PACKAGE_DAYS[k]
  BY PackageDaysAssumption
<1>3. /\ a.choice \in PackageKind /\ a.cost \in Nat /\ a.covered \in Nat /\ a.count \in Nat
      /\ b.choice \in PackageKind /\ b.cost \in Nat /\ b.covered \in Nat /\ b.count \in Nat
      /\ c.choice \in PackageKind /\ c.cost \in Nat /\ c.covered \in Nat /\ c.count \in Nat
  BY DEF Candidate, Best
<1>4. /\ PACKAGE_DAYS[a.choice] \in Nat /\ PACKAGE_DAYS[b.choice] \in Nat
      /\ PACKAGE_DAYS[c.choice] \in Nat
  BY <1>1, <1>3
<1>5. ahead(a, b) /\ ahead(b, c) => ahead(a, c)
  BY <1>3, <1>4 DEF ahead, better
<1>6. a.choice # b.choice => PACKAGE_DAYS[a.choice] # PACKAGE_DAYS[b.choice]
  BY <1>2, <1>3
<1>7. a.choice # b.choice => ahead(a, b) \/ ahead(b, a)
  BY <1>3, <1>4, <1>6 DEF ahead, better
<1> QED BY <1>5, <1>7

\* Two sets of candidates of other packages, each with a first, have one together.
LEMMA FirstOfBoth ==
  ASSUME NEW A \in SUBSET Candidate, NEW B \in SUBSET Candidate,
         \A a \in A, b \in B : a.choice # b.choice,
         A = {} \/ HasFirst(A), B = {} \/ HasFirst(B)
  PROVE  A \cup B = {} \/ HasFirst(A \cup B)
<1>1. CASE A = {} \/ B = {}
  <2>1. A \cup B = A \/ A \cup B = B
    BY <1>1
  <2> QED BY <2>1, <1>1
<1>2. CASE A # {} /\ B # {}
  <2>1. PICK a \in A : \A d \in A \ {a} : ahead(a, d)
    BY <1>2 DEF HasFirst
  <2>2. PICK b \in B : \A d \in B \ {b} : ahead(b, d)
    BY <1>2 DEF HasFirst
  <2>3. ahead(a, b) \/ ahead(b, a)
    BY AheadIsAnOrder
  <2>4. CASE ahead(a, b)
    <3>1. \A d \in (A \cup B) \ {a} : ahead(a, d)
      BY <2>1, <2>2, <2>4, AheadIsAnOrder
    <3> QED BY <3>1 DEF HasFirst
  <2>5. CASE ahead(b, a)
    <3>1. \A d \in (A \cup B) \ {b} : ahead(b, d)
      BY <2>1, <2>2, <2>5, AheadIsAnOrder
    <3> QED BY <3>1 DEF HasFirst
  <2> QED BY <2>3, <2>4, <2>5
<1> QED BY <1>1, <1>2

\* The day before a package is an earlier day.
LEMMA BeforeIsEarlier ==
  ASSUME NEW day \in Nat \ {0}, NEW kind \in PackageKind
  PROVE  before(day, kind) \in 0..day - 1
<1>1. PACKAGE_DAYS[kind] \in Nat \ {0}
  BY PackageDaysAssumption
<1> QED BY <1>1 DEF before

LEMMA DailyIsOffered ==
  ASSUME NEW prices \in PriceTable PROVE "daily" \in offers(prices)
BY NullAssumption DEF PriceTable, offers, PackageKind

LEMMA OfferedPrice ==
  ASSUME NEW prices \in PriceTable, NEW kind \in offers(prices)
  PROVE  kind \in PackageKind /\ prices[kind] \in Nat
BY DEF PriceTable, offers, PackageKind

LEMMA CandidateType ==
  ASSUME NEW prices \in PriceTable, NEW best, NEW day \in Nat \ {0},
         \A d \in 0..day - 1 : best[d] \in Best, NEW kind \in offers(prices)
  PROVE  /\ candidate(prices, best, day, kind) \in Candidate
         /\ candidate(prices, best, day, kind).choice = kind
<1>1. kind \in PackageKind /\ prices[kind] \in Nat /\ kind # Null
  BY OfferedPrice, KindsAreNotNull
<1>2. PACKAGE_DAYS[kind] \in Nat
  BY <1>1, PackageDaysAssumption
<1>3. best[before(day, kind)] \in Best
  BY <1>1, BeforeIsEarlier
<1> QED BY <1>1, <1>2, <1>3 DEF candidate, Candidate, Best

\* So every day has a first candidate: there are four kinds of packages.
LEMMA DayHasFirst ==
  ASSUME NEW prices \in PriceTable, NEW best, NEW day \in Nat \ {0},
         \A d \in 0..day - 1 : best[d] \in Best
  PROVE  HasFirst(triedOn(prices, best, day))
<1> DEFINE tried(kinds) == {candidate(prices, best, day, kind) : kind \in kinds \cap offers(prices)}
<1>1. ASSUME NEW kinds \in SUBSET PackageKind
      PROVE  tried(kinds) \in SUBSET Candidate /\ \A c \in tried(kinds) : c.choice \in kinds
  BY CandidateType
<1>2. ASSUME NEW kind \in PackageKind
      PROVE  tried({kind}) = {} \/ HasFirst(tried({kind}))
  BY DEF HasFirst
<1>3. ASSUME NEW A \in SUBSET PackageKind, NEW B \in SUBSET PackageKind, A \cap B = {},
             tried(A) = {} \/ HasFirst(tried(A)), tried(B) = {} \/ HasFirst(tried(B))
      PROVE  tried(A \cup B) = {} \/ HasFirst(tried(A \cup B))
  <2>1. tried(A \cup B) = tried(A) \cup tried(B)
    OBVIOUS
  <2>2. /\ tried(A) \in SUBSET Candidate /\ tried(B) \in SUBSET Candidate
        /\ \A a \in tried(A), b \in tried(B) : a.choice # b.choice
    <3> HIDE DEF tried
    <3> QED BY <1>1, <1>3
  <2> HIDE DEF tried
  <2> QED BY <1>3, <2>1, <2>2, FirstOfBoth
<1> DEFINE AB == {"monthly"} \cup {"biweekly"}
           ABC == AB \cup {"weekly"}
<1>4. /\ {"monthly", "biweekly", "weekly", "daily"} \subseteq PackageKind
      /\ PackageKind = ABC \cup {"daily"}
  BY DEF PackageKind
<1>5. tried(AB) = {} \/ HasFirst(tried(AB))
  <2> HIDE DEF tried
  <2> QED BY <1>2, <1>3, <1>4
<1>6. tried(ABC) = {} \/ HasFirst(tried(ABC))
  <2>1. AB \in SUBSET PackageKind /\ {"weekly"} \in SUBSET PackageKind /\ AB \cap {"weekly"} = {}
    BY <1>4
  <2> HIDE DEF tried, AB
  <2> QED BY <1>2, <1>3, <1>4, <1>5, <2>1
<1>7. tried(PackageKind) = {} \/ HasFirst(tried(PackageKind))
  <2>1. ABC \in SUBSET PackageKind /\ {"daily"} \in SUBSET PackageKind /\ ABC \cap {"daily"} = {}
    BY <1>4
  <2> HIDE DEF tried, ABC
  <2> QED BY <1>2, <1>3, <1>4, <1>6, <2>1
<1>8. tried(PackageKind) = triedOn(prices, best, day) /\ tried(PackageKind) # {}
  BY DailyIsOffered DEF triedOn, offers
<1> QED BY <1>7, <1>8

\* bestOf returns a candidate of the day that no other betters.
LEMMA BestOfIsFirst ==
  ASSUME NEW prices \in PriceTable, NEW best, NEW day \in Nat \ {0},
         \A d \in 0..day - 1 : best[d] \in Best
  PROVE  LET c == bestOf(prices, best, day) IN
         /\ c \in Candidate
         /\ c.choice \in offers(prices)
         /\ c = candidate(prices, best, day, c.choice)
         /\ \A kind \in offers(prices) : ~better(candidate(prices, best, day, kind), c)
<1> DEFINE tried == triedOn(prices, best, day)
           c == bestOf(prices, best, day)
<1>1. c = CHOOSE x \in tried : \A d \in tried \ {x} : ahead(x, d)
  BY DEF bestOf, triedOn, ahead
<1>2. c \in tried /\ \A d \in tried \ {c} : ahead(c, d)
  BY <1>1, DayHasFirst DEF HasFirst
<1>3. PICK kind \in offers(prices) : c = candidate(prices, best, day, kind)
  BY <1>2 DEF triedOn
<1>4. c \in Candidate /\ c.choice = kind
  BY <1>3, CandidateType
<1>5. ASSUME NEW k \in offers(prices)
      PROVE  ~better(candidate(prices, best, day, k), c)
  <2> DEFINE d == candidate(prices, best, day, k)
  <2>1. d \in tried /\ d \in Candidate
    BY CandidateType DEF triedOn
  <2>2. d = c \/ ahead(c, d)
    BY <1>2, <2>1
  <2>3. /\ c.cost \in Nat /\ c.covered \in Nat /\ c.count \in Nat
        /\ d.cost \in Nat /\ d.covered \in Nat /\ d.count \in Nat
    BY <2>1, <1>4 DEF Candidate, Best
  <2>4. ~better(d, c)
    <3> HIDE DEF c, d
    <3> QED BY <2>2, <2>3 DEF ahead, better
  <2> QED BY <2>4
<1> HIDE DEF c
<1> QED BY <1>3, <1>4, <1>5 DEF c

\* bestOf looks at earlier days only.
LEMMA BestOfLooksBack ==
  ASSUME NEW prices \in PriceTable, NEW day \in Nat \ {0}, NEW g, NEW h,
         \A d \in 0..day - 1 : g[d] = h[d]
  PROVE  bestOf(prices, g, day) = bestOf(prices, h, day)
<1>1. \A kind \in offers(prices) : candidate(prices, g, day, kind) = candidate(prices, h, day, kind)
  BY BeforeIsEarlier, OfferedPrice DEF candidate
<1>2. triedOn(prices, g, day) = triedOn(prices, h, day)
  BY <1>1 DEF triedOn
<1>3. \A f : bestOf(prices, f, day) = CHOOSE x \in triedOn(prices, f, day) :
               \A d \in triedOn(prices, f, day) \ {x} : ahead(x, d)
  BY DEF bestOf, triedOn, ahead
<1> QED BY <1>2, <1>3

-----------------------------------------------------------------------------
\* What the loop has left for each day.
LEMMA LoopStep ==
  ASSUME NEW prices \in PriceTable, NEW n \in Nat, NEW best, Loop(prices, best, n)
  PROVE  /\ best[0] = Nothing
         /\ \A day \in 1..n : best[day] = bestOf(prices, best, day)
<1> DEFINE h == [day \in 0..n |-> IF day = 0 THEN Nothing ELSE bestOf(prices, best, day)]
<1>1. best = h
  BY DEF Loop
<1>2. h[0] = Nothing /\ \A day \in 1..n : h[day] = bestOf(prices, best, day)
  OBVIOUS
<1> HIDE DEF h
<1> QED BY <1>1, <1>2

\* Every day has a choice that none betters.
LEMMA LoopChooses ==
  ASSUME NEW prices \in PriceTable, NEW n \in Nat, NEW best, Loop(prices, best, n)
  PROVE  /\ best \in [0..n -> Best]
         /\ best[0] = Nothing
         /\ \A day \in 1..n : Chosen(prices, best, day)
<1> DEFINE T == {day \in 0..n : best[day] \notin Best}
<1>1. \A d \in 0..n : best[d] \in Best
  <2> SUFFICES ASSUME T # {} PROVE FALSE
    OBVIOUS
  <2>1. PICK day \in T : \A d \in T : day <= d
    <3>1. T \in SUBSET Nat
      OBVIOUS
    <3> HIDE DEF T
    <3> QED BY <3>1, Least
  <2>2. Nothing \in Best
    BY DEF Nothing, Best
  <2>3. day \in 1..n
    BY <2>1, <2>2, LoopStep
  <2>4. \A d \in 0..day - 1 : best[d] \in Best
    BY <2>1
  <2>5. bestOf(prices, best, day) \in Best
    BY <2>3, <2>4, BestOfIsFirst DEF Candidate
  <2> QED BY <2>1, <2>3, <2>5, LoopStep
<1>2. best \in [0..n -> Best]
  <2>1. best = [day \in 0..n |-> best[day]]
    BY DEF Loop
  <2> QED BY <1>1, <2>1
<1>3. ASSUME NEW day \in 1..n PROVE Chosen(prices, best, day)
  <2>1. day \in Nat \ {0} /\ \A d \in 0..day - 1 : best[d] \in Best
    BY <1>1
  <2>2. best[day] = bestOf(prices, best, day)
    BY LoopStep
  <2> QED BY <2>1, <2>2, BestOfIsFirst DEF Chosen
<1> QED BY <1>2, <1>3, LoopStep

\* Loops over more and over fewer days agree.
LEMMA LoopsAgree ==
  ASSUME NEW prices \in PriceTable, NEW m \in Nat, NEW n \in Nat,
         NEW g, Loop(prices, g, m), NEW h, Loop(prices, h, n),
         NEW day \in Nat, day <= m, day <= n
  PROVE  g[day] = h[day]
<1> DEFINE T == {d \in Nat : d <= m /\ d <= n /\ g[d] # h[d]}
<1> SUFFICES ASSUME T # {} PROVE FALSE
  OBVIOUS
<1>1. PICK d \in T : \A e \in T : d <= e
  <2>1. T \in SUBSET Nat
    OBVIOUS
  <2> HIDE DEF T
  <2> QED BY <2>1, Least
<1>2. d \in 1..m /\ d \in 1..n
  BY <1>1, LoopStep
<1>3. \A e \in 0..d - 1 : g[e] = h[e]
  BY <1>1, <1>2
<1>4. bestOf(prices, g, d) = bestOf(prices, h, d)
  BY <1>2, <1>3, BestOfLooksBack
<1> QED BY <1>1, <1>2, <1>4, LoopStep

\* One more day, as the body of the loop adds it.
LEMMA LoopGoesOn ==
  ASSUME NEW prices \in PriceTable, NEW n \in Nat, NEW best, Loop(prices, best, n)
  PROVE  Loop(prices, [d \in 0..n + 1 |-> IF d <= n THEN best[d] ELSE bestOf(prices, best, n + 1)],
              n + 1)
<1> DEFINE h == [d \in 0..n + 1 |-> IF d <= n THEN best[d] ELSE bestOf(prices, best, n + 1)]
<1>1. \A d \in 0..n : h[d] = best[d]
  OBVIOUS
<1>2. h[n + 1] = bestOf(prices, best, n + 1)
  OBVIOUS
<1> HIDE DEF h
<1>3. ASSUME NEW d \in 0..n + 1
      PROVE  h[d] = IF d = 0 THEN Nothing ELSE bestOf(prices, h, d)
  <2>1. CASE d = 0
    BY <2>1, <1>1, LoopStep
  <2>2. CASE d # 0
    <3>1. \A e \in 0..d - 1 : h[e] = best[e]
      BY <1>1
    <3>2. bestOf(prices, h, d) = bestOf(prices, best, d)
      BY <2>2, <3>1, BestOfLooksBack
    <3>3. h[d] = bestOf(prices, best, d)
      BY <2>2, <1>1, <1>2, LoopStep
    <3> QED BY <2>2, <3>2, <3>3
  <2> QED BY <2>1, <2>2
<1>4. h = [d \in 0..n + 1 |-> h[d]]
  BY DEF h
<1>5. Loop(prices, h, n + 1)
  BY <1>3, <1>4 DEF Loop
<1> QED BY <1>5 DEF h

LEMMA LoopStarts ==
  ASSUME NEW prices PROVE Loop(prices, [d \in {0} |-> Nothing], 0)
<1>1. 0..0 = {0}
  OBVIOUS
<1> QED BY <1>1 DEF Loop

LEMMA LoopEnds ==
  ASSUME NEW prices \in PriceTable, NEW n \in Nat
  PROVE  \E best : Loop(prices, best, n)
<1> DEFINE T == {m \in Nat : ~ \E best : Loop(prices, best, m)}
<1> SUFFICES ASSUME T # {} PROVE FALSE
  OBVIOUS
<1>1. PICK m \in T : \A k \in T : m <= k
  <2>1. T \in SUBSET Nat
    OBVIOUS
  <2> HIDE DEF T
  <2> QED BY <2>1, Least
<1>2. m # 0
  BY <1>1, LoopStarts
<1>3. m - 1 \in Nat /\ m - 1 \notin T
  BY <1>1, <1>2
<1>4. PICK best : Loop(prices, best, m - 1)
  BY <1>3
<1>5. \E h : Loop(prices, h, (m - 1) + 1)
  BY <1>3, <1>4, LoopGoesOn
<1> QED BY <1>1, <1>3, <1>5

\* cheapestCover returns what any such loop ends with, whoever runs it: the
\* operator that the statements use and the loops of CheapestCover agree.
THEOREM CoverIsOfLoop ==
  ASSUME NEW prices \in PriceTable, NEW n \in Nat, NEW best, Loop(prices, best, n),
         NEW day \in 0..n
  PROVE  cheapestCover(prices, day) = best[day]
<1> DEFINE g == CHOOSE g : Loop(prices, g, day)
<1>1. cheapestCover(prices, day) = g[day]
  BY Zenon DEF cheapestCover, Loop
<1>2. Loop(prices, g, day)
  BY LoopEnds
<1> HIDE DEF g
<1> QED BY <1>1, <1>2, LoopsAgree

LEMMA CoverType ==
  ASSUME NEW prices \in PriceTable, NEW days \in Nat
  PROVE  cheapestCover(prices, days) \in Best
<1>1. PICK best : Loop(prices, best, days)
  BY LoopEnds
<1> QED BY <1>1, CoverIsOfLoop, LoopChooses

=============================================================================
