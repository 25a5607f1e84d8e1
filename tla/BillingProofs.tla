---------------------------- MODULE BillingProofs ---------------------------
(***************************************************************************)
(* Theorems about Billing, for any finite set of units, any price tables,  *)
(* periods, lengths of days and months, and any bounds.                    *)
(***************************************************************************)
EXTENDS Billing, PackagesProofs, SequenceTheorems

FinalStatus == {"AVAILABLE", "STOLEN", "MAINTENANCE"}

Lines == [Equipments -> Items \cup {NoItem}]

PricePoint == [from : Instants, prices : Tables]

Histories == {h \in [Equipments -> Seq(PricePoint)] : \A e \in Equipments : Len(h[e]) > 0}

\* Types, the sums left aside.
TypeInv ==
  /\ now \in Instants
  /\ contract \in [status : {Null, "PENDING", "ACTIVE", "COMPLETED", "CANCELLED"},
                   startDate : Dates, endDate : Dates, finishDate : Dates]
  /\ items \in Lines
  /\ history \in Histories

\* The contract's dates.
DatesInv ==
  /\ contract.status = Null => \A e \in Equipments : items[e] = NoItem
  /\ contract.status # Null =>
       /\ contract.startDate \in Instants /\ contract.endDate \in Instants
       /\ contract.startDate <= contract.endDate
  /\ contract.status \in {Null, "PENDING", "ACTIVE"} => contract.finishDate = Null
  /\ contract.status \in {"COMPLETED", "CANCELLED"} =>
       contract.finishDate \in Instants /\ contract.finishDate < now

\* A substitute comes after the unit it replaces was settled, and is settled later.
FollowsOld(e) ==
  LET old == items[items[e].replaces] IN
  /\ old.finalStatus \in {"STOLEN", "MAINTENANCE"} /\ old.finishDate \in Instants
  /\ old.finishDate < items[e].startDate /\ items[e].startDate < now
  /\ items[e].finishDate # Null => items[e].startDate < items[e].finishDate

LineFits(e) ==
  items[e] # NoItem =>
    /\ items[e].finishDate = Null <=> items[e].finalStatus = Null
    /\ items[e].finishDate # Null => items[e].finishDate < now
    /\ items[e].replaces = Null => items[e].startDate = contract.startDate
    /\ items[e].replaces # Null => FollowsOld(e)
    /\ contract.status = "PENDING" => items[e].finishDate = Null /\ items[e].replaces = Null
    /\ contract.status = "COMPLETED" =>
         items[e].finishDate # Null /\ items[e].finishDate < contract.finishDate

OneSubstitute ==
  \A a, b \in Equipments :
    items[a].replaces # Null /\ items[a].replaces = items[b].replaces => a = b

LinesInv == OneSubstitute /\ \A e \in Equipments : LineFits(e)

\* What the lines and dates of a contract always satisfy.
RecordsInv == TypeInv /\ DatesInv /\ LinesInv

-----------------------------------------------------------------------------
(***************************************************************************)
(* The lines, action by action.                                            *)
(***************************************************************************)
LEMMA NullIsNoValue ==
  /\ Null \notin Instants /\ Null \notin Equipments /\ Null \notin FinalStatus
  /\ NoItem \notin Items
  /\ NoItem.startDate = Null /\ NoItem.finishDate = Null /\ NoItem.finalStatus = Null
  /\ NoItem.replaces = Null
<1>1. Null \notin Instants
  BY NullAssumption, BillingAssumption DEF Instants
<1> QED BY <1>1, BillingAssumption DEF NoItem, Items, FinalStatus

LEMMA LineTypes ==
  ASSUME NEW its \in Lines, NEW e \in Equipments, its[e] # NoItem
  PROVE  /\ its[e] \in Items
         /\ its[e].startDate \in Instants /\ its[e].finishDate \in Instants \cup {Null}
         /\ its[e].finalStatus \in FinalStatus \cup {Null}
         /\ its[e].replaces \in Equipments \cup {Null} /\ its[e].prices \in Tables
BY DEF Lines, Items, Dates, FinalStatus

LEMMA ClockTicks ==
  ASSUME TypeInv, Clock PROVE now' \in Instants /\ now' = now + 1 /\ now \in Int
BY BillingAssumption DEF TypeInv, Clock, Instants

LEMMA LastPrices ==
  ASSUME NEW hist \in Histories, NEW e \in Equipments
  PROVE  Last(hist[e]) \in PricePoint /\ Last(hist[e]).prices \in Tables
<1>1. hist[e] \in Seq(PricePoint) /\ Len(hist[e]) > 0
  BY DEF Histories
<1> DEFINE h == hist[e]
<1>2. Len(h) \in Nat /\ h \in [1..Len(h) -> PricePoint]
  BY <1>1
<1>3. h[Len(h)] \in PricePoint
  <2> HIDE DEF h
  <2> QED BY <1>1, <1>2 DEF h
<1> QED BY <1>3 DEF PricePoint, Last

LEMMA NewItemType ==
  ASSUME TypeInv, NEW e \in Equipments, NEW start \in Instants, NEW old \in Equipments \cup {Null}
  PROVE  LET i == NewItem(e, start, old) IN
         /\ i \in Items /\ i # NoItem
         /\ i.startDate = start /\ i.replaces = old /\ i.finishDate = Null /\ i.finalStatus = Null
<1>1. Last(history[e]).prices \in Tables
  BY LastPrices DEF TypeInv
<1> QED BY <1>1, NullIsNoValue DEF NewItem, Items, Dates

LEMMA SettledType ==
  ASSUME TypeInv, NEW i \in Items, NEW final \in FinalStatus
  PROVE  LET s == settled(i, final) IN
         /\ s \in Items /\ s # NoItem
         /\ s.startDate = i.startDate /\ s.replaces = i.replaces /\ s.prices = i.prices
         /\ s.finishDate = now /\ s.finalStatus = final
BY NullIsNoValue DEF settled, Items, Dates, TypeInv, FinalStatus

\* What does not touch the contract and its lines keeps the invariant.
LEMMA LinesUntouched ==
  ASSUME RecordsInv, UNCHANGED <<contract, items>>, history' \in Histories,
         now' \in Instants, now <= now'
  PROVE  RecordsInv'
<1>1. TypeInv'
  BY DEF RecordsInv, TypeInv
<1>2. DatesInv'
  BY DEF RecordsInv, TypeInv, DatesInv, Instants
<1>3. OneSubstitute'
  BY DEF RecordsInv, LinesInv, OneSubstitute
<1>4. ASSUME NEW e \in Equipments PROVE LineFits(e)'
  <2>1. LineFits(e) /\ items \in Lines
    BY DEF RecordsInv, TypeInv, LinesInv
  <2>2. items[e] # NoItem =>
          items[e].startDate \in Int /\ (items[e].finishDate # Null => items[e].finishDate \in Int)
    BY <2>1, LineTypes DEF Instants
  <2>3. now \in Int /\ now' \in Int
    BY DEF RecordsInv, TypeInv, Instants
  <2> QED BY <2>1, <2>2, <2>3 DEF LineFits, FollowsOld
<1> QED BY <1>1, <1>2, <1>3, <1>4 DEF RecordsInv, LinesInv

LEMMA InitRecords == Init => RecordsInv
<1> SUFFICES ASSUME Init PROVE RecordsInv
  OBVIOUS
<1>1. items \in Lines /\ \A e \in Equipments : items[e] = NoItem
  BY DEF Init, Lines
<1>2. history \in Histories
  <2>1. ASSUME NEW p \in Tables
        PROVE  /\ <<[from |-> Opening, prices |-> p]>> \in Seq(PricePoint)
               /\ Len(<<[from |-> Opening, prices |-> p]>>) > 0
    BY BillingAssumption DEF PricePoint
  <2> DEFINE first(p) == <<[from |-> Opening, prices |-> p]>>
  <2>2. \A e \in Equipments : \E p \in Tables : history[e] = first(p)
    BY DEF Init
  <2>3. \A e \in Equipments : history[e] \in Seq(PricePoint) /\ Len(history[e]) > 0
    <3> TAKE e \in Equipments
    <3>1. PICK p \in Tables : history[e] = first(p)
      BY <2>2
    <3> QED BY <3>1, <2>1
  <2>4. history \in [Equipments -> Seq(PricePoint)]
    BY <2>3 DEF Init
  <2> QED BY <2>3, <2>4 DEF Histories
<1>3. TypeInv
  BY <1>1, <1>2, BillingAssumption DEF Init, TypeInv, Dates
<1>4. DatesInv
  BY <1>1, BillingAssumption DEF Init, DatesInv
<1>5. LinesInv
  BY <1>1, NullIsNoValue DEF LinesInv, OneSubstitute, LineFits
<1> QED BY <1>3, <1>4, <1>5 DEF RecordsInv

\* A pending contract has no substitutes, and its units are all out.
LEMMA NoneReplaces ==
  ASSUME RecordsInv, contract.status = "PENDING"
  PROVE  \A e \in Equipments :
           /\ items[e].replaces = Null
           /\ items[e] # NoItem => items[e].finishDate = Null /\ items[e].finalStatus = Null
<1> SUFFICES ASSUME NEW e \in Equipments
             PROVE  /\ items[e].replaces = Null
                    /\ items[e] # NoItem => items[e].finishDate = Null /\ items[e].finalStatus = Null
  OBVIOUS
<1>1. LineFits(e)
  BY DEF RecordsInv, LinesInv
<1> QED BY <1>1, NullIsNoValue DEF LineFits

LEMMA CreateRecords ==
  ASSUME RecordsInv, NEW period \in Periods, NEW es \in SUBSET Equipments, CreateELease(period, es)
  PROVE  RecordsInv'
<1>1. /\ TypeInv /\ Clock
      /\ contract' = [status |-> "PENDING", startDate |-> period[1], endDate |-> period[2],
                      finishDate |-> Null]
      /\ period[1] \in Instants /\ period[2] \in Instants /\ period[1] <= period[2]
      /\ items' = [e \in Equipments |-> IF e \in es THEN NewItem(e, period[1], Null) ELSE NoItem]
      /\ history' = history
  BY BillingAssumption DEF RecordsInv, CreateELease
<1>2. ASSUME NEW e \in Equipments
      PROVE  /\ items'[e] \in Items \cup {NoItem} /\ items'[e].replaces = Null
             /\ items'[e] # NoItem =>
                  /\ items'[e].startDate = period[1]
                  /\ items'[e].finishDate = Null /\ items'[e].finalStatus = Null
  BY <1>1, NewItemType, NullIsNoValue
<1>3. items' \in Lines
  BY <1>1, <1>2 DEF Lines
<1>4. TypeInv'
  BY <1>1, <1>3, ClockTicks DEF TypeInv, Dates
<1>5. DatesInv'
  BY <1>1, BillingAssumption DEF DatesInv
<1>6. LinesInv'
  BY <1>1, <1>2 DEF LinesInv, OneSubstitute, LineFits
<1> QED BY <1>4, <1>5, <1>6 DEF RecordsInv

LEMMA AddRecords ==
  ASSUME RecordsInv, NEW es \in SUBSET Equipments, AddEquipments(es)
  PROVE  RecordsInv'
<1>1. /\ TypeInv /\ Clock /\ contract.status = "PENDING" /\ contract' = contract
      /\ contract.startDate \in Instants /\ items \in Lines /\ history' = history
      /\ \A e \in Equipments : items[e].replaces = Null
  BY NoneReplaces, BillingAssumption DEF RecordsInv, AddEquipments, TypeInv, DatesInv
<1>2. ASSUME NEW e \in Equipments
      PROVE  /\ items'[e] \in Items \cup {NoItem} /\ items'[e].replaces = Null
             /\ \/ items'[e] = items[e]
                \/ /\ items'[e].startDate = contract.startDate
                   /\ items'[e].finishDate = Null /\ items'[e].finalStatus = Null
  <2>1. items'[e] = IF e \in es THEN NewItem(e, contract.startDate, Null) ELSE items[e]
    BY DEF AddEquipments
  <2>2. items[e] \in Items \cup {NoItem}
    BY <1>1 DEF Lines
  <2> QED BY <2>1, <2>2, <1>1, NewItemType
<1>3. items' \in Lines
  BY <1>2 DEF AddEquipments, Lines
<1>4. TypeInv'
  BY <1>1, <1>3, ClockTicks DEF TypeInv
<1>5. DatesInv'
  BY <1>1, BillingAssumption DEF RecordsInv, DatesInv
<1>6. ASSUME NEW e \in Equipments PROVE LineFits(e)'
  <2>1. LineFits(e)
    BY DEF RecordsInv, LinesInv
  <2>2. CASE items'[e] = items[e]
    BY <2>1, <2>2, <1>1 DEF LineFits
  <2>3. CASE items'[e] # items[e]
    BY <2>3, <1>1, <1>2 DEF LineFits
  <2> QED BY <2>2, <2>3
<1>7. OneSubstitute'
  BY <1>2 DEF OneSubstitute
<1> QED BY <1>4, <1>5, <1>6, <1>7 DEF RecordsInv, LinesInv

LEMMA RemoveRecords ==
  ASSUME RecordsInv, NEW es \in SUBSET Equipments, RemoveEquipments(es)
  PROVE  RecordsInv'
<1>1. /\ TypeInv /\ Clock /\ contract.status = "PENDING" /\ contract' = contract
      /\ items \in Lines /\ history' = history
      /\ \A e \in Equipments : items[e].replaces = Null
  BY NoneReplaces DEF RecordsInv, RemoveEquipments, TypeInv
<1>2. /\ items' \in Lines
      /\ \A e \in Equipments : items'[e] = NoItem \/ items'[e] = items[e]
  BY <1>1 DEF RemoveEquipments, Lines
<1>3. TypeInv'
  BY <1>1, <1>2, ClockTicks DEF TypeInv
<1>4. DatesInv'
  BY <1>1, BillingAssumption DEF RecordsInv, DatesInv
<1>5. ASSUME NEW e \in Equipments PROVE LineFits(e)'
  <2>1. CASE items'[e] = NoItem
    BY <2>1 DEF LineFits
  <2>2. CASE items'[e] = items[e]
    <3>1. LineFits(e)
      BY DEF RecordsInv, LinesInv
    <3> QED BY <2>2, <3>1, <1>1 DEF LineFits
  <2> QED BY <2>1, <2>2, <1>2
<1>6. OneSubstitute'
  BY <1>1, <1>2, NullIsNoValue DEF OneSubstitute
<1> QED BY <1>3, <1>4, <1>5, <1>6 DEF RecordsInv, LinesInv

LEMMA StartRecords ==
  ASSUME RecordsInv, StartContract PROVE RecordsInv'
<1>1. /\ TypeInv /\ DatesInv /\ Clock /\ contract.status = "PENDING"
      /\ contract' = [contract EXCEPT !.status = "ACTIVE"]
      /\ items' = items /\ history' = history
  BY DEF RecordsInv, StartContract
<1>2. /\ contract'.status = "ACTIVE" /\ contract'.startDate = contract.startDate
      /\ contract'.endDate = contract.endDate /\ contract'.finishDate = contract.finishDate
  BY <1>1 DEF TypeInv
<1>3. TypeInv'
  BY <1>1, ClockTicks DEF TypeInv
<1>4. DatesInv'
  BY <1>1, <1>2, BillingAssumption DEF DatesInv
<1>5. ASSUME NEW e \in Equipments PROVE LineFits(e)'
  <2>1. LineFits(e) /\ items[e].replaces = Null
        /\ (items[e] # NoItem => items[e].finishDate = Null)
    BY <1>1, NoneReplaces DEF RecordsInv, LinesInv
  <2> QED BY <2>1, <1>1, <1>2 DEF LineFits
<1>6. OneSubstitute'
  BY <1>1 DEF RecordsInv, LinesInv, OneSubstitute
<1> QED BY <1>3, <1>4, <1>5, <1>6 DEF RecordsInv, LinesInv

LEMMA CancelRecords ==
  ASSUME RecordsInv, CancelContract PROVE RecordsInv'
<1>1. /\ TypeInv /\ DatesInv /\ Clock /\ contract.status = "PENDING"
      /\ contract' = [contract EXCEPT !.status = "CANCELLED", !.finishDate = now]
      /\ items \in Lines /\ history' = history
      /\ items' = [e \in Equipments |->
                     IF e \in LinesIn(items) THEN settled(items[e], "AVAILABLE") ELSE items[e]]
  BY DEF RecordsInv, CancelContract, TypeInv
<1>2. /\ contract'.status = "CANCELLED" /\ contract'.startDate = contract.startDate
      /\ contract'.endDate = contract.endDate /\ contract'.finishDate = now
  BY <1>1 DEF TypeInv
<1>3. now \in Instants /\ now' \in Instants /\ now < now'
  BY <1>1, ClockTicks DEF TypeInv
<1>4. ASSUME NEW e \in Equipments
      PROVE  /\ items'[e] \in Items \cup {NoItem} /\ items'[e].replaces = Null
             /\ items'[e] # NoItem =>
                  /\ items[e] # NoItem /\ items'[e].startDate = items[e].startDate
                  /\ items'[e].finishDate = now /\ items'[e].finalStatus = "AVAILABLE"
  <2>1. items[e].replaces = Null /\ items[e] \in Items \cup {NoItem}
    BY <1>1, NoneReplaces DEF Lines
  <2>2. CASE items[e] = NoItem
    BY <2>1, <2>2, <1>1 DEF LinesIn, Lines
  <2>3. CASE items[e] # NoItem
    BY <2>1, <2>3, <1>1, SettledType DEF LinesIn, Lines, FinalStatus
  <2> QED BY <2>2, <2>3
<1>5. TypeInv'
  <2>1. items' \in Lines
    BY <1>1, <1>4 DEF Lines
  <2> QED BY <2>1, <1>1, <1>3 DEF TypeInv, Dates
<1>6. DatesInv'
  BY <1>1, <1>2, <1>3, BillingAssumption DEF DatesInv
<1>7. ASSUME NEW e \in Equipments PROVE LineFits(e)'
  <2>1. LineFits(e) /\ items[e].replaces = Null
    BY <1>1, NoneReplaces DEF RecordsInv, LinesInv
  <2>2. now # Null
    BY <1>3, NullIsNoValue
  <2> QED BY <2>1, <2>2, <1>2, <1>3, <1>4, BillingAssumption DEF LineFits
<1>8. OneSubstitute'
  BY <1>4 DEF OneSubstitute
<1> QED BY <1>5, <1>6, <1>7, <1>8 DEF RecordsInv, LinesInv

LEMMA UpdateRecords ==
  ASSUME RecordsInv, NEW es \in SUBSET Equipments, NEW s \in FinalStatus, UpdateEquipment(es, s)
  PROVE  RecordsInv'
<1>1. /\ TypeInv /\ DatesInv /\ Clock /\ contract.status = "ACTIVE" /\ contract' = contract
      /\ items \in Lines /\ history' = history
      /\ \A e \in es : items[e] # NoItem /\ items[e].finalStatus = Null
      /\ items' = [e \in Equipments |-> IF e \in es THEN settled(items[e], s) ELSE items[e]]
  BY DEF RecordsInv, UpdateEquipment, TypeInv, LinesIn
<1>2. now \in Instants /\ now' \in Instants /\ now < now' /\ now # Null
  BY <1>1, ClockTicks, NullIsNoValue DEF TypeInv
<1>3. ASSUME NEW e \in Equipments
      PROVE  /\ items'[e] \in Items \cup {NoItem} /\ items'[e].replaces = items[e].replaces
             /\ e \notin es => items'[e] = items[e]
             /\ e \in es => /\ items'[e].startDate = items[e].startDate
                            /\ items'[e].finishDate = now /\ items'[e].finalStatus = s
  BY <1>1, SettledType DEF Lines
<1>4. TypeInv'
  <2>1. items' \in Lines
    BY <1>1, <1>3 DEF Lines
  <2> QED BY <2>1, <1>1, <1>2 DEF TypeInv
<1>5. DatesInv'
  BY <1>1, <1>2, BillingAssumption DEF DatesInv
<1>6. ASSUME NEW e \in Equipments PROVE LineFits(e)'
  <2> SUFFICES ASSUME items'[e] # NoItem PROVE LineFits(e)'
    BY DEF LineFits
  <2>1. LineFits(e) /\ items[e] # NoItem
    BY <1>1, <1>3 DEF RecordsInv, LinesInv
  <2>2. /\ items[e].startDate \in Int
        /\ items[e].finishDate # Null => items[e].finishDate \in Int
        /\ items[e].replaces \in Equipments \cup {Null}
    BY <1>1, <2>1, LineTypes DEF Instants
  <2>3. items'[e].replaces # Null => FollowsOld(e)'
    <3> SUFFICES ASSUME items[e].replaces # Null PROVE FollowsOld(e)'
      BY <1>3
    <3>1. FollowsOld(e)
      BY <2>1 DEF LineFits
    <3>2. items[e].replaces \in Equipments \ es
      BY <3>1, <2>2, <1>1, NullIsNoValue DEF FollowsOld, FinalStatus
    <3>3. items'[items'[e].replaces] = items[items[e].replaces]
      BY <3>2, <1>3
    <3>4. /\ items'[e].startDate = items[e].startDate
          /\ items'[e].finishDate = items[e].finishDate \/ items'[e].finishDate = now
      BY <1>3
    <3>5. items[e].startDate < now' /\ items[e].startDate < now
      BY <3>1, <2>2, <1>2 DEF FollowsOld, Instants
    <3> QED BY <3>1, <3>3, <3>4, <3>5 DEF FollowsOld
  <2>4. CASE e \in es
    BY <2>1, <2>3, <2>4, <1>1, <1>2, <1>3, NullIsNoValue, BillingAssumption DEF LineFits, FinalStatus
  <2>5. CASE e \notin es
    <3>1. items[e].finishDate # Null => items[e].finishDate < now'
      BY <2>1, <2>2, <1>2 DEF LineFits, Instants
    <3> QED BY <2>1, <2>3, <2>5, <3>1, <1>1, <1>3 DEF LineFits
  <2> QED BY <2>4, <2>5
<1>7. OneSubstitute'
  BY <1>3 DEF RecordsInv, LinesInv, OneSubstitute
<1> QED BY <1>4, <1>5, <1>6, <1>7 DEF RecordsInv, LinesInv

LEMMA ReplaceRecords ==
  ASSUME RecordsInv, NEW oldOf \in Replacements, ReplaceEquipment(oldOf)
  PROVE  RecordsInv'
<1>1. /\ TypeInv /\ DatesInv /\ Clock /\ contract.status = "ACTIVE" /\ contract' = contract
      /\ items \in Lines /\ history' = history
      /\ items' = [e \in Equipments |->
                     IF e \in DOMAIN oldOf THEN NewItem(e, now, oldOf[e]) ELSE items[e]]
  BY DEF RecordsInv, ReplaceEquipment, TypeInv
<1>2. now \in Instants /\ now' \in Instants /\ now < now' /\ now # Null
  BY <1>1, ClockTicks, NullIsNoValue DEF TypeInv
<1>3. \A n \in DOMAIN oldOf :
        /\ n \in Equipments /\ oldOf[n] \in Equipments
        /\ items[n] = NoItem
        /\ items[oldOf[n]].finalStatus \in {"STOLEN", "MAINTENANCE"}
        /\ \A e \in Equipments : items[e].replaces # oldOf[n]
  <2>1. PICK news \in SomeEquipments : oldOf \in [news -> Equipments]
    BY DEF Replacements
  <2> QED BY <2>1 DEF ReplaceEquipment, SomeEquipments
<1>4. \A n, m \in DOMAIN oldOf : oldOf[n] = oldOf[m] => n = m
  BY DEF Replacements, IsInjective
<1>5. ASSUME NEW e \in Equipments
      PROVE  /\ items'[e] \in Items \cup {NoItem}
             /\ e \notin DOMAIN oldOf => items'[e] = items[e]
             /\ e \in DOMAIN oldOf =>
                  /\ items'[e].startDate = now /\ items'[e].replaces = oldOf[e]
                  /\ items'[e].finishDate = Null /\ items'[e].finalStatus = Null
  BY <1>1, <1>2, <1>3, NewItemType DEF Lines
<1>6. TypeInv'
  <2>1. items' \in Lines
    BY <1>1, <1>5 DEF Lines
  <2> QED BY <2>1, <1>1, <1>2 DEF TypeInv
<1>7. DatesInv'
  BY <1>1, <1>2, BillingAssumption DEF DatesInv
<1>8. ASSUME NEW r \in Equipments, items[r].finalStatus \in {"STOLEN", "MAINTENANCE"}
      PROVE  /\ items'[r] = items[r]
             /\ items[r].finishDate \in Instants /\ items[r].finishDate < now
  <2>1. items[r] # NoItem /\ r \notin DOMAIN oldOf
    BY <1>3, <1>8, NullIsNoValue DEF FinalStatus
  <2>2. LineFits(r)
    BY DEF RecordsInv, LinesInv
  <2> QED BY <2>1, <2>2, <1>1, <1>5, <1>8, LineTypes, NullIsNoValue DEF LineFits, FinalStatus
<1>9. ASSUME NEW e \in Equipments PROVE LineFits(e)'
  <2> SUFFICES ASSUME items'[e] # NoItem PROVE LineFits(e)'
    BY DEF LineFits
  <2>1. CASE e \in DOMAIN oldOf
    <3>1. FollowsOld(e)'
      <4>1. items'[oldOf[e]] = items[oldOf[e]] /\ items[oldOf[e]].finishDate \in Instants
            /\ items[oldOf[e]].finishDate < now
        BY <2>1, <1>3, <1>8
      <4> QED BY <4>1, <2>1, <1>2, <1>3, <1>5 DEF FollowsOld
    <3>2. oldOf[e] # Null
      BY <2>1, <1>3, NullIsNoValue
    <3> QED BY <2>1, <3>1, <3>2, <1>1, <1>5 DEF LineFits
  <2>2. CASE e \notin DOMAIN oldOf
    <3>1. LineFits(e) /\ items'[e] = items[e] /\ items[e] # NoItem
      BY <2>2, <1>5 DEF RecordsInv, LinesInv
    <3>2. /\ items[e].startDate \in Int
          /\ items[e].finishDate # Null => items[e].finishDate \in Int
          /\ items[e].replaces \in Equipments \cup {Null}
      BY <1>1, <3>1, LineTypes DEF Instants
    <3>3. items'[e].replaces # Null => FollowsOld(e)'
      <4> SUFFICES ASSUME items[e].replaces # Null PROVE FollowsOld(e)'
        BY <3>1
      <4>1. FollowsOld(e)
        BY <3>1 DEF LineFits
      <4>2. items'[items[e].replaces] = items[items[e].replaces]
        BY <4>1, <3>2, <1>8 DEF FollowsOld
      <4>3. items[e].startDate < now'
        BY <4>1, <3>2, <1>2 DEF FollowsOld, Instants
      <4> QED BY <4>1, <4>2, <4>3, <3>1 DEF FollowsOld
    <3>4. items[e].finishDate # Null => items[e].finishDate < now'
      BY <3>1, <3>2, <1>2 DEF LineFits, Instants
    <3> QED BY <3>1, <3>3, <3>4, <1>1 DEF LineFits
  <2> QED BY <2>1, <2>2
<1>10. OneSubstitute'
  <2> SUFFICES ASSUME NEW a \in Equipments, NEW b \in Equipments,
                      items'[a].replaces # Null, items'[a].replaces = items'[b].replaces
               PROVE  a = b
    BY DEF OneSubstitute
  <2>1. CASE a \in DOMAIN oldOf /\ b \in DOMAIN oldOf
    BY <2>1, <1>4, <1>5
  <2>2. CASE a \notin DOMAIN oldOf /\ b \notin DOMAIN oldOf
    BY <2>2, <1>5 DEF RecordsInv, LinesInv, OneSubstitute
  <2>3. CASE a \in DOMAIN oldOf /\ b \notin DOMAIN oldOf
    BY <2>3, <1>3, <1>5
  <2>4. CASE a \notin DOMAIN oldOf /\ b \in DOMAIN oldOf
    BY <2>4, <1>3, <1>5
  <2> QED BY <2>1, <2>2, <2>3, <2>4
<1> QED BY <1>6, <1>7, <1>9, <1>10 DEF RecordsInv, LinesInv

LEMMA CloseRecords ==
  ASSUME RecordsInv, CloseContract PROVE RecordsInv'
<1>1. /\ TypeInv /\ DatesInv /\ Clock /\ contract.status = "ACTIVE"
      /\ contract' = [contract EXCEPT !.status = "COMPLETED", !.finishDate = now]
      /\ items' = items /\ history' = history /\ items \in Lines
      /\ \A e \in Equipments : items[e] # NoItem => items[e].finalStatus # Null
  BY DEF RecordsInv, CloseContract, TypeInv, LinesIn, Lines
<1>2. /\ contract'.status = "COMPLETED" /\ contract'.startDate = contract.startDate
      /\ contract'.endDate = contract.endDate /\ contract'.finishDate = now
  BY <1>1 DEF TypeInv
<1>3. now \in Instants /\ now' \in Instants /\ now < now'
  BY <1>1, ClockTicks DEF TypeInv
<1>4. TypeInv'
  BY <1>1, <1>3 DEF TypeInv, Dates
<1>5. DatesInv'
  BY <1>1, <1>2, <1>3, BillingAssumption DEF DatesInv
<1>6. ASSUME NEW e \in Equipments PROVE LineFits(e)'
  <2> SUFFICES ASSUME items[e] # NoItem PROVE LineFits(e)'
    BY <1>1 DEF LineFits
  <2>1. LineFits(e) /\ items[e].startDate \in Int /\ items[e].finishDate \in Int
        /\ items[e].finishDate # Null /\ items[e].finishDate < now
    BY <1>1, LineTypes DEF RecordsInv, LinesInv, LineFits, Instants
  <2>2. items[e].replaces # Null => FollowsOld(e)'
    BY <2>1, <1>1, <1>3 DEF LineFits, FollowsOld, Instants
  <2>3. items[e].finishDate < now'
    BY <2>1, <1>3 DEF Instants
  <2> QED BY <2>1, <2>2, <2>3, <1>1, <1>2 DEF LineFits
<1>7. OneSubstitute'
  BY <1>1 DEF RecordsInv, LinesInv, OneSubstitute
<1> QED BY <1>4, <1>5, <1>6, <1>7 DEF RecordsInv, LinesInv

\* What a change of prices adds to the history, it adds at the end.
LEMMA PricesAppended ==
  ASSUME TypeInv, NEW e \in Equipments, NEW p \in Tables, ChangePrices(e, p)
  PROVE  /\ history' \in Histories
         /\ \A u \in Equipments \ {e} : history'[u] = history[u]
         /\ history'[e] = Append(history[e], [from |-> now, prices |-> p])
<1> DEFINE point == [from |-> now, prices |-> p]
<1>1. point \in PricePoint /\ history \in Histories /\ history \in [Equipments -> Seq(PricePoint)]
  BY DEF TypeInv, PricePoint, Histories
<1>2. history' = [history EXCEPT ![e] = Append(history[e], point)]
  BY DEF ChangePrices
<1> HIDE DEF point
<1>3. /\ \A u \in Equipments \ {e} : history'[u] = history[u]
      /\ history'[e] = Append(history[e], point)
  BY <1>1, <1>2
<1>4. history[e] \in Seq(PricePoint)
  BY <1>1
<1>5. Append(history[e], point) \in Seq(PricePoint) /\ Len(Append(history[e], point)) > 0
  BY <1>1, <1>4
<1>6. history' \in [Equipments -> Seq(PricePoint)]
  BY <1>1, <1>2, <1>5
<1>7. history' \in Histories
  BY <1>1, <1>3, <1>5, <1>6 DEF Histories
<1> QED BY <1>3, <1>7 DEF point

LEMMA RecordsKept ==
  ASSUME RecordsInv, [Next]_vars PROVE RecordsInv'
<1>1. TypeInv /\ history \in Histories
  BY DEF RecordsInv, TypeInv
<1>2. CASE UNCHANGED vars
  BY <1>1, <1>2, LinesUntouched DEF vars, TypeInv, Instants
<1>3. CASE Wait
  BY <1>1, <1>3, ClockTicks, LinesUntouched DEF Wait
<1>4. ASSUME NEW period \in Periods, NEW es \in SUBSET Equipments, CreateELease(period, es)
      PROVE  RecordsInv'
  BY <1>4, CreateRecords
<1>5. ASSUME NEW es \in SomeEquipments, AddEquipments(es) PROVE RecordsInv'
  BY <1>5, AddRecords DEF SomeEquipments
<1>6. ASSUME NEW es \in SomeEquipments, RemoveEquipments(es) PROVE RecordsInv'
  BY <1>6, RemoveRecords DEF SomeEquipments
<1>7. ASSUME NEW es \in SomeEquipments, NEW s \in {"AVAILABLE", "STOLEN", "MAINTENANCE"},
             UpdateEquipment(es, s)
      PROVE  RecordsInv'
  BY <1>7, UpdateRecords DEF SomeEquipments, FinalStatus
<1>8. CASE StartContract
  BY <1>8, StartRecords
<1>9. CASE CancelContract
  BY <1>9, CancelRecords
<1>10. ASSUME NEW oldOf \in Replacements, ReplaceEquipment(oldOf) PROVE RecordsInv'
  BY <1>10, ReplaceRecords
<1>11. CASE CloseContract
  BY <1>11, CloseRecords
<1>12. ASSUME NEW e \in Equipments, NEW p \in Tables, ChangePrices(e, p) PROVE RecordsInv'
  <2>1. history' \in Histories
    BY <1>1, <1>12, PricesAppended
  <2>2. Clock /\ UNCHANGED <<contract, items>>
    BY <1>12 DEF ChangePrices
  <2> QED BY <1>1, <2>1, <2>2, ClockTicks, LinesUntouched
<1> QED
  BY <1>2, <1>3, <1>4, <1>5, <1>6, <1>7, <1>8, <1>9, <1>10, <1>11, <1>12 DEF Next

\* What a contract's lines and dates always satisfy, and the theorems below rest on:
\* a line has a final status once it has a finish date, a substitute comes after its
\* original was settled, and no unit has two substitutes (elease.service.ts:691-702, 863-885).
THEOREM RecordsHold == Spec => []RecordsInv
<1>1. Init => RecordsInv
  BY InitRecords
<1>2. RecordsInv /\ [Next]_vars => RecordsInv'
  BY RecordsKept
<1> QED BY <1>1, <1>2, PTL DEF Spec

-----------------------------------------------------------------------------
(***************************************************************************)
(* Days, months and greatest elements.                                     *)
(***************************************************************************)
LEMMA DividesDown ==
  ASSUME NEW x \in Nat, NEW n \in Nat \ {0}
  PROVE  x \div n \in 0..x /\ (x \div n) * n <= x /\ x < (x \div n) * n + n
OBVIOUS

LEMMA TimesGrows ==
  ASSUME NEW a \in Nat, NEW b \in Nat, NEW n \in Nat \ {0}
  PROVE  /\ a * n \in Nat
         /\ a < b => a * n + n <= b * n
         /\ a <= b => a * n <= b * n
OBVIOUS

LEMMA Greatest ==
  ASSUME NEW S \in SUBSET Nat, S # {}, NEW n \in Nat, \A x \in S : x <= n
  PROVE  Max(S) \in S /\ \A x \in S : x <= Max(S)
<1> DEFINE T == {k \in Nat : \A x \in S : x <= k}
<1>1. T \in SUBSET Nat /\ T # {}
  OBVIOUS
<1>2. PICK k \in T : \A j \in T : k <= j
  <2> HIDE DEF T
  <2> QED BY <1>1, Least
<1>3. k \in S
  <2> SUFFICES ASSUME k \notin S PROVE FALSE
    OBVIOUS
  <2>1. k # 0
    <3>1. PICK x \in S : x <= k
      BY <1>2
    <3> QED BY <3>1
  <2>2. k - 1 \in T
    BY <2>1, <1>2
  <2> QED BY <2>2, <1>2
<1>4. \E x \in S : \A y \in S : x >= y
  BY <1>2, <1>3
<1>5. Max(S) = CHOOSE x \in S : \A y \in S : x >= y
  BY DEF Max
<1> QED BY <1>4, <1>5

LEMMA GreaterOfTwo ==
  ASSUME NEW x \in Int
  PROVE  Max({1, x}) = IF x > 1 THEN x ELSE 1
<1>1. Max({1, x}) = CHOOSE m \in {1, x} : \A y \in {1, x} : m >= y
  BY DEF Max
<1>2. \E m \in {1, x} : \A y \in {1, x} : m >= y
  OBVIOUS
<1> QED BY <1>1, <1>2

LEMMA Lengths == {DayLength, MonthDays} \subseteq Nat \ {0} /\ Horizon \in Nat
BY BillingAssumption

LEMMA DaysType ==
  ASSUME NEW start \in Instants, NEW end \in Instants
  PROVE  /\ businessDay(start) \in Nat /\ businessDay(end) \in Nat
         /\ calendarDays(start, end) \in 1..Horizon + 1
         /\ calendarDays(start, end) > 1 =>
              calendarDays(start, end) = businessDay(end) - businessDay(start)
<1>1. /\ businessDay(start) \in 0..start /\ businessDay(end) \in 0..end
      /\ start \in 0..Horizon /\ end \in 0..Horizon /\ Horizon \in Nat
  BY DividesDown, Lengths DEF Instants, businessDay
<1>2. calendarDays(start, end) = IF businessDay(end) - businessDay(start) > 1
                                 THEN businessDay(end) - businessDay(start) ELSE 1
  BY <1>1, GreaterOfTwo DEF calendarDays
<1> QED BY <1>1, <1>2

\* Instant x is of month m alone.
LEMMA MonthOf ==
  ASSUME NEW x \in Instants, NEW m \in Nat
  PROVE  /\ monthRange(m).from \in Nat /\ monthRange(m).to \in Nat
         /\ monthRange(m).from < monthRange(m).to
         /\ x \div (DayLength * MonthDays) \in Instants
         /\ monthRange(m).from <= x <=> m <= x \div (DayLength * MonthDays)
         /\ x < monthRange(m).to <=> x \div (DayLength * MonthDays) <= m
<1> DEFINE n == DayLength * MonthDays
<1>1. DayLength \in Nat \ {0} /\ MonthDays \in Nat \ {0} /\ n \in Nat \ {0}
  BY Lengths
<1>2. monthRange(m).from = m * n /\ monthRange(m).to = m * n + n
  BY <1>1 DEF monthRange, dayStart
<1>3. x \in Nat /\ x <= Horizon /\ Horizon \in Nat
  BY Lengths DEF Instants
<1> DEFINE q == x \div n
<1>4. q \in 0..x /\ q * n <= x /\ x < q * n + n
  <2> HIDE DEF n
  <2> QED BY <1>1, <1>3, DividesDown
<1> HIDE DEF n
<1>5. m * n \in Nat
  BY <1>1, TimesGrows
<1>6. q \in Nat /\ q * n \in Nat
  <2>1. q \in Nat
    BY <1>3, <1>4
  <2> QED BY <2>1, <1>1, TimesGrows
<1> HIDE DEF q
<1>7. /\ m < q => m * n + n <= q * n
      /\ q < m => q * n + n <= m * n
      /\ m <= q => m * n <= q * n
      /\ q <= m => q * n <= m * n
  BY <1>1, <1>6, TimesGrows
<1> QED BY <1>1, <1>2, <1>3, <1>4, <1>5, <1>6, <1>7 DEF n, q, Instants

\* A contract completed after its start date is closed in the month of its finish date
\* alone, and is active in the closings of the months before (billing.service.ts:147-211).
THEOREM ClosesOnce == Spec => []ClosedInOneMonth
<1>1. RecordsInv => ClosedInOneMonth
  <2> SUFFICES ASSUME RecordsInv, contract.status = "COMPLETED",
                      contract.finishDate >= contract.startDate
               PROVE  \E closes \in 0..Horizon :
                        \A month \in 0..Horizon :
                          /\ closedIn(contract, month) <=> month = closes
                          /\ activeIn(contract, month) <=> month < closes /\ started(contract, month)
    BY DEF ClosedInOneMonth
  <2> DEFINE closes == contract.finishDate \div (DayLength * MonthDays)
  <2>1. contract.finishDate \in Instants /\ contract.startDate \in Instants
    BY NullIsNoValue, BillingAssumption DEF RecordsInv, DatesInv
  <2>2. closes \in 0..Horizon
    BY <2>1, MonthOf DEF Instants
  <2>3. ASSUME NEW month \in 0..Horizon
        PROVE  /\ closedIn(contract, month) <=> month = closes
               /\ activeIn(contract, month) <=> month < closes /\ started(contract, month)
    <3>1. month \in Nat /\ contract.finishDate \in Nat /\ contract.startDate \in Nat
      BY <2>1, Lengths DEF Instants
    <3>2. /\ monthRange(month).from \in Nat /\ monthRange(month).to \in Nat
          /\ monthRange(month).from <= contract.finishDate <=> month <= closes
          /\ contract.finishDate < monthRange(month).to <=> closes <= month
      BY <2>1, <3>1, MonthOf
    <3> HIDE DEF closes
    <3>3. closes \in Nat
      BY <2>2
    <3> QED BY <3>1, <3>2, <3>3 DEF closedIn, activeIn, started
  <2> QED BY <2>2, <2>3
<1> QED BY <1>1, RecordsHold, PTL

-----------------------------------------------------------------------------
(***************************************************************************)
(* The chains of lines: what chainFrom returns, of lines any instant knows. *)
(***************************************************************************)
NextOf(its, e) == {n \in DOMAIN its : its[n].replaces = e}

AnyOf(S) == CHOOSE n \in S : TRUE

Longer(its, units) ==
  IF NextOf(its, Last(units)) = {} THEN units
  ELSE Append(units, AnyOf(NextOf(its, Last(units))))

\* walk is what chainFrom builds, to step n.
Walks(its, root, n, walk) ==
  walk = [k \in 0..n |-> IF k = 0 THEN <<root>> ELSE Longer(its, walk[k - 1])]

\* units starts at root and each next one replaces the one before.
IsChain(its, root, units) ==
  /\ units \in Seq(Equipments) /\ Len(units) > 0 /\ units[1] = root
  /\ \A i \in 2..Len(units) : its[units[i]].replaces = units[i - 1]

LEMMA WalksFrom ==
  ASSUME NEW its, NEW root, NEW n \in Nat, NEW walk, Walks(its, root, n, walk)
  PROVE  /\ walk[0] = <<root>>
         /\ \A k \in 1..n : walk[k] = Longer(its, walk[k - 1])
BY DEF Walks

LEMMA WalksExist ==
  ASSUME NEW its, NEW root, NEW n \in Nat
  PROVE  \E walk : Walks(its, root, n, walk)
<1> DEFINE T == {k \in Nat : ~ \E walk : Walks(its, root, k, walk)}
<1> SUFFICES ASSUME T # {} PROVE FALSE
  OBVIOUS
<1>1. T \in SUBSET Nat
  OBVIOUS
<1>2. PICK k \in T : \A j \in T : k <= j
  <2> HIDE DEF T
  <2> QED BY <1>1, Least
<1>3. CASE k = 0
  <2> DEFINE w == [j \in 0..0 |-> <<root>>]
  <2>1. Walks(its, root, 0, w)
    BY DEF Walks
  <2> QED BY <2>1, <1>3
<1>4. CASE k # 0
  <2>1. k - 1 \in Nat /\ k - 1 \notin T
    BY <1>2, <1>4
  <2>2. PICK v : Walks(its, root, k - 1, v)
    BY <2>1
  <2> DEFINE w == [j \in 0..k |-> IF j = k THEN Longer(its, v[k - 1]) ELSE v[j]]
  <2>3. ASSUME NEW j \in 0..k
        PROVE  w[j] = IF j = 0 THEN <<root>> ELSE Longer(its, w[j - 1])
    <3>1. v[0] = <<root>> /\ \A i \in 1..k - 1 : v[i] = Longer(its, v[i - 1])
      BY <2>1, <2>2, WalksFrom
    <3>2. CASE j = 0
      BY <3>1, <3>2, <1>4
    <3>3. CASE j # 0
      <4>1. w[j - 1] = v[j - 1] /\ j - 1 \in 0..k - 1
        BY <3>3, <2>1
      <4> QED BY <4>1, <3>1, <3>3
    <3> QED BY <3>2, <3>3
  <2>4. Walks(its, root, k, w)
    BY <2>3 DEF Walks
  <2> HIDE DEF w
  <2> QED BY <2>4
<1> QED BY <1>3, <1>4

\* Lines that are replaced by the same ones have the same chains.
LEMMA WalksAgree ==
  ASSUME NEW its, NEW other, NEW root, NEW n \in Nat, \A e : NextOf(its, e) = NextOf(other, e),
         NEW v, Walks(its, root, n, v), NEW w, Walks(other, root, n, w)
  PROVE  v[n] = w[n]
<1> DEFINE T == {k \in Nat : k <= n /\ v[k] # w[k]}
<1> SUFFICES ASSUME T # {} PROVE FALSE
  OBVIOUS
<1>1. T \in SUBSET Nat
  OBVIOUS
<1>2. PICK k \in T : \A j \in T : k <= j
  <2> HIDE DEF T
  <2> QED BY <1>1, Least
<1>3. /\ v[0] = <<root>> /\ \A j \in 1..n : v[j] = Longer(its, v[j - 1])
      /\ w[0] = <<root>> /\ \A j \in 1..n : w[j] = Longer(other, w[j - 1])
  <2>1. v[0] = <<root>> /\ \A j \in 1..n : v[j] = Longer(its, v[j - 1])
    BY WalksFrom
  <2>2. w[0] = <<root>> /\ \A j \in 1..n : w[j] = Longer(other, w[j - 1])
    BY WalksFrom
  <2> QED BY <2>1, <2>2
<1>4. k # 0
  BY <1>2, <1>3
<1>5. k - 1 \in Nat /\ k \in 1..n /\ v[k - 1] = w[k - 1]
  BY <1>2, <1>4
<1>6. v[k] = Longer(its, v[k - 1]) /\ w[k] = Longer(other, v[k - 1])
  BY <1>3, <1>5
<1>7. Longer(its, v[k - 1]) = Longer(other, v[k - 1])
  <2>1. NextOf(its, Last(v[k - 1])) = NextOf(other, Last(v[k - 1]))
    OBVIOUS
  <2> QED BY <2>1 DEF Longer
<1> QED BY <1>2, <1>6, <1>7

LEMMA ChainWalks ==
  ASSUME NEW its, NEW root, Cardinality(DOMAIN its) \in Nat
  PROVE  \E walk : /\ Walks(its, root, Cardinality(DOMAIN its), walk)
                   /\ chainFrom(its, root) = walk[Cardinality(DOMAIN its)]
<1> DEFINE n == Cardinality(DOMAIN its)
           w == CHOOSE walk : Walks(its, root, n, walk)
<1>1. Walks(its, root, n, w)
  <2> HIDE DEF n
  <2> QED BY WalksExist DEF n
<1>2. chainFrom(its, root) = w[n]
  BY Zenon DEF chainFrom, Walks, Longer, AnyOf, NextOf
<1> QED BY <1>1, <1>2

LEMMA SameChains ==
  ASSUME NEW its, NEW other, NEW root, DOMAIN its = DOMAIN other,
         Cardinality(DOMAIN its) \in Nat, \A e : NextOf(its, e) = NextOf(other, e)
  PROVE  chainFrom(its, root) = chainFrom(other, root)
BY ChainWalks, WalksAgree

LEMMA FewUnits == Cardinality(Equipments) \in Nat
BY BillingAssumption, FS_CardinalityType

LEMMA LongerIsChain ==
  ASSUME NEW its \in Lines, NEW root \in Equipments, NEW units, IsChain(its, root, units)
  PROVE  IsChain(its, root, Longer(its, units))
<1> DEFINE next == NextOf(its, Last(units))
           n == AnyOf(next)
<1>1. CASE next = {}
  BY <1>1 DEF Longer
<1>2. CASE next # {}
  <2>1. n \in Equipments /\ its[n].replaces = Last(units)
    BY <1>2 DEF AnyOf, NextOf, Lines
  <2>2. Longer(its, units) = Append(units, n)
    BY <1>2 DEF Longer
  <2> HIDE DEF n
  <2>3. units \in Seq(Equipments) /\ Len(units) \in Nat /\ Len(units) > 0
    BY DEF IsChain
  <2>4. /\ Append(units, n) \in Seq(Equipments) /\ Len(Append(units, n)) = Len(units) + 1
        /\ \A i \in 1..Len(units) : Append(units, n)[i] = units[i]
        /\ Append(units, n)[Len(units) + 1] = n
    BY <2>1, <2>3
  <2>5. ASSUME NEW i \in 2..Len(units) + 1
        PROVE  its[Append(units, n)[i]].replaces = Append(units, n)[i - 1]
    <3>1. CASE i = Len(units) + 1
      BY <3>1, <2>1, <2>3, <2>4 DEF Last
    <3>2. CASE i # Len(units) + 1
      BY <3>2, <2>3, <2>4 DEF IsChain
    <3> QED BY <3>1, <3>2
  <2> QED BY <2>2, <2>3, <2>4, <2>5 DEF IsChain
<1> QED BY <1>1, <1>2

LEMMA WalkShape ==
  ASSUME NEW its \in Lines, NEW root \in Equipments, NEW n \in Nat,
         NEW walk, Walks(its, root, n, walk)
  PROVE  \A k \in 0..n : IsChain(its, root, walk[k])
<1>1. walk[0] = <<root>> /\ \A k \in 1..n : walk[k] = Longer(its, walk[k - 1])
  BY WalksFrom
<1> DEFINE T == {k \in Nat : k <= n /\ ~ IsChain(its, root, walk[k])}
<1>2. T = {}
  <2> SUFFICES ASSUME T # {} PROVE FALSE
    OBVIOUS
  <2>1. T \in SUBSET Nat
    OBVIOUS
  <2>2. PICK k \in T : \A j \in T : k <= j
    <3> HIDE DEF T
    <3> QED BY <2>1, Least
  <2>3. IsChain(its, root, <<root>>)
    BY DEF IsChain
  <2>4. k # 0
    BY <2>2, <2>3, <1>1
  <2>5. k \in 1..n /\ IsChain(its, root, walk[k - 1])
    BY <2>2, <2>4
  <2> QED BY <2>2, <2>5, <1>1, LongerIsChain
<1> QED BY <1>2

LEMMA ChainShape ==
  ASSUME NEW its \in Lines, NEW root \in Equipments
  PROVE  IsChain(its, root, chainFrom(its, root))
<1> DEFINE n == Cardinality(DOMAIN its)
<1>1. n \in Nat
  BY FewUnits DEF Lines
<1>2. PICK walk : Walks(its, root, n, walk) /\ chainFrom(its, root) = walk[n]
  BY <1>1, ChainWalks
<1> HIDE DEF n
<1> QED BY <1>1, <1>2, WalkShape

LEMMA PositionLines ==
  ASSUME NEW its \in Lines, NEW units \in positionsOf(its)
  PROVE  /\ units \in Seq(Equipments) /\ Len(units) \in Nat \ {0} /\ Head(units) = units[1]
         /\ \A i \in 1..Len(units) : units[i] \in Equipments /\ its[units[i]] # NoItem
         /\ its[units[1]].replaces = Null
         /\ \A i \in 2..Len(units) : its[units[i]].replaces = units[i - 1]
<1>1. PICK root \in LinesIn(its) : its[root].replaces = Null /\ units = chainFrom(its, root)
  BY DEF positionsOf
<1>2. root \in Equipments /\ its[root] # NoItem
  BY <1>1 DEF LinesIn, Lines
<1>3. IsChain(its, root, units)
  BY <1>1, <1>2, ChainShape
<1>4. units \in Seq(Equipments) /\ Len(units) \in Nat \ {0} /\ units[1] = root /\ Head(units) = root
  BY <1>3 DEF IsChain
<1>5. ASSUME NEW i \in 1..Len(units)
      PROVE  units[i] \in Equipments /\ its[units[i]] # NoItem
  <2>1. units[i] \in Equipments
    BY <1>4
  <2>2. CASE i = 1
    BY <2>1, <2>2, <1>2, <1>4
  <2>3. CASE i # 1
    <3>1. its[units[i]].replaces = units[i - 1] /\ units[i - 1] \in Equipments
      BY <2>3, <1>3, <1>4 DEF IsChain
    <3> QED BY <2>1, <3>1, NullIsNoValue
  <2> QED BY <2>2, <2>3
<1> QED BY <1>1, <1>3, <1>4, <1>5 DEF IsChain

\* The lines at the ends of a position.
LEMMA PositionEnds ==
  ASSUME NEW its \in Lines, NEW units \in positionsOf(its)
  PROVE  /\ units[1] \in Equipments /\ its[units[1]] # NoItem
         /\ Last(units) \in Equipments /\ its[Last(units)] # NoItem
         /\ signedBy(units) = units[1]
BY PositionLines DEF Last, signedBy

\* The units whose lines replace none, and their positions.
Roots(its) == {e \in LinesIn(its) : its[e].replaces = Null}

LEMMA RootsOf ==
  ASSUME NEW its \in Lines
  PROVE  /\ Roots(its) \subseteq Equipments /\ IsFiniteSet(Roots(its))
         /\ positionsOf(its) = {chainFrom(its, root) : root \in Roots(its)}
         /\ \A root \in Roots(its) : Head(chainFrom(its, root)) = root
<1>1. Roots(its) \subseteq Equipments
  BY DEF Roots, LinesIn, Lines
<1>2. IsFiniteSet(Roots(its))
  BY <1>1, BillingAssumption, FS_Subset
<1>3. positionsOf(its) = {chainFrom(its, root) : root \in Roots(its)}
  BY DEF positionsOf, Roots
<1>4. ASSUME NEW root \in Roots(its) PROVE Head(chainFrom(its, root)) = root
  BY <1>1, ChainShape DEF IsChain
<1> QED BY <1>1, <1>2, <1>3, <1>4

-----------------------------------------------------------------------------
(***************************************************************************)
(* Statements, and what a position is charged.                             *)
(***************************************************************************)
LEMMA CoverCosts ==
  ASSUME NEW prices \in Tables, NEW d \in 1..Horizon + 1
  PROVE  coverOf[prices][d] \in Nat
<1>1. prices \in PriceTable
  BY BillingAssumption
<1>2. priceTable(prices) \in PriceTable
  BY <1>1, NullAssumption DEF priceTable, PriceTable
<1>3. d \in Nat
  BY Lengths
<1>4. cheapestCover(priceTable(prices), d) \in Best
  BY <1>2, <1>3, CoverType
<1>5. cheapestCover(priceTable(prices), d).cost \in Nat
  BY <1>4 DEF Best
<1>6. coverOf[prices][d] = cheapestCover(priceTable(prices), d).cost
  BY DEF coverOf
<1> QED BY <1>5, <1>6

\* The line an earlier instant knew, in the terms of the line there is.
LEMMA LineThen ==
  ASSUME NEW its \in Lines, NEW at \in Instants, NEW e \in Equipments
  PROVE  LET was == asItWas(its, at)[e] IN
         /\ was \in Items \cup {NoItem}
         /\ its[e] = NoItem \/ its[e].startDate > at => was = NoItem
         /\ its[e] # NoItem /\ ~(its[e].startDate > at) =>
              /\ was # NoItem
              /\ was.startDate = its[e].startDate /\ was.replaces = its[e].replaces
              /\ was.prices = its[e].prices
              /\ ~(its[e].finishDate # Null /\ its[e].finishDate > at) => was = its[e]
              /\ its[e].finishDate # Null /\ its[e].finishDate > at =>
                   was.finishDate = Null /\ was.finalStatus = Null
<1>1. its[e] \in Items \cup {NoItem} /\ e \in DOMAIN its
  BY DEF Lines
<1>2. asItWas(its, at)[e] =
        IF its[e] = NoItem \/ its[e].startDate > at THEN NoItem
        ELSE IF its[e].finishDate # Null /\ its[e].finishDate > at
             THEN [its[e] EXCEPT !.finishDate = Null, !.finalStatus = Null]
             ELSE its[e]
  BY <1>1 DEF asItWas
<1>3. CASE its[e] = NoItem
  BY <1>2, <1>3
<1>4. CASE its[e] # NoItem
  <2> DEFINE open == [its[e] EXCEPT !.finishDate = Null, !.finalStatus = Null]
  <2>1. its[e] \in Items
    BY <1>1, <1>4
  <2>2. /\ open \in Items /\ open.startDate = its[e].startDate /\ open.replaces = its[e].replaces
        /\ open.prices = its[e].prices /\ open.finishDate = Null /\ open.finalStatus = Null
    BY <2>1 DEF Items, Dates
  <2>3. open # NoItem
    BY <2>2, NullIsNoValue
  <2> HIDE DEF open
  <2>4. asItWas(its, at)[e] =
          IF its[e].startDate > at THEN NoItem
          ELSE IF its[e].finishDate # Null /\ its[e].finishDate > at THEN open ELSE its[e]
    BY <1>2, <1>4 DEF open
  <2> QED BY <2>1, <2>2, <2>3, <2>4, <1>4
<1> QED BY <1>3, <1>4

LEMMA AsItWasType ==
  ASSUME NEW its \in Lines, NEW at \in Instants
  PROVE  asItWas(its, at) \in Lines
<1>1. \A e \in Equipments : asItWas(its, at)[e] \in Items \cup {NoItem}
  BY LineThen
<1>2. asItWas(its, at) = [e \in Equipments |-> asItWas(its, at)[e]]
  BY DEF asItWas, Lines
<1> QED BY <1>1, <1>2 DEF Lines

LEMMA RunningStatement ==
  ASSUME NEW c, NEW its, NEW hist, NEW at, c.status = "ACTIVE"
  PROVE  buildStatement(c, its, hist, at) =
           [units \in positionsOf(asItWas(its, at)) |->
              chargePosition(hist, asItWas(its, at), units, calendarDays(c.startDate, c.endDate), at)]
BY DEF buildStatement

LEMMA CompletedStatement ==
  ASSUME NEW c, NEW its, NEW hist, NEW at, c.status = "COMPLETED"
  PROVE  buildStatement(c, its, hist, at) =
           [units \in positionsOf(its) |->
              chargePosition(hist, its, units, calendarDays(c.startDate, c.endDate), at)]
BY DEF buildStatement

\* The lines that a statement of the contract reads, and the instant it is of.
linesRead == IF contract.status = "ACTIVE" THEN asItWas(items, now) ELSE items

billedAt == IF contract.status = "COMPLETED" THEN contract.finishDate ELSE now

plannedDays == calendarDays(contract.startDate, contract.endDate)

LEMMA StatementIs ==
  ASSUME RecordsInv, contract.status \in {"ACTIVE", "COMPLETED"}
  PROVE  /\ linesRead \in Lines /\ billedAt \in Instants
         /\ plannedDays \in 1..Horizon + 1
         /\ compute(db, contract, now) =
              [units \in positionsOf(linesRead) |->
                 chargePosition(history, linesRead, units, plannedDays, billedAt)]
<1>1. /\ items \in Lines /\ now \in Instants
      /\ contract.startDate \in Instants /\ contract.endDate \in Instants
      /\ contract.status = "COMPLETED" => contract.finishDate \in Instants
  BY BillingAssumption DEF RecordsInv, TypeInv, DatesInv
<1>2. linesRead \in Lines /\ billedAt \in Instants
  BY <1>1, AsItWasType DEF linesRead, billedAt
<1>3. plannedDays \in 1..Horizon + 1
  BY <1>1, DaysType DEF plannedDays
<1>4. compute(db, contract, now) = buildStatement(contract, items, history, billedAt)
  BY DEF compute, db, billedAt
<1>5. CASE contract.status = "ACTIVE"
  BY <1>2, <1>3, <1>4, <1>5, RunningStatement DEF linesRead, billedAt, plannedDays
<1>6. CASE contract.status = "COMPLETED"
  BY <1>2, <1>3, <1>4, <1>6, CompletedStatement DEF linesRead, billedAt, plannedDays
<1> QED BY <1>5, <1>6

LEMMA QuoteIs ==
  ASSUME RecordsInv, contract.status = "PENDING"
  PROVE  /\ items \in Lines
         /\ plannedDays \in 1..Horizon + 1
         /\ compute(db, contract, now) =
              [units \in positionsOf(items) |-> quotePosition(items, units, plannedDays)]
<1>1. items \in Lines /\ contract.startDate \in Instants /\ contract.endDate \in Instants
  BY BillingAssumption DEF RecordsInv, TypeInv, DatesInv
<1>2. plannedDays \in 1..Horizon + 1
  BY <1>1, DaysType DEF plannedDays
<1>3. compute(db, contract, now) = buildStatement(contract, items, history, now)
  BY DEF compute, db
<1> QED BY <1>1, <1>2, <1>3 DEF buildStatement, plannedDays

\* The days a position is charged, whole periods and excess.
LEMMA DaysOfCharge ==
  ASSUME NEW hist, NEW its \in Lines, NEW units \in positionsOf(its),
         NEW planned \in 1..Horizon + 1, NEW asOf \in Instants
  PROVE  LET p == chargePosition(hist, its, units, planned, asOf)
             days == calendarDays(its[units[1]].startDate, endOf(its[Last(units)], asOf))
         IN  /\ days \in 1..Horizon + 1 /\ p.days = days
             /\ p.contracted = coverOf[its[units[1]].prices][planned]
             /\ days < planned => p.periods = 0 /\ p.excess = 0
             /\ ~(days < planned) => /\ p.periods = days \div planned
                                     /\ p.excess = days - (days \div planned) * planned
<1> DEFINE end == endOf(its[Last(units)], asOf)
           days == calendarDays(its[units[1]].startDate, end)
           p == chargePosition(hist, its, units, planned, asOf)
<1>1. /\ units[1] \in Equipments /\ its[units[1]] # NoItem
      /\ Last(units) \in Equipments /\ its[Last(units)] # NoItem /\ signedBy(units) = units[1]
  BY PositionEnds
<1>2. its[units[1]].startDate \in Instants /\ end \in Instants
  BY <1>1, LineTypes DEF endOf
<1>3. days \in 1..Horizon + 1
  BY <1>2, DaysType
<1>4. /\ p.days = days /\ p.contracted = coverOf[its[units[1]].prices][planned]
      /\ p.periods = Len(IF days < planned THEN <<>> ELSE renewals(hist, its, units, days, planned))
                     + (IF days < planned THEN 0 ELSE 1)
      /\ p.excess = IF days < planned THEN 0 ELSE days - expired(days, planned) * planned
  BY <1>1 DEF chargePosition
<1> HIDE DEF days, p
<1>5. CASE days < planned
  BY <1>3, <1>4, <1>5 DEF days, p
<1>6. CASE ~(days < planned)
  <2>1. expired(days, planned) \in Nat \ {0}
    BY <1>3, <1>6, Lengths DEF expired
  <2>2. Len(renewals(hist, its, units, days, planned)) = expired(days, planned) - 1
    BY <2>1 DEF renewals
  <2> QED BY <2>1, <2>2, <1>3, <1>4, <1>6 DEF days, p, expired
<1> QED BY <1>5, <1>6

\* The days of every position are billed once, at any instant (rules.ts:126-168).
THEOREM DaysAreBilledOnce == Spec => []DaysAddUp
<1>1. RecordsInv => DaysAddUp
  <2> SUFFICES ASSUME RecordsInv, contract.status \in {"ACTIVE", "COMPLETED"},
                      NEW units \in DOMAIN compute(db, contract, now),
                      compute(db, contract, now)[units].periods > 0
               PROVE  LET p == compute(db, contract, now)[units] IN
                      p.periods * plannedDays + p.excess = p.days /\ p.excess < plannedDays
    BY DEF DaysAddUp, plannedDays
  <2>1. /\ linesRead \in Lines /\ billedAt \in Instants /\ plannedDays \in 1..Horizon + 1
        /\ units \in positionsOf(linesRead)
        /\ compute(db, contract, now)[units] =
             chargePosition(history, linesRead, units, plannedDays, billedAt)
    BY StatementIs
  <2> DEFINE p == compute(db, contract, now)[units]
             days == calendarDays(linesRead[units[1]].startDate,
                                  endOf(linesRead[Last(units)], billedAt))
  <2>2. /\ days \in 1..Horizon + 1 /\ p.days = days
        /\ days < plannedDays => p.periods = 0 /\ p.excess = 0
        /\ ~(days < plannedDays) => /\ p.periods = days \div plannedDays
                                    /\ p.excess = days - (days \div plannedDays) * plannedDays
    BY <2>1, DaysOfCharge
  <2> HIDE DEF p, days
  <2>3. days \in Nat /\ plannedDays \in Nat \ {0}
    BY <2>1, <2>2, Lengths
  <2>4. ~(days < plannedDays)
    BY <2>2 DEF p
  <2>5. /\ days \div plannedDays \in 0..days /\ (days \div plannedDays) * plannedDays <= days
        /\ days < (days \div plannedDays) * plannedDays + plannedDays
    BY <2>3, DividesDown
  <2>6. (days \div plannedDays) * plannedDays \in Nat
    BY <2>3, <2>5
  <2> QED BY <2>2, <2>3, <2>4, <2>5, <2>6 DEF p
<1> QED BY <1>1, RecordsHold, PTL

\* A renewal starts by the end of the position.
LEMMA RenewalStarts ==
  ASSUME NEW start \in Instants, NEW end \in Instants, NEW planned \in 1..Horizon + 1,
         NEW i \in 1..expired(calendarDays(start, end), planned) - 1
  PROVE  addDays(start, i * planned) \in Instants /\ addDays(start, i * planned) <= end
<1> DEFINE days == calendarDays(start, end)
           q == expired(days, planned)
           first == businessDay(start)
           last == businessDay(end)
<1>1. first \in Nat /\ last \in Nat /\ days \in 1..Horizon + 1 /\ (days > 1 => days = last - first)
  BY DaysType
<1>2. last * DayLength <= end /\ end \in Nat /\ end <= Horizon /\ DayLength \in Nat \ {0}
  BY DividesDown, Lengths DEF businessDay, Instants
<1>3. addDays(start, i * planned) = (first + i * planned) * DayLength
  BY DEF addDays, dayStart
<1>4. planned \in Nat \ {0} /\ days \in Nat /\ q = days \div planned /\ i \in 1..q - 1
  BY <1>1, Lengths DEF expired
<1> HIDE DEF days, q, first, last
<1>5. q \in Nat /\ q * planned <= days /\ q * planned \in Nat
  <2>1. q \in 0..days /\ q * planned <= days
    BY <1>4, DividesDown
  <2> QED BY <2>1, <1>4, TimesGrows
<1>6. i \in Nat \ {0} /\ i < q /\ i * planned \in Nat /\ i * planned + planned <= q * planned
  BY <1>4, <1>5, TimesGrows
<1>7. days > 1 /\ first + i * planned \in Nat /\ first + i * planned <= last
  <2>1. i * planned + planned <= days
    BY <1>4, <1>5, <1>6
  <2>2. i * planned >= 1
    BY <1>4, <1>6
  <2>3. days > 1
    BY <2>1, <2>2, <1>4, <1>6
  <2> QED BY <2>1, <2>3, <1>1, <1>4, <1>6
<1>8. /\ (first + i * planned) * DayLength \in Nat
      /\ (first + i * planned) * DayLength <= last * DayLength
  BY <1>1, <1>2, <1>7, TimesGrows
<1> QED
  <2> DEFINE a == (first + i * planned) * DayLength
             b == last * DayLength
  <2>1. a \in Nat /\ a <= b /\ b <= end /\ b \in Nat
    BY <1>1, <1>2, <1>8, TimesGrows
  <2> HIDE DEF a, b
  <2>2. a \in Instants /\ a <= end
    BY <2>1, <1>2, Lengths DEF Instants
  <2> QED BY <2>2, <1>3 DEF a

LEMMA OnSiteInChain ==
  ASSUME NEW its \in Lines, NEW units \in positionsOf(its), NEW at \in Instants
  PROVE  unitOnSite(its, units, at) \in Range(units)
<1>1. units \in Seq(Equipments) /\ Len(units) \in Nat \ {0}
  BY PositionLines
<1> DEFINE came == {i \in DOMAIN units : its[units[i]].startDate <= at}
<1>2. DOMAIN units = 1..Len(units)
  BY <1>1
<1>3. CASE came = {}
  BY <1>1, <1>2, <1>3 DEF unitOnSite, Range
<1>4. CASE came # {}
  <2>1. came \in SUBSET Nat /\ \A x \in came : x <= Len(units)
    BY <1>1, <1>2
  <2>2. came \subseteq DOMAIN units
    OBVIOUS
  <2>3. unitOnSite(its, units, at) = units[Max(came)]
    BY <1>4 DEF unitOnSite
  <2> HIDE DEF came
  <2>4. Max(came) \in came
    BY <2>1, <1>1, <1>4, Greatest
  <2> QED BY <2>2, <2>3, <2>4 DEF Range
<1> QED BY <1>3, <1>4

\* Two sets of lines in which the units of a position start and end together, and
\* two histories with the same prices up to the instant of the bill.
AlikeFor(its, other, hist, past, units, asOf) ==
  /\ \A i \in 1..Len(units) :
       /\ other[units[i]].startDate = its[units[i]].startDate
       /\ other[units[i]].prices = its[units[i]].prices
       /\ other[units[i]].finalStatus = "STOLEN" <=> its[units[i]].finalStatus = "STOLEN"
  /\ endOf(other[Last(units)], asOf) = endOf(its[Last(units)], asOf)
  /\ endOf(its[Last(units)], asOf) <= asOf
  /\ \A e \in Equipments, at \in Instants :
       at <= asOf => priceAt(hist[e], at) = priceAt(past[e], at)

LEMMA SameCharge ==
  ASSUME NEW its \in Lines, NEW other \in Lines, NEW units \in positionsOf(its),
         NEW hist, NEW past, NEW planned \in 1..Horizon + 1, NEW asOf \in Instants,
         AlikeFor(its, other, hist, past, units, asOf)
  PROVE  chargePosition(hist, its, units, planned, asOf)
           = chargePosition(past, other, units, planned, asOf)
<1> DEFINE last == Last(units)
           end == endOf(its[last], asOf)
           start == its[units[1]].startDate
           days == calendarDays(start, end)
           thefts(l) == {u \in Range(units) : l[u].finalStatus = "STOLEN"}
<1>1. /\ units \in Seq(Equipments) /\ Len(units) \in Nat \ {0} /\ DOMAIN units = 1..Len(units)
      /\ units[1] \in Equipments /\ its[units[1]] # NoItem /\ signedBy(units) = units[1]
      /\ last \in Equipments /\ its[last] # NoItem
      /\ \A e \in Range(units) : e \in Equipments
  <2>1. /\ units \in Seq(Equipments) /\ Len(units) \in Nat \ {0}
        /\ \A i \in 1..Len(units) : units[i] \in Equipments
    BY PositionLines
  <2> QED BY <2>1, PositionEnds DEF Range
<1>2. start \in Instants /\ end \in Instants /\ end <= asOf /\ days \in 1..Horizon + 1
  BY <1>1, LineTypes, DaysType DEF endOf, AlikeFor
<1>3. /\ other[units[1]].startDate = start /\ other[units[1]].prices = its[units[1]].prices
      /\ endOf(other[last], asOf) = end
  BY <1>1 DEF AlikeFor
<1>4. \A at : unitOnSite(its, units, at) = unitOnSite(other, units, at)
  <2> TAKE at
  <2>1. {i \in DOMAIN units : its[units[i]].startDate <= at}
          = {i \in DOMAIN units : other[units[i]].startDate <= at}
    BY <1>1 DEF AlikeFor
  <2> QED BY <2>1 DEF unitOnSite
<1>5. renewals(hist, its, units, days, planned) = renewals(past, other, units, days, planned)
  <2> DEFINE from(i) == addDays(start, i * planned)
  <2>1. ASSUME NEW i \in 1..expired(days, planned) - 1
        PROVE  /\ unitOnSite(its, units, from(i)) = unitOnSite(other, units, from(i))
               /\ priceAt(hist[unitOnSite(its, units, from(i))], from(i))
                    = priceAt(past[unitOnSite(its, units, from(i))], from(i))
    <3>1. from(i) \in Instants /\ from(i) <= end
      BY <2>1, <1>2, RenewalStarts
    <3> HIDE DEF from
    <3>2. unitOnSite(its, units, from(i)) \in Equipments
      BY <3>1, <1>1, OnSiteInChain
    <3>3. from(i) <= asOf
      BY <3>1, <1>2, Lengths DEF Instants
    <3> QED BY <3>1, <3>2, <3>3, <1>4 DEF AlikeFor
  <2> HIDE DEF days
  <2>2. renewals(hist, its, units, days, planned) =
          [i \in 1..expired(days, planned) - 1 |->
             coverOf[priceAt(hist[unitOnSite(its, units, from(i))], from(i))][planned]]
    BY DEF renewals
  <2>3. renewals(past, other, units, days, planned) =
          [i \in 1..expired(days, planned) - 1 |->
             coverOf[priceAt(past[unitOnSite(other, units, from(i))], from(i))][planned]]
    BY <1>3 DEF renewals
  <2> QED BY <2>1, <2>2, <2>3
<1>6. thefts(its) = thefts(other)
  BY <1>1 DEF AlikeFor, Range
<1>7. [e \in thefts(its) |-> priceAt(hist[e], asOf).indemnity]
        = [e \in thefts(other) |-> priceAt(past[e], asOf).indemnity]
  <2>1. \A e \in thefts(its) : priceAt(hist[e], asOf) = priceAt(past[e], asOf)
    BY <1>1, Lengths DEF AlikeFor, Instants
  <2> QED BY <2>1, <1>6
<1>8. priceAt(hist[last], end) = priceAt(past[last], end)
  BY <1>1, <1>2 DEF AlikeFor
<1> HIDE DEF days, thefts, end, last, start
<1> QED
  BY <1>1, <1>3, <1>5, <1>6, <1>7, <1>8 DEF chargePosition, days, thefts, end, last, start

-----------------------------------------------------------------------------
(***************************************************************************)
(* Prices that change, and what does not change with them.                 *)
(***************************************************************************)
LEMMA LaterPriceIsNotInForce ==
  ASSUME NEW tables \in Seq(PricePoint), Len(tables) > 0, NEW point \in PricePoint,
         NEW at \in Instants, at < point.from
  PROVE  priceAt(Append(tables, point), at) = priceAt(tables, at)
<1> DEFINE n == Len(tables)
           more == Append(tables, point)
           known == {i \in DOMAIN tables : tables[i].from <= at}
<1>1. n \in Nat \ {0} /\ DOMAIN tables = 1..n
  OBVIOUS
<1>2. /\ DOMAIN more = 1..n + 1 /\ more[n + 1] = point
      /\ \A i \in 1..n : more[i] = tables[i]
  OBVIOUS
<1>3. ~ (point.from <= at)
  BY Lengths DEF PricePoint, Instants
<1>4. {i \in DOMAIN more : more[i].from <= at} = known
  BY <1>1, <1>2, <1>3
<1>5. priceAt(more, at) = more[IF known = {} THEN 1 ELSE Max(known)].prices
  <2> HIDE DEF more
  <2> QED BY <1>4 DEF priceAt
<1>6. priceAt(tables, at) = tables[IF known = {} THEN 1 ELSE Max(known)].prices
  BY DEF priceAt
<1>7. (IF known = {} THEN 1 ELSE Max(known)) \in 1..n
  <2>1. known \in SUBSET Nat /\ \A x \in known : x <= n
    BY <1>1
  <2>2. known \subseteq 1..n
    BY <1>1
  <2> HIDE DEF known, n
  <2>3. known # {} => Max(known) \in known
    BY <2>1, <1>1, Greatest
  <2>4. known # {} => Max(known) \in 1..n
    BY <2>2, <2>3
  <2>5. 1 \in 1..n
    BY <1>1
  <2>6. CASE known = {}
    BY <2>5, <2>6
  <2>7. CASE known # {}
    BY <2>4, <2>7
  <2> QED BY <2>6, <2>7
<1> QED BY <1>2, <1>5, <1>6, <1>7

\* A step takes the histories as they are or adds to one of them.
LEMMA HistoryStep ==
  ASSUME [Next]_vars, history' # history
  PROVE  \E e \in Equipments, p \in Tables : ChangePrices(e, p)
BY DEF Next, vars, Wait, CreateELease, AddEquipments, RemoveEquipments, StartContract,
       CancelContract, UpdateEquipment, ReplaceEquipment, CloseContract

\* No step changes a price of the past.
LEMMA PastPricesStand ==
  ASSUME TypeInv, [Next]_vars, NEW u \in Equipments, NEW at \in Instants, at < now
  PROVE  priceAt(history'[u], at) = priceAt(history[u], at)
<1>1. CASE history' = history
  BY <1>1
<1>2. CASE history' # history
  <2>1. PICK e \in Equipments, p \in Tables : ChangePrices(e, p)
    BY <1>2, HistoryStep
  <2>2. CASE u # e
    <3>1. history'[u] = history[u]
      BY <2>1, <2>2, PricesAppended
    <3> QED BY <3>1
  <2>3. CASE u = e
    <3> DEFINE point == [from |-> now, prices |-> p]
    <3>1. history'[e] = Append(history[e], point)
      BY <2>1, PricesAppended
    <3>2. point \in PricePoint /\ point.from = now
      BY DEF TypeInv, PricePoint
    <3>3. history[e] \in Seq(PricePoint) /\ Len(history[e]) > 0
      BY DEF TypeInv, Histories
    <3> HIDE DEF point
    <3>4. priceAt(Append(history[e], point), at) = priceAt(history[e], at)
      BY <3>2, <3>3, LaterPriceIsNotInForce
    <3> QED BY <3>1, <3>4, <2>3
  <2> QED BY <2>2, <2>3
<1> QED BY <1>1, <1>2

\* What a completed contract is does not change.
LEMMA CompletedStays ==
  ASSUME [Next]_vars, contract.status = "COMPLETED"
  PROVE  UNCHANGED <<contract, items, contracted, frozen>>
<1>1. contract.status # Null /\ contract.status # "PENDING" /\ contract.status # "ACTIVE"
  BY BillingAssumption
<1> QED
  BY <1>1 DEF Next, vars, Wait, CreateELease, AddEquipments, RemoveEquipments, StartContract,
       CancelContract, UpdateEquipment, ReplaceEquipment, CloseContract, ChangePrices

\* A contract is completed by CloseContract.
LEMMA CompletedBy ==
  ASSUME [Next]_vars, contract.status # "COMPLETED", contract'.status = "COMPLETED", TypeInv
  PROVE  CloseContract
<1>1. /\ contract'.status # "PENDING" /\ contract' # contract
      /\ contract' # [contract EXCEPT !.status = "ACTIVE"]
      /\ contract' # [contract EXCEPT !.status = "CANCELLED", !.finishDate = now]
  BY DEF TypeInv
<1>2. \A period, es : ~ CreateELease(period, es)
  BY <1>1 DEF CreateELease
<1> QED
  BY <1>1, <1>2 DEF Next, vars, Wait, AddEquipments, RemoveEquipments, StartContract,
       CancelContract, UpdateEquipment, ReplaceEquipment, ChangePrices

LEMMA FrozenKept ==
  ASSUME RecordsInv, FrozenIsRecomputed, [Next]_vars, contract'.status = "COMPLETED"
  PROVE  frozen' = compute(db, contract, now)'
<1>0. TypeInv /\ items \in Lines
  BY DEF RecordsInv, TypeInv
<1> DEFINE planned == calendarDays(contract'.startDate, contract'.endDate)
           closedAt == contract'.finishDate
<1>1. compute(db, contract, now)' =
        [units \in positionsOf(items') |->
           chargePosition(history', items', units, planned, closedAt)]
  BY CompletedStatement DEF compute, db
<1>2. CASE contract.status # "COMPLETED"
  <2>1. CloseContract
    BY <1>0, <1>2, CompletedBy
  <2>2. /\ frozen' = compute(db, contract', now) /\ contract'.finishDate = now
        /\ items' = items /\ history' = history
    BY <2>1, <1>0 DEF CloseContract, TypeInv
  <2>3. compute(db, contract', now) =
          [units \in positionsOf(items) |->
             chargePosition(history, items, units, planned, closedAt)]
    BY <2>2, CompletedStatement DEF compute, db
  <2> QED BY <1>1, <2>2, <2>3
<1>3. CASE contract.status = "COMPLETED"
  <2>1. contract' = contract /\ items' = items /\ frozen' = frozen
    BY <1>3, CompletedStays
  <2>2. frozen = [units \in positionsOf(items) |->
                    chargePosition(history, items, units, planned, closedAt)]
    BY <1>3, <2>1, CompletedStatement DEF FrozenIsRecomputed, compute, db
  <2>3. ASSUME NEW units \in positionsOf(items)
        PROVE  chargePosition(history, items, units, planned, closedAt)
                 = chargePosition(history', items, units, planned, closedAt)
    <3>1. /\ closedAt \in Instants /\ closedAt < now /\ now \in Instants
          /\ contract.startDate \in Instants /\ contract.endDate \in Instants
      BY <1>0, <1>3, <2>1, BillingAssumption DEF RecordsInv, DatesInv, TypeInv
    <3>2. planned \in 1..Horizon + 1
      BY <3>1, <2>1, DaysType
    <3>3. Last(units) \in Equipments /\ items[Last(units)] # NoItem
      BY <1>0, PositionEnds
    <3>4. /\ items[Last(units)].finishDate # Null
          /\ items[Last(units)].finishDate < closedAt
          /\ items[Last(units)].finishDate \in Instants
      BY <3>3, <1>0, <1>3, <2>1, LineTypes DEF RecordsInv, LinesInv, LineFits
    <3>5. endOf(items[Last(units)], closedAt) <= closedAt
      BY <3>4, <3>1, Lengths DEF endOf, Instants
    <3>6. \A e \in Equipments, at \in Instants :
            at <= closedAt => priceAt(history[e], at) = priceAt(history'[e], at)
      <4> TAKE e \in Equipments, at \in Instants
      <4> HAVE at <= closedAt
      <4>1. at < now
        BY <3>1, Lengths DEF Instants
      <4> QED BY <4>1, <1>0, PastPricesStand
    <3>7. AlikeFor(items, items, history, history', units, closedAt)
      BY <3>5, <3>6 DEF AlikeFor
    <3> HIDE DEF planned, closedAt
    <3> QED BY <3>1, <3>2, <3>7, <1>0, SameCharge
  <2> QED BY <1>1, <2>1, <2>2, <2>3
<1> QED BY <1>2, <1>3

\* The statement frozen at closing is the one computed at any time after, whatever
\* prices changed since (billing.service.ts:128-138, statement falling back on compute).
THEOREM FrozenStands == Spec => []FrozenIsRecomputed
<1>1. Init => FrozenIsRecomputed
  BY BillingAssumption DEF Init, FrozenIsRecomputed
<1>2. RecordsInv /\ FrozenIsRecomputed /\ [Next]_vars => FrozenIsRecomputed'
  BY FrozenKept DEF FrozenIsRecomputed
<1> QED BY <1>1, <1>2, RecordsHold, PTL DEF Spec

-----------------------------------------------------------------------------
(***************************************************************************)
(* The contracted amount.                                                  *)
(***************************************************************************)
\* What the units signed for cost at the prices they were signed with.
agreed(its, planned) ==
  SumFunctionOnSet([e \in Equipments |-> coverOf[its[e].prices][planned]], Roots(its))

LEMMA ContractedIsAgreed ==
  ASSUME NEW its \in Lines, NEW planned \in 1..Horizon + 1, NEW statement,
         DOMAIN statement = positionsOf(its),
         \A units \in positionsOf(its) :
           statement[units]["contracted"] = coverOf[its[units[1]].prices][planned]
  PROVE  totals(statement, "contracted") = agreed(its, planned) /\ agreed(its, planned) \in Nat
<1> DEFINE S == Roots(its)
           f == [e \in Equipments |-> coverOf[its[e].prices][planned]]
           m == [root \in Equipments |-> chainFrom(its, root)]
           g == [units \in DOMAIN statement |-> statement[units]["contracted"]]
<1>1. /\ S \subseteq Equipments /\ IsFiniteSet(S)
      /\ positionsOf(its) = {chainFrom(its, root) : root \in S}
      /\ \A root \in S : Head(chainFrom(its, root)) = root
  BY RootsOf
<1>2. \A x \in S : m[x] = chainFrom(its, x)
  BY <1>1
<1>3. positionsOf(its) = {m[x] : x \in S}
  BY <1>1, <1>2
<1>4. ASSUME NEW x \in S PROVE f[x] \in Nat /\ g[m[x]] = f[x]
  <2>1. x \in Equipments /\ its[x] # NoItem
    BY <1>1 DEF Roots, LinesIn
  <2>2. its[x].prices \in Tables /\ coverOf[its[x].prices][planned] \in Nat
    BY <2>1, LineTypes, CoverCosts
  <2>3. f[x] = coverOf[its[x].prices][planned]
    BY <2>1
  <2>4. m[x] \in positionsOf(its)
    BY <1>3
  <2>5. m[x][1] = x
    <3>1. Head(m[x]) = m[x][1]
      BY <2>4, PositionLines
    <3> QED BY <3>1, <1>1, <1>2
  <2>6. g[m[x]] = coverOf[its[m[x][1]].prices][planned]
    BY <2>4
  <2> QED BY <2>2, <2>3, <2>5, <2>6
<1>5. \A x, y \in S : m[x] = m[y] => x = y
  BY <1>1, <1>2
<1>6. totals(statement, "contracted") = SumFunctionOnSet(g, DOMAIN g)
  BY DEF totals, SumFunction
<1>7. DOMAIN g = {m[x] : x \in S}
  BY <1>3
<1>8. agreed(its, planned) = SumFunctionOnSet(f, S)
  BY DEF agreed
<1> HIDE DEF S, f, m, g
<1>9. SumFunctionOnSet(g, {m[x] : x \in S}) = SumFunctionOnSet(f, S)
  <2>1. IsFiniteSet(S) /\ \A x \in S : f[x] \in Nat /\ g[m[x]] = f[x]
    BY <1>1, <1>4
  <2> QED BY <2>1, <1>5, SumRenamed
<1>10. SumFunctionOnSet(f, S) \in Nat
  BY <1>1, <1>4, SumType
<1> QED BY <1>6, <1>7, <1>8, <1>9, <1>10

LEMMA SameAgreed ==
  ASSUME NEW its \in Lines, NEW other \in Lines, NEW planned \in 1..Horizon + 1,
         Roots(other) = Roots(its), \A e \in Roots(its) : other[e].prices = its[e].prices
  PROVE  agreed(other, planned) = agreed(its, planned)
<1> DEFINE S == Roots(its)
           f == [e \in Equipments |-> coverOf[its[e].prices][planned]]
           g == [e \in Equipments |-> coverOf[other[e].prices][planned]]
<1>1. S \subseteq Equipments /\ IsFiniteSet(S)
  BY RootsOf
<1>2. ASSUME NEW x \in S PROVE f[x] \in Nat /\ g[x] = f[x]
  <2>1. x \in Equipments /\ its[x] # NoItem
    BY <1>1 DEF Roots, LinesIn
  <2>2. its[x].prices \in Tables /\ coverOf[its[x].prices][planned] \in Nat
    BY <2>1, LineTypes, CoverCosts
  <2> QED BY <2>1, <2>2
<1>3. agreed(its, planned) = SumFunctionOnSet(f, S) /\ agreed(other, planned) = SumFunctionOnSet(g, S)
  BY DEF agreed
<1> HIDE DEF S, f, g
<1> QED BY <1>1, <1>2, <1>3, SumOfSameTerms

\* What is logged when the contract starts.
LEMMA QuoteIsAgreed ==
  ASSUME RecordsInv, contract.status = "PENDING"
  PROVE  /\ totals(compute(db, contract, now), "contracted") = agreed(items, plannedDays)
         /\ agreed(items, plannedDays) \in Nat
<1> DEFINE st == compute(db, contract, now)
<1>1. /\ items \in Lines /\ plannedDays \in 1..Horizon + 1
      /\ st = [units \in positionsOf(items) |-> quotePosition(items, units, plannedDays)]
  BY QuoteIs
<1>2. ASSUME NEW units \in positionsOf(items)
      PROVE  st[units]["contracted"] = coverOf[items[units[1]].prices][plannedDays]
  <2>1. signedBy(units) = units[1]
    BY <1>1, PositionEnds
  <2> QED BY <1>1, <2>1 DEF quotePosition
<1>3. DOMAIN st = positionsOf(items)
  BY <1>1
<1> HIDE DEF st
<1>4. totals(st, "contracted") = agreed(items, plannedDays) /\ agreed(items, plannedDays) \in Nat
  BY <1>1, <1>2, <1>3, ContractedIsAgreed
<1> QED BY <1>4 DEF st

\* What the statements of a contract that has started show.
LEMMA StatementIsAgreed ==
  ASSUME RecordsInv, contract.status \in {"ACTIVE", "COMPLETED"}
  PROVE  totals(compute(db, contract, now), "contracted") = agreed(linesRead, plannedDays)
<1> DEFINE st == compute(db, contract, now)
<1>1. /\ linesRead \in Lines /\ plannedDays \in 1..Horizon + 1 /\ billedAt \in Instants
      /\ st = [units \in positionsOf(linesRead) |->
                 chargePosition(history, linesRead, units, plannedDays, billedAt)]
  BY StatementIs
<1>2. ASSUME NEW units \in positionsOf(linesRead)
      PROVE  st[units]["contracted"] = coverOf[linesRead[units[1]].prices][plannedDays]
  <2>1. chargePosition(history, linesRead, units, plannedDays, billedAt).contracted
          = coverOf[linesRead[units[1]].prices][plannedDays]
    BY <1>1, DaysOfCharge
  <2> QED BY <1>1, <2>1
<1>3. DOMAIN st = positionsOf(linesRead)
  BY <1>1
<1> HIDE DEF st
<1>4. totals(st, "contracted") = agreed(linesRead, plannedDays)
  BY <1>1, <1>2, <1>3, ContractedIsAgreed
<1> QED BY <1>4 DEF st

\* From the start date on, the statement of now reads the lines as they are.
LEMMA NowIsAsItIs ==
  ASSUME RecordsInv, contract.status = "ACTIVE", now >= contract.startDate
  PROVE  asItWas(items, now) = items
<1>1. items \in Lines /\ now \in Instants /\ contract.startDate \in Instants
  BY BillingAssumption DEF RecordsInv, TypeInv, DatesInv
<1>2. ASSUME NEW e \in Equipments PROVE asItWas(items, now)[e] = items[e]
  <2>1. CASE items[e] = NoItem
    BY <2>1, <1>1, LineThen
  <2>2. CASE items[e] # NoItem
    <3>1. LineFits(e) /\ items[e].startDate \in Instants /\ items[e].finishDate \in Instants \cup {Null}
      BY <2>2, <1>1, LineTypes DEF RecordsInv, LinesInv
    <3>2. ~(items[e].startDate > now)
      BY <2>2, <3>1, <1>1, Lengths DEF LineFits, FollowsOld, Instants
    <3>3. ~(items[e].finishDate # Null /\ items[e].finishDate > now)
      BY <2>2, <3>1, <1>1, Lengths DEF LineFits, Instants
    <3> QED BY <2>2, <3>2, <3>3, <1>1, LineThen
  <2> QED BY <2>1, <2>2
<1>3. asItWas(items, now) = [e \in Equipments |-> asItWas(items, now)[e]]
  BY <1>1 DEF asItWas, Lines
<1>4. items = [e \in Equipments |-> items[e]]
  BY <1>1 DEF Lines
<1> QED BY <1>2, <1>3, <1>4

\* The amount logged at the start is the cost of the units signed for.
ContractedInv ==
  /\ contract.status \in {"ACTIVE", "COMPLETED"} => contracted = agreed(items, plannedDays)
  /\ contracted \in Nat \cup {Null}

\* A running contract keeps the units that were signed for and their prices.
LEMMA RootsStay ==
  ASSUME RecordsInv, contract.status = "ACTIVE", [Next]_vars, RecordsInv'
  PROVE  /\ Roots(items') = Roots(items)
         /\ \A e \in Roots(items) : items'[e].prices = items[e].prices
<1>0. TypeInv /\ items \in Lines /\ items' \in Lines
      /\ contract.status # Null /\ contract.status # "PENDING" /\ contract.status # "COMPLETED"
  BY BillingAssumption DEF RecordsInv, TypeInv
<1>1. CASE items' = items
  BY <1>1
<1>2. ASSUME NEW es \in SomeEquipments, NEW s \in {"AVAILABLE", "STOLEN", "MAINTENANCE"},
             UpdateEquipment(es, s)
      PROVE  /\ Roots(items') = Roots(items)
             /\ \A e \in Roots(items) : items'[e].prices = items[e].prices
  <2>1. ASSUME NEW e \in Equipments
        PROVE  /\ items'[e] = NoItem <=> items[e] = NoItem
               /\ items'[e].replaces = items[e].replaces /\ items'[e].prices = items[e].prices
    <3>1. CASE e \in es
      <4>1. items[e] \in Items /\ items[e] # NoItem /\ items'[e] = settled(items[e], s)
        BY <1>0, <1>2, <3>1 DEF UpdateEquipment, LinesIn, Lines
      <4> QED BY <4>1, <1>0, SettledType DEF FinalStatus
    <3>2. CASE e \notin es
      BY <1>2, <3>2 DEF UpdateEquipment
    <3> QED BY <3>1, <3>2
  <2> QED BY <2>1, <1>0 DEF Roots, LinesIn, Lines
<1>3. ASSUME NEW oldOf \in Replacements, ReplaceEquipment(oldOf)
      PROVE  /\ Roots(items') = Roots(items)
             /\ \A e \in Roots(items) : items'[e].prices = items[e].prices
  <2>1. ASSUME NEW e \in Equipments
        PROVE  /\ e \in Roots(items') <=> e \in Roots(items)
               /\ e \in Roots(items) => items'[e] = items[e]
    <3>1. CASE e \in DOMAIN oldOf
      <4>1. items[e] = NoItem /\ oldOf[e] \in Equipments /\ items'[e] = NewItem(e, now, oldOf[e])
        <5>1. PICK news \in SomeEquipments : oldOf \in [news -> Equipments]
          BY DEF Replacements
        <5> QED BY <1>3, <3>1, <5>1 DEF ReplaceEquipment, SomeEquipments
      <4>2. items'[e].replaces # Null
        BY <4>1, NullIsNoValue DEF NewItem
      <4> QED BY <4>1, <4>2 DEF Roots, LinesIn
    <3>2. CASE e \notin DOMAIN oldOf
      <4>1. items'[e] = items[e]
        BY <1>3, <3>2 DEF ReplaceEquipment
      <4> QED BY <4>1, <1>0 DEF Roots, LinesIn, Lines
    <3> QED BY <3>1, <3>2
  <2>2. Roots(items') \subseteq Equipments /\ Roots(items) \subseteq Equipments
    BY <1>0, RootsOf
  <2> QED BY <2>1, <2>2
<1>4. CASE items' # items
  <2>1. \A period, es : ~ CreateELease(period, es)
    BY <1>0 DEF CreateELease
  <2>2. \A es : ~ AddEquipments(es) /\ ~ RemoveEquipments(es)
    BY <1>0 DEF AddEquipments, RemoveEquipments
  <2>3. ~ CancelContract /\ ~ Wait /\ ~ StartContract /\ ~ CloseContract /\ ~ UNCHANGED vars
    BY <1>0, <1>4 DEF CancelContract, Wait, StartContract, CloseContract, vars
  <2>4. \A e, p : ~ ChangePrices(e, p)
    BY <1>4 DEF ChangePrices
  <2> QED BY <2>1, <2>2, <2>3, <2>4, <1>2, <1>3 DEF Next
<1> QED BY <1>1, <1>4

LEMMA StartedBy ==
  ASSUME TypeInv, [Next]_vars, contract.status \notin {"ACTIVE", "COMPLETED"},
         contract'.status \in {"ACTIVE", "COMPLETED"}
  PROVE  StartContract
<1>1. /\ contract'.status # "PENDING" /\ contract' # contract
      /\ contract' # [contract EXCEPT !.status = "CANCELLED", !.finishDate = now]
  BY DEF TypeInv
<1>2. \A period, es : ~ CreateELease(period, es)
  BY <1>1 DEF CreateELease
<1> QED
  BY <1>1, <1>2 DEF Next, vars, Wait, AddEquipments, RemoveEquipments, CloseContract,
       CancelContract, UpdateEquipment, ReplaceEquipment, ChangePrices

LEMMA ContractedStep ==
  ASSUME [Next]_vars, contracted' # contracted PROVE StartContract
BY DEF Next, vars, Wait, CreateELease, AddEquipments, RemoveEquipments, CloseContract,
       CancelContract, UpdateEquipment, ReplaceEquipment, ChangePrices

\* A running contract goes on with its dates, or is completed now.
LEMMA RunningStep ==
  ASSUME TypeInv, [Next]_vars, contract.status = "ACTIVE"
  PROVE  /\ contracted' = contracted
         /\ contract'.startDate = contract.startDate /\ contract'.endDate = contract.endDate
         /\ contract'.status \in {"ACTIVE", "COMPLETED"}
         /\ contract'.status = "COMPLETED" => contract'.finishDate = now
<1>1. contract.status # Null /\ contract.status # "PENDING" /\ contract.status # "COMPLETED"
  BY BillingAssumption
<1>2. CASE CloseContract
  BY <1>2 DEF CloseContract, TypeInv
<1>3. CASE ~ CloseContract
  BY <1>1, <1>3 DEF Next, vars, Wait, CreateELease, AddEquipments, RemoveEquipments,
       StartContract, CancelContract, UpdateEquipment, ReplaceEquipment, ChangePrices
<1> QED BY <1>2, <1>3

LEMMA ContractedKept ==
  ASSUME RecordsInv, ContractedInv, [Next]_vars, RecordsInv'
  PROVE  ContractedInv'
<1>0. TypeInv /\ items \in Lines /\ items' \in Lines
  BY DEF RecordsInv, TypeInv
<1>1. ASSUME contract.status = "ACTIVE"
      PROVE  contracted' = contracted /\ contracted' = agreed(items', plannedDays')
  <2>1. /\ contracted' = contracted /\ plannedDays' = plannedDays
        /\ Roots(items') = Roots(items)
        /\ \A e \in Roots(items) : items'[e].prices = items[e].prices
    BY <1>0, <1>1, RunningStep, RootsStay DEF plannedDays
  <2>2. plannedDays \in 1..Horizon + 1
    BY <1>1, StatementIs
  <2>3. agreed(items', plannedDays) = agreed(items, plannedDays)
    BY <2>1, <2>2, <1>0, SameAgreed
  <2> QED BY <2>1, <2>3, <1>1 DEF ContractedInv
<1>2. ASSUME contract.status = "COMPLETED"
      PROVE  contracted' = contracted /\ contracted' = agreed(items', plannedDays')
  <2>1. contract' = contract /\ items' = items /\ contracted' = contracted
    BY <1>2, CompletedStays
  <2> QED BY <2>1, <1>2 DEF ContractedInv, plannedDays
<1>3. ASSUME StartContract
      PROVE  contracted' \in Nat /\ contracted' = agreed(items', plannedDays')
  <2>1. /\ contract.status = "PENDING" /\ items' = items
        /\ contract'.startDate = contract.startDate /\ contract'.endDate = contract.endDate
        /\ contracted' = totals(compute(db, contract, now), "contracted")
    BY <1>0, <1>3 DEF StartContract, TypeInv
  <2>2. plannedDays' = plannedDays
    BY <2>1 DEF plannedDays
  <2> QED BY <2>1, <2>2, QuoteIsAgreed
<1>4. contract'.status \in {"ACTIVE", "COMPLETED"} => contracted' = agreed(items', plannedDays')
  BY <1>0, <1>1, <1>2, <1>3, StartedBy
<1>5. contracted' \in Nat \cup {Null}
  BY <1>3, ContractedStep DEF ContractedInv
<1> QED BY <1>4, <1>5 DEF ContractedInv

LEMMA ContractedHolds == Spec => []ContractedInv
<1>1. Init => ContractedInv
  BY BillingAssumption DEF Init, ContractedInv
<1>2. RecordsInv /\ ContractedInv /\ [Next]_vars /\ RecordsInv' => ContractedInv'
  BY ContractedKept
<1> QED BY <1>1, <1>2, RecordsHold, PTL DEF Spec

\* The amount logged at the start is what every statement shows from the start date on,
\* and the frozen one too: substitutes and later prices do not move what was signed
\* (statement.ts:141, the prices of the first unit of the chain).
THEOREM SignedPricesStand == Spec => []SignedPriceStands
<1>1. RecordsInv /\ ContractedInv /\ FrozenIsRecomputed => SignedPriceStands
  <2> SUFFICES ASSUME RecordsInv, ContractedInv, FrozenIsRecomputed PROVE SignedPriceStands
    OBVIOUS
  <2>1. ASSUME contract.status = "ACTIVE", now >= contract.startDate
        PROVE  totals(compute(db, contract, now), "contracted") = contracted
    <3>1. linesRead = items
      BY <2>1, NowIsAsItIs DEF linesRead
    <3> QED BY <2>1, <3>1, StatementIsAgreed DEF ContractedInv
  <2>2. ASSUME contract.status = "COMPLETED"
        PROVE  totals(frozen, "contracted") = contracted
    <3>1. linesRead = items
      BY <2>2 DEF linesRead
    <3>2. frozen = compute(db, contract, now)
      BY <2>2 DEF FrozenIsRecomputed
    <3> QED BY <2>2, <3>1, <3>2, StatementIsAgreed DEF ContractedInv
  <2> QED BY <2>1, <2>2 DEF SignedPriceStands
<1> QED BY <1>1, RecordsHold, ContractedHolds, FrozenStands, PTL

-----------------------------------------------------------------------------
\* No price came in force after now, and nothing is frozen before the closing.
KeptInv ==
  /\ \A e \in Equipments : Last(history[e]).from <= now
  /\ contract.status # "COMPLETED" => frozen = Null

LEMMA KeptStays ==
  ASSUME RecordsInv, KeptInv, [Next]_vars PROVE KeptInv'
<1>0. TypeInv /\ now \in Int
  BY DEF RecordsInv, TypeInv, Instants
<1>1. now' \in Int /\ now <= now'
  <2>1. CASE Clock
    BY <1>0, <2>1 DEF Clock
  <2>2. CASE UNCHANGED vars
    BY <1>0, <2>2 DEF vars
  <2> QED
    BY <2>1, <2>2 DEF Next, Wait, CreateELease, AddEquipments, RemoveEquipments, StartContract,
       CancelContract, UpdateEquipment, ReplaceEquipment, CloseContract, ChangePrices
<1>2. ASSUME NEW e \in Equipments PROVE Last(history'[e]).from <= now'
  <2>1. Last(history[e]).from \in Int /\ Last(history[e]).from <= now
    BY <1>0, LastPrices DEF TypeInv, PricePoint, Instants, KeptInv
  <2>2. CASE history'[e] = history[e]
    BY <2>1, <2>2, <1>0, <1>1
  <2>3. CASE history'[e] # history[e]
    <3>1. PICK u \in Equipments, p \in Tables : ChangePrices(u, p)
      BY <2>3, HistoryStep
    <3>2. u = e
      BY <2>3, <3>1, <1>0, PricesAppended
    <3> DEFINE point == [from |-> now, prices |-> p]
    <3>3. history'[e] = Append(history[e], point) /\ point.from = now
      BY <3>1, <3>2, <1>0, PricesAppended
    <3>4. history[e] \in Seq(PricePoint)
      BY <1>0 DEF TypeInv, Histories
    <3> HIDE DEF point
    <3>5. Last(Append(history[e], point)) = point
      BY <3>4 DEF Last
    <3> QED BY <3>3, <3>5, <1>0, <1>1
  <2> QED BY <2>2, <2>3
<1>3. contract'.status # "COMPLETED" => frozen' = Null
  <2> SUFFICES ASSUME contract'.status # "COMPLETED" PROVE frozen' = Null
    OBVIOUS
  <2>1. contract.status # "COMPLETED"
    BY CompletedStays
  <2>2. ~ CloseContract
    BY <1>0 DEF CloseContract, TypeInv
  <2> QED
    BY <2>1, <2>2 DEF KeptInv, Next, vars, Wait, CreateELease, AddEquipments, RemoveEquipments,
       StartContract, CancelContract, UpdateEquipment, ReplaceEquipment, ChangePrices
<1> QED BY <1>2, <1>3 DEF KeptInv

\* Types: among them, the amount logged is a number of cents, and only a completed
\* contract has a frozen statement.
THEOREM BillingTyping == Spec => []BillingTypeOK
<1>1. Init => KeptInv
  <2> SUFFICES ASSUME Init PROVE KeptInv
    OBVIOUS
  <2>1. ASSUME NEW e \in Equipments PROVE Last(history[e]).from <= now
    <3>1. PICK p \in Tables : history[e] = <<[from |-> Opening, prices |-> p]>>
      BY DEF Init
    <3>2. Last(history[e]).from = Opening
      BY <3>1 DEF Last
    <3> QED BY <3>2, BillingAssumption DEF Init, Instants
  <2> QED BY <2>1 DEF Init, KeptInv
<1>2. RecordsInv /\ KeptInv /\ [Next]_vars => KeptInv'
  BY KeptStays
<1>3. RecordsInv /\ KeptInv /\ ContractedInv => BillingTypeOK
  <2> SUFFICES ASSUME RecordsInv, KeptInv, ContractedInv PROVE BillingTypeOK
    OBVIOUS
  <2>1. ASSUME NEW e \in Equipments
        PROVE  /\ items[e].finishDate = Null <=> items[e].finalStatus = Null
               /\ \A i \in DOMAIN history[e] :
                    history[e][i].from \in Instants /\ history[e][i].prices \in Tables
               /\ Last(history[e]).from <= now
    <3>1. items[e].finishDate = Null <=> items[e].finalStatus = Null
      BY NullIsNoValue DEF RecordsInv, LinesInv, LineFits
    <3>2. history[e] \in Seq(PricePoint)
      BY DEF RecordsInv, TypeInv, Histories
    <3>3. \A i \in DOMAIN history[e] : history[e][i] \in PricePoint
      BY <3>2
    <3> QED BY <3>1, <3>3 DEF PricePoint, KeptInv
  <2> QED BY <2>1 DEF BillingTypeOK, RecordsInv, TypeInv, Lines, KeptInv, ContractedInv
<1> QED BY <1>1, <1>2, <1>3, RecordsHold, ContractedHolds, PTL DEF Spec

-----------------------------------------------------------------------------
LEMMA PendingStatement ==
  ASSUME NEW c, NEW its, NEW hist, NEW at, c.status = "PENDING"
  PROVE  buildStatement(c, its, hist, at) =
           [units \in positionsOf(its) |->
              quotePosition(its, units, calendarDays(c.startDate, c.endDate))]
BY DEF buildStatement

\* Of the steps of a pending contract, those that leave it its units leave it its lines.
LEMMA PendingStep ==
  ASSUME RecordsInv, [Next]_vars, contract.status = "PENDING", contract'.status = "PENDING",
         LinesIn(items') = LinesIn(items)
  PROVE  contract' = contract /\ items' = items
<1>0. TypeInv /\ items \in Lines /\ contract.startDate \in Instants
      /\ contract.status # Null /\ contract.status # "ACTIVE"
  BY BillingAssumption DEF RecordsInv, TypeInv, DatesInv
<1>1. \A period, es : ~ CreateELease(period, es)
  BY <1>0 DEF CreateELease
<1>2. ~ StartContract /\ ~ CancelContract
  BY <1>0, BillingAssumption DEF StartContract, CancelContract, TypeInv
<1>3. ASSUME NEW es \in SomeEquipments PROVE ~ AddEquipments(es)
  <2> SUFFICES ASSUME AddEquipments(es) PROVE FALSE
    OBVIOUS
  <2>1. PICK e \in es : e \in Equipments
    BY DEF SomeEquipments
  <2>2. items'[e] = NewItem(e, contract.startDate, Null) /\ e \notin LinesIn(items)
        /\ DOMAIN items' = Equipments
    BY <2>1 DEF AddEquipments
  <2>3. items'[e] # NoItem
    BY <2>1, <2>2, <1>0, NewItemType
  <2> QED BY <2>1, <2>2, <2>3 DEF LinesIn
<1>4. ASSUME NEW es \in SomeEquipments PROVE ~ RemoveEquipments(es)
  <2> SUFFICES ASSUME RemoveEquipments(es) PROVE FALSE
    OBVIOUS
  <2>1. PICK e \in es : e \in Equipments
    BY DEF SomeEquipments
  <2> QED BY <2>1 DEF RemoveEquipments, LinesIn
<1> QED
  BY <1>0, <1>1, <1>2, <1>3, <1>4 DEF Next, vars, Wait, UpdateEquipment, ReplaceEquipment,
       CloseContract, ChangePrices

\* The amount of a pending contract changes only with its units, and is what is logged
\* when the contract starts (elease.service.ts:256-287).
THEOREM QuotesStand == Spec => QuoteStands
<1>1. RecordsInv /\ [Next]_vars => QuoteStandsStep
  <2> SUFFICES ASSUME RecordsInv, [Next]_vars, contract.status = "PENDING",
                      LinesIn(items') = LinesIn(items)
               PROVE  LET shown == totals(compute(db, contract, now), "contracted") IN
                      /\ contract'.status = "PENDING" =>
                           totals(compute(db, contract, now), "contracted")' = shown
                      /\ contract'.status = "ACTIVE" => contracted' = shown
    BY DEF QuoteStandsStep
  <2>1. ASSUME contract'.status = "PENDING"
        PROVE  totals(compute(db, contract, now), "contracted")'
                 = totals(compute(db, contract, now), "contracted")
    <3>1. contract' = contract /\ items' = items
      BY <2>1, PendingStep
    <3> DEFINE planned == calendarDays(contract.startDate, contract.endDate)
               quotes == [units \in positionsOf(items) |-> quotePosition(items, units, planned)]
    <3>2. compute(db, contract, now) = quotes
      BY PendingStatement DEF compute, db
    <3>3. compute(db', contract', now') = quotes
      BY <3>1, <2>1, PendingStatement DEF compute, db
    <3> HIDE DEF quotes
    <3> QED BY <3>2, <3>3
  <2>2. ASSUME contract'.status = "ACTIVE"
        PROVE  contracted' = totals(compute(db, contract, now), "contracted")
    <3>1. StartContract
      BY <2>2, StartedBy DEF RecordsInv
    <3> QED BY <3>1 DEF StartContract
  <2> QED BY <2>1, <2>2
<1> QED BY <1>1, RecordsHold, PTL DEF Spec, QuoteStands

-----------------------------------------------------------------------------
(***************************************************************************)
(* The statement of a contract in progress, and the reports of the past.   *)
(***************************************************************************)
\* Sets of lines of the same units that replace the same ones have the same positions.
LEMMA SamePositions ==
  ASSUME NEW its \in Lines, NEW other \in Lines,
         \A e \in Equipments : /\ other[e] = NoItem <=> its[e] = NoItem
                               /\ other[e].replaces = its[e].replaces
  PROVE  positionsOf(other) = positionsOf(its)
<1>1. DOMAIN its = Equipments /\ DOMAIN other = Equipments
  BY DEF Lines
<1>2. Roots(other) = Roots(its)
  BY <1>1 DEF Roots, LinesIn
<1>3. \A e : NextOf(its, e) = NextOf(other, e)
  BY <1>1 DEF NextOf
<1>4. \A root \in Roots(its) : chainFrom(other, root) = chainFrom(its, root)
  BY <1>1, <1>3, FewUnits, SameChains
<1>5. positionsOf(its) = {chainFrom(its, root) : root \in Roots(its)}
  BY RootsOf
<1>6. positionsOf(other) = {chainFrom(other, root) : root \in Roots(its)}
  BY <1>2, RootsOf
<1> QED BY <1>4, <1>5, <1>6

\* The lines as they would be with every unit on site returned now.
returned ==
  [e \in Equipments |->
     IF e \in LinesIn(items) /\ items[e].finalStatus = Null
     THEN settled(items[e], "AVAILABLE") ELSE items[e]]

LEMMA ReturnedLines ==
  ASSUME RecordsInv
  PROVE  /\ returned \in Lines
         /\ \A e \in Equipments :
              /\ returned[e] = NoItem <=> items[e] = NoItem
              /\ returned[e].replaces = items[e].replaces
              /\ returned[e].startDate = items[e].startDate
              /\ returned[e].prices = items[e].prices
              /\ returned[e].finalStatus = "STOLEN" <=> items[e].finalStatus = "STOLEN"
              /\ endOf(returned[e], now) = endOf(items[e], now)
<1>1. TypeInv /\ items \in Lines /\ now \in Instants /\ now # Null
  BY NullIsNoValue DEF RecordsInv, TypeInv
<1>2. ASSUME NEW e \in Equipments
      PROVE  /\ returned[e] \in Items \cup {NoItem}
             /\ returned[e] = NoItem <=> items[e] = NoItem
             /\ returned[e].replaces = items[e].replaces
             /\ returned[e].startDate = items[e].startDate
             /\ returned[e].prices = items[e].prices
             /\ returned[e].finalStatus = "STOLEN" <=> items[e].finalStatus = "STOLEN"
             /\ endOf(returned[e], now) = endOf(items[e], now)
  <2>1. CASE items[e] # NoItem /\ items[e].finalStatus = Null
    <3>1. returned[e] = settled(items[e], "AVAILABLE") /\ items[e] \in Items
      BY <2>1, <1>1 DEF returned, LinesIn, Lines
    <3>2. items[e].finishDate = Null
      BY <2>1 DEF RecordsInv, LinesInv, LineFits
    <3> QED BY <2>1, <3>1, <3>2, <1>1, SettledType, BillingAssumption DEF endOf, FinalStatus
  <2>2. CASE ~(items[e] # NoItem /\ items[e].finalStatus = Null)
    <3>1. returned[e] = items[e] /\ items[e] \in Items \cup {NoItem}
      BY <2>2, <1>1 DEF returned, LinesIn, Lines
    <3> QED BY <3>1
  <2> QED BY <2>1, <2>2
<1>3. returned \in Lines
  BY <1>2 DEF returned, Lines
<1> QED BY <1>2, <1>3

\* The statement of a contract in progress is the one it would be completed with if
\* every unit on site came back at that instant (report.pdf.ts:67).
THEOREM ExtractsAreAsIfReturned == Spec => []ExtractIsAsIfReturned
<1>1. RecordsInv => ExtractIsAsIfReturned
  <2> SUFFICES ASSUME RecordsInv, contract.status = "ACTIVE", now >= contract.startDate
               PROVE  LET completed == [contract EXCEPT !.status = "COMPLETED", !.finishDate = now]
                      IN  compute(db, contract, now) =
                            compute([db EXCEPT !.items = returned], completed, now)
    BY DEF ExtractIsAsIfReturned, returned
  <2> DEFINE completed == [contract EXCEPT !.status = "COMPLETED", !.finishDate = now]
  <2>1. items \in Lines /\ now \in Instants /\ returned \in Lines /\ plannedDays \in 1..Horizon + 1
    BY ReturnedLines, StatementIs DEF RecordsInv, TypeInv
  <2>2. compute(db, contract, now) =
          [units \in positionsOf(items) |->
             chargePosition(history, items, units, plannedDays, now)]
    <3>1. linesRead = items /\ billedAt = now
      BY NowIsAsItIs, BillingAssumption DEF linesRead, billedAt
    <3> QED BY <3>1, StatementIs
  <2>3. compute([db EXCEPT !.items = returned], completed, now) =
          [units \in positionsOf(returned) |->
             chargePosition(history, returned, units, plannedDays, now)]
    <3>1. /\ completed.status = "COMPLETED" /\ completed.finishDate = now
          /\ completed.startDate = contract.startDate /\ completed.endDate = contract.endDate
      BY DEF RecordsInv, TypeInv
    <3>2. compute([db EXCEPT !.items = returned], completed, now)
            = buildStatement(completed, returned, history, now)
      BY <3>1 DEF compute, db
    <3> HIDE DEF completed
    <3> QED BY <3>1, <3>2, CompletedStatement DEF plannedDays
  <2>4. positionsOf(returned) = positionsOf(items)
    BY <2>1, ReturnedLines, SamePositions
  <2>5. ASSUME NEW units \in positionsOf(items)
        PROVE  chargePosition(history, items, units, plannedDays, now)
                 = chargePosition(history, returned, units, plannedDays, now)
    <3>1. /\ Last(units) \in Equipments /\ items[Last(units)] # NoItem
          /\ \A i \in 1..Len(units) : units[i] \in Equipments
      BY <2>1, PositionEnds, PositionLines
    <3>2. endOf(items[Last(units)], now) <= now
      <4>1. /\ LineFits(Last(units))
            /\ items[Last(units)].finishDate \in Instants \cup {Null}
        BY <3>1, <2>1, LineTypes DEF RecordsInv, LinesInv
      <4> QED BY <4>1, <3>1, <2>1, Lengths DEF LineFits, endOf, Instants
    <3>3. AlikeFor(items, returned, history, history, units, now)
      BY <3>1, <3>2, ReturnedLines DEF AlikeFor
    <3> QED BY <3>3, <2>1, SameCharge
  <2> HIDE DEF completed
  <2> QED BY <2>2, <2>3, <2>4, <2>5 DEF completed
<1> QED BY <1>1, RecordsHold, PTL

\* A step of a running contract leaves its lines as any earlier instant knew them, and
\* what it settles it settles now.
LEMMA LinesOfThePast ==
  ASSUME RecordsInv, [Next]_vars, contract.status = "ACTIVE", items' \in Lines,
         NEW e \in Equipments
  PROVE  \/ items'[e] = items[e]
         \/ /\ items[e] # NoItem /\ items[e].finishDate = Null /\ items[e].finalStatus = Null
            /\ \E s \in FinalStatus : items'[e] = settled(items[e], s)
         \/ /\ items[e] = NoItem /\ items'[e] # NoItem
            /\ items'[e].startDate = now /\ items'[e].finalStatus = Null
<1>0. TypeInv /\ items \in Lines /\ now \in Instants
      /\ contract.status # Null /\ contract.status # "PENDING" /\ contract.status # "COMPLETED"
  BY BillingAssumption DEF RecordsInv, TypeInv
<1>1. ASSUME NEW es \in SomeEquipments, NEW s \in {"AVAILABLE", "STOLEN", "MAINTENANCE"},
             UpdateEquipment(es, s), e \in es
      PROVE  /\ items[e] # NoItem /\ items[e].finishDate = Null /\ items[e].finalStatus = Null
             /\ s \in FinalStatus /\ items'[e] = settled(items[e], s)
  <2>1. items[e] # NoItem /\ items[e].finalStatus = Null
    BY <1>1 DEF UpdateEquipment, LinesIn
  <2>2. items[e].finishDate = Null
    BY <2>1 DEF RecordsInv, LinesInv, LineFits
  <2> QED BY <2>1, <2>2, <1>1 DEF UpdateEquipment, FinalStatus
<1>2. ASSUME NEW es \in SomeEquipments, NEW s \in {"AVAILABLE", "STOLEN", "MAINTENANCE"},
             UpdateEquipment(es, s), e \notin es
      PROVE  items'[e] = items[e]
  BY <1>2 DEF UpdateEquipment
<1>3. ASSUME NEW oldOf \in Replacements, ReplaceEquipment(oldOf), e \in DOMAIN oldOf
      PROVE  /\ items[e] = NoItem /\ items'[e] # NoItem
             /\ items'[e].startDate = now /\ items'[e].finalStatus = Null
  <2>1. items[e] = NoItem /\ oldOf[e] \in Equipments /\ items'[e] = NewItem(e, now, oldOf[e])
    <3>1. PICK news \in SomeEquipments : oldOf \in [news -> Equipments]
      BY DEF Replacements
    <3> QED BY <1>3, <3>1 DEF ReplaceEquipment, SomeEquipments
  <2> QED BY <2>1, <1>0, NewItemType
<1>4. ASSUME NEW oldOf \in Replacements, ReplaceEquipment(oldOf), e \notin DOMAIN oldOf
      PROVE  items'[e] = items[e]
  BY <1>4 DEF ReplaceEquipment
<1>5. CASE items' # items
  <2>1. \A period, es : ~ CreateELease(period, es)
    BY <1>0 DEF CreateELease
  <2>2. \A es : ~ AddEquipments(es) /\ ~ RemoveEquipments(es)
    BY <1>0 DEF AddEquipments, RemoveEquipments
  <2>3. ~ CancelContract /\ ~ Wait /\ ~ StartContract /\ ~ CloseContract /\ ~ UNCHANGED vars
    BY <1>0, <1>5 DEF CancelContract, Wait, StartContract, CloseContract, vars
  <2>4. \A u, p : ~ ChangePrices(u, p)
    BY <1>5 DEF ChangePrices
  <2>5. \/ \E es \in SomeEquipments :
             \E s \in {"AVAILABLE", "STOLEN", "MAINTENANCE"} : UpdateEquipment(es, s)
        \/ \E oldOf \in Replacements : ReplaceEquipment(oldOf)
    BY <2>1, <2>2, <2>3, <2>4 DEF Next
  <2>6. CASE \E es \in SomeEquipments :
               \E s \in {"AVAILABLE", "STOLEN", "MAINTENANCE"} : UpdateEquipment(es, s)
    <3>1. PICK es \in SomeEquipments, s \in {"AVAILABLE", "STOLEN", "MAINTENANCE"} :
            UpdateEquipment(es, s)
      BY <2>6
    <3>2. CASE e \in es
      BY <3>1, <3>2, <1>1
    <3>3. CASE e \notin es
      BY <3>1, <3>3, <1>2
    <3> QED BY <3>2, <3>3
  <2>7. CASE \E oldOf \in Replacements : ReplaceEquipment(oldOf)
    <3>1. PICK oldOf \in Replacements : ReplaceEquipment(oldOf)
      BY <2>7
    <3>2. CASE e \in DOMAIN oldOf
      BY <3>1, <3>2, <1>3
    <3>3. CASE e \notin DOMAIN oldOf
      BY <3>1, <3>3, <1>4
    <3> QED BY <3>2, <3>3
  <2> QED BY <2>5, <2>6, <2>7
<1> QED BY <1>5

LEMMA AsItWasStands ==
  ASSUME RecordsInv, [Next]_vars, contract.status = "ACTIVE", items' \in Lines,
         NEW at \in Instants, at < now
  PROVE  asItWas(items', at) = asItWas(items, at)
<1>0. TypeInv /\ items \in Lines /\ now \in Instants /\ now # Null
  BY NullIsNoValue DEF RecordsInv, TypeInv
<1>1. ASSUME NEW e \in Equipments PROVE asItWas(items', at)[e] = asItWas(items, at)[e]
  <2> DEFINE i == items[e]
             j == items'[e]
             was == asItWas(items, at)[e]
             is == asItWas(items', at)[e]
  <2>1. CASE j = i
    <3>1. e \in DOMAIN items /\ e \in DOMAIN items'
      BY <1>0 DEF Lines
    <3> QED BY <2>1, <3>1 DEF asItWas
  <2>2. ASSUME i # NoItem, i.finishDate = Null, i.finalStatus = Null,
               NEW s \in FinalStatus, j = settled(i, s)
        PROVE  is = was
    <3>1. i \in Items
      BY <2>2, <1>0 DEF Lines
    <3>2. /\ j \in Items /\ j # NoItem /\ j.startDate = i.startDate /\ j.replaces = i.replaces
          /\ j.prices = i.prices /\ j.finishDate = now
      BY <2>2, <3>1, <1>0, SettledType
    <3>3. CASE i.startDate > at
      <4>1. was = NoItem
        BY <3>3, <1>0, LineThen
      <4>2. is = NoItem
        BY <3>2, <3>3, LineThen
      <4> QED BY <4>1, <4>2
    <3>4. CASE ~(i.startDate > at)
      <4>1. was = i
        BY <2>2, <3>4, <1>0, LineThen
      <4>2. now > at
        BY <1>0, Lengths DEF Instants
      <4>3. /\ is \in Items /\ is.startDate = j.startDate /\ is.replaces = j.replaces
            /\ is.prices = j.prices /\ is.finishDate = Null /\ is.finalStatus = Null
        BY <3>2, <3>4, <4>2, <1>0, LineThen
      <4> HIDE DEF i, j, is, was
      <4>4. is = i
        BY <2>2, <3>1, <3>2, <4>3 DEF Items
      <4> QED BY <4>1, <4>4
    <3> QED BY <3>3, <3>4
  <2>3. CASE i = NoItem /\ j # NoItem /\ j.startDate = now
    <3>1. was = NoItem
      BY <2>3, <1>0, LineThen
    <3>2. j.startDate > at
      BY <2>3, <1>0, Lengths DEF Instants
    <3>3. is = NoItem
      BY <3>2, LineThen
    <3> QED BY <3>1, <3>3
  <2> QED BY <2>1, <2>2, <2>3, LinesOfThePast
<1>2. /\ asItWas(items', at) = [e \in Equipments |-> asItWas(items', at)[e]]
      /\ asItWas(items, at) = [e \in Equipments |-> asItWas(items, at)[e]]
  BY <1>0 DEF asItWas, Lines
<1> QED BY <1>1, <1>2

\* What an instant of the past bills stands, if its lines and its prices do.
LEMMA BillOfThePast ==
  ASSUME NEW its \in Lines, NEW other \in Lines, NEW hist, NEW past, NEW c, NEW d,
         NEW at \in Instants, asItWas(other, at) = asItWas(its, at),
         c.status = "ACTIVE", c.startDate \in Instants, c.endDate \in Instants,
         d.status = "ACTIVE", d.startDate = c.startDate, d.endDate = c.endDate,
         \A e \in Equipments, t \in Instants :
           t <= at => priceAt(hist[e], t) = priceAt(past[e], t)
  PROVE  buildStatement(c, its, hist, at) = buildStatement(d, other, past, at)
<1> DEFINE was == asItWas(its, at)
           planned == calendarDays(c.startDate, c.endDate)
<1>1. was \in Lines /\ planned \in 1..Horizon + 1
  BY AsItWasType, DaysType
<1>2. buildStatement(c, its, hist, at) =
        [units \in positionsOf(was) |-> chargePosition(hist, was, units, planned, at)]
  BY RunningStatement
<1>3. buildStatement(d, other, past, at) =
        [units \in positionsOf(was) |-> chargePosition(past, was, units, planned, at)]
  BY RunningStatement
<1>4. ASSUME NEW units \in positionsOf(was)
      PROVE  chargePosition(hist, was, units, planned, at)
               = chargePosition(past, was, units, planned, at)
  <2> DEFINE last == Last(units)
  <2>1. last \in Equipments /\ was[last] # NoItem
    BY <1>1, PositionEnds
  <2>2. its[last] # NoItem /\ ~(its[last].startDate > at)
    BY <2>1, LineThen
  <2>3. its[last].finishDate \in Instants \cup {Null}
    BY <2>1, <2>2, LineTypes
  <2>4. \/ was[last].finishDate = Null
        \/ was[last].finishDate = its[last].finishDate /\ ~(its[last].finishDate > at)
    BY <2>1, <2>2, LineThen
  <2> HIDE DEF was, last
  <2>5. endOf(was[last], at) <= at
    BY <2>3, <2>4, Lengths DEF endOf, Instants
  <2>6. AlikeFor(was, was, hist, past, units, at)
    BY <2>5 DEF AlikeFor, last
  <2> HIDE DEF planned
  <2> QED BY <2>6, <1>1, SameCharge
<1> HIDE DEF was, planned
<1> QED BY <1>2, <1>3, <1>4

LEMMA ClosingOfClosed ==
  ASSUME NEW d, NEW at, NEW month, closedIn(d.contract, month), ~ activeIn(d.contract, month)
  PROVE  closing(d, at, month) = reported("closed", d.frozen, {}, d.items, month)
BY DEF closing

LEMMA ClosingOfActive ==
  ASSUME NEW d, NEW at, NEW month, ~ closedIn(d.contract, month), activeIn(d.contract, month)
  PROVE  closing(d, at, month) =
           reported("active", compute(d, [d.contract EXCEPT !.status = "ACTIVE"],
                                      closingDate(at, month)),
                    onSite(d.items, month), d.items, month)
BY DEF closing

LEMMA ClosingOfOthers ==
  ASSUME NEW d, NEW at, NEW month, ~ closedIn(d.contract, month), ~ activeIn(d.contract, month)
  PROVE  closing(d, at, month) = [list |-> "none", replaced |-> {}]
BY DEF closing

\* Two reports that differ in no more than their lines, with the same units broken and
\* stolen and all the substitutes of the one in the other, differ in the marks alone.
LEMMA ReportsAlike ==
  ASSUME NEW list, NEW bill, NEW site, NEW its, NEW other, NEW month,
         \A s \in {"MAINTENANCE", "STOLEN"} : endedAs(other, s, month) = endedAs(its, s, month),
         \A es : replacedOf(its, es) \subseteq replacedOf(other, es)
  PROVE  LET printed == reported(list, bill, site, its, month)
             again == reported(list, bill, site, other, month)
         IN  /\ exceptMarks(again) = exceptMarks(printed)
             /\ printed.replaced \subseteq again.replaced
<1> DEFINE broken == endedAs(its, "MAINTENANCE", month)
           stolen == [e \in endedAs(its, "STOLEN", month) |-> indemnityIn(bill, e)]
<1>1. /\ reported(list, bill, site, its, month) =
           [list |-> list, bill |-> bill, onSite |-> site, broken |-> broken,
            replaced |-> replacedOf(its, broken), stolen |-> stolen]
      /\ reported(list, bill, site, other, month) =
           [list |-> list, bill |-> bill, onSite |-> site, broken |-> broken,
            replaced |-> replacedOf(other, broken), stolen |-> stolen]
  BY DEF reported
<1>2. replacedOf(its, broken) \subseteq replacedOf(other, broken)
  OBVIOUS
<1> HIDE DEF broken, stolen
<1> QED BY <1>1, <1>2 DEF exceptMarks

\* A month that is over is reported up to its last instant.
LEMMA ClosingDates ==
  ASSUME NEW at \in Instants, NEW month \in 0..Horizon, monthRange(month).to <= at
  PROVE  /\ closingDate(at, month) = monthRange(month).to - 1
         /\ closingDate(at, month) \in Instants /\ closingDate(at, month) < at
         /\ monthRange(month).from \in Nat /\ monthRange(month).to \in Nat
<1>1. /\ monthRange(month).from \in Nat /\ monthRange(month).to \in Nat
      /\ monthRange(month).from < monthRange(month).to
  <2>1. month \in Nat
    BY Lengths
  <2> QED BY <2>1, MonthOf
<1>2. at \in Nat /\ at <= Horizon /\ Horizon \in Nat
  BY Lengths DEF Instants
<1>3. closingDate(at, month) = monthRange(month).to - 1
  BY <1>1, <1>2 DEF closingDate
<1> QED BY <1>1, <1>2, <1>3 DEF Instants

\* What a running contract had on site and lost in a month that is over.
LEMMA UnitsOfThePast ==
  ASSUME RecordsInv, [Next]_vars, contract.status = "ACTIVE", items' \in Lines,
         NEW month \in 0..Horizon, monthRange(month).to <= now,
         NEW s \in {"MAINTENANCE", "STOLEN"}
  PROVE  /\ onSite(items', month) = onSite(items, month)
         /\ endedAs(items', s, month) = endedAs(items, s, month)
<1>1. TypeInv /\ items \in Lines /\ now \in Instants /\ s # Null /\ now # Null
  BY NullIsNoValue, BillingAssumption DEF RecordsInv, TypeInv
<1>2. monthRange(month).to \in Nat /\ now \in Nat
  BY <1>1, ClosingDates, Lengths DEF Instants
<1>3. ASSUME NEW e \in Equipments
      PROVE  /\ e \in onSite(items', month) <=> e \in onSite(items, month)
             /\ e \in endedAs(items', s, month) <=> e \in endedAs(items, s, month)
  <2>0. e \in DOMAIN items /\ e \in DOMAIN items'
    BY <1>1 DEF Lines
  <2>1. CASE items'[e] = items[e]
    BY <2>0, <2>1 DEF onSite, endedAs, LinesIn
  <2>2. ASSUME items[e] # NoItem, items[e].finishDate = Null, items[e].finalStatus = Null,
               NEW f \in FinalStatus, items'[e] = settled(items[e], f)
        PROVE  /\ e \in onSite(items', month) <=> e \in onSite(items, month)
               /\ e \in endedAs(items', s, month) <=> e \in endedAs(items, s, month)
    <3>1. /\ items'[e] # NoItem /\ items'[e].startDate = items[e].startDate
          /\ items'[e].finishDate = now
      BY <2>2, <1>1, SettledType DEF Lines
    <3> QED BY <2>0, <2>2, <3>1, <1>1, <1>2 DEF onSite, endedAs, LinesIn
  <2>3. CASE /\ items[e] = NoItem /\ items'[e] # NoItem
             /\ items'[e].startDate = now /\ items'[e].finalStatus = Null
    BY <2>0, <2>3, <1>1, <1>2 DEF onSite, endedAs, LinesIn
  <2> QED BY <2>1, <2>2, <2>3, LinesOfThePast
<1>4. /\ onSite(items', month) \subseteq Equipments /\ onSite(items, month) \subseteq Equipments
      /\ endedAs(items', s, month) \subseteq Equipments
      /\ endedAs(items, s, month) \subseteq Equipments
  BY <1>1 DEF onSite, endedAs, LinesIn, Lines
<1> QED BY <1>3, <1>4

\* A unit that was replaced stays so.
LEMMA ReplacedStays ==
  ASSUME RecordsInv, [Next]_vars, contract.status = "ACTIVE", items' \in Lines, NEW es
  PROVE  replacedOf(items, es) \subseteq replacedOf(items', es)
<1>0. items \in Lines
  BY DEF RecordsInv, TypeInv
<1>1. ASSUME NEW n \in LinesIn(items)
      PROVE  n \in LinesIn(items') /\ items'[n].replaces = items[n].replaces
  <2>1. n \in Equipments /\ items[n] # NoItem /\ n \in DOMAIN items'
    BY <1>0 DEF LinesIn, Lines
  <2>2. CASE items'[n] = items[n]
    BY <2>1, <2>2 DEF LinesIn
  <2>3. ASSUME NEW f \in FinalStatus, items'[n] = settled(items[n], f)
        PROVE  n \in LinesIn(items') /\ items'[n].replaces = items[n].replaces
    <3>1. items[n] \in Items /\ TypeInv
      BY <2>1, <1>0 DEF Lines, RecordsInv
    <3>2. items'[n].replaces = items[n].replaces /\ items'[n] # NoItem
      BY <2>3, <3>1, SettledType
    <3> QED BY <2>1, <3>2 DEF LinesIn
  <2> QED BY <2>1, <2>2, <2>3, LinesOfThePast
<1> QED BY <1>1 DEF replacedOf

LEMMA ReportsKept ==
  ASSUME RecordsInv, RecordsInv', [Next]_vars, NEW month \in 0..Horizon,
         monthRange(month).to <= now, contract.status \in {"ACTIVE", "COMPLETED"}
  PROVE  /\ exceptMarks(closing(db', now', month)) = exceptMarks(closing(db, now, month))
         /\ closing(db, now, month).replaced \subseteq closing(db', now', month).replaced
<1> DEFINE to == monthRange(month).to
           t == closingDate(now, month)
           c == [contract EXCEPT !.status = "ACTIVE"]
           d == [contract' EXCEPT !.status = "ACTIVE"]
<1>1. /\ TypeInv /\ items \in Lines /\ items' \in Lines /\ now \in Instants /\ now' \in Instants
      /\ contract.startDate \in Instants /\ contract.endDate \in Instants
      /\ contract.status = "COMPLETED" => contract.finishDate \in Instants
  BY BillingAssumption DEF RecordsInv, TypeInv, DatesInv
<1>2. now <= now'
  <2>1. CASE Clock
    BY <1>1, <2>1, Lengths DEF Clock, Instants
  <2>2. CASE UNCHANGED vars
    BY <1>1, <2>2, Lengths DEF vars, Instants
  <2> QED
    BY <2>1, <2>2 DEF Next, Wait, CreateELease, AddEquipments, RemoveEquipments, StartContract,
       CancelContract, UpdateEquipment, ReplaceEquipment, CloseContract, ChangePrices
<1>3. /\ t = to - 1 /\ t \in Instants /\ t < now /\ to \in Nat
      /\ monthRange(month).from \in Nat
  BY <1>1, ClosingDates
<1>4. closingDate(now', month) = t
  <2>1. to <= now'
    BY <1>1, <1>2, <1>3, Lengths DEF Instants
  <2> HIDE DEF t
  <2> QED BY <2>1, <1>1, <1>3, ClosingDates
<1>5. /\ contract'.startDate = contract.startDate /\ contract'.endDate = contract.endDate
      /\ contract'.status \in {"ACTIVE", "COMPLETED"}
  <2>1. CASE contract.status = "ACTIVE"
    BY <1>1, <2>1, RunningStep
  <2>2. CASE contract.status = "COMPLETED"
    BY <2>2, CompletedStays
  <2> QED BY <2>1, <2>2
<1>6. asItWas(items', t) = asItWas(items, t)
  <2>1. CASE contract.status = "ACTIVE"
    <3> HIDE DEF t
    <3> QED BY <1>1, <1>3, <2>1, AsItWasStands
  <2>2. CASE contract.status = "COMPLETED"
    BY <2>2, CompletedStays
  <2> QED BY <2>1, <2>2
<1>7. compute(db', d, t) = compute(db, c, t)
  <2>1. \A e \in Equipments, at \in Instants :
          at <= t => priceAt(history[e], at) = priceAt(history'[e], at)
    <3> TAKE e \in Equipments, at \in Instants
    <3> HAVE at <= t
    <3>1. at < now
      BY <1>1, <1>3, Lengths DEF Instants
    <3> QED BY <3>1, <1>1, PastPricesStand
  <2>2. /\ c.status = "ACTIVE" /\ c.startDate = contract.startDate /\ c.endDate = contract.endDate
        /\ d.status = "ACTIVE" /\ d.startDate = contract'.startDate
        /\ d.endDate = contract'.endDate
    BY DEF RecordsInv, TypeInv
  <2>3. /\ compute(db, c, t) = buildStatement(c, items, history, t)
        /\ compute(db', d, t) = buildStatement(d, items', history', t)
    BY <2>2, BillingAssumption DEF compute, db
  <2> HIDE DEF c, d, t
  <2>4. buildStatement(c, items, history, t) = buildStatement(d, items', history', t)
    BY <1>1, <1>3, <1>5, <1>6, <2>1, <2>2, BillOfThePast
  <2> QED BY <2>3, <2>4
<1>8. /\ closedIn(contract', month) <=> closedIn(contract, month)
      /\ activeIn(contract', month) <=> activeIn(contract, month)
      /\ closedIn(contract, month) => contract.status = "COMPLETED" /\ ~ activeIn(contract, month)
  <2>1. CASE contract.status = "ACTIVE"
    <3>1. /\ contract'.startDate = contract.startDate
          /\ contract'.status \in {"ACTIVE", "COMPLETED"}
          /\ contract'.status = "COMPLETED" => contract'.finishDate = now
      BY <1>1, <2>1, RunningStep
    <3>2. ~ (now < to) /\ now >= to
      BY <1>1, <1>3, Lengths DEF Instants
    <3> QED BY <2>1, <3>1, <3>2 DEF closedIn, activeIn, started
  <2>2. CASE contract.status = "COMPLETED"
    <3>1. contract' = contract
      BY <2>2, CompletedStays
    <3>2. ~(contract.finishDate < to /\ contract.finishDate >= to)
      BY <1>1, <1>3, <2>2, Lengths DEF Instants
    <3> QED BY <2>2, <3>1, <3>2 DEF closedIn, activeIn, started
  <2> QED BY <2>1, <2>2
<1>9. /\ onSite(items', month) = onSite(items, month)
      /\ \A s \in {"MAINTENANCE", "STOLEN"} :
            endedAs(items', s, month) = endedAs(items, s, month)
      /\ \A es : replacedOf(items, es) \subseteq replacedOf(items', es)
  <2>1. CASE contract.status = "ACTIVE"
    BY <1>1, <2>1, UnitsOfThePast, ReplacedStays
  <2>2. CASE contract.status = "COMPLETED"
    BY <2>2, CompletedStays
  <2> QED BY <2>1, <2>2
<1>10. /\ db.contract = contract /\ db.items = items /\ db.frozen = frozen
       /\ db'.contract = contract' /\ db'.items = items' /\ db'.frozen = frozen'
  BY DEF db
<1> HIDE DEF t, c, d
<1>11. CASE closedIn(contract, month)
  <2>1. frozen' = frozen
    BY <1>8, <1>11, CompletedStays
  <2>2. /\ closing(db, now, month) = reported("closed", frozen, {}, items, month)
        /\ closing(db', now', month) = reported("closed", frozen, {}, items', month)
    BY <2>1, <1>8, <1>10, <1>11, ClosingOfClosed
  <2> QED BY <2>2, <1>9, ReportsAlike
<1>12. CASE ~ closedIn(contract, month) /\ activeIn(contract, month)
  <2>1. closing(db, now, month) =
          reported("active", compute(db, c, t), onSite(items, month), items, month)
    BY <1>10, <1>12, ClosingOfActive DEF c, t
  <2>2. closing(db', now', month) =
          reported("active", compute(db', d, t), onSite(items', month), items', month)
    <3>1. ~ closedIn(db'.contract, month) /\ activeIn(db'.contract, month)
      BY <1>8, <1>10, <1>12
    <3>2. closing(db', now', month) =
            reported("active", compute(db', [db'.contract EXCEPT !.status = "ACTIVE"],
                                       closingDate(now', month)),
                     onSite(db'.items, month), db'.items, month)
      BY <3>1, ClosingOfActive
    <3> QED BY <3>2, <1>4, <1>10 DEF d
  <2>3. closing(db', now', month) =
          reported("active", compute(db, c, t), onSite(items, month), items', month)
    BY <2>2, <1>7, <1>9
  <2> QED BY <2>1, <2>3, <1>9, ReportsAlike
<1>13. CASE ~ closedIn(contract, month) /\ ~ activeIn(contract, month)
  BY <1>8, <1>10, <1>13, ClosingOfOthers
<1> QED BY <1>11, <1>12, <1>13

\* The report of a month that is over stands for a contract that has started, whatever
\* is returned, replaced, completed or priced afterwards, but for its marks on broken
\* units, which a later substitute may add (billing.service.ts:141-297).
THEOREM ReportsAreForGood == Spec => ReportsStand
<1>1. RecordsInv /\ RecordsInv' /\ [Next]_vars => ReportsStandStep
  BY ReportsKept DEF ReportsStandStep
<1> QED BY <1>1, RecordsHold, PTL DEF Spec, ReportsStand

-----------------------------------------------------------------------------
(***************************************************************************)
(* A completed contract bills each of its lines once.                      *)
(***************************************************************************)
LEMMA OneBack ==
  ASSUME NEW n \in Nat, NEW k \in 1..n, k # 1
  PROVE  k \in 2..n /\ k - 1 \in 1..n /\ k - 1 \in Nat
OBVIOUS

\* No unit is twice in the chain of one that replaces none.
LEMMA ChainIsInjective ==
  ASSUME NEW its, NEW root \in Equipments, NEW units, IsChain(its, root, units),
         its[root].replaces = Null,
         NEW a \in 1..Len(units), NEW b \in 1..Len(units), units[a] = units[b]
  PROVE  a = b
<1>0. units \in Seq(Equipments)
  BY DEF IsChain
<1>1. /\ Len(units) \in Nat \ {0} /\ units[1] = root
      /\ \A i \in 1..Len(units) : units[i] \in Equipments
      /\ \A i \in 2..Len(units) : its[units[i]].replaces = units[i - 1]
  BY <1>0 DEF IsChain
<1> DEFINE T == {i \in Nat : i \in 1..Len(units) /\ \E j \in 1..Len(units) : j # i /\ units[j] = units[i]}
<1> SUFFICES ASSUME T # {} PROVE FALSE
  <2>1. a # b => a \in T
    BY <1>1
  <2> QED BY <2>1
<1>2. T \in SUBSET Nat
  OBVIOUS
<1>3. PICK i \in T : \A k \in T : i <= k
  <2> HIDE DEF T
  <2> QED BY <1>2, Least
<1>4. PICK j \in 1..Len(units) : j # i /\ units[j] = units[i]
  BY <1>3
<1>5. i \in 1..Len(units) /\ j \in T /\ i < j
  <2>1. i \in 1..Len(units) /\ j \in T
    BY <1>1, <1>3, <1>4
  <2> QED BY <2>1, <1>1, <1>3, <1>4
<1>6. /\ its[units[j]].replaces = units[j - 1] /\ units[j - 1] \in Equipments
      /\ j - 1 \in 1..Len(units)
  <2>1. j # 1
    BY <1>5
  <2>2. j \in 2..Len(units) /\ j - 1 \in 1..Len(units)
    BY <2>1, <1>1, OneBack
  <2> QED BY <2>2, <1>1
<1>7. i # 1
  <2> SUFFICES ASSUME i = 1 PROVE FALSE
    OBVIOUS
  <2>1. its[units[j]].replaces = Null
    BY <1>1, <1>4
  <2> QED BY <2>1, <1>6, NullIsNoValue
<1>8. /\ its[units[i]].replaces = units[i - 1]
      /\ i - 1 \in 1..Len(units) /\ i - 1 \in Nat /\ i - 1 < i
  <2>1. i \in 2..Len(units) /\ i - 1 \in 1..Len(units) /\ i - 1 \in Nat
    BY <1>1, <1>5, <1>7, OneBack
  <2> QED BY <2>1, <1>1
<1>9. i - 1 \in T
  <2>1. i \in Int /\ j \in Int /\ j # i
    BY <1>4, <1>5
  <2>2. j - 1 # i - 1
    BY <2>1
  <2>3. units[j - 1] = units[i - 1]
    BY <1>4, <1>6, <1>8
  <2> QED BY <2>2, <2>3, <1>6, <1>8
<1> QED BY <1>3, <1>8, <1>9

\* A walk goes on by a unit each step until it ends.
LEMMA WalkGoesOn ==
  ASSUME NEW its \in Lines, NEW root \in Equipments, NEW n \in Nat,
         NEW walk, Walks(its, root, n, walk)
  PROVE  Len(walk[n]) = n + 1 \/ NextOf(its, Last(walk[n])) = {}
<1>1. walk[0] = <<root>> /\ \A k \in 1..n : walk[k] = Longer(its, walk[k - 1])
  BY WalksFrom
<1>2. \A k \in 0..n : walk[k] \in Seq(Equipments)
  BY WalkShape DEF IsChain
<1> DEFINE ended(k) == NextOf(its, Last(walk[k])) = {}
           T == {k \in Nat : k <= n /\ ~ ended(k) /\ Len(walk[k]) # k + 1}
<1>3. T = {}
  <2> SUFFICES ASSUME T # {} PROVE FALSE
    OBVIOUS
  <2>1. T \in SUBSET Nat
    OBVIOUS
  <2>2. PICK k \in T : \A j \in T : k <= j
    <3> HIDE DEF T
    <3> QED BY <2>1, Least
  <2>3. k \in Nat /\ k <= n /\ ~ ended(k) /\ Len(walk[k]) # k + 1
    BY <2>2
  <2>4. k # 0
    <3> SUFFICES ASSUME k = 0 PROVE FALSE
      OBVIOUS
    <3>1. walk[k] = <<root>>
      BY <1>1
    <3>2. Len(walk[k]) = 1
      BY <3>1
    <3> QED BY <3>2, <2>3
  <2>5. k \in 1..n /\ k - 1 \in 0..n /\ k - 1 \in Nat /\ k - 1 <= n /\ k - 1 < k
    BY <2>3, <2>4
  <2>6. walk[k] = Longer(its, walk[k - 1])
    BY <2>5, <1>1
  <2>7. CASE ended(k - 1)
    <3>1. walk[k] = walk[k - 1]
      BY <2>6, <2>7 DEF Longer
    <3> QED BY <3>1, <2>3, <2>7
  <2>8. CASE ~ ended(k - 1)
    <3>1. Len(walk[k - 1]) = k
      <4>1. k - 1 \notin T
        <5> HIDE DEF T
        <5> QED BY <2>2, <2>3, <2>5
      <4> HIDE DEF ended
      <4> QED BY <4>1, <2>5, <2>8
    <3>2. walk[k - 1] \in Seq(Equipments)
      BY <2>5, <1>2
    <3>3. walk[k] = Append(walk[k - 1], AnyOf(NextOf(its, Last(walk[k - 1]))))
      BY <2>6, <2>8 DEF Longer
    <3>4. Len(walk[k]) = k + 1
      BY <3>1, <3>2, <3>3
    <3> QED BY <3>4, <2>3
  <2> QED BY <2>7, <2>8
<1>4. n \notin T
  BY <1>3
<1> QED BY <1>4

\* chainFrom takes as many steps as there are units, so it goes to the end of a chain.
LEMMA ChainEnds ==
  ASSUME NEW its \in Lines, NEW root \in Equipments, its[root].replaces = Null
  PROVE  NextOf(its, Last(chainFrom(its, root))) = {}
<1> DEFINE n == Cardinality(Equipments)
<1>1. n \in Nat /\ DOMAIN its = Equipments
  BY FewUnits DEF Lines
<1>2. PICK walk : Walks(its, root, n, walk) /\ chainFrom(its, root) = walk[n]
  BY <1>1, ChainWalks
<1>3. IsFiniteSet(1..n + 1) /\ Cardinality(1..n + 1) > n
  <2>1. n + 1 \in Int /\ 1 \in Int /\ ~(1 > n + 1) /\ (n + 1) - 1 + 1 > n
    BY <1>1
  <2> HIDE DEF n
  <2> QED BY <2>1, FS_Interval
<1> DEFINE w == walk[n]
<1> SUFFICES ASSUME NextOf(its, Last(w)) # {} PROVE FALSE
  BY <1>2
<1>4. Len(w) = n + 1
  <2> HIDE DEF n
  <2> QED BY <1>1, <1>2, WalkGoesOn
<1>5. IsChain(its, root, w)
  <2> HIDE DEF n
  <2> QED BY <1>1, <1>2, WalkShape
<1> HIDE DEF w
<1>6. w \in [1..n + 1 -> Equipments]
  <2>1. w \in Seq(Equipments)
    BY <1>5 DEF IsChain
  <2> QED BY <2>1, <1>4
<1>7. PICK x, y \in 1..n + 1 : x # y /\ w[x] = w[y]
  <2>1. IsFiniteSet(Equipments) /\ Cardinality(Equipments) < Cardinality(1..n + 1)
    BY <1>1, <1>3, BillingAssumption, FS_CardinalityType
  <2> HIDE DEF n
  <2> QED BY <2>1, <1>3, <1>6, FS_PigeonHole
<1> QED BY <1>4, <1>5, <1>7, ChainIsInjective

\* Two positions that share a unit are one.
LEMMA PositionsAreDisjoint ==
  ASSUME NEW its \in Lines, NEW u \in positionsOf(its), NEW v \in positionsOf(its),
         NEW a \in 1..Len(u), NEW b \in 1..Len(v), u[a] = v[b]
  PROVE  u = v
<1>1. /\ u \in Seq(Equipments) /\ Len(u) \in Nat \ {0} /\ its[u[1]].replaces = Null
      /\ \A i \in 1..Len(u) : u[i] \in Equipments
      /\ \A i \in 2..Len(u) : its[u[i]].replaces = u[i - 1]
  BY PositionLines
<1>2. /\ v \in Seq(Equipments) /\ Len(v) \in Nat \ {0} /\ its[v[1]].replaces = Null
      /\ \A i \in 1..Len(v) : v[i] \in Equipments
      /\ \A i \in 2..Len(v) : its[v[i]].replaces = v[i - 1]
  BY PositionLines
<1> DEFINE T == {i \in Nat : i \in 1..Len(u) /\ \E j \in 1..Len(v) : u[i] = v[j]}
<1>3. T \in SUBSET Nat /\ T # {}
  BY <1>1
<1>4. PICK i \in T : \A k \in T : i <= k
  <2> HIDE DEF T
  <2> QED BY <1>3, Least
<1>5. PICK j \in 1..Len(v) : u[i] = v[j]
  BY <1>4
<1>6. i = 1
  <2> SUFFICES ASSUME i # 1 PROVE FALSE
    OBVIOUS
  <2>1. i \in 2..Len(u) /\ i - 1 \in 1..Len(u) /\ its[u[i]].replaces = u[i - 1]
    BY <1>1, <1>4
  <2>2. j # 1
    BY <2>1, <1>1, <1>2, <1>5, NullIsNoValue
  <2>3. j - 1 \in 1..Len(v) /\ its[v[j]].replaces = v[j - 1]
    BY <2>2, <1>2
  <2>4. i - 1 \in T
    BY <2>1, <2>3, <1>5
  <2> QED BY <2>4, <1>4
<1>7. j = 1
  <2> SUFFICES ASSUME j # 1 PROVE FALSE
    OBVIOUS
  <2>1. its[v[j]].replaces = v[j - 1] /\ v[j - 1] \in Equipments
    BY <1>2
  <2> QED BY <2>1, <1>1, <1>5, <1>6, NullIsNoValue
<1>8. Head(u) = Head(v)
  BY <1>5, <1>6, <1>7, PositionLines
<1> QED BY <1>8, RootsOf

\* Each line is in a position.
LEMMA PositionsCover ==
  ASSUME RecordsInv, contract.status = "COMPLETED", NEW e \in Equipments, items[e] # NoItem
  PROVE  \E units \in positionsOf(items) : \E i \in 1..Len(units) : units[i] = e
<1>0. items \in Lines
  BY DEF RecordsInv, TypeInv
<1> DEFINE in(u) == \E units \in positionsOf(items) : \E i \in 1..Len(units) : units[i] = u
           T == {d \in Nat : \E u \in Equipments : items[u] # NoItem /\ items[u].finishDate = d /\ ~ in(u)}
<1>1. \A u \in Equipments : items[u] # NoItem =>
        /\ items[u].finishDate \in Nat
        /\ items[u].replaces \in Equipments \cup {Null}
        /\ items[u].replaces # Null =>
             /\ items[items[u].replaces] # NoItem
             /\ items[items[u].replaces].finishDate < items[u].finishDate
  <2> TAKE u \in Equipments
  <2> HAVE items[u] # NoItem
  <2>1. /\ LineFits(u) /\ items[u].startDate \in Instants
        /\ items[u].finishDate \in Instants \cup {Null} /\ items[u].replaces \in Equipments \cup {Null}
    BY <1>0, LineTypes DEF RecordsInv, LinesInv
  <2>2. items[u].finishDate \in Instants /\ items[u].finishDate # Null
    BY <2>1 DEF LineFits
  <2>3. items[u].replaces # Null => FollowsOld(u)
    BY <2>1 DEF LineFits
  <2> QED BY <2>1, <2>2, <2>3, NullIsNoValue, Lengths DEF FollowsOld, Instants
<1> SUFFICES ASSUME ~ in(e) PROVE FALSE
  OBVIOUS
<1>2. T \in SUBSET Nat /\ T # {}
  BY <1>1
<1>3. PICK d \in T : \A k \in T : d <= k
  <2> HIDE DEF T
  <2> QED BY <1>2, Least
<1>4. PICK u \in Equipments : items[u] # NoItem /\ items[u].finishDate = d /\ ~ in(u)
  BY <1>3
<1>5. CASE items[u].replaces = Null
  <2>1. u \in Roots(items)
    BY <1>0, <1>4, <1>5 DEF Roots, LinesIn, Lines
  <2>2. chainFrom(items, u) \in positionsOf(items)
    BY <2>1, <1>0, RootsOf
  <2>3. chainFrom(items, u)[1] = u /\ 1 \in 1..Len(chainFrom(items, u))
    BY <1>0, ChainShape DEF IsChain
  <2> QED BY <2>2, <2>3, <1>4
<1>6. CASE items[u].replaces # Null
  <2> DEFINE old == items[u].replaces
  <2>1. old \in Equipments /\ items[old] # NoItem /\ items[old].finishDate \in Nat
        /\ items[old].finishDate < d
    BY <1>1, <1>4, <1>6
  <2>2. in(old)
    BY <2>1, <1>3
  <2>3. PICK units \in positionsOf(items) : \E i \in 1..Len(units) : units[i] = old
    BY <2>2
  <2>4. PICK i \in 1..Len(units) : units[i] = old
    BY <2>3
  <2>5. /\ units \in Seq(Equipments) /\ Len(units) \in Nat \ {0} /\ Head(units) = units[1]
        /\ \A k \in 1..Len(units) : units[k] \in Equipments
        /\ \A k \in 2..Len(units) : items[units[k]].replaces = units[k - 1]
    BY <1>0, PositionLines
  <2>6. CASE i = Len(units)
    <3>1. PICK root \in Roots(items) : units = chainFrom(items, root)
      BY <1>0, RootsOf
    <3>2. root \in Equipments /\ items[root].replaces = Null
      BY <3>1, <1>0, RootsOf DEF Roots
    <3>3. NextOf(items, Last(units)) = {}
      BY <3>1, <3>2, <1>0, ChainEnds
    <3>4. Last(units) = old
      BY <2>4, <2>6 DEF Last
    <3>5. u \in NextOf(items, old)
      BY <1>0 DEF NextOf, Lines
    <3> QED BY <3>3, <3>4, <3>5
  <2>7. CASE i # Len(units)
    <3>1. i + 1 \in 2..Len(units) /\ i + 1 \in 1..Len(units)
      BY <2>5, <2>7
    <3>2. items[units[i + 1]].replaces = old /\ units[i + 1] \in Equipments
      BY <3>1, <2>4, <2>5
    <3>3. units[i + 1] = u
      BY <3>2, <1>6 DEF RecordsInv, LinesInv, OneSubstitute
    <3> QED BY <3>1, <3>3, <1>4
  <2> QED BY <2>6, <2>7
<1> QED BY <1>5, <1>6

\* A completed contract bills every line in one position only, and indemnifies each theft
\* once: each line has one substitute, and none replaces itself in the end
\* (statement.ts:71-90, which follows one substitute of each line).
THEOREM LinesAreBilledOnce == Spec => []EveryLineBilledOnce
<1>1. RecordsInv /\ FrozenIsRecomputed => EveryLineBilledOnce
  <2> SUFFICES ASSUME RecordsInv, FrozenIsRecomputed, contract.status = "COMPLETED"
               PROVE  /\ \A e \in LinesIn(items) :
                           Cardinality({units \in DOMAIN frozen : e \in Range(units)}) = 1
                      /\ \A units \in DOMAIN frozen :
                           DOMAIN frozen[units].indemnities =
                             {e \in Range(units) : items[e].finalStatus = "STOLEN"}
    BY DEF EveryLineBilledOnce
  <2>0. items \in Lines
    BY DEF RecordsInv, TypeInv
  <2>1. frozen = [units \in positionsOf(items) |->
                    chargePosition(history, items, units, plannedDays, billedAt)]
    <3>1. linesRead = items
      BY BillingAssumption DEF linesRead
    <3> QED BY <3>1, StatementIs DEF FrozenIsRecomputed
  <2>2. ASSUME NEW e \in LinesIn(items)
        PROVE  Cardinality({units \in DOMAIN frozen : e \in Range(units)}) = 1
    <3>1. e \in Equipments /\ items[e] # NoItem
      BY <2>0 DEF LinesIn, Lines
    <3>2. PICK units \in positionsOf(items) : \E i \in 1..Len(units) : units[i] = e
      BY <3>1, PositionsCover
    <3>3. \A u \in positionsOf(items) :
            e \in Range(u) <=> \E i \in 1..Len(u) : u[i] = e
      <4> TAKE u \in positionsOf(items)
      <4>1. u \in Seq(Equipments)
        BY <2>0, PositionLines
      <4> QED BY <4>1 DEF Range
    <3>4. \A u \in positionsOf(items) : e \in Range(u) => u = units
      BY <2>0, <3>2, <3>3, PositionsAreDisjoint
    <3>5. {u \in DOMAIN frozen : e \in Range(u)} = {units}
      BY <2>1, <3>2, <3>3, <3>4
    <3> QED BY <3>5, FS_Singleton
  <2>3. ASSUME NEW units \in DOMAIN frozen
        PROVE  DOMAIN frozen[units].indemnities =
                 {e \in Range(units) : items[e].finalStatus = "STOLEN"}
    <3>1. frozen[units] = chargePosition(history, items, units, plannedDays, billedAt)
      BY <2>1
    <3>2. DOMAIN chargePosition(history, items, units, plannedDays, billedAt).indemnities =
            {e \in Range(units) : items[e].finalStatus = "STOLEN"}
      BY DEF chargePosition
    <3> QED BY <3>1, <3>2
  <2> QED BY <2>2, <2>3
<1> QED BY <1>1, RecordsHold, FrozenStands, PTL

-----------------------------------------------------------------------------
(***************************************************************************)
(* The simulation of what happened.                                        *)
(***************************************************************************)
\* While a unit has one price table, its line was signed at that one.
PricesInv ==
  \A e \in Equipments :
    items[e] # NoItem /\ Len(history[e]) = 1 => items[e].prices = history[e][1].prices

\* A step takes a line's prices from the registry or leaves them alone.
LEMMA LinePrices ==
  ASSUME TypeInv, [Next]_vars, NEW e \in Equipments, items'[e] # NoItem
  PROVE  \/ items[e] # NoItem /\ items'[e].prices = items[e].prices
         \/ items'[e].prices = Last(history[e]).prices
<1>0. items \in Lines /\ DOMAIN items = Equipments
  BY DEF TypeInv, Lines
<1>1. CASE items'[e] = items[e]
  BY <1>1
<1>2. ASSUME NEW start, NEW old, items'[e] = NewItem(e, start, old)
      PROVE  items'[e].prices = Last(history[e]).prices
  BY <1>2 DEF NewItem
<1>3. ASSUME items[e] # NoItem, NEW s, items'[e] = settled(items[e], s)
      PROVE  items'[e].prices = items[e].prices
  <2>1. items[e] \in Items
    BY <1>0, <1>3 DEF Lines
  <2> QED BY <1>3, <2>1 DEF settled, Items
<1>4. ASSUME NEW period \in Periods, NEW es \in SUBSET Equipments, CreateELease(period, es)
      PROVE  \E start, old : items'[e] = NewItem(e, start, old)
  BY <1>4 DEF CreateELease
<1>5. ASSUME NEW es \in SomeEquipments, AddEquipments(es)
      PROVE  items'[e] = items[e] \/ \E start, old : items'[e] = NewItem(e, start, old)
  BY <1>5 DEF AddEquipments
<1>6. ASSUME NEW es \in SomeEquipments, RemoveEquipments(es)
      PROVE  items'[e] = items[e]
  BY <1>6 DEF RemoveEquipments
<1>7. ASSUME NEW es \in SomeEquipments, NEW s \in {"AVAILABLE", "STOLEN", "MAINTENANCE"},
             UpdateEquipment(es, s)
      PROVE  items'[e] = items[e] \/ (items[e] # NoItem /\ \E f : items'[e] = settled(items[e], f))
  BY <1>7 DEF UpdateEquipment, LinesIn
<1>8. ASSUME CancelContract
      PROVE  items'[e] = items[e] \/ (items[e] # NoItem /\ \E f : items'[e] = settled(items[e], f))
  BY <1>8 DEF CancelContract, LinesIn
<1>9. ASSUME NEW oldOf \in Replacements, ReplaceEquipment(oldOf)
      PROVE  items'[e] = items[e] \/ \E start, old : items'[e] = NewItem(e, start, old)
  BY <1>9 DEF ReplaceEquipment
<1>10. CASE items' # items
  <2>1. ~ Wait /\ ~ StartContract /\ ~ CloseContract /\ ~ UNCHANGED vars
    BY <1>10 DEF Wait, StartContract, CloseContract, vars
  <2>2. \A u, p : ~ ChangePrices(u, p)
    BY <1>10 DEF ChangePrices
  <2> QED BY <2>1, <2>2, <1>1, <1>2, <1>3, <1>4, <1>5, <1>6, <1>7, <1>8, <1>9 DEF Next
<1> QED BY <1>1, <1>10

LEMMA PricesKept ==
  ASSUME TypeInv, PricesInv, [Next]_vars PROVE PricesInv'
<1> SUFFICES ASSUME NEW e \in Equipments, items'[e] # NoItem, Len(history'[e]) = 1
             PROVE  items'[e].prices = history'[e][1].prices
  BY DEF PricesInv
<1>1. history[e] \in Seq(PricePoint) /\ Len(history[e]) > 0
  BY DEF TypeInv, Histories
<1>2. history'[e] = history[e]
  <2> SUFFICES ASSUME history'[e] # history[e] PROVE FALSE
    OBVIOUS
  <2>1. PICK u \in Equipments, p \in Tables : ChangePrices(u, p)
    BY HistoryStep
  <2>2. history'[e] = Append(history[e], [from |-> now, prices |-> p])
    BY <2>1, PricesAppended
  <2>3. Len(Append(history[e], [from |-> now, prices |-> p])) = Len(history[e]) + 1
    BY <1>1
  <2>4. Len(history[e]) + 1 = 1
    BY <2>2, <2>3
  <2>5. Len(history[e]) \in Nat
    BY <1>1
  <2> QED BY <1>1, <2>4, <2>5
<1>3. Last(history[e]) = history[e][1]
  BY <1>2 DEF Last
<1> QED BY <1>2, <1>3, LinePrices DEF PricesInv

LEMMA PricesHold == Spec => []PricesInv
<1>1. Init => PricesInv
  BY DEF Init, PricesInv
<1>2. RecordsInv /\ PricesInv /\ [Next]_vars => PricesInv'
  BY PricesKept DEF RecordsInv
<1> QED BY <1>1, <1>2, RecordsHold, PTL DEF Spec

LEMMA OnePrice ==
  ASSUME NEW tables, DOMAIN tables = {1}, NEW at
  PROVE  priceAt(tables, at) = tables[1].prices
<1> DEFINE known == {i \in DOMAIN tables : tables[i].from <= at}
<1>1. priceAt(tables, at) = tables[IF known = {} THEN 1 ELSE Max(known)].prices
  BY DEF priceAt
<1>2. CASE known = {}
  BY <1>1, <1>2
<1>3. CASE known # {}
  <2>1. known = {1}
    BY <1>3
  <2> HIDE DEF known
  <2>2. Max(known) = 1
    BY <2>1, Greatest
  <2> QED BY <1>1, <1>3, <2>2
<1> QED BY <1>2, <1>3

LEMMA TwoInstants ==
  ASSUME NEW a \in Nat, NEW b \in Nat, a <= b
  PROVE  Max({b, a}) = b /\ Min({a, b}) = a
<1>1. Max({b, a}) = CHOOSE m \in {b, a} : \A y \in {b, a} : m >= y
  BY DEF Max
<1>2. Min({a, b}) = CHOOSE m \in {a, b} : \A y \in {a, b} : m <= y
  BY DEF Min
<1> QED BY <1>1, <1>2

\* A walk stays where it ends.
LEMMA WalkStops ==
  ASSUME NEW its, NEW root, NEW n \in Nat, NEW walk, Walks(its, root, n, walk),
         NEW m \in Nat, m <= n, NextOf(its, Last(walk[m])) = {}
  PROVE  walk[n] = walk[m]
<1>1. walk[0] = <<root>> /\ \A k \in 1..n : walk[k] = Longer(its, walk[k - 1])
  BY DEF Walks
<1> DEFINE T == {k \in Nat : m <= k /\ k <= n /\ walk[k] # walk[m]}
<1> SUFFICES ASSUME T # {} PROVE FALSE
  OBVIOUS
<1>2. T \in SUBSET Nat
  OBVIOUS
<1>3. PICK k \in T : \A j \in T : k <= j
  <2> HIDE DEF T
  <2> QED BY <1>2, Least
<1>4. k \in Nat /\ m <= k /\ k <= n /\ walk[k] # walk[m] /\ k # m
  BY <1>3
<1>5. k \in 1..n /\ k - 1 \in Nat /\ m <= k - 1 /\ k - 1 <= n /\ k - 1 < k
  BY <1>4
<1>6. walk[k - 1] = walk[m]
  BY <1>3, <1>5
<1>7. walk[k] = walk[m]
  BY <1>1, <1>5, <1>6 DEF Longer
<1> QED BY <1>4, <1>7

\* The chains of lines of any names that have one substitute at most.
LEMMA ShortChains ==
  ASSUME NEW its, NEW e, Cardinality(DOMAIN its) \in Nat \ {0}
  PROVE  /\ NextOf(its, e) = {} => chainFrom(its, e) = <<e>>
         /\ \A s : NextOf(its, e) = {s} /\ NextOf(its, s) = {} => chainFrom(its, e) = <<e, s>>
<1> DEFINE n == Cardinality(DOMAIN its)
<1>1. PICK walk : Walks(its, e, n, walk) /\ chainFrom(its, e) = walk[n]
  BY ChainWalks
<1>2. n \in Nat /\ 1 <= n
  OBVIOUS
<1> HIDE DEF n
<1>3. walk[0] = <<e>> /\ \A k \in 1..n : walk[k] = Longer(its, walk[k - 1])
  BY <1>1, <1>2 DEF Walks
<1>4. Last(<<e>>) = e
  <2>1. Len(<<e>>) = 1 /\ <<e>>[1] = e
    OBVIOUS
  <2> QED BY <2>1 DEF Last
<1>5. ASSUME NextOf(its, e) = {} PROVE chainFrom(its, e) = <<e>>
  <2>1. NextOf(its, Last(walk[0])) = {}
    BY <1>3, <1>4, <1>5
  <2>2. walk[n] = walk[0]
    BY <2>1, <1>1, <1>2, WalkStops
  <2> QED BY <2>2, <1>1, <1>3
<1>6. ASSUME NEW s, NextOf(its, e) = {s}, NextOf(its, s) = {} PROVE chainFrom(its, e) = <<e, s>>
  <2>1. Len(<<e, s>>) = 2 /\ <<e, s>>[2] = s
    OBVIOUS
  <2>2. Last(<<e, s>>) = s
    BY <2>1 DEF Last
  <2>3. Append(<<e>>, s) = <<e, s>>
    <3> DEFINE S == {e, s}
    <3>1. e \in S /\ s \in S
      OBVIOUS
    <3> HIDE DEF S
    <3>2. <<e>> \in Seq(S) /\ Len(<<e>>) = 1 /\ <<e>>[1] = e
      BY <3>1
    <3>3. /\ Append(<<e>>, s) \in Seq(S) /\ Len(Append(<<e>>, s)) = 2
          /\ Append(<<e>>, s)[1] = e /\ Append(<<e>>, s)[2] = s
      BY <3>1, <3>2
    <3>4. /\ <<e, s>> \in Seq(S) /\ Len(<<e, s>>) = 2
          /\ <<e, s>>[1] = e /\ <<e, s>>[2] = s
      BY <3>1
    <3>5. \A i \in 1..2 : Append(<<e>>, s)[i] = <<e, s>>[i]
      BY <3>3, <3>4
    <3> QED BY <3>3, <3>4, <3>5, SeqEqual
  <2>4. AnyOf({s}) = s
    BY DEF AnyOf
  <2>5. walk[1] = Longer(its, <<e>>)
    BY <1>2, <1>3
  <2>6. walk[1] = <<e, s>>
    BY <2>3, <2>4, <2>5, <1>4, <1>6 DEF Longer
  <2>7. NextOf(its, Last(walk[1])) = {}
    BY <2>2, <2>6, <1>6
  <2>8. walk[n] = walk[1]
    BY <2>7, <1>1, <1>2, WalkStops
  <2> QED BY <2>6, <2>8, <1>1
<1> QED BY <1>5, <1>6

\* A chain of a unit, and one of a unit and its substitute.
LEMMA ShortRanges ==
  /\ \A e : Len(<<e>>) = 1 /\ Head(<<e>>) = e /\ Last(<<e>>) = e /\ Range(<<e>>) = {e}
  /\ \A e, s : /\ Len(<<e, s>>) = 2 /\ Head(<<e, s>>) = e /\ Last(<<e, s>>) = s
               /\ Range(<<e, s>>) = {e, s}
<1>1. ASSUME NEW e
      PROVE  Len(<<e>>) = 1 /\ Head(<<e>>) = e /\ Last(<<e>>) = e /\ Range(<<e>>) = {e}
  <2>1. Len(<<e>>) = 1 /\ <<e>>[1] = e /\ Head(<<e>>) = e /\ DOMAIN <<e>> = {1}
    OBVIOUS
  <2> QED BY <2>1 DEF Last, Range
<1>2. ASSUME NEW e, NEW s
      PROVE  /\ Len(<<e, s>>) = 2 /\ Head(<<e, s>>) = e /\ Last(<<e, s>>) = s
             /\ Range(<<e, s>>) = {e, s}
  <2>1. /\ Len(<<e, s>>) = 2 /\ <<e, s>>[1] = e /\ <<e, s>>[2] = s /\ Head(<<e, s>>) = e
        /\ DOMAIN <<e, s>> = {1, 2}
    OBVIOUS
  <2> QED BY <2>1 DEF Last, Range
<1> QED BY <1>1, <1>2

\* Whatever the instant, a unit of the chain is the one on site.
LEMMA SomeUnitOnSite ==
  ASSUME NEW its, NEW units, NEW n \in Nat \ {0}, DOMAIN units = 1..n, NEW at
  PROVE  unitOnSite(its, units, at) \in Range(units)
<1> DEFINE came == {i \in DOMAIN units : its[units[i]].startDate <= at}
<1>1. unitOnSite(its, units, at) = units[IF came = {} THEN 1 ELSE Max(came)]
  BY DEF unitOnSite
<1>2. came \in SUBSET Nat /\ came \subseteq DOMAIN units /\ \A x \in came : x <= n
  OBVIOUS
<1> HIDE DEF came
<1>3. CASE came = {}
  BY <1>1, <1>3 DEF Range
<1>4. CASE came # {}
  <2>1. Max(came) \in came
    BY <1>2, <1>4, Greatest
  <2> QED BY <2>1, <1>1, <1>2, <1>4 DEF Range
<1> QED BY <1>3, <1>4

\* The units of a chain have one price, whatever the instant.
OneFor(hist, units, p) == \A e \in Range(units) : \A at : priceAt(hist[e], at) = p

LEMMA FlatRenewals ==
  ASSUME NEW its, NEW units, NEW n \in Nat \ {0}, DOMAIN units = 1..n,
         NEW hist, NEW p, OneFor(hist, units, p), NEW days, NEW planned
  PROVE  renewals(hist, its, units, days, planned) =
           [i \in 1..expired(days, planned) - 1 |-> coverOf[p][planned]]
<1> DEFINE from(i) == addDays(its[units[1]].startDate, i * planned)
<1>1. renewals(hist, its, units, days, planned) =
        [i \in 1..expired(days, planned) - 1 |->
           coverOf[priceAt(hist[unitOnSite(its, units, from(i))], from(i))][planned]]
  BY DEF renewals
<1> HIDE DEF from
<1>2. ASSUME NEW i PROVE priceAt(hist[unitOnSite(its, units, from(i))], from(i)) = p
  BY SomeUnitOnSite DEF OneFor
<1> QED BY <1>1, <1>2

\* What chargePosition takes for granted of a chain.
ChainOfUnits(units) ==
  /\ \E n \in Nat \ {0} : DOMAIN units = 1..n
  /\ Head(units) = units[1] /\ Last(units) \in Range(units)

\* Two chains that were on site together, signed at one price and with the same thefts.
SameStay(its, units, at, other, names, asOf) ==
  /\ its[units[1]].startDate = other[names[1]].startDate
  /\ its[units[1]].prices = other[names[1]].prices
  /\ endOf(its[Last(units)], at) = endOf(other[Last(names)], asOf)
  /\ {e \in Range(units) : its[e].finalStatus = "STOLEN"}
       = {e \in Range(names) : other[e].finalStatus = "STOLEN"}

\* With one price for all its units, what a position charges depends only on that.
LEMMA FlatCharge ==
  ASSUME NEW its, NEW units, ChainOfUnits(units), NEW hist,
         NEW other, NEW names, ChainOfUnits(names), NEW past,
         NEW p, OneFor(hist, units, p), OneFor(past, names, p),
         NEW planned, NEW at, NEW asOf, SameStay(its, units, at, other, names, asOf)
  PROVE  chargePosition(hist, its, units, planned, at)
           = chargePosition(past, other, names, planned, asOf)
<1> DEFINE end == endOf(its[Last(units)], at)
           days == calendarDays(its[units[1]].startDate, end)
           thefts == {e \in Range(units) : its[e].finalStatus = "STOLEN"}
<1>0. /\ its[units[1]].startDate = other[names[1]].startDate
      /\ its[units[1]].prices = other[names[1]].prices
      /\ endOf(its[Last(units)], at) = endOf(other[Last(names)], asOf)
      /\ {e \in Range(units) : its[e].finalStatus = "STOLEN"}
           = {e \in Range(names) : other[e].finalStatus = "STOLEN"}
      /\ Last(units) \in Range(units) /\ Last(names) \in Range(names)
  BY DEF SameStay, ChainOfUnits
<1>1. signedBy(units) = units[1] /\ signedBy(names) = names[1]
  BY DEF signedBy, ChainOfUnits
<1>2. renewals(hist, its, units, days, planned) = renewals(past, other, names, days, planned)
  <2> HIDE DEF days
  <2>1. renewals(hist, its, units, days, planned) =
          [i \in 1..expired(days, planned) - 1 |-> coverOf[p][planned]]
    BY FlatRenewals DEF ChainOfUnits
  <2>2. renewals(past, other, names, days, planned) =
          [i \in 1..expired(days, planned) - 1 |-> coverOf[p][planned]]
    BY <1>0, FlatRenewals DEF ChainOfUnits
  <2> QED BY <2>1, <2>2
<1>3. [e \in thefts |-> priceAt(hist[e], at).indemnity]
        = [e \in thefts |-> priceAt(past[e], asOf).indemnity]
  <2>1. \A e \in thefts : e \in Range(units) /\ e \in Range(names)
    BY <1>0
  <2>2. \A e \in thefts : priceAt(hist[e], at) = priceAt(past[e], asOf)
    BY <2>1 DEF OneFor
  <2> HIDE DEF thefts
  <2> QED BY <2>2
<1>4. priceAt(hist[Last(units)], end) = priceAt(past[Last(names)], end)
  <2> HIDE DEF end
  <2> QED BY <1>0 DEF OneFor
<1>5. thefts = {e \in Range(names) : other[e].finalStatus = "STOLEN"}
  BY <1>0
<1>6. end = endOf(other[Last(names)], asOf)
  BY <1>0
<1>7. days = calendarDays(other[names[1]].startDate, end)
  BY <1>0
<1> HIDE DEF days, thefts, end
<1> QED
  BY <1>0, <1>1, <1>2, <1>3, <1>4, <1>5, <1>6, <1>7 DEF chargePosition, days, thefts, end

\* In a story that can be told, a substitute is never replaced in its turn.
LEMMA ToldChains ==
  ASSUME RecordsInv, contract.status = "COMPLETED", Tellable, NEW e \in Roots(items)
  PROVE  LET units == chainFrom(items, e) IN
         /\ units = <<e>> \/ \E s \in Equipments : units = <<e, s>>
         /\ Len(units) > 1 =>
              /\ Len(units) = 2 /\ units[2] \in Equipments /\ items[units[2]] # NoItem
              /\ items[units[2]].replaces = e /\ items[units[2]].finalStatus = "AVAILABLE"
              /\ items[e].finalStatus \in {"STOLEN", "MAINTENANCE"}
              /\ items[e].finishDate < items[units[2]].finishDate
<1> DEFINE units == chainFrom(items, e)
<1>0. items \in Lines
  BY DEF RecordsInv, TypeInv
<1>1. /\ e \in Equipments /\ items[e] # NoItem /\ units \in positionsOf(items)
      /\ Head(units) = e
  BY <1>0, RootsOf DEF Roots, LinesIn
<1>2. /\ units \in Seq(Equipments) /\ Len(units) \in Nat \ {0} /\ Head(units) = units[1]
      /\ \A i \in 1..Len(units) : units[i] \in Equipments /\ items[units[i]] # NoItem
      /\ \A i \in 2..Len(units) : items[units[i]].replaces = units[i - 1]
  <2> HIDE DEF units
  <2> QED BY <1>0, <1>1, PositionLines
<1> HIDE DEF units
<1>3. ASSUME NEW i \in 2..Len(units)
      PROVE  /\ units[i] \in Equipments /\ units[i - 1] \in Equipments
             /\ items[units[i]] # NoItem /\ items[units[i - 1]] # NoItem
             /\ items[units[i]].replaces = units[i - 1]
             /\ items[units[i]].finalStatus = "AVAILABLE"
             /\ items[units[i - 1]].finalStatus \in {"STOLEN", "MAINTENANCE"}
             /\ items[units[i - 1]].finishDate < items[units[i]].finishDate
  <2>1. /\ units[i] \in Equipments /\ units[i - 1] \in Equipments
        /\ items[units[i]] # NoItem /\ items[units[i - 1]] # NoItem
        /\ items[units[i]].replaces = units[i - 1]
    BY <1>2
  <2>2. items[units[i]].replaces # Null
    BY <2>1, NullIsNoValue
  <2>3. units[i] \in LinesIn(items)
    BY <2>1, <1>0 DEF LinesIn, Lines
  <2>4. items[units[i]].finalStatus = "AVAILABLE"
    BY <2>2, <2>3 DEF Tellable
  <2>5. LineFits(units[i])
    BY <2>1 DEF RecordsInv, LinesInv
  <2>6. FollowsOld(units[i]) /\ items[units[i]].finishDate # Null
    BY <2>1, <2>2, <2>5 DEF LineFits
  <2>7. /\ items[units[i - 1]].finalStatus \in {"STOLEN", "MAINTENANCE"}
        /\ items[units[i - 1]].finishDate \in Instants
        /\ items[units[i - 1]].finishDate < items[units[i]].startDate
        /\ items[units[i]].startDate < items[units[i]].finishDate
    BY <2>1, <2>6 DEF FollowsOld
  <2>8. items[units[i]].startDate \in Instants /\ items[units[i]].finishDate \in Instants
    BY <1>0, <2>1, <2>6, LineTypes
  <2>9. items[units[i - 1]].finishDate < items[units[i]].finishDate
    BY <2>7, <2>8, Lengths DEF Instants
  <2> QED BY <2>1, <2>4, <2>7, <2>9
<1>4. Len(units) \in {1, 2}
  <2> SUFFICES ASSUME Len(units) \notin {1, 2} PROVE FALSE
    OBVIOUS
  <2>1. 2 \in 2..Len(units) /\ 3 \in 2..Len(units) /\ 3 - 1 = 2
    <3> DEFINE n == Len(units)
    <3>1. n \in Nat \ {0} /\ n \notin {1, 2}
      BY <1>2
    <3> HIDE DEF n
    <3>2. 2 \in 2..n /\ 3 \in 2..n
      BY <3>1
    <3> QED BY <3>2 DEF n
  <2>2. items[units[2]].finalStatus = "AVAILABLE"
    BY <2>1, <1>3
  <2>3. items[units[3 - 1]].finalStatus \in {"STOLEN", "MAINTENANCE"}
    BY <2>1, <1>3
  <2> QED BY <2>1, <2>2, <2>3
<1>5. CASE Len(units) = 1
  <2>1. <<e>> \in Seq(Equipments) /\ Len(<<e>>) = 1 /\ <<e>>[1] = e
    BY <1>1
  <2>2. units = <<e>>
    BY <2>1, <1>1, <1>2, <1>5, SeqEqual
  <2> QED BY <1>5, <2>2 DEF units
<1>6. CASE Len(units) = 2
  <2>1. units[2] \in Equipments
    BY <1>2, <1>6
  <2> DEFINE s == units[2]
             pair == <<e, s>>
  <2>2. s \in Equipments /\ s = units[2]
    BY <2>1
  <2> HIDE DEF s
  <2>3. pair \in Seq(Equipments) /\ Len(pair) = 2 /\ pair[1] = e /\ pair[2] = s
    BY <2>2, <1>1
  <2> HIDE DEF pair
  <2>4. \A i \in 1..2 : units[i] = pair[i]
    BY <2>2, <2>3, <1>1, <1>2
  <2>5. units = pair
    BY <2>3, <2>4, <1>2, <1>6, SeqEqual
  <2>6. 2 \in 2..Len(units) /\ 2 - 1 = 1 /\ units[1] = e
    BY <1>1, <1>2, <1>6
  <2>7. /\ items[units[2]] # NoItem /\ items[units[2]].replaces = e
        /\ items[units[2]].finalStatus = "AVAILABLE"
        /\ items[e].finalStatus \in {"STOLEN", "MAINTENANCE"}
        /\ items[e].finishDate < items[units[2]].finishDate
    <3>1. items[units[2 - 1]].finalStatus \in {"STOLEN", "MAINTENANCE"}
      BY <2>6, <1>3
    <3>2. items[units[2 - 1]].finishDate < items[units[2]].finishDate
      BY <2>6, <1>3
    <3>3. items[units[2]].replaces = units[2 - 1] /\ items[units[2]] # NoItem
      BY <2>6, <1>3
    <3>4. items[units[2]].finalStatus = "AVAILABLE"
      BY <2>6, <1>3
    <3> QED BY <2>6, <3>1, <3>2, <3>3, <3>4
  <2>8. \E x \in Equipments : units = <<e, x>>
    BY <2>2, <2>5 DEF pair
  <2> QED BY <1>6, <2>1, <2>7, <2>8 DEF units
<1> QED BY <1>4, <1>5, <1>6 DEF units

\* What is told of a unit, from what happened to it.
LEMMA ToldIs ==
  ASSUME RecordsInv, contract.status = "COMPLETED", Tellable, NEW e \in Roots(items)
  PROVE  LET entry == told.items[e]
             replaced == Len(chainFrom(items, e)) > 1
         IN  /\ when(entry, told.startDate) = items[e].finishDate
             /\ entry.event = Null <=> items[e].finalStatus = "AVAILABLE"
             /\ entry.event # Null => entry.event.kind = items[e].finalStatus
             /\ (entry.event # Null /\ entry.event.replaced) <=> replaced
             /\ replaced => entry.returnDate = items[chainFrom(items, e)[2]].finishDate
<1> DEFINE entry == told.items[e]
           units == chainFrom(items, e)
           happened == [kind |-> items[e].finalStatus, date |-> items[e].finishDate,
                        replaced |-> Len(units) > 1]
<1>0. items \in Lines
  BY DEF RecordsInv, TypeInv
<1>1. e \in Equipments /\ items[e] # NoItem /\ e \in LinesIn(items) /\ items[e].replaces = Null
  BY <1>0, RootsOf DEF Roots, LinesIn
<1>2. /\ contract.startDate \in Instants
      /\ items[e].finishDate \in Instants /\ contract.startDate <= items[e].finishDate
      /\ items[e].finalStatus \in FinalStatus
  <2>1. LineFits(e)
    BY <1>1 DEF RecordsInv, LinesInv
  <2>2. items[e].finishDate # Null /\ items[e].finalStatus # Null
    BY <1>1, <2>1 DEF LineFits
  <2>3. contract.startDate \in Instants
    BY BillingAssumption DEF RecordsInv, DatesInv
  <2>4. contract.startDate <= items[e].finishDate
    BY <1>1, <2>2, <2>3, <1>0, LineTypes, Lengths DEF Tellable, Instants
  <2> QED BY <2>2, <2>3, <2>4, <1>0, <1>1, LineTypes
<1>3. /\ told.startDate = contract.startDate
      /\ entry.event = IF items[e].finalStatus = "AVAILABLE" THEN Null ELSE happened
      /\ entry.returnDate = IF items[e].finalStatus = "AVAILABLE" \/ Len(units) > 1
                            THEN items[Last(units)].finishDate ELSE contract.finishDate
  BY <1>1 DEF told
<1>4. /\ units = <<e>> \/ \E s \in Equipments : units = <<e, s>>
      /\ Len(units) > 1 =>
           /\ Len(units) = 2 /\ units[2] \in Equipments /\ items[units[2]] # NoItem
           /\ items[units[2]].replaces = e /\ items[units[2]].finalStatus = "AVAILABLE"
           /\ items[e].finalStatus \in {"STOLEN", "MAINTENANCE"}
           /\ items[e].finishDate < items[units[2]].finishDate
  BY ToldChains
<1>5. happened \in Events \/ items[e].finalStatus = "AVAILABLE"
  <2>1. (Len(units) > 1) \in BOOLEAN
    OBVIOUS
  <2> QED BY <2>1, <1>2 DEF Events, FinalStatus
<1>6. items[e].finalStatus # "AVAILABLE" => happened # Null
  BY <1>5, SimulationAssumption
<1>7. /\ happened.kind = items[e].finalStatus /\ happened.date = items[e].finishDate
      /\ happened.replaced = (Len(units) > 1)
  OBVIOUS
<1>8. Len(units) > 1 => Last(units) = units[2]
  BY <1>4 DEF Last
<1> HIDE DEF happened, units, entry
<1>9. CASE items[e].finalStatus = "AVAILABLE"
  <2>1. ~ (Len(units) > 1) /\ units = <<e>>
    BY <1>4, <1>9, ShortRanges
  <2>2. Last(units) = e
    BY <2>1, ShortRanges
  <2>3. entry.event = Null /\ entry.returnDate = items[e].finishDate
    BY <1>3, <1>9, <2>2
  <2>4. when(entry, told.startDate) = items[e].finishDate
    BY <2>3 DEF when
  <2> QED BY <1>9, <2>1, <2>3, <2>4 DEF entry, units
<1>10. CASE items[e].finalStatus # "AVAILABLE"
  <2>1. entry.event = happened /\ entry.event # Null
    BY <1>3, <1>6, <1>10
  <2>2. CASE Len(units) > 1
    <3>1. entry.returnDate = items[units[2]].finishDate /\ entry.event.replaced
      BY <1>3, <1>7, <1>8, <2>1, <2>2
    <3>2. when(entry, told.startDate)
            = between(items[e].finishDate, contract.startDate, items[units[2]].finishDate)
      BY <3>1, <2>1, <1>3, <1>7 DEF when
    <3>3. items[units[2]].finishDate \in Instants \cup {Null}
      BY <2>2, <1>0, <1>4, LineTypes
    <3>4. items[units[2]].finishDate # Null
      <4>1. LineFits(units[2])
        BY <2>2, <1>4 DEF RecordsInv, LinesInv
      <4> QED BY <4>1, <2>2, <1>4 DEF LineFits
    <3>5. /\ items[units[2]].finishDate \in Nat /\ items[e].finishDate \in Nat
          /\ contract.startDate \in Nat /\ items[e].finishDate <= items[units[2]].finishDate
      BY <3>3, <3>4, <2>2, <1>2, <1>4, Lengths DEF Instants
    <3>6. Max({items[e].finishDate, contract.startDate}) = items[e].finishDate
      BY <3>5, <1>2, TwoInstants
    <3>7. Min({items[e].finishDate, items[units[2]].finishDate}) = items[e].finishDate
      BY <3>5, TwoInstants
    <3>8. when(entry, told.startDate) = items[e].finishDate
      BY <3>2, <3>6, <3>7 DEF between
    <3> QED BY <1>7, <1>10, <2>1, <2>2, <3>1, <3>8 DEF entry, units
  <2>3. CASE ~ (Len(units) > 1)
    <3>1. ~ entry.event.replaced
      BY <1>7, <2>1, <2>3
    <3>2. when(entry, told.startDate) = Max({items[e].finishDate, contract.startDate})
      BY <3>1, <2>1, <1>3, <1>7 DEF when
    <3>3. items[e].finishDate \in Nat /\ contract.startDate \in Nat
      BY <1>2, Lengths DEF Instants
    <3>4. when(entry, told.startDate) = items[e].finishDate
      BY <3>2, <3>3, <1>2, TwoInstants
    <3> QED BY <1>7, <1>10, <2>1, <2>3, <3>1, <3>4 DEF entry, units
  <2> QED BY <2>2, <2>3
<1> QED BY <1>9, <1>10

\* The units that were replaced, and the lines that a simulation gives a unit and its
\* substitute when it is told what happened.
Broken == {e \in Roots(items) : Len(chainFrom(items, e)) > 1}

OwnLine(e) ==
  [startDate |-> contract.startDate, finishDate |-> items[e].finishDate,
   finalStatus |-> items[e].finalStatus, replaces |-> Null, prices |-> items[e].prices]

OtherLine(e) ==
  [startDate |-> items[e].finishDate, finishDate |-> items[chainFrom(items, e)[2]].finishDate,
   finalStatus |-> "AVAILABLE", replaces |-> e, prices |-> items[e].prices]

\* Every line of the contract has had one price, its own.
LEMMA OwnPrice ==
  ASSUME RecordsInv, PricesInv, SamePrices, NEW e \in Equipments, items[e] # NoItem
  PROVE  \A at : priceAt(history[e], at) = items[e].prices
<1>1. items \in Lines /\ history[e] \in Seq(PricePoint)
  BY DEF RecordsInv, TypeInv, Histories
<1>2. e \in LinesIn(items)
  BY <1>1 DEF LinesIn, Lines
<1>3. Len(history[e]) = 1
  BY <1>2 DEF SamePrices
<1>4. DOMAIN history[e] = {1}
  <2>1. DOMAIN history[e] = 1..1
    BY <1>1, <1>3
  <2> QED BY <2>1
<1>5. items[e].prices = history[e][1].prices
  BY <1>3 DEF PricesInv
<1> QED BY <1>4, <1>5, OnePrice

LEMMA SimulatedLines ==
  ASSUME RecordsInv, PricesInv, contract.status = "COMPLETED", Tellable
  PROVE  LET sim == simulatedItems(db, told) IN
         /\ DOMAIN sim = Roots(items) \cup {substituto(e) : e \in Broken}
         /\ \A e \in Roots(items) : sim[e] = OwnLine(e)
         /\ \A e \in Broken : sim[substituto(e)] = OtherLine(e)
<1> DEFINE sim == simulatedItems(db, told)
           given == DOMAIN told.items
           paid(e) == priceAt(history[e], told.startDate)
           own(e) ==
             [startDate |-> told.startDate, finishDate |-> when(told.items[e], told.startDate),
              finalStatus |-> IF told.items[e].event = Null THEN "AVAILABLE"
                              ELSE told.items[e].event.kind,
              replaces |-> Null, prices |-> paid(e)]
           other(e) ==
             [startDate |-> when(told.items[e], told.startDate),
              finishDate |-> told.items[e].returnDate, finalStatus |-> "AVAILABLE",
              replaces |-> e, prices |-> paid(e)]
           replaced == {e \in given : told.items[e].event # Null /\ told.items[e].event.replaced}
<1>1. sim = [n \in given \cup {substituto(e) : e \in replaced} |->
               IF n \in given THEN own(n) ELSE other(n[1])]
  BY DEF simulatedItems, db
<1>2. given = Roots(items) /\ told.startDate = contract.startDate
  BY DEF told, Roots
<1>3. replaced = Broken
  <2>1. \A e \in Roots(items) :
          (told.items[e].event # Null /\ told.items[e].event.replaced)
            <=> Len(chainFrom(items, e)) > 1
    BY ToldIs
  <2> HIDE DEF given
  <2> QED BY <2>1, <1>2 DEF Broken
<1>4. Roots(items) \subseteq Equipments
  BY RootsOf DEF RecordsInv, TypeInv
<1>5. ASSUME NEW e \in Roots(items)
      PROVE  e \in Equipments /\ paid(e) = items[e].prices
  <2>1. e \in Equipments /\ items[e] # NoItem
    BY <1>4 DEF Roots, LinesIn
  <2> QED BY <2>1, OwnPrice DEF Tellable
<1>6. ASSUME NEW e \in Roots(items)
      PROVE  own(e) = OwnLine(e)
  <2>1. /\ when(told.items[e], told.startDate) = items[e].finishDate
        /\ told.items[e].event = Null <=> items[e].finalStatus = "AVAILABLE"
        /\ told.items[e].event # Null => told.items[e].event.kind = items[e].finalStatus
    BY ToldIs
  <2>2. (IF told.items[e].event = Null THEN "AVAILABLE" ELSE told.items[e].event.kind)
          = items[e].finalStatus
    BY <2>1
  <2> HIDE DEF paid
  <2> QED BY <2>1, <2>2, <1>2, <1>5 DEF OwnLine
<1>7. ASSUME NEW e \in Broken
      PROVE  other(e) = OtherLine(e)
  <2>1. e \in Roots(items) /\ Len(chainFrom(items, e)) > 1
    BY DEF Broken
  <2>2. /\ when(told.items[e], told.startDate) = items[e].finishDate
        /\ told.items[e].returnDate = items[chainFrom(items, e)[2]].finishDate
    BY <2>1, ToldIs
  <2> HIDE DEF paid
  <2> QED BY <2>1, <2>2, <1>5 DEF OtherLine
<1> HIDE DEF given, replaced, own, other
<1>8. \A e \in Broken : /\ e \in Roots(items) /\ substituto(e) \notin Roots(items)
                        /\ substituto(e)[1] = e
  BY <1>4, SimulationAssumption DEF Broken, substituto
<1>9. DOMAIN sim = Roots(items) \cup {substituto(e) : e \in Broken}
  BY <1>1, <1>2, <1>3
<1>10. \A e \in Roots(items) : sim[e] = OwnLine(e)
  BY <1>1, <1>2, <1>6
<1>11. \A e \in Broken : sim[substituto(e)] = OtherLine(e)
  <2> TAKE e \in Broken
  <2>1. substituto(e) \in {substituto(x) : x \in Broken}
    OBVIOUS
  <2>2. sim[substituto(e)] = other(substituto(e)[1])
    BY <2>1, <1>1, <1>2, <1>3, <1>8
  <2> QED BY <2>2, <1>7, <1>8
<1> QED BY <1>9, <1>10, <1>11

\* The simulation has a position for each unit that replaced none, of the unit and of
\* its substitute if it had one.
LEMMA SimulatedPositions ==
  ASSUME RecordsInv, PricesInv, contract.status = "COMPLETED", Tellable,
         NEW e \in Roots(items)
  PROVE  LET sim == simulatedItems(db, told)
             named == IF e \in Broken THEN <<e, substituto(e)>> ELSE <<e>>
         IN  named \in positionsOf(sim)
<1> DEFINE sim == simulatedItems(db, told)
           named == IF e \in Broken THEN <<e, substituto(e)>> ELSE <<e>>
<1>1. /\ DOMAIN sim = Roots(items) \cup {substituto(x) : x \in Broken}
      /\ \A x \in Roots(items) : sim[x] = OwnLine(x)
      /\ \A x \in Broken : sim[substituto(x)] = OtherLine(x)
  BY SimulatedLines
<1> HIDE DEF sim
<1>2. /\ Roots(items) \subseteq Equipments /\ IsFiniteSet(Roots(items))
      /\ Broken \subseteq Roots(items)
  BY RootsOf DEF RecordsInv, TypeInv, Broken
<1>3. /\ \A x \in Roots(items) : sim[x].replaces = Null
      /\ \A x \in Broken : sim[substituto(x)].replaces = x
  <2>1. ASSUME NEW x \in Roots(items) PROVE sim[x].replaces = Null
    BY <1>1 DEF OwnLine
  <2>2. ASSUME NEW x \in Broken PROVE sim[substituto(x)].replaces = x
    <3>1. sim[substituto(x)] = OtherLine(x)
      BY <1>1
    <3> QED BY <3>1 DEF OtherLine
  <2> QED BY <2>1, <2>2
<1>4. \A x \in Broken : x \in Equipments /\ substituto(x) \notin Equipments \cup {Null}
  BY <1>2, SimulationAssumption
<1>5. Null \notin Equipments
  BY NullIsNoValue
<1>6. e \in Broken => NextOf(sim, e) = {substituto(e)}
  BY <1>1, <1>2, <1>3, <1>5 DEF NextOf
<1>7. e \notin Broken => NextOf(sim, e) = {}
  BY <1>1, <1>2, <1>3, <1>5 DEF NextOf
<1>8. e \in Broken => NextOf(sim, substituto(e)) = {}
  BY <1>1, <1>2, <1>3, <1>4 DEF NextOf
<1>9. Cardinality(DOMAIN sim) \in Nat \ {0}
  <2> DEFINE others == {substituto(x) : x \in Broken}
             f == [x \in Broken |-> substituto(x)]
  <2>1. IsFiniteSet(Broken)
    BY <1>2, FS_Subset
  <2>2. f \in Surjection(Broken, others)
    BY DEF Surjection
  <2> HIDE DEF f
  <2>3. IsFiniteSet(others)
    BY <2>1, <2>2, FS_Surjection
  <2> HIDE DEF others
  <2>4. IsFiniteSet(Roots(items) \cup others)
    BY <2>3, <1>2, FS_Union
  <2>5. DOMAIN sim = Roots(items) \cup others
    BY <1>1 DEF others
  <2>6. IsFiniteSet(DOMAIN sim) /\ DOMAIN sim # {}
    BY <2>4, <2>5
  <2> QED BY <2>6, FS_CardinalityType, FS_EmptySet
<1>10. chainFrom(sim, e) = named
  BY <1>6, <1>7, <1>8, <1>9, ShortChains
<1>11. e \in LinesIn(sim) /\ sim[e].replaces = Null
  <2>1. contract.startDate # Null
    BY BillingAssumption, NullIsNoValue DEF RecordsInv, DatesInv
  <2>2. sim[e].startDate # NoItem.startDate
    BY <2>1, <1>1, NullIsNoValue DEF OwnLine
  <2> QED BY <2>2, <1>1, <1>3 DEF LinesIn
<1> HIDE DEF named
<1>12. named \in positionsOf(sim)
  BY <1>10, <1>11 DEF positionsOf
<1> QED BY <1>12 DEF named, sim

\* The simulation charges a position what it was billed.
LEMMA SimulatedCharge ==
  ASSUME RecordsInv, PricesInv, contract.status = "COMPLETED", Tellable,
         NEW e \in Roots(items), NEW hist, NEW planned, NEW at, NEW asOf,
         \A x \in Roots(items) : hist[x] = history[x],
         \A x \in Broken : hist[substituto(x)] = history[x]
  PROVE  LET sim == simulatedItems(db, told)
             named == IF e \in Broken THEN <<e, substituto(e)>> ELSE <<e>>
         IN  chargePosition(history, items, chainFrom(items, e), planned, at)
               = chargePosition(hist, sim, named, planned, asOf)
<1> DEFINE sim == simulatedItems(db, told)
           named == IF e \in Broken THEN <<e, substituto(e)>> ELSE <<e>>
           units == chainFrom(items, e)
           p == items[e].prices
<1>0. items \in Lines /\ e \in Equipments /\ items[e] # NoItem
  BY RootsOf DEF RecordsInv, TypeInv, Roots, LinesIn
<1>1. /\ sim[e] = OwnLine(e)
      /\ e \in Broken => sim[substituto(e)] = OtherLine(e)
  BY SimulatedLines
<1> HIDE DEF sim
<1>2. /\ units = <<e>> \/ \E s \in Equipments : units = <<e, s>>
      /\ Len(units) > 1 =>
           /\ Len(units) = 2 /\ units[2] \in Equipments /\ items[units[2]] # NoItem
           /\ items[units[2]].replaces = e /\ items[units[2]].finalStatus = "AVAILABLE"
           /\ items[e].finalStatus \in {"STOLEN", "MAINTENANCE"}
           /\ items[e].finishDate < items[units[2]].finishDate
  BY ToldChains
<1>3. e \in Broken <=> Len(units) > 1
  BY DEF Broken
<1>4. \A x \in Equipments : items[x] # NoItem => items[x].finishDate # Null
  BY DEF RecordsInv, LinesInv, LineFits
<1>5. \A i : priceAt(history[e], i) = p
  BY <1>0, OwnPrice DEF Tellable
<1>6. hist[e] = history[e] /\ (e \in Broken => hist[substituto(e)] = history[e])
  OBVIOUS
<1>7. /\ sim[e].startDate = items[e].startDate /\ sim[e].prices = p
      /\ sim[e].finishDate = items[e].finishDate /\ sim[e].finalStatus = items[e].finalStatus
  <2>1. items[e].startDate = contract.startDate
    BY <1>0 DEF RecordsInv, LinesInv, LineFits, Roots
  <2> QED BY <2>1, <1>1 DEF OwnLine
<1> HIDE DEF units, p
<1>8. CASE Len(units) > 1
  <2>1. PICK s \in Equipments : units = <<e, s>>
    BY <1>2, <1>8, ShortRanges
  <2>2. /\ items[s] # NoItem /\ items[s].replaces = e /\ items[s].finalStatus = "AVAILABLE"
        /\ named = <<e, substituto(e)>>
    BY <2>1, <1>2, <1>3, <1>8
  <2>3. \A i : priceAt(history[s], i) = p
    <3>1. s \in LinesIn(items) /\ items[s].replaces # Null
      BY <1>0, <2>2, NullIsNoValue DEF LinesIn, Lines
    <3>2. items[s].prices = p
      BY <2>2, <3>1 DEF p, Tellable, SamePrices
    <3>3. \A i : priceAt(history[s], i) = items[s].prices
      BY <2>2, OwnPrice DEF Tellable
    <3> QED BY <3>2, <3>3
  <2> DEFINE t == substituto(e)
  <2>4. /\ sim[t].finishDate = items[s].finishDate /\ sim[t].finalStatus = "AVAILABLE"
        /\ hist[t] = history[e] /\ named = <<e, t>>
    BY <1>1, <1>3, <1>6, <1>8, <2>1, <2>2 DEF OtherLine, units
  <2> HIDE DEF t, named
  <2>5. /\ Range(units) = {e, s} /\ Range(named) = {e, t}
        /\ Head(units) = e /\ Head(named) = e /\ Last(units) = s /\ Last(named) = t
    BY <2>1, <2>4, ShortRanges
  <2>6. /\ units[1] = e /\ named[1] = e
        /\ DOMAIN units = 1..2 /\ DOMAIN named = 1..2
    BY <2>1, <2>4
  <2>7. OneFor(history, units, p) /\ OneFor(hist, named, p)
    BY <1>5, <1>6, <2>3, <2>4, <2>5 DEF OneFor
  <2>8. endOf(items[s], at) = endOf(sim[t], asOf)
    BY <1>4, <2>2, <2>4 DEF endOf
  <2>9. {x \in Range(units) : items[x].finalStatus = "STOLEN"}
          = {x \in Range(named) : sim[x].finalStatus = "STOLEN"}
    BY <1>7, <2>2, <2>4, <2>5
  <2>10. /\ items[units[1]].startDate = sim[named[1]].startDate
         /\ items[units[1]].prices = sim[named[1]].prices
    BY <1>7, <2>6 DEF p
  <2>11. /\ Head(units) = units[1] /\ Head(named) = named[1]
         /\ Last(units) \in Range(units) /\ Last(named) \in Range(named)
         /\ endOf(items[Last(units)], at) = endOf(sim[Last(named)], asOf)
    BY <2>5, <2>6, <2>8
  <2>12. /\ ChainOfUnits(units) /\ ChainOfUnits(named)
         /\ SameStay(items, units, at, sim, named, asOf)
    BY <2>6, <2>9, <2>10, <2>11 DEF ChainOfUnits, SameStay
  <2>13. chargePosition(history, items, units, planned, at)
           = chargePosition(hist, sim, named, planned, asOf)
    BY <2>7, <2>12, FlatCharge
  <2> QED BY <2>13 DEF units, sim, named
<1>9. CASE ~ (Len(units) > 1)
  <2>1. units = <<e>> /\ named = <<e>>
    BY <1>2, <1>3, <1>9, ShortRanges
  <2> HIDE DEF named
  <2>2. /\ Range(units) = {e} /\ Head(units) = e /\ Last(units) = e
        /\ units[1] = e /\ DOMAIN units = 1..1 /\ named = units
    <3>1. units[1] = e /\ DOMAIN units = 1..1
      BY <2>1
    <3> QED BY <2>1, <3>1, ShortRanges
  <2>3. OneFor(history, units, p) /\ OneFor(hist, named, p)
    BY <1>5, <1>6, <2>2 DEF OneFor
  <2>4. endOf(items[e], at) = endOf(sim[e], asOf)
    BY <1>0, <1>4, <1>7 DEF endOf
  <2>5. {x \in Range(units) : items[x].finalStatus = "STOLEN"}
          = {x \in Range(named) : sim[x].finalStatus = "STOLEN"}
    BY <1>7, <2>2
  <2>6. /\ items[units[1]].startDate = sim[named[1]].startDate
        /\ items[units[1]].prices = sim[named[1]].prices
        /\ Head(units) = units[1] /\ Head(named) = named[1]
        /\ Last(units) \in Range(units) /\ Last(named) \in Range(named)
        /\ endOf(items[Last(units)], at) = endOf(sim[Last(named)], asOf)
        /\ DOMAIN units = 1..1 /\ DOMAIN named = 1..1
    BY <1>7, <2>2, <2>4 DEF p
  <2>7. /\ ChainOfUnits(units) /\ ChainOfUnits(named)
        /\ SameStay(items, units, at, sim, named, asOf)
    BY <2>5, <2>6 DEF ChainOfUnits, SameStay
  <2>8. chargePosition(history, items, units, planned, at)
          = chargePosition(hist, sim, named, planned, asOf)
    BY <2>3, <2>7, FlatCharge
  <2> QED BY <2>8 DEF units, sim, named
<1> QED BY <1>8, <1>9

\* The simulation of what then happened is what was billed, for any contract whose lines
\* were priced alike and never repriced: simulate rebuilds by hand the lines that the
\* returns and replacements of elease.service.ts write (billing.service.ts:388-449).
THEOREM SimulationsAreAsBilled == Spec => []SimulatedAsBilled
<1>1. RecordsInv /\ PricesInv /\ FrozenIsRecomputed => SimulatedAsBilled
  <2> SUFFICES ASSUME RecordsInv, PricesInv, FrozenIsRecomputed,
                      contract.status = "COMPLETED", Tellable, NEW units \in DOMAIN frozen
               PROVE  \E named \in DOMAIN simulate(db, told) :
                        /\ named[1] = units[1]
                        /\ simulate(db, told)[named] = frozen[units]
    BY DEF SimulatedAsBilled
  <2> DEFINE sim == simulatedItems(db, told)
             finish == Max({sim[x].finishDate : x \in DOMAIN sim})
             hist == [x \in DOMAIN sim |-> history[IF x \in Equipments THEN x ELSE x[1]]]
  <2>0. items \in Lines
    BY DEF RecordsInv, TypeInv
  <2>1. frozen = [u \in positionsOf(items) |->
                    chargePosition(history, items, u, plannedDays, billedAt)]
    <3>1. linesRead = items
      BY BillingAssumption DEF linesRead
    <3> QED BY <3>1, StatementIs DEF FrozenIsRecomputed
  <2>2. simulate(db, told) = [u \in positionsOf(sim) |->
                                chargePosition(hist, sim, u, plannedDays, finish)]
    <3> DEFINE c == [status |-> "COMPLETED", startDate |-> told.startDate,
                     endDate |-> told.plannedEndDate, finishDate |-> finish]
    <3>1. simulate(db, told) = buildStatement(c, sim, hist, finish)
      BY DEF simulate, db
    <3>2. /\ c.status = "COMPLETED"
          /\ calendarDays(c.startDate, c.endDate) = plannedDays
      BY DEF told, plannedDays
    <3> HIDE DEF c, hist, finish, sim
    <3> QED BY <3>1, <3>2, CompletedStatement
  <2>3. PICK e \in Roots(items) : units = chainFrom(items, e)
    BY <2>0, <2>1, RootsOf
  <2> DEFINE named == IF e \in Broken THEN <<e, substituto(e)>> ELSE <<e>>
  <2>4. named \in positionsOf(sim)
    BY SimulatedPositions
  <2>5. /\ \A x \in Roots(items) : hist[x] = history[x]
        /\ \A x \in Broken : hist[substituto(x)] = history[x]
    <3>1. DOMAIN sim = Roots(items) \cup {substituto(x) : x \in Broken}
      BY SimulatedLines
    <3>2. Roots(items) \subseteq Equipments /\ Broken \subseteq Roots(items)
      BY <2>0, RootsOf DEF Broken
    <3>3. \A x \in Broken : substituto(x) \notin Equipments /\ substituto(x)[1] = x
      BY <3>2, SimulationAssumption DEF substituto
    <3> HIDE DEF sim
    <3>4. ASSUME NEW x \in Roots(items) PROVE hist[x] = history[x]
      BY <3>1, <3>2
    <3>5. ASSUME NEW x \in Broken PROVE hist[substituto(x)] = history[x]
      BY <3>1, <3>3
    <3> QED BY <3>4, <3>5
  <2> HIDE DEF hist, finish
  <2>6. chargePosition(history, items, units, plannedDays, billedAt)
          = chargePosition(hist, sim, named, plannedDays, finish)
    BY <2>3, <2>5, SimulatedCharge
  <2>7. named[1] = e /\ units[1] = e
    <3>1. IsChain(items, e, units)
      BY <2>0, <2>3, RootsOf, ChainShape
    <3> QED BY <3>1 DEF IsChain
  <2> HIDE DEF sim, named
  <2>8. named \in DOMAIN simulate(db, told) /\ simulate(db, told)[named] = frozen[units]
    BY <2>1, <2>2, <2>4, <2>6
  <2> QED BY <2>7, <2>8
<1> QED BY <1>1, RecordsHold, PricesHold, FrozenStands, PTL

=============================================================================
