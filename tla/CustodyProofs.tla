---------------------------- MODULE CustodyProofs ---------------------------
(***************************************************************************)
(* Theorems about who holds which unit, for any contracts, units and       *)
(* codes: of Rental with removals of own units, one request at a time, and *)
(* of RentalServer on the routes that re-check in their writes, under any  *)
(* interleaving.                                                           *)
(***************************************************************************)
EXTENDS RentalProofs

\* A pending contract is linked to reserved units only.
PendingHoldsReserved ==
  \A c \in Contracts, e \in Equipments :
    leaseStatus[c] = "PENDING" /\ eleaseId[e] = c => status[e] = "PENDING"

\* A contract that is not there yet or has ended is linked to none.
IdleHoldsNothing ==
  \A c \in Contracts, e \in Equipments :
    leaseStatus[c] \in {Null, "CANCELLED", "COMPLETED"} => eleaseId[e] # c

\* What makes custody inductive.
CustodyInv ==
  /\ OutIsAccounted
  /\ OpenLineHoldsUnit
  /\ PendingHoldsReserved
  /\ IdleHoldsNothing

CustodyPre == TypeOK /\ PendingLinesAreOpen /\ CustodyInv

-----------------------------------------------------------------------------
\* The statuses that the steps below tell apart.
LEMMA Distinct ==
  /\ CONTRACT_STATUSES = {"PENDING", "LEASED", "REPLACE"}
  /\ outStatus = {"LEASED", "REPLACE"}
  /\ returnStatus = {"AVAILABLE", "STOLEN", "MAINTENANCE"}
  /\ keepELeaseId = {"STOLEN", "MAINTENANCE"}
  /\ Null \notin {"PENDING", "ACTIVE", "COMPLETED", "CANCELLED"}
  /\ Null \notin {"AVAILABLE", "LEASED", "MAINTENANCE", "RETIRED", "STOLEN", "REPLACE"}
  /\ Null \notin Contracts \cup Equipments
BY NullAssumption DEF CONTRACT_STATUSES, outStatus, returnStatus, keepELeaseId, LeaseStatus,
   StatusEquipment

\* A line is open when its unit entered and has not left.
LEMMA Lines ==
  ASSUME TypeOK, NEW c \in Contracts, NEW e \in Equipments
  PROVE  /\ Open(c, e) <=> /\ leaseItem[c][e].startStatus # Null
                           /\ leaseItem[c][e].finalStatus = Null
         /\ leaseItem[c][e].startStatus # Null =>
              leaseItem[c][e].startStatus \in CONTRACT_STATUSES
BY DEF TypeOK, Open, HasItem, LeaseItem, NoItem

-----------------------------------------------------------------------------
(***************************************************************************)
(* The yard, unit by unit and contract by contract.                        *)
(***************************************************************************)
HolderOf(e) == IF status[e] \in CONTRACT_STATUSES THEN eleaseId[e] ELSE Null

YardStep == Yard!Next \/ UNCHANGED <<phase, holder>>

LEMMA YardPass ==
  ASSUME NEW es \in SUBSET Equipments, NEW who,
         \A e \in Equipments : HolderOf(e)' = IF e \in es THEN who ELSE HolderOf(e)
  PROVE  Yard!Pass(es, who)
  BY DEF Yard!Pass, holder, HolderOf

LEMMA YardHeld ==
  ASSUME NEW who
  PROVE  Yard!HeldBy(who) = {e \in Equipments : HolderOf(e) = who}
  BY DEF Yard!HeldBy, holder, HolderOf

LEMMA YardAdvance ==
  ASSUME NEW c \in Contracts, NEW to,
         \A d \in Contracts : leaseStatus'[d] = IF d = c THEN to ELSE leaseStatus[d]
  PROVE  /\ leaseStatus[c] = Null /\ to = "PENDING" => Yard!Advance(c, "new", "booked")
         /\ leaseStatus[c] = "PENDING" /\ to = "ACTIVE" => Yard!Advance(c, "booked", "running")
         /\ leaseStatus[c] = "PENDING" /\ to = "CANCELLED" => Yard!Advance(c, "booked", "ended")
         /\ leaseStatus[c] = "ACTIVE" /\ to = "COMPLETED" => Yard!Advance(c, "running", "ended")
  BY Distinct DEF Yard!Advance, phase

\* What each handler's writes are shown to do.
CustodyKept == CustodyInv' /\ OnlyThroughContractStep /\ YardStep

-----------------------------------------------------------------------------
(***************************************************************************)
(* What the handlers' writes do to custody.                                *)
(***************************************************************************)

LEMMA CreateKeepsCustody ==
  ASSUME CustodyPre, NEW c \in Contracts, NEW es \in SUBSET Equipments, CreateELeaseWrites(c, es)
  PROVE  CustodyKept
<1> USE DEF CustodyPre
<1>1. \A e \in es : status[e] = "AVAILABLE"
  BY DEF CreateELeaseWrites, reservedAll, AllAvailable
<1>2. /\ leaseStatus[c] = Null
      /\ \A d \in Contracts : leaseStatus'[d] = IF d = c THEN "PENDING" ELSE leaseStatus[d]
      /\ \A e \in Equipments : /\ status'[e] = IF e \in es THEN "PENDING" ELSE status[e]
                               /\ eleaseId'[e] = IF e \in es THEN c ELSE eleaseId[e]
      /\ \A d \in Contracts, e \in Equipments :
           leaseItem'[d][e] = IF d = c /\ e \in es THEN NewItem("PENDING", Null)
                              ELSE leaseItem[d][e]
  BY <1>1 DEF CreateELeaseWrites, UpdateMany, TypeOK
<1>3. \A e \in Equipments : leaseItem[c][e] = NoItem /\ eleaseId[e] # c
  BY <1>2 DEF PendingLinesAreOpen, CustodyInv, IdleHoldsNothing
<1>4. NewItem("PENDING", Null).startStatus = "PENDING" /\ NewItem("PENDING", Null).finalStatus = Null
      /\ NoItem.startStatus = Null
  BY DEF NewItem, NoItem
<1>5. OutIsAccounted'
  BY <1>1, <1>2, <1>3, <1>4, Distinct
  DEF CustodyInv, OutIsAccounted, OpenLineHoldsUnit, Open, HasItem, PhaseOf
<1>6. OpenLineHoldsUnit'
  <2> SUFFICES ASSUME NEW d \in Contracts, NEW e \in Equipments, Open(d, e)'
               PROVE  /\ eleaseId'[e] = d
                      /\ status'[e] = leaseItem'[d][e].startStatus
                      /\ leaseStatus'[d] = PhaseOf(status'[e])
    BY DEF OpenLineHoldsUnit
  <2>1. CASE d = c /\ e \in es
    BY <1>2, <1>4, <2>1 DEF PhaseOf
  <2>2. CASE ~ (d = c /\ e \in es)
    <3>1. Open(d, e)
      BY <1>2, <2>2 DEF Open, HasItem
    <3>2. /\ eleaseId[e] = d
          /\ status[e] = leaseItem[d][e].startStatus
          /\ leaseStatus[d] = PhaseOf(status[e])
      BY <3>1 DEF CustodyInv, OpenLineHoldsUnit
    <3>3. status[e] \in CONTRACT_STATUSES
      BY <3>1, <3>2, Lines
    <3>4. e \notin es /\ d # c
      BY <1>1, <1>3, <3>2, <3>3, Distinct
    <3> QED
      BY <1>2, <3>2, <3>4
  <2> QED BY <2>1, <2>2
<1>7. PendingHoldsReserved'
  BY <1>1, <1>2, <1>3, Distinct DEF CustodyInv, PendingHoldsReserved
<1>8. IdleHoldsNothing'
  BY <1>1, <1>2, <1>3, Distinct DEF CustodyInv, IdleHoldsNothing
<1>9. OnlyThroughContractStep
  BY <1>1, <1>2, Distinct DEF OnlyThroughContractStep
<1>10. YardStep
  <2>1. \A e \in es : HolderOf(e) = Null
    BY <1>1, Distinct DEF HolderOf
  <2>2. Yard!Pass(es, c)
    <3>1. \A e \in Equipments : HolderOf(e)' = IF e \in es THEN c ELSE HolderOf(e)
      BY <1>2, Distinct DEF HolderOf
    <3> QED BY <3>1, YardPass
  <2>3. Yard!Advance(c, "new", "booked")
    BY <1>2, YardAdvance
  <2> QED BY <2>1, <2>2, <2>3, YardHeld DEF YardStep, Yard!Next, Yard!Book
<1> QED BY <1>5, <1>6, <1>7, <1>8, <1>9, <1>10 DEF CustodyKept, CustodyInv

\* The lines of a pending contract are open lines of its reserved units.
LEMMA PendingLines ==
  ASSUME CustodyPre, NEW c \in Contracts, leaseStatus[c] = "PENDING", NEW e \in Equipments
  PROVE  /\ leaseItem[c][e].startStatus \in {Null, "PENDING"}
         /\ leaseItem[c][e].finalStatus = Null
         /\ leaseItem[c][e].startStatus = "PENDING" <=> Open(c, e)
         /\ Open(c, e) <=> eleaseId[e] = c
         /\ eleaseId[e] = c => status[e] = "PENDING"
<1>1. /\ leaseItem[c][e].startStatus \in {Null, "PENDING"}
      /\ leaseItem[c][e].finalStatus = Null
  BY DEF CustodyPre, PendingLinesAreOpen
<1>2. leaseItem[c][e].startStatus = "PENDING" <=> Open(c, e)
  BY <1>1, Distinct DEF Open, HasItem
<1>3. eleaseId[e] = c => status[e] = "PENDING" /\ Open(c, e)
  BY Distinct DEF CustodyPre, CustodyInv, PendingHoldsReserved, OutIsAccounted
<1>4. Open(c, e) => eleaseId[e] = c
  BY DEF CustodyPre, CustodyInv, OpenLineHoldsUnit
<1> QED BY <1>1, <1>2, <1>3, <1>4

LEMMA StartKeepsCustody ==
  ASSUME CustodyPre, NEW c \in Contracts, StartContractWrites(c)
  PROVE  CustodyKept
<1>1. /\ leaseStatus[c] = "PENDING"
      /\ \A d \in Contracts : leaseStatus'[d] = IF d = c THEN "ACTIVE" ELSE leaseStatus[d]
      /\ eleaseId' = eleaseId
  BY DEF StartContractWrites, wherePending, CustodyPre, TypeOK
<1>2. \A e \in Equipments :
        status'[e] = IF eleaseId[e] = c /\ status[e] = "PENDING" THEN "LEASED" ELSE status[e]
  BY DEF StartContractWrites, UpdateMany, CustodyPre, TypeOK, Linked
<1>3. \A d \in Contracts, e \in Equipments :
        leaseItem'[d][e] = IF d = c /\ leaseItem[c][e].startStatus = "PENDING"
                           THEN Started(leaseItem[c][e]) ELSE leaseItem[d][e]
  BY DEF StartContractWrites, CustodyPre, TypeOK
<1>4. \A e \in Equipments :
        leaseItem[c][e].startStatus = "PENDING" =>
          /\ Started(leaseItem[c][e]).startStatus = "LEASED"
          /\ Started(leaseItem[c][e]).finalStatus = leaseItem[c][e].finalStatus
  BY NullAssumption DEF Started, CustodyPre, TypeOK, LeaseItem, NoItem, CONTRACT_STATUSES
<1>5. \A e \in Equipments :
         /\ leaseItem[c][e].startStatus \in {Null, "PENDING"}
         /\ leaseItem[c][e].finalStatus = Null
         /\ leaseItem[c][e].startStatus = "PENDING" <=> Open(c, e)
         /\ Open(c, e) <=> eleaseId[e] = c
         /\ eleaseId[e] = c => status[e] = "PENDING"
  BY <1>1, PendingLines
<1>6. \A d \in Contracts, e \in Equipments : Open(d, e)' <=> Open(d, e)
  BY <1>3, <1>4, <1>5, Distinct DEF Open, HasItem
<1>7. ASSUME NEW e \in Equipments, eleaseId[e] = c
      PROVE  Open(c, e) /\ status'[e] = "LEASED" /\ leaseItem'[c][e].startStatus = "LEASED"
  BY <1>2, <1>3, <1>4, <1>5, <1>7
<1>8. ASSUME NEW e \in Equipments, eleaseId[e] # c
      PROVE  /\ status'[e] = status[e]
             /\ \A d \in Contracts : leaseItem'[d][e] = leaseItem[d][e]
             /\ ~ Open(c, e)
  BY <1>2, <1>3, <1>5, <1>8
<1>9. OutIsAccounted'
  BY <1>1, <1>6, <1>7, <1>8, Distinct DEF CustodyPre, CustodyInv, OutIsAccounted, PhaseOf
<1>10. OpenLineHoldsUnit'
  BY <1>1, <1>6, <1>7, <1>8, Distinct DEF CustodyPre, CustodyInv, OpenLineHoldsUnit, PhaseOf
<1>11. PendingHoldsReserved'
  BY <1>1, <1>8, Distinct DEF CustodyPre, CustodyInv, PendingHoldsReserved
<1>12. IdleHoldsNothing'
  BY <1>1, Distinct DEF CustodyPre, CustodyInv, IdleHoldsNothing
<1>13. OnlyThroughContractStep
  BY <1>1, <1>7, <1>8 DEF OnlyThroughContractStep
<1>14. YardStep
  <2>1. \A e \in Equipments : HolderOf(e)' = HolderOf(e)
    BY <1>1, <1>5, <1>7, <1>8, Distinct DEF HolderOf
  <2>2. UNCHANGED holder
    BY <2>1 DEF holder, HolderOf
  <2>3. Yard!Advance(c, "booked", "running")
    BY <1>1, YardAdvance
  <2> QED BY <2>2, <2>3 DEF YardStep, Yard!Next, Yard!Run
<1> QED BY <1>9, <1>10, <1>11, <1>12, <1>13, <1>14 DEF CustodyKept, CustodyInv

LEMMA CancelKeepsCustody ==
  ASSUME CustodyPre, NEW c \in Contracts, CancelContractWrites(c)
  PROVE  CustodyKept
<1>1. /\ leaseStatus[c] = "PENDING"
      /\ \A d \in Contracts : leaseStatus'[d] = IF d = c THEN "CANCELLED" ELSE leaseStatus[d]
  BY DEF CancelContractWrites, wherePending, CustodyPre, TypeOK
<1>2. \A e \in Equipments : eleaseId[e] = c => status[e] = "PENDING"
  BY <1>1, PendingLines
<1>3. \A e \in Equipments :
        /\ status'[e] = IF eleaseId[e] = c THEN "AVAILABLE" ELSE status[e]
        /\ eleaseId'[e] = IF eleaseId[e] = c THEN Null ELSE eleaseId[e]
  BY <1>2 DEF CancelContractWrites, UpdateMany, CustodyPre, TypeOK, Linked
<1>4. \A d \in Contracts, e \in Equipments :
        leaseItem'[d][e] = IF d = c /\ leaseItem[c][e].startStatus = "PENDING"
                           THEN Settled(leaseItem[c][e], "AVAILABLE") ELSE leaseItem[d][e]
  BY DEF CancelContractWrites, CustodyPre, TypeOK
<1>5. \A e \in Equipments :
        leaseItem[c][e].startStatus = "PENDING" =>
          Settled(leaseItem[c][e], "AVAILABLE").finalStatus = "AVAILABLE"
  BY NullAssumption DEF Settled, CustodyPre, TypeOK, LeaseItem, NoItem, CONTRACT_STATUSES
<1>6. \A e \in Equipments :
         /\ leaseItem[c][e].startStatus = "PENDING" <=> Open(c, e)
         /\ Open(c, e) <=> eleaseId[e] = c
  BY <1>1, PendingLines
<1>7. \A d \in Contracts, e \in Equipments : Open(d, e)' <=> d # c /\ Open(d, e)
  BY <1>4, <1>5, <1>6, Distinct DEF Open, HasItem
<1>8. \A d \in Contracts, e \in Equipments : Open(d, e) => eleaseId[e] = d
  BY DEF CustodyPre, CustodyInv, OpenLineHoldsUnit
<1>9. OutIsAccounted'
  BY <1>1, <1>3, <1>4, <1>7, Distinct DEF CustodyPre, CustodyInv, OutIsAccounted
<1>10. OpenLineHoldsUnit'
  BY <1>1, <1>3, <1>4, <1>7, <1>8, Distinct DEF CustodyPre, CustodyInv, OpenLineHoldsUnit
<1>11. PendingHoldsReserved'
  BY <1>1, <1>3, Distinct DEF CustodyPre, CustodyInv, PendingHoldsReserved
<1>12. IdleHoldsNothing'
  BY <1>1, <1>3, Distinct DEF CustodyPre, CustodyInv, IdleHoldsNothing
<1>13. OnlyThroughContractStep
  BY <1>1, <1>3 DEF OnlyThroughContractStep
<1>14. YardStep
  <2> DEFINE es == {e \in Equipments : HolderOf(e) = c}
  <2>1. Yard!Pass(es, Null)
    <3>1. \A e \in Equipments : HolderOf(e)' = IF e \in es THEN Null ELSE HolderOf(e)
      BY <1>2, <1>3, Distinct DEF HolderOf
    <3> QED BY <3>1, YardPass
  <2>2. Yard!Advance(c, "booked", "ended")
    BY <1>1, YardAdvance
  <2> QED BY <2>1, <2>2, YardHeld DEF YardStep, Yard!Next, Yard!Drop
<1> QED BY <1>9, <1>10, <1>11, <1>12, <1>13, <1>14 DEF CustodyKept, CustodyInv

\* An available unit is on no open line.
LEMMA AvailableIsFree ==
  ASSUME CustodyPre, NEW e \in Equipments, status[e] \notin CONTRACT_STATUSES
  PROVE  \A c \in Contracts : ~ Open(c, e)
  BY Lines DEF CustodyPre, CustodyInv, OpenLineHoldsUnit

LEMMA AddKeepsCustody ==
  ASSUME CustodyPre, NEW c \in Contracts, NEW es \in SUBSET Equipments,
         AddEquipmentsChecks(c, es), AddEquipmentsWrites(c, es)
  PROVE  CustodyKept
<1>1. leaseStatus[c] = "PENDING" /\ leaseStatus' = leaseStatus /\ \A e \in es : status[e] = "AVAILABLE"
  BY DEF AddEquipmentsChecks, AddEquipmentsWrites, AllAvailable
<1>2. /\ \A e \in Equipments : /\ status'[e] = IF e \in es THEN "PENDING" ELSE status[e]
                               /\ eleaseId'[e] = IF e \in es THEN c ELSE eleaseId[e]
      /\ \A d \in Contracts, e \in Equipments :
           leaseItem'[d][e] = IF d = c /\ e \in es THEN NewItem("PENDING", Null)
                              ELSE leaseItem[d][e]
  BY <1>1 DEF AddEquipmentsWrites, UpdateMany, CustodyPre, TypeOK
<1>3. \A e \in es, d \in Contracts : ~ Open(d, e)
  BY <1>1, Distinct, AvailableIsFree
<1>4. NewItem("PENDING", Null).startStatus = "PENDING" /\ NewItem("PENDING", Null).finalStatus = Null
  BY DEF NewItem
<1>5. \A d \in Contracts, e \in Equipments :
        Open(d, e)' <=> (d = c /\ e \in es) \/ Open(d, e)
  BY <1>2, <1>4, Distinct DEF Open, HasItem
<1>6. OutIsAccounted'
  BY <1>1, <1>2, <1>4, <1>5, Distinct DEF CustodyPre, CustodyInv, OutIsAccounted, PhaseOf
<1>7. OpenLineHoldsUnit'
  BY <1>1, <1>2, <1>3, <1>4, <1>5, Distinct
  DEF CustodyPre, CustodyInv, OpenLineHoldsUnit, PhaseOf
<1>8. PendingHoldsReserved'
  BY <1>1, <1>2 DEF CustodyPre, CustodyInv, PendingHoldsReserved
<1>9. IdleHoldsNothing'
  BY <1>1, <1>2, Distinct DEF CustodyPre, CustodyInv, IdleHoldsNothing
<1>10. OnlyThroughContractStep
  BY <1>1, <1>2, Distinct DEF OnlyThroughContractStep
<1>11. YardStep
  <2>1. \A e \in es : HolderOf(e) = Null
    BY <1>1, Distinct DEF HolderOf
  <2>2. Yard!Pass(es, c)
    <3>1. \A e \in Equipments : HolderOf(e)' = IF e \in es THEN c ELSE HolderOf(e)
      BY <1>2, Distinct DEF HolderOf
    <3> QED BY <3>1, YardPass
  <2>3. phase[c] = "booked" /\ UNCHANGED phase
    BY <1>1, Distinct DEF phase
  <2> QED BY <2>1, <2>2, <2>3, YardHeld DEF YardStep, Yard!Next, Yard!Take
<1> QED BY <1>6, <1>7, <1>8, <1>9, <1>10, <1>11 DEF CustodyKept, CustodyInv

LEMMA RemoveKeepsCustody ==
  ASSUME CustodyPre, NEW c \in Contracts, NEW es \in SUBSET Linked(c),
         RemoveEquipmentsWrites(c, es)
  PROVE  CustodyKept
<1>1. leaseStatus[c] = "PENDING" /\ leaseStatus' = leaseStatus
  BY DEF RemoveEquipmentsWrites, wherePending
<1>2. \A e \in es : e \in Equipments /\ eleaseId[e] = c /\ status[e] = "PENDING"
  BY <1>1 DEF Linked, CustodyPre, CustodyInv, PendingHoldsReserved
<1>3. \A e \in Equipments : /\ status'[e] = IF e \in es THEN "AVAILABLE" ELSE status[e]
                           /\ eleaseId'[e] = IF e \in es THEN Null ELSE eleaseId[e]
  BY <1>2 DEF RemoveEquipmentsWrites, UpdateMany, CustodyPre, TypeOK, Linked
<1>4. \A d \in Contracts, e \in Equipments :
        leaseItem'[d][e] = IF d = c /\ e \in es THEN NoItem ELSE leaseItem[d][e]
  BY DEF RemoveEquipmentsWrites, UpdateMany, CustodyPre, TypeOK
<1>5. \A d \in Contracts, e \in Equipments :
        Open(d, e)' <=> ~ (d = c /\ e \in es) /\ Open(d, e)
  BY <1>4 DEF Open, HasItem, NoItem
<1>6. \A d \in Contracts, e \in Equipments : Open(d, e) => eleaseId[e] = d
  BY DEF CustodyPre, CustodyInv, OpenLineHoldsUnit
<1>7. OutIsAccounted'
  BY <1>1, <1>3, <1>4, <1>5, Distinct DEF CustodyPre, CustodyInv, OutIsAccounted
<1>8. OpenLineHoldsUnit'
  BY <1>1, <1>2, <1>3, <1>4, <1>5, <1>6, Distinct DEF CustodyPre, CustodyInv, OpenLineHoldsUnit
<1>9. PendingHoldsReserved'
  BY <1>1, <1>3, Distinct DEF CustodyPre, CustodyInv, PendingHoldsReserved
<1>10. IdleHoldsNothing'
  BY <1>1, <1>3, Distinct DEF CustodyPre, CustodyInv, IdleHoldsNothing
<1>11. OnlyThroughContractStep
  <2>1. \A e \in es : Open(c, e)
    BY <1>1, <1>2, PendingLines
  <2>2. \A e \in es : leaseItem'[c][e] # leaseItem[c][e]
    BY <1>2, <1>4, <2>1 DEF Open, HasItem, NoItem
  <2> QED BY <1>2, <1>3, <2>2 DEF OnlyThroughContractStep
<1>12. YardStep
  <2>1. \A e \in es : HolderOf(e) = c
    BY <1>2, Distinct DEF HolderOf
  <2>2. Yard!Pass(es, Null)
    <3>1. \A e \in Equipments : HolderOf(e)' = IF e \in es THEN Null ELSE HolderOf(e)
      BY <1>3, Distinct DEF HolderOf
    <3>2. es \in SUBSET Equipments
      BY <1>2
    <3> QED BY <3>1, <3>2, YardPass
  <2>3. phase[c] = "booked" /\ UNCHANGED phase
    BY <1>1, Distinct DEF phase
  <2> QED BY <1>2, <2>1, <2>2, <2>3, YardHeld DEF YardStep, Yard!Next, Yard!Leave
<1> QED BY <1>7, <1>8, <1>9, <1>10, <1>11, <1>12 DEF CustodyKept, CustodyInv

LEMMA UpdateKeepsCustody ==
  ASSUME CustodyPre, NEW c \in Contracts, NEW es \in SUBSET Equipments, NEW s \in returnStatus,
         UpdateEquipmentWrites(c, es, s)
  PROVE  CustodyKept
<1>1. /\ leaseStatus' = leaseStatus
      /\ \A e \in es : eleaseId[e] = c /\ status[e] \in outStatus /\ leaseStatus[c] = "ACTIVE"
  BY Distinct DEF UpdateEquipmentWrites, CustodyPre, CustodyInv, OutIsAccounted, PhaseOf
<1>2. PICK id \in {c, Null} :
        \A e \in Equipments : /\ status'[e] = IF e \in es THEN s ELSE status[e]
                             /\ eleaseId'[e] = IF e \in es THEN id ELSE eleaseId[e]
  BY DEF UpdateEquipmentWrites, UpdateMany, CustodyPre, TypeOK
<1>3. \A e \in es : Open(c, e) /\ leaseItem[c][e].startStatus \in outStatus
  BY <1>1, Distinct DEF CustodyPre, CustodyInv, OutIsAccounted
<1>4. \A d \in Contracts, e \in Equipments :
        leaseItem'[d][e] = IF d = c /\ e \in es THEN Settled(leaseItem[c][e], s)
                           ELSE leaseItem[d][e]
  BY <1>3 DEF UpdateEquipmentWrites, CustodyPre, TypeOK, Open
<1>5. \A e \in es : Settled(leaseItem[c][e], s).finalStatus = s
  BY <1>3, NullAssumption DEF Settled, CustodyPre, TypeOK, LeaseItem, NoItem, Open, HasItem
<1>6. s # Null /\ s \notin CONTRACT_STATUSES
  BY Distinct
<1>7. \A d \in Contracts, e \in Equipments :
        Open(d, e)' <=> ~ (d = c /\ e \in es) /\ Open(d, e)
  BY <1>4, <1>5, <1>6 DEF Open, HasItem
<1>8. \A d \in Contracts, e \in Equipments : Open(d, e) => eleaseId[e] = d
  BY DEF CustodyPre, CustodyInv, OpenLineHoldsUnit
<1>9. OutIsAccounted'
  BY <1>1, <1>2, <1>4, <1>6, <1>7 DEF CustodyPre, CustodyInv, OutIsAccounted
<1>10. OpenLineHoldsUnit'
  BY <1>1, <1>2, <1>4, <1>7, <1>8 DEF CustodyPre, CustodyInv, OpenLineHoldsUnit
<1>11. PendingHoldsReserved'
  BY <1>1, <1>2, Distinct DEF CustodyPre, CustodyInv, PendingHoldsReserved
<1>12. IdleHoldsNothing'
  BY <1>1, <1>2, Distinct DEF CustodyPre, CustodyInv, IdleHoldsNothing
<1>13. OnlyThroughContractStep
  <2>1. \A e \in es : leaseItem'[c][e] # leaseItem[c][e]
    BY <1>3, <1>4, <1>5, <1>6 DEF Open
  <2> QED BY <1>1, <1>2, <2>1 DEF OnlyThroughContractStep
<1>14. YardStep
  <2>1. \A e \in es : HolderOf(e) = c
    BY <1>1, Distinct DEF HolderOf
  <2>2. \A e \in Equipments : HolderOf(e)' = IF e \in es THEN Null ELSE HolderOf(e)
    BY <1>2, <1>6 DEF HolderOf
  <2>3. Yard!Pass(es, Null)
    BY <2>2, YardPass
  <2>4. UNCHANGED phase
    BY <1>1 DEF phase
  <2>5. CASE es = {}
    BY <2>2, <2>4, <2>5 DEF YardStep, holder, HolderOf
  <2>6. CASE es # {}
    <3>1. phase[c] = "running"
      BY <1>1, <2>6, Distinct DEF phase
    <3> QED BY <2>1, <2>3, <2>4, <3>1, YardHeld DEF YardStep, Yard!Next, Yard!Leave
  <2> QED BY <2>5, <2>6
<1> QED BY <1>9, <1>10, <1>11, <1>12, <1>13, <1>14 DEF CustodyKept, CustodyInv

LEMMA ReplaceKeepsCustody ==
  ASSUME CustodyPre, NEW c \in Contracts, NEW oldOf \in Replacements,
         ReplaceEquipmentChecks(c, oldOf), ReplaceEquipmentWrites(c, oldOf, MaintenanceIds(oldOf))
  PROVE  CustodyKept
<1>1. PICK news \in SUBSET Equipments : news = DOMAIN oldOf
  BY DEF Replacements
<1> DEFINE gone == MaintenanceIds(oldOf) \cap Linked(c)
<1>2. gone \in SUBSET Equipments /\ \A e \in gone : status[e] = "MAINTENANCE" /\ eleaseId[e] = c
  BY DEF MaintenanceIds, Linked
<1>3. /\ leaseStatus[c] = "ACTIVE" /\ leaseStatus' = leaseStatus
      /\ \A e \in news : status[e] = "AVAILABLE"
  BY <1>1 DEF ReplaceEquipmentChecks, ReplaceEquipmentWrites
<1>4. \A e \in Equipments :
        /\ status'[e] = IF e \in news THEN "REPLACE" ELSE status[e]
        /\ eleaseId'[e] = IF e \in news THEN c ELSE IF e \in gone THEN Null ELSE eleaseId[e]
  BY <1>1, <1>2, <1>3 DEF ReplaceEquipmentWrites, UpdateMany, CustodyPre, TypeOK
<1> HIDE DEF gone
<1>5. \A d \in Contracts, e \in Equipments :
        leaseItem'[d][e] = IF d = c /\ e \in news THEN NewItem("REPLACE", oldOf[e])
                           ELSE leaseItem[d][e]
  BY <1>1 DEF ReplaceEquipmentWrites, CustodyPre, TypeOK
<1>6. \A e \in news : /\ NewItem("REPLACE", oldOf[e]).startStatus = "REPLACE"
                     /\ NewItem("REPLACE", oldOf[e]).finalStatus = Null
  BY DEF NewItem
<1>7. \A e \in news \cup gone, d \in Contracts : ~ Open(d, e)
  BY <1>2, <1>3, Distinct, AvailableIsFree
<1>8. \A d \in Contracts, e \in Equipments :
        Open(d, e)' <=> (d = c /\ e \in news) \/ Open(d, e)
  BY <1>5, <1>6, Distinct DEF Open, HasItem
<1>9. OutIsAccounted'
  BY <1>2, <1>3, <1>4, <1>5, <1>6, <1>8, Distinct
  DEF CustodyPre, CustodyInv, OutIsAccounted, PhaseOf
<1>10. OpenLineHoldsUnit'
  BY <1>3, <1>4, <1>5, <1>6, <1>7, <1>8, Distinct
  DEF CustodyPre, CustodyInv, OpenLineHoldsUnit, PhaseOf
<1>11. PendingHoldsReserved'
  BY <1>3, <1>4, Distinct DEF CustodyPre, CustodyInv, PendingHoldsReserved
<1>12. IdleHoldsNothing'
  BY <1>3, <1>4, Distinct DEF CustodyPre, CustodyInv, IdleHoldsNothing
<1>13. OnlyThroughContractStep
  BY <1>3, <1>4, Distinct DEF OnlyThroughContractStep
<1>14. YardStep
  <2>1. \A e \in news : HolderOf(e) = Null
    BY <1>3, Distinct DEF HolderOf
  <2>2. \A e \in gone : status[e] \notin CONTRACT_STATUSES
    BY <1>2, Distinct
  <2>3. Yard!Pass(news, c)
    <3>1. \A e \in Equipments : HolderOf(e)' = IF e \in news THEN c ELSE HolderOf(e)
      BY <1>4, <2>2, Distinct DEF HolderOf
    <3> QED BY <3>1, YardPass
  <2>4. phase[c] = "running" /\ UNCHANGED phase
    BY <1>3, Distinct DEF phase
  <2> QED BY <2>1, <2>3, <2>4, YardHeld DEF YardStep, Yard!Next, Yard!Take
<1> QED BY <1>9, <1>10, <1>11, <1>12, <1>13, <1>14 DEF CustodyKept, CustodyInv

LEMMA CloseKeepsCustody ==
  ASSUME CustodyPre, NEW c \in Contracts, \A e \in Equipments : ~ Open(c, e),
         CloseContractWrites(c)
  PROVE  CustodyKept
<1>1. /\ leaseStatus[c] = "ACTIVE" /\ status' = status /\ leaseItem' = leaseItem
      /\ \A d \in Contracts : leaseStatus'[d] = IF d = c THEN "COMPLETED" ELSE leaseStatus[d]
  BY DEF CloseContractWrites, whereActive, CustodyPre, TypeOK
<1>2. \A e \in Equipments : eleaseId'[e] = IF eleaseId[e] = c THEN Null ELSE eleaseId[e]
  BY DEF CloseContractWrites, UpdateMany, CustodyPre, TypeOK, Linked
<1>3. \A d \in Contracts, e \in Equipments : Open(d, e)' <=> Open(d, e)
  BY <1>1 DEF Open, HasItem
<1>4. OutIsAccounted'
  BY <1>1, <1>2, <1>3 DEF CustodyPre, CustodyInv, OutIsAccounted
<1>5. OpenLineHoldsUnit'
  BY <1>1, <1>2, <1>3 DEF CustodyPre, CustodyInv, OpenLineHoldsUnit
<1>6. PendingHoldsReserved'
  BY <1>1, <1>2, Distinct DEF CustodyPre, CustodyInv, PendingHoldsReserved
<1>7. IdleHoldsNothing'
  BY <1>1, <1>2, Distinct DEF CustodyPre, CustodyInv, IdleHoldsNothing
<1>8. OnlyThroughContractStep
  BY <1>1 DEF OnlyThroughContractStep
<1>9. YardStep
  <2>1. \A e \in Equipments : HolderOf(e) # c
    BY Distinct DEF CustodyPre, CustodyInv, OutIsAccounted, HolderOf
  <2>2. \A e \in Equipments : HolderOf(e)' = HolderOf(e)
    BY <1>1, <1>2, <2>1 DEF HolderOf
  <2>3. UNCHANGED holder
    BY <2>2 DEF holder, HolderOf
  <2>4. Yard!Advance(c, "running", "ended")
    BY <1>1, YardAdvance
  <2> QED BY <2>1, <2>3, <2>4, YardHeld DEF YardStep, Yard!Next, Yard!End
<1> QED BY <1>4, <1>5, <1>6, <1>7, <1>8, <1>9 DEF CustodyKept, CustodyInv

\* The registration of a unit that no contract has leaves the contracts alone.
UnitWrites(e) ==
  /\ status[e] \notin CONTRACT_STATUSES
  /\ status'[e] \notin CONTRACT_STATUSES
  /\ \A u \in Equipments : u # e => status'[u] = status[u]
  /\ UNCHANGED <<leaseStatus, documented, eleaseId, leaseItem>>

LEMMA UnitWritesKeepCustody ==
  ASSUME CustodyPre, NEW e \in Equipments, UnitWrites(e)
  PROVE  CustodyKept
<1>1. \A d \in Contracts, u \in Equipments : Open(d, u)' <=> Open(d, u)
  BY DEF Open, HasItem, UnitWrites
<1>2. \A d \in Contracts : ~ Open(d, e)
  BY AvailableIsFree DEF UnitWrites
<1>3. OutIsAccounted'
  BY <1>1 DEF CustodyPre, CustodyInv, OutIsAccounted, UnitWrites
<1>4. OpenLineHoldsUnit'
  BY <1>1, <1>2 DEF CustodyPre, CustodyInv, OpenLineHoldsUnit, UnitWrites
<1>5. PendingHoldsReserved'
  BY Distinct DEF CustodyPre, CustodyInv, PendingHoldsReserved, UnitWrites
<1>6. IdleHoldsNothing'
  BY DEF CustodyPre, CustodyInv, IdleHoldsNothing, UnitWrites
<1>7. OnlyThroughContractStep
  BY DEF OnlyThroughContractStep, UnitWrites
<1>8. YardStep
  <2>1. \A u \in Equipments : HolderOf(u)' = HolderOf(u)
    BY DEF HolderOf, UnitWrites
  <2> QED BY <2>1 DEF YardStep, holder, HolderOf, phase, UnitWrites
<1> QED BY <1>3, <1>4, <1>5, <1>6, <1>7, <1>8 DEF CustodyKept, CustodyInv

\* The handlers' writes that keep custody when what precedes them holds.
CustodyWrites ==
  \/ \E c \in Contracts, es \in SUBSET Equipments : CreateELeaseWrites(c, es)
  \/ \E c \in Contracts : StartContractWrites(c)
  \/ \E c \in Contracts : CancelContractWrites(c)
  \/ \E c \in Contracts, es \in SUBSET Equipments : AddEquipments(c, es)
  \/ \E c \in Contracts : \E es \in SUBSET Linked(c) : RemoveEquipmentsWrites(c, es)
  \/ \E c \in Contracts, es \in SUBSET Equipments, s \in returnStatus :
       UpdateEquipmentWrites(c, es, s)
  \/ \E c \in Contracts, oldOf \in Replacements : ReplaceEquipment(c, oldOf)
  \/ \E c \in Contracts :
       (\A e \in Equipments : ~ Open(c, e)) /\ CloseContractWrites(c)
  \/ \E c \in Contracts : GenerateContractWrites(c)
  \/ \E e \in Equipments : UnitWrites(e)

LEMMA CustodyUnchanged ==
  ASSUME CustodyPre, UNCHANGED <<leaseStatus, status, eleaseId, leaseItem>>
  PROVE  CustodyKept
<1>1. CustodyInv'
  BY DEF CustodyPre, CustodyInv, OutIsAccounted, OpenLineHoldsUnit, PendingHoldsReserved,
     IdleHoldsNothing, Open, HasItem
<1>2. OnlyThroughContractStep
  BY DEF OnlyThroughContractStep
<1>3. YardStep
  BY DEF YardStep, phase, holder
<1> QED BY <1>1, <1>2, <1>3 DEF CustodyKept

LEMMA CustodyWritesKept == ASSUME CustodyPre, CustodyWrites PROVE CustodyKept
  BY CreateKeepsCustody, StartKeepsCustody, CancelKeepsCustody, AddKeepsCustody,
     RemoveKeepsCustody, UpdateKeepsCustody, ReplaceKeepsCustody, CloseKeepsCustody,
     UnitWritesKeepCustody, CustodyUnchanged
  DEF CustodyWrites, AddEquipments, ReplaceEquipment, GenerateContractWrites

\* A unit that is registered, edited, retired or put back is in no contract.
LEMMA RegistrationIsUnitWrites ==
  ASSUME TypeOK, NEW e \in Equipments
  PROVE  /\ \A s \in EDITABLE_STATUSES, k \in Codes : CreateEquipment(e, s, k) => UnitWrites(e)
         /\ \A s \in EDITABLE_STATUSES \cup {Null}, k \in Codes \cup {Null} :
              EditEquipment(e, s, k) => UnitWrites(e)
         /\ DeleteEquipment(e) => UnitWrites(e)
         /\ ReactivateEquipment(e) => UnitWrites(e)
<1>1. EDITABLE_STATUSES \cap CONTRACT_STATUSES = {}
  BY DEF EDITABLE_STATUSES, CONTRACT_STATUSES
<1>2. \A s \in EDITABLE_STATUSES, k \in Codes : CreateEquipment(e, s, k) => UnitWrites(e)
  BY <1>1, Distinct DEF CreateEquipment, UnitWrites, TypeOK
<1>3. \A s \in EDITABLE_STATUSES \cup {Null}, k \in Codes \cup {Null} :
        EditEquipment(e, s, k) => UnitWrites(e)
  BY <1>1 DEF EditEquipment, EditEquipmentChecks, EditEquipmentWrites, outOfContract,
     UnitWrites, TypeOK
<1>4. DeleteEquipment(e) => UnitWrites(e)
  BY Distinct DEF DeleteEquipment, DeleteEquipmentChecks, DeleteEquipmentWrites, outOfContract,
     UnitWrites, TypeOK
<1>5. ReactivateEquipment(e) => UnitWrites(e)
  BY Distinct DEF ReactivateEquipment, UnitWrites, TypeOK
<1> QED BY <1>2, <1>3, <1>4, <1>5

LEMMA CustodyInit == Init => CustodyPre /\ Yard!Init
<1> SUFFICES ASSUME Init PROVE CustodyPre /\ Yard!Init
  OBVIOUS
<1>1. /\ \A c \in Contracts : leaseStatus[c] = Null /\ \A e \in Equipments : ~ Open(c, e)
      /\ \A e \in Equipments : eleaseId[e] = Null /\ status[e] \notin CONTRACT_STATUSES
  BY Distinct DEF Init, Open, HasItem, NoItem
<1>2. TypeOK /\ PendingLinesAreOpen
  BY Distinct DEF Init, TypeOK, PendingLinesAreOpen
<1>3. CustodyInv
  BY <1>1, Distinct DEF CustodyInv, OutIsAccounted, OpenLineHoldsUnit, PendingHoldsReserved,
     IdleHoldsNothing
<1>4. Yard!Init
  BY <1>1, Distinct DEF Yard!Init, phase, holder
<1> QED BY <1>2, <1>3, <1>4 DEF CustodyPre

\* What the properties need of the inductive invariant.
LEMMA CustodyImplies == CustodyPre => EndedHoldsNothing /\ ContractCanEnd
<1> SUFFICES ASSUME CustodyPre PROVE EndedHoldsNothing /\ ContractCanEnd
  OBVIOUS
<1>1. EndedHoldsNothing
  BY DEF EndedHoldsNothing, Linked, CustodyPre, CustodyInv, IdleHoldsNothing
<1>2. ASSUME NEW c \in Contracts, leaseStatus[c] = "PENDING" PROVE CancelContractChecks(c)
  BY <1>2 DEF CancelContractChecks, Linked, CustodyPre, CustodyInv, PendingHoldsReserved
<1>3. ASSUME NEW c \in Contracts, leaseStatus[c] = "ACTIVE", NEW e \in Equipments, Open(c, e)
      PROVE  UpdateEquipmentChecks(c, {e})
  <2>1. status[e] \in CONTRACT_STATUSES /\ eleaseId[e] = c /\ status[e] # "PENDING"
    BY <1>3, Lines DEF CustodyPre, CustodyInv, OpenLineHoldsUnit, PhaseOf
  <2> QED BY <1>3, <2>1, Distinct DEF UpdateEquipmentChecks
<1> QED BY <1>1, <1>2, <1>3 DEF ContractCanEnd

-----------------------------------------------------------------------------
(***************************************************************************)
(* Rental: one request at a time.                                          *)
(***************************************************************************)
LEMMA NextWrites ==
  ASSUME TypeOK, Next
  PROVE  WriteStep /\ (ForeignRemovals = FALSE => CustodyWrites)
<1>1. ASSUME NEW c \in Contracts, NEW oldOf \in Replacements, ReplaceEquipment(c, oldOf)
      PROVE  /\ LinesToReplace(c, oldOf) /\ MaintenanceIds(oldOf) \in SUBSET Equipments
             /\ ReplaceEquipmentWrites(c, oldOf, MaintenanceIds(oldOf))
  BY <1>1 DEF ReplaceEquipment, ReplaceEquipmentChecks, LinesToReplace, MaintenanceIds,
     Replacements
<1>2. ASSUME NEW c \in Contracts, NEW es \in SUBSET Equipments, AddEquipments(c, es)
      PROVE  leaseStatus[c] # Null /\ AddEquipmentsWrites(c, es)
  BY <1>2, Distinct DEF AddEquipments, AddEquipmentsChecks
<1>3. WriteStep
  BY <1>1, <1>2 DEF Next, WriteStep, CreateELease, StartContract, StartContractChecks,
     CancelContract, RemoveEquipments, UpdateEquipment, CloseContract, GenerateContract,
     EditEquipment, DeleteEquipment, SomeEquipments
<1>4. ForeignRemovals = FALSE => CustodyWrites
  BY RegistrationIsUnitWrites
  DEF Next, CustodyWrites, CreateELease, StartContract, CancelContract, RemoveEquipments,
      RemovableFrom, UpdateEquipment, CloseContract, CloseContractChecks, GenerateContract,
      SomeEquipments
<1> QED BY <1>3, <1>4

\* Every column keeps its type, whatever the removals name.
THEOREM Typing == Spec => []TypeOK
<1>1. Init => TypeOK
  BY CustodyInit DEF CustodyPre
<1>2. TypeOK /\ [Next]_vars => TypeOK'
  <2>1. TypeOK /\ UNCHANGED vars => TypeOK'
    BY DEF TypeOK, vars
  <2> QED BY <2>1, NextWrites, WritesTyped
<1> QED BY <1>1, <1>2, PTL DEF Spec

LEMMA SerialStep ==
  ASSUME ForeignRemovals = FALSE, CustodyPre, [Next]_vars
  PROVE  CustodyPre' /\ [OnlyThroughContractStep]_vars /\ YardStep
<1>1. CASE Next
  <2>1. WriteStep /\ CustodyWrites
    BY <1>1, NextWrites DEF CustodyPre
  <2>2. TypeOK' /\ PendingLinesAreOpen'
    BY <2>1, WritesTyped, WritesSettled DEF CustodyPre
  <2>3. CustodyKept
    BY <2>1, CustodyWritesKept
  <2> QED BY <2>2, <2>3 DEF CustodyPre, CustodyKept
<1>2. CASE UNCHANGED vars
  <2>1. TypeOK' /\ PendingLinesAreOpen'
    BY <1>2 DEF CustodyPre, TypeOK, PendingLinesAreOpen, vars
  <2>2. CustodyKept
    BY <1>2, CustodyUnchanged DEF vars
  <2> QED BY <2>1, <2>2 DEF CustodyPre, CustodyKept
<1> QED BY <1>1, <1>2

\* The inductive invariant of requests served one at a time.
THEOREM SerialInvariant ==
  ASSUME ForeignRemovals = FALSE
  PROVE  Spec => []CustodyPre
<1>1. CustodyPre /\ [Next]_vars => CustodyPre'
  BY SerialStep
<1> QED BY <1>1, CustodyInit, PTL DEF Spec

\* A unit shown as reserved, rented or substitute is linked to a contract in
\* the matching phase that has an open line for it.
THEOREM OutAlwaysAccounted ==
  ASSUME ForeignRemovals = FALSE
  PROVE  Spec => []OutIsAccounted
<1>1. CustodyPre => OutIsAccounted
  BY DEF CustodyPre, CustodyInv
<1> QED BY <1>1, SerialInvariant, PTL

\* An open line belongs to a contract that has not ended and holds its unit:
\* no unit is on two open lines.
THEOREM OpenLineAlwaysHoldsUnit ==
  ASSUME ForeignRemovals = FALSE
  PROVE  Spec => []OpenLineHoldsUnit
<1>1. CustodyPre => OpenLineHoldsUnit
  BY DEF CustodyPre, CustodyInv
<1> QED BY <1>1, SerialInvariant, PTL

\* A contract that was cancelled or completed keeps no unit.
THEOREM EndedAlwaysHoldsNothing ==
  ASSUME ForeignRemovals = FALSE
  PROVE  Spec => []EndedHoldsNothing
  BY SerialInvariant, CustodyImplies, PTL

\* No contract gets stuck: the refusals on the way to its end are not final.
THEOREM ContractCanAlwaysEnd ==
  ASSUME ForeignRemovals = FALSE
  PROVE  Spec => []ContractCanEnd
  BY SerialInvariant, CustodyImplies, PTL

\* A unit in a contract changes only with that contract or its line.
THEOREM ChangesThroughContract ==
  ASSUME ForeignRemovals = FALSE
  PROVE  Spec => OnlyThroughContract
<1>1. CustodyPre /\ [Next]_vars => [OnlyThroughContractStep]_vars
  BY SerialStep
<1> QED BY <1>1, SerialInvariant, PTL DEF Spec, OnlyThroughContract

\* The records implement the yard.
THEOREM RecordsImplementCustody ==
  ASSUME ForeignRemovals = FALSE
  PROVE  Spec => ImplementsCustody
<1>1. Init => Yard!Init
  BY CustodyInit
<1>2. CustodyPre /\ [Next]_vars => [Yard!Next]_(Yard!custodyVars)
  BY SerialStep DEF YardStep, Yard!custodyVars
<1> QED BY <1>1, <1>2, SerialInvariant, PTL DEF Spec, ImplementsCustody, Yard!Spec

-----------------------------------------------------------------------------
(***************************************************************************)
(* RentalServer on the routes whose writes re-check what they rest on.     *)
(***************************************************************************)
GuardedRoutes ==
  {"createELease", "startContract", "cancelContract", "updateEquipment", "closeContract",
   "generateContract"}

\* No route outside the set is in flight.
OnRoutes == \A r \in Requests : request[r].route \in GuardedRoutes \cup {"idle"}

\* What closeContract read and does not re-check: the contract exists and has
\* no open line.
NothingOut(c) == leaseStatus[c] # Null /\ \A e \in Equipments : ~ Open(c, e)

ClosingHasNothingOut ==
  \A r \in Requests :
    request[r].route = "closeContract" => NothingOut(request[r].contract)

GuardedInv == ServerInv /\ CustodyInv /\ OnRoutes /\ ClosingHasNothingOut

\* The writes of those routes, and of the registration.
GuardedWrites ==
  \/ \E c \in Contracts, es \in SUBSET Equipments : CreateELeaseWrites(c, es)
  \/ \E c \in Contracts : StartContractWrites(c)
  \/ \E c \in Contracts : CancelContractWrites(c)
  \/ \E c \in Contracts, es \in SUBSET Equipments, s \in returnStatus :
       UpdateEquipmentWrites(c, es, s)
  \/ \E c \in Contracts :
       (\A e \in Equipments : ~ Open(c, e)) /\ CloseContractWrites(c)
  \/ \E c \in Contracts : GenerateContractWrites(c)
  \/ \E e \in Equipments : UnitWrites(e)

\* None of them opens a line in a contract that exists.
LEMMA NothingOutKept ==
  ASSUME CustodyPre, GuardedWrites \/ UNCHANGED vars, NEW c \in Contracts, NothingOut(c)
  PROVE  NothingOut(c)'
<1> USE DEF NothingOut
<1>1. ASSUME NEW d \in Contracts, NEW es \in SUBSET Equipments, CreateELeaseWrites(d, es)
      PROVE  NothingOut(c)'
  BY <1>1 DEF CreateELeaseWrites, CustodyPre, TypeOK, Open, HasItem
<1>2. ASSUME NEW d \in Contracts, StartContractWrites(d)
      PROVE  NothingOut(c)'
  <2>1. d = c => \A e \in Equipments : leaseItem[c][e].startStatus # "PENDING"
    BY <1>2, PendingLines DEF StartContractWrites, wherePending
  <2>2. \A e \in Equipments : leaseItem'[c][e] = leaseItem[c][e]
    BY <1>2, <2>1 DEF StartContractWrites, CustodyPre, TypeOK
  <2>3. leaseStatus'[c] # Null
    BY <1>2, Distinct DEF StartContractWrites, CustodyPre, TypeOK
  <2> QED BY <2>2, <2>3 DEF Open, HasItem
<1>3. ASSUME NEW d \in Contracts, CancelContractWrites(d)
      PROVE  NothingOut(c)'
  <2>1. d = c => \A e \in Equipments : leaseItem[c][e].startStatus # "PENDING"
    BY <1>3, PendingLines DEF CancelContractWrites, wherePending
  <2>2. \A e \in Equipments : leaseItem'[c][e] = leaseItem[c][e]
    BY <1>3, <2>1 DEF CancelContractWrites, CustodyPre, TypeOK
  <2>3. leaseStatus'[c] # Null
    BY <1>3, Distinct DEF CancelContractWrites, CustodyPre, TypeOK
  <2> QED BY <2>2, <2>3 DEF Open, HasItem
<1>4. ASSUME NEW d \in Contracts, NEW es \in SUBSET Equipments, NEW s \in returnStatus,
             UpdateEquipmentWrites(d, es, s)
      PROVE  NothingOut(c)'
  <2>1. \A e \in Equipments :
          leaseItem'[c][e] # leaseItem[c][e] =>
            leaseItem[c][e].startStatus \in outStatus /\ leaseItem[c][e].finalStatus = Null
    BY <1>4 DEF UpdateEquipmentWrites, CustodyPre, TypeOK
  <2>2. \A e \in Equipments : leaseItem'[c][e] = leaseItem[c][e]
    BY <2>1, Distinct DEF Open, HasItem
  <2> QED BY <1>4, <2>2 DEF UpdateEquipmentWrites, Open, HasItem
<1>5. ASSUME NEW d \in Contracts, CloseContractWrites(d)
      PROVE  NothingOut(c)'
  BY <1>5, Distinct DEF CloseContractWrites, CustodyPre, TypeOK, Open, HasItem
<1>6. UNCHANGED <<leaseStatus, leaseItem>> => NothingOut(c)'
  BY DEF Open, HasItem
<1> QED BY <1>1, <1>2, <1>3, <1>4, <1>5, <1>6 DEF GuardedWrites, GenerateContractWrites, UnitWrites, vars

LEMMA GuardedStepWrites ==
  ASSUME GuardedInv, [ServerNext]_serverVars
  PROVE  GuardedWrites \/ UNCHANGED vars
<1>1. ASSUME NEW r \in Requests, CommitStep(r)
      PROVE  GuardedWrites
  <2>1. request[r] \in Request \cup {Idle} /\ request[r].route \in GuardedRoutes \cup {"idle"}
    BY DEF GuardedInv, ServerInv, ServerTypeOK, OnRoutes
  <2>2. request[r].route = "closeContract" =>
          \A e \in Equipments : ~ Open(request[r].contract, e)
    BY DEF GuardedInv, ClosingHasNothingOut, NothingOut
  <2> QED
    BY <1>1, <2>1, <2>2, RequestFields
    DEF GuardedRoutes, GuardedWrites, CommitStep, Commit, CreateELeaseCommit,
        StartContractCommit, CancelContractCommit, AddEquipmentsCommit, RemoveEquipmentsCommit,
        UpdateEquipmentCommit, ReplaceEquipmentCommit, CloseContractCommit,
        GenerateContractCommit, EditEquipmentCommit, DeleteEquipmentCommit
<1>2. TypeOK
  BY DEF GuardedInv, ServerInv, ServerTypeOK
<1>3. CreateEquipmentNow \/ ReactivateEquipmentNow => GuardedWrites
  BY <1>2, RegistrationIsUnitWrites
  DEF CreateEquipmentNow, ReactivateEquipmentNow, GuardedWrites
<1> QED BY <1>1, <1>3, ReadTyped DEF ServerNext, serverVars, Rollback

LEMMA GuardedStep ==
  ASSUME Routes \subseteq GuardedRoutes, GuardedInv, [ServerNext]_serverVars, ServerInv'
  PROVE  GuardedInv' /\ YardStep
<1>1. CustodyPre
  BY DEF GuardedInv, ServerInv, ServerTypeOK, RecordsInv, CustodyPre
<1>2. GuardedWrites \/ UNCHANGED vars
  BY GuardedStepWrites
<1>3. CustodyKept
  <2>1. GuardedWrites => CustodyWrites
    BY DEF GuardedWrites, CustodyWrites
  <2> QED BY <1>1, <1>2, <2>1, CustodyWritesKept, CustodyUnchanged DEF vars
<1>4. ASSUME NEW r \in Requests
      PROVE  \/ request'[r] = request[r]
             \/ request'[r] = Idle
             \/ \E q \in Request : q.route \in Routes /\ request'[r] = q /\ ReadStep(r)
  <2>1. request \in [Requests -> Request \cup {Idle}]
    BY DEF GuardedInv, ServerInv, ServerTypeOK
  <2>2. ASSUME NEW t \in Requests, ReadStep(t)
        PROVE  /\ request'[t].route \in Routes /\ request'[t] \in Request
               /\ \A u \in Requests : u # t => request'[u] = request[u]
    BY <2>1, <2>2, ReadTyped
    DEF ReadStep, Read, CreateELeaseRead, StartContractRead, CancelContractRead,
        AddEquipmentsRead, RemoveEquipmentsRead, UpdateEquipmentRead, ReplaceEquipmentRead,
        CloseContractRead, GenerateContractRead, EditEquipmentRead, DeleteEquipmentRead
  <2>3. ASSUME NEW t \in Requests, request' = [request EXCEPT ![t] = Idle]
        PROVE  request'[r] = request[r] \/ request'[r] = Idle
    BY <2>1, <2>3
  <2> QED
    BY <2>2, <2>3, CommitWrites
    DEF GuardedInv, ServerInv, ServerNext, serverVars, Rollback, CreateEquipmentNow,
        ReactivateEquipmentNow
<1>5. OnRoutes'
  BY <1>4 DEF OnRoutes, GuardedInv, Idle
<1>6. ClosingHasNothingOut'
  <2> SUFFICES ASSUME NEW r \in Requests, request'[r].route = "closeContract"
               PROVE  NothingOut(request[r].contract)'
    BY DEF ClosingHasNothingOut, NothingOut
  <2>1. CASE request'[r] = request[r]
    <3>1. request[r].contract \in Contracts /\ NothingOut(request[r].contract)
      BY <2>1, RequestFields
      DEF GuardedInv, ServerInv, ServerTypeOK, ClosingHasNothingOut
    <3>2. \A c \in Contracts : NothingOut(c) => NothingOut(c)'
      BY <1>1, <1>2, NothingOutKept
    <3> QED BY <2>1, <3>1, <3>2 DEF NothingOut
  <2>2. CASE request'[r] = Idle
    BY <2>2 DEF Idle
  <2>3. CASE ReadStep(r)
    <3>1. \E c \in Contracts :
            /\ CloseContractChecks(c)
            /\ Read(r, [route |-> "closeContract", contract |-> c])
      BY <2>3
      DEF GuardedInv, ServerInv, ServerTypeOK, ReadStep, Read, CreateELeaseRead,
          StartContractRead, CancelContractRead, AddEquipmentsRead, RemoveEquipmentsRead,
          UpdateEquipmentRead, ReplaceEquipmentRead, CloseContractRead, GenerateContractRead,
          EditEquipmentRead, DeleteEquipmentRead
    <3>2. PICK c \in Contracts : CloseContractChecks(c) /\ request'[r].contract = c
      BY <3>1 DEF Read, GuardedInv, ServerInv, ServerTypeOK
    <3> QED
      BY <2>3, <3>2, ReadTyped, Distinct
      DEF CloseContractChecks, NothingOut, Open, HasItem, vars
  <2> QED BY <1>4, <2>1, <2>2, <2>3
<1> QED BY <1>3, <1>5, <1>6 DEF GuardedInv, CustodyKept

LEMMA GuardedInit == ServerInit => GuardedInv /\ Yard!Init
  BY ServerInit_Inv, CustodyInit
  DEF ServerInit, GuardedInv, CustodyPre, OnRoutes, ClosingHasNothingOut, Idle

\* The inductive invariant of the routes that re-check what they write.
THEOREM GuardedInvariant ==
  ASSUME Routes \subseteq GuardedRoutes
  PROVE  ServerSpec => []GuardedInv
<1>1. GuardedInv /\ [ServerNext]_serverVars /\ ServerInv' => GuardedInv'
  BY GuardedStep
<1> QED BY <1>1, GuardedInit, ServerInvariant, PTL DEF ServerSpec

\* Requests on those routes, however they interleave, leave the contracts
\* able to end and the records true to the yard.
THEOREM GuardedCustody ==
  ASSUME Routes \subseteq GuardedRoutes
  PROVE  ServerSpec => [](OutIsAccounted /\ OpenLineHoldsUnit /\ ContractCanEnd)
<1>1. GuardedInv => OutIsAccounted /\ OpenLineHoldsUnit /\ ContractCanEnd
  BY CustodyImplies
  DEF GuardedInv, ServerInv, ServerTypeOK, RecordsInv, CustodyPre, CustodyInv
<1> QED BY <1>1, GuardedInvariant, PTL

THEOREM GuardedImplementsCustody ==
  ASSUME Routes \subseteq GuardedRoutes
  PROVE  ServerSpec => ImplementsCustody
<1>1. ServerInit => Yard!Init
  BY GuardedInit
<1>2. GuardedInv /\ [ServerNext]_serverVars /\ ServerInv' => [Yard!Next]_(Yard!custodyVars)
  BY GuardedStep DEF YardStep, Yard!custodyVars
<1> QED
  BY <1>1, <1>2, GuardedInvariant, ServerInvariant, PTL
  DEF ServerSpec, ImplementsCustody, Yard!Spec
=============================================================================
