---------------------------- MODULE RentalProofs ----------------------------
(***************************************************************************)
(* Theorems about RentalServer, for any sets of contracts, units, types,   *)
(* slots and routes.                                                       *)
(***************************************************************************)
EXTENDS RentalServer, TLAPS

-----------------------------------------------------------------------------
(***************************************************************************)
(* Types: what each handler's writes do to TypeOK.                         *)
(***************************************************************************)

\* updateMany of a column gives the rows it matches a value of the column.
LEMMA UpdateManyType ==
  ASSUME NEW D, NEW V, NEW f \in [D -> V], NEW rows, NEW v \in V
  PROVE  UpdateMany(f, rows, v) \in [D -> V]
  BY DEF UpdateMany

\* Enough of the status lists for the steps below.
LEMMA Statuses ==
  /\ CONTRACT_STATUSES \subseteq StatusEquipment
  /\ EDITABLE_STATUSES \subseteq StatusEquipment
  /\ returnStatus \subseteq StatusEquipment
  /\ keepELeaseId \subseteq returnStatus
  /\ outStatus \subseteq CONTRACT_STATUSES
  /\ returnStatus \cap CONTRACT_STATUSES = {}
  BY DEF CONTRACT_STATUSES, EDITABLE_STATUSES, returnStatus, keepELeaseId, outStatus,
         StatusEquipment

\* A line is either absent or has a start, and no field of a line is NoItem's
\* by accident.
LEMMA NewItemType ==
  ASSUME NEW s \in CONTRACT_STATUSES, NEW old \in Equipments \cup {Null}
  PROVE  NewItem(s, old) \in LeaseItem
  BY DEF NewItem, LeaseItem

\* Starting or settling a line changes that one field.
LEMMA LineUpdates ==
  ASSUME NEW i \in LeaseItem \cup {NoItem}, NEW s
  PROVE  /\ Started(i).finalStatus = i.finalStatus
         /\ Started(i).replaces = i.replaces
         /\ Settled(i, s).startStatus = i.startStatus
         /\ Settled(i, s).replaces = i.replaces
         /\ i.startStatus # Null => Started(i) \in LeaseItem
         /\ i.startStatus # Null /\ s \in returnStatus => Settled(i, s) \in LeaseItem
  BY DEF Started, Settled, LeaseItem, NoItem, CONTRACT_STATUSES

LEMMA CreateELeaseTyped ==
  ASSUME TypeOK, NEW c \in Contracts, NEW es \in SUBSET Equipments, CreateELeaseWrites(c, es)
  PROVE  TypeOK'
  <1>1. leaseStatus' \in [Contracts -> LeaseStatus \cup {Null}]
    BY DEF TypeOK, CreateELeaseWrites, LeaseStatus
  <1>2. status' \in [Equipments -> StatusEquipment \cup {Null}]
    BY UpdateManyType DEF TypeOK, CreateELeaseWrites, StatusEquipment
  <1>3. eleaseId' \in [Equipments -> Contracts \cup {Null}]
    BY UpdateManyType DEF TypeOK, CreateELeaseWrites
  <1>4. leaseItem' \in [Contracts -> [Equipments -> LeaseItem \cup {NoItem}]]
    <2>1. NewItem("PENDING", Null) \in LeaseItem \cup {NoItem}
      BY NewItemType DEF CONTRACT_STATUSES
    <2>2. UpdateMany(leaseItem[c], es, NewItem("PENDING", Null))
            \in [Equipments -> LeaseItem \cup {NoItem}]
      BY <2>1, UpdateManyType DEF TypeOK
    <2>3. QED
      BY <2>2 DEF TypeOK, CreateELeaseWrites
  <1>5. QED
    BY <1>1, <1>2, <1>3, <1>4 DEF TypeOK, CreateELeaseWrites

LEMMA StartContractTyped ==
  ASSUME TypeOK, NEW c \in Contracts, StartContractWrites(c)
  PROVE  TypeOK'
  <1>1. leaseStatus' \in [Contracts -> LeaseStatus \cup {Null}]
    BY DEF TypeOK, StartContractWrites, LeaseStatus
  <1>2. status' \in [Equipments -> StatusEquipment \cup {Null}]
    BY UpdateManyType DEF TypeOK, StartContractWrites, StatusEquipment
  <1>3. leaseItem' \in [Contracts -> [Equipments -> LeaseItem \cup {NoItem}]]
    <2>1. ASSUME NEW i \in LeaseItem \cup {NoItem}, i.startStatus = "PENDING"
          PROVE  Started(i) \in LeaseItem
      BY <2>1, LineUpdates, NullAssumption DEF StatusEquipment
    <2>2. QED
      BY <2>1 DEF TypeOK, StartContractWrites
  <1>4. QED
    BY <1>1, <1>2, <1>3 DEF TypeOK, StartContractWrites

LEMMA CancelContractTyped ==
  ASSUME TypeOK, NEW c \in Contracts, CancelContractWrites(c)
  PROVE  TypeOK'
  <1>1. leaseStatus' \in [Contracts -> LeaseStatus \cup {Null}]
    BY DEF TypeOK, CancelContractWrites, LeaseStatus
  <1>2. status' \in [Equipments -> StatusEquipment \cup {Null}]
    BY UpdateManyType DEF TypeOK, CancelContractWrites, StatusEquipment
  <1>3. eleaseId' \in [Equipments -> Contracts \cup {Null}]
    BY UpdateManyType DEF TypeOK, CancelContractWrites
  <1>4. leaseItem' \in [Contracts -> [Equipments -> LeaseItem \cup {NoItem}]]
    <2>1. ASSUME NEW i \in LeaseItem \cup {NoItem}, i.startStatus = "PENDING"
          PROVE  Settled(i, "AVAILABLE") \in LeaseItem
      BY <2>1, LineUpdates, NullAssumption DEF returnStatus, StatusEquipment
    <2>2. QED
      BY <2>1 DEF TypeOK, CancelContractWrites
  <1>5. QED
    BY <1>1, <1>2, <1>3, <1>4 DEF TypeOK, CancelContractWrites

LEMMA AddEquipmentsTyped ==
  ASSUME TypeOK, NEW c \in Contracts, NEW es \in SUBSET Equipments, AddEquipmentsWrites(c, es)
  PROVE  TypeOK'
  <1>1. status' \in [Equipments -> StatusEquipment \cup {Null}]
    BY UpdateManyType DEF TypeOK, AddEquipmentsWrites, StatusEquipment
  <1>2. eleaseId' \in [Equipments -> Contracts \cup {Null}]
    BY UpdateManyType DEF TypeOK, AddEquipmentsWrites
  <1>3. leaseItem' \in [Contracts -> [Equipments -> LeaseItem \cup {NoItem}]]
    <2>1. NewItem("PENDING", Null) \in LeaseItem \cup {NoItem}
      BY NewItemType DEF CONTRACT_STATUSES
    <2>2. UpdateMany(leaseItem[c], es, NewItem("PENDING", Null))
            \in [Equipments -> LeaseItem \cup {NoItem}]
      BY <2>1, UpdateManyType DEF TypeOK
    <2>3. QED
      BY <2>2 DEF TypeOK, AddEquipmentsWrites
  <1>4. QED
    BY <1>1, <1>2, <1>3 DEF TypeOK, AddEquipmentsWrites

LEMMA RemoveEquipmentsTyped ==
  ASSUME TypeOK, NEW c \in Contracts, NEW es \in SUBSET Equipments, RemoveEquipmentsWrites(c, es)
  PROVE  TypeOK'
  <1>1. status' \in [Equipments -> StatusEquipment \cup {Null}]
    BY UpdateManyType DEF TypeOK, RemoveEquipmentsWrites, StatusEquipment
  <1>2. eleaseId' \in [Equipments -> Contracts \cup {Null}]
    BY UpdateManyType DEF TypeOK, RemoveEquipmentsWrites
  <1>3. leaseItem' \in [Contracts -> [Equipments -> LeaseItem \cup {NoItem}]]
    <2>1. UpdateMany(leaseItem[c], es, NoItem) \in [Equipments -> LeaseItem \cup {NoItem}]
      BY UpdateManyType DEF TypeOK
    <2>2. QED
      BY <2>1 DEF TypeOK, RemoveEquipmentsWrites
  <1>4. QED
    BY <1>1, <1>2, <1>3 DEF TypeOK, RemoveEquipmentsWrites

LEMMA UpdateEquipmentTyped ==
  ASSUME TypeOK, NEW c \in Contracts, NEW es \in SUBSET Equipments, NEW s \in returnStatus,
         UpdateEquipmentWrites(c, es, s)
  PROVE  TypeOK'
  <1>1. status' \in [Equipments -> StatusEquipment \cup {Null}]
    BY UpdateManyType, Statuses DEF TypeOK, UpdateEquipmentWrites
  <1>2. eleaseId' \in [Equipments -> Contracts \cup {Null}]
    BY UpdateManyType DEF TypeOK, UpdateEquipmentWrites
  <1>3. leaseItem' \in [Contracts -> [Equipments -> LeaseItem \cup {NoItem}]]
    <2>1. ASSUME NEW i \in LeaseItem \cup {NoItem}, i.startStatus \in outStatus
          PROVE  Settled(i, s) \in LeaseItem
      BY <2>1, LineUpdates, NullAssumption, Statuses
    <2>2. QED
      BY <2>1 DEF TypeOK, UpdateEquipmentWrites
  <1>4. QED
    BY <1>1, <1>2, <1>3 DEF TypeOK, UpdateEquipmentWrites

LEMMA ReplaceEquipmentTyped ==
  ASSUME TypeOK, NEW c \in Contracts, NEW oldOf \in Replacements, NEW maintenance,
         ReplaceEquipmentWrites(c, oldOf, maintenance)
  PROVE  TypeOK'
  <1>1. status' \in [Equipments -> StatusEquipment \cup {Null}]
    BY UpdateManyType DEF TypeOK, ReplaceEquipmentWrites, StatusEquipment
  <1>2. eleaseId' \in [Equipments -> Contracts \cup {Null}]
    <2>1. UpdateMany(eleaseId, maintenance \cap Linked(c), Null)
            \in [Equipments -> Contracts \cup {Null}]
      BY UpdateManyType DEF TypeOK
    <2>2. QED
      BY <2>1, UpdateManyType DEF ReplaceEquipmentWrites
  <1>3. leaseItem' \in [Contracts -> [Equipments -> LeaseItem \cup {NoItem}]]
    <2>1. \A n \in DOMAIN oldOf : NewItem("REPLACE", oldOf[n]) \in LeaseItem
      <3>1. \A n \in DOMAIN oldOf : oldOf[n] \in Equipments
        BY DEF Replacements
      <3>2. QED
        BY <3>1, NewItemType DEF CONTRACT_STATUSES
    <2>2. QED
      BY <2>1 DEF TypeOK, ReplaceEquipmentWrites
  <1>4. QED
    BY <1>1, <1>2, <1>3 DEF TypeOK, ReplaceEquipmentWrites

LEMMA CloseContractTyped ==
  ASSUME TypeOK, NEW c \in Contracts, CloseContractWrites(c)
  PROVE  TypeOK'
  BY UpdateManyType DEF TypeOK, CloseContractWrites, LeaseStatus

LEMMA GenerateContractTyped ==
  ASSUME TypeOK, NEW c \in Contracts, GenerateContractWrites(c)
  PROVE  TypeOK'
  BY DEF TypeOK, GenerateContractWrites

\* The registration of units keeps the types.
LEMMA RegistrationTyped ==
  ASSUME TypeOK, NEW e \in Equipments
  PROVE  /\ \A s \in EDITABLE_STATUSES, k \in Codes : CreateEquipment(e, s, k) => TypeOK'
         /\ \A s \in EDITABLE_STATUSES \cup {Null}, k \in Codes \cup {Null} :
              EditEquipmentWrites(e, s, k) => TypeOK'
         /\ DeleteEquipmentWrites(e) => TypeOK'
         /\ ReactivateEquipment(e) => TypeOK'
  <1>1. \A s \in EDITABLE_STATUSES, k \in Codes : CreateEquipment(e, s, k) => TypeOK'
    BY Statuses DEF TypeOK, CreateEquipment
  <1>2. \A s \in EDITABLE_STATUSES \cup {Null}, k \in Codes \cup {Null} :
          EditEquipmentWrites(e, s, k) => TypeOK'
    BY Statuses DEF TypeOK, EditEquipmentWrites
  <1>3. DeleteEquipmentWrites(e) => TypeOK'
    BY DEF TypeOK, DeleteEquipmentWrites, StatusEquipment
  <1>4. ReactivateEquipment(e) => TypeOK'
    BY DEF TypeOK, ReactivateEquipment, StatusEquipment
  <1>5. QED
    BY <1>1, <1>2, <1>3, <1>4

-----------------------------------------------------------------------------
(***************************************************************************)
(* Every step of the server, and of Rental alone, is one handler's writes  *)
(* with what the handler knows when it writes, or leaves the records as    *)
(* they are.  The invariants below are proved of these writes.             *)
(***************************************************************************)
LinesToReplace(c, oldOf) ==
  \A n \in DOMAIN oldOf : leaseItem[c][oldOf[n]].finalStatus \in keepELeaseId

WriteStep ==
  \/ \E c \in Contracts, es \in SUBSET Equipments : CreateELeaseWrites(c, es)
  \/ \E c \in Contracts : documented[c] /\ StartContractWrites(c)
  \/ \E c \in Contracts : CancelContractWrites(c)
  \/ \E c \in Contracts, es \in SUBSET Equipments :
       leaseStatus[c] # Null /\ AddEquipmentsWrites(c, es)
  \/ \E c \in Contracts, es \in SUBSET Equipments : RemoveEquipmentsWrites(c, es)
  \/ \E c \in Contracts, es \in SUBSET Equipments, s \in returnStatus :
       UpdateEquipmentWrites(c, es, s)
  \/ \E c \in Contracts, oldOf \in Replacements, maintenance \in SUBSET Equipments :
       LinesToReplace(c, oldOf) /\ ReplaceEquipmentWrites(c, oldOf, maintenance)
  \/ \E c \in Contracts : CloseContractWrites(c)
  \/ \E c \in Contracts : GenerateContractWrites(c)
  \/ \E e \in Equipments, s \in EDITABLE_STATUSES, k \in Codes : CreateEquipment(e, s, k)
  \/ \E e \in Equipments, s \in EDITABLE_STATUSES \cup {Null}, k \in Codes \cup {Null} :
       EditEquipmentWrites(e, s, k)
  \/ \E e \in Equipments : DeleteEquipmentWrites(e)
  \/ \E e \in Equipments : ReactivateEquipment(e)

LEMMA WritesTyped == ASSUME TypeOK, WriteStep PROVE TypeOK'
  BY CreateELeaseTyped, StartContractTyped, CancelContractTyped, AddEquipmentsTyped,
     RemoveEquipmentsTyped, UpdateEquipmentTyped, ReplaceEquipmentTyped, CloseContractTyped,
     GenerateContractTyped, RegistrationTyped
  DEF WriteStep

\* What the records keep whatever the interleaving.
RecordsInv == TypeOK /\ PendingLinesAreOpen /\ SubstitutesChain /\ StartedIsDocumented

\* A contract only moves forward: no write takes a status back.
LEMMA WritesLifecycle == ASSUME TypeOK, WriteStep PROVE LifecycleStep
  <1>1. ASSUME NEW c \in Contracts, NEW from, leaseStatus[c] = from, NEW to,
               leaseStatus' = [leaseStatus EXCEPT ![c] = to],
               <<from, to>> \in {<<Null, "PENDING">>, <<"PENDING", "ACTIVE">>,
                                 <<"PENDING", "CANCELLED">>, <<"ACTIVE", "COMPLETED">>}
        PROVE  LifecycleStep
    BY <1>1 DEF LifecycleStep, TypeOK
  <1>2. UNCHANGED leaseStatus => LifecycleStep
    BY DEF LifecycleStep
  <1>3. QED
    BY <1>1, <1>2 DEF WriteStep, CreateELeaseWrites, StartContractWrites, CancelContractWrites,
       AddEquipmentsWrites, RemoveEquipmentsWrites, UpdateEquipmentWrites,
       ReplaceEquipmentWrites, CloseContractWrites, GenerateContractWrites, CreateEquipment,
       EditEquipmentWrites, DeleteEquipmentWrites, ReactivateEquipment, wherePending, whereActive

\* Only startContract makes a contract active, and the mark of a document is
\* never taken off.
LEMMA WritesDocumented ==
  ASSUME TypeOK, StartedIsDocumented, WriteStep
  PROVE  StartedIsDocumented' /\ \A c \in Contracts : documented[c] => documented'[c]
  BY DEF TypeOK, StartedIsDocumented, WriteStep, CreateELeaseWrites, StartContractWrites,
     CancelContractWrites, AddEquipmentsWrites, RemoveEquipmentsWrites, UpdateEquipmentWrites,
     ReplaceEquipmentWrites, CloseContractWrites, GenerateContractWrites, CreateEquipment,
     EditEquipmentWrites, DeleteEquipmentWrites, ReactivateEquipment, wherePending, whereActive

\* Settled lines are only ever found where no write that deletes or settles
\* lines reaches them.
LEMMA WritesSettled ==
  ASSUME TypeOK, PendingLinesAreOpen, WriteStep
  PROVE  SettledStep /\ PendingLinesAreOpen'
  <1> USE DEF TypeOK, PendingLinesAreOpen, SettledStep
  <1>1. LeaseStatus = {"PENDING", "ACTIVE", "COMPLETED", "CANCELLED"} /\ Null \notin LeaseStatus
    BY NullAssumption DEF LeaseStatus
  <1>2. NoItem.startStatus = Null /\ NoItem.finalStatus = Null
    BY DEF NoItem
  <1>3. ASSUME NEW s, NEW o
        PROVE  NewItem(s, o).startStatus = s /\ NewItem(s, o).finalStatus = Null
    BY DEF NewItem
  <1>4. \A c \in Contracts, e \in Equipments :
          ~ HasItem(c, e) => leaseItem[c][e].finalStatus = Null
    BY NullAssumption, Statuses DEF HasItem, LeaseItem, NoItem
  <1>5. ASSUME NEW c \in Contracts, NEW es \in SUBSET Equipments, CreateELeaseWrites(c, es)
        PROVE  SettledStep /\ PendingLinesAreOpen'
    BY <1>1, <1>2, <1>3, <1>5 DEF CreateELeaseWrites, UpdateMany
  <1>6. ASSUME NEW c \in Contracts, StartContractWrites(c)
        PROVE  SettledStep /\ PendingLinesAreOpen'
    BY <1>1, <1>6 DEF StartContractWrites, wherePending, Started
  <1>7. ASSUME NEW c \in Contracts, CancelContractWrites(c)
        PROVE  SettledStep /\ PendingLinesAreOpen'
    BY <1>1, <1>7 DEF CancelContractWrites, wherePending
  <1>8. ASSUME NEW c \in Contracts, NEW es \in SUBSET Equipments,
               leaseStatus[c] # Null, AddEquipmentsWrites(c, es)
        PROVE  SettledStep /\ PendingLinesAreOpen'
    BY <1>3, <1>4, <1>8 DEF AddEquipmentsWrites, FirstLines, UpdateMany
  <1>9. ASSUME NEW c \in Contracts, NEW es \in SUBSET Equipments, RemoveEquipmentsWrites(c, es)
        PROVE  SettledStep /\ PendingLinesAreOpen'
    BY <1>1, <1>2, <1>9 DEF RemoveEquipmentsWrites, wherePending, UpdateMany
  <1>10. ASSUME NEW c \in Contracts, NEW es \in SUBSET Equipments, NEW s \in returnStatus,
                UpdateEquipmentWrites(c, es, s)
         PROVE  SettledStep /\ PendingLinesAreOpen'
    <2>1. \A d \in Contracts, e \in Equipments :
            leaseItem'[d][e] # leaseItem[d][e] =>
              leaseItem[d][e].startStatus \in outStatus /\ leaseItem[d][e].finalStatus = Null
      BY <1>10 DEF UpdateEquipmentWrites
    <2>2. Null \notin outStatus /\ "PENDING" \notin outStatus
      BY NullAssumption, Statuses DEF outStatus
    <2>3. UNCHANGED leaseStatus
      BY <1>10 DEF UpdateEquipmentWrites
    <2>4. SettledStep
      BY <2>1
    <2>5. ASSUME NEW d \in Contracts, NEW e \in Equipments, leaseStatus[d] \in {Null, "PENDING"}
          PROVE  leaseItem'[d][e] = leaseItem[d][e]
      BY <1>2, <2>1, <2>2, <2>5
    <2>6. QED
      BY <2>3, <2>4, <2>5
  <1>11. ASSUME NEW c \in Contracts, NEW oldOf \in Replacements, NEW maintenance,
                ReplaceEquipmentWrites(c, oldOf, maintenance)
         PROVE  SettledStep /\ PendingLinesAreOpen'
    BY <1>1, <1>4, <1>11 DEF ReplaceEquipmentWrites, whereActive, FirstLines
  <1>12. ASSUME NEW c \in Contracts, CloseContractWrites(c)
         PROVE  SettledStep /\ PendingLinesAreOpen'
    BY <1>1, <1>12 DEF CloseContractWrites, whereActive
  <1>13. UNCHANGED <<leaseStatus, leaseItem>> => SettledStep /\ PendingLinesAreOpen'
    OBVIOUS
  <1>14. QED
    BY <1>5, <1>6, <1>7, <1>8, <1>9, <1>10, <1>11, <1>12, <1>13
    DEF WriteStep, GenerateContractWrites, CreateEquipment, EditEquipmentWrites,
        DeleteEquipmentWrites, ReactivateEquipment

\* Taking links away keeps the chains, as long as settled lines stay.
LEMMA FewerLinks ==
  ASSUME TypeOK, SubstitutesChain, SettledStep,
         \A c \in Contracts, e \in Equipments :
           leaseItem'[c][e].replaces \in {leaseItem[c][e].replaces, Null}
  PROVE  SubstitutesChain'
  <1>1. ReplacedLinesSettled'
    <2> SUFFICES ASSUME NEW c \in Contracts, NEW n \in Equipments,
                        leaseItem'[c][n].replaces # Null
                 PROVE  leaseItem'[c][leaseItem'[c][n].replaces].finalStatus \in keepELeaseId
      BY DEF ReplacedLinesSettled
    <2> DEFINE o == leaseItem[c][n].replaces
    <2>1. leaseItem'[c][n].replaces = o /\ o # Null
      OBVIOUS
    <2>2. o \in Equipments
      BY <2>1 DEF TypeOK, LeaseItem, NoItem
    <2>3. leaseItem[c][o].finalStatus \in keepELeaseId
      BY <2>1 DEF SubstitutesChain, ReplacedLinesSettled
    <2>4. leaseItem[c][o].finalStatus # Null
      BY <2>3, Statuses, NullAssumption
    <2>5. QED
      BY <2>1, <2>2, <2>3, <2>4 DEF SettledStep
  <1>2. ReplacedOnce'
    BY DEF SubstitutesChain, ReplacedOnce
  <1>3. NoReplacementCycle'
    <2> SUFFICES ASSUME NEW c \in Contracts, NEW S \in SUBSET Equipments, S # {}
                 PROVE  \E n \in S : leaseItem'[c][n].replaces \notin S
      BY DEF NoReplacementCycle
    <2>1. PICK n \in S : leaseItem[c][n].replaces \notin S
      BY DEF SubstitutesChain, NoReplacementCycle
    <2>2. leaseItem'[c][n].replaces \notin S
      BY <2>1, NullAssumption
    <2>3. QED
      BY <2>2
  <1>4. QED
    BY <1>1, <1>2, <1>3 DEF SubstitutesChain

\* A replacement adds links from lines that were not there, so that nothing
\* pointed to, to lines that are settled and had no substitute.
LEMMA ReplaceKeepsChains ==
  ASSUME TypeOK, SubstitutesChain, SettledStep,
         NEW c \in Contracts, NEW oldOf \in Replacements, NEW maintenance,
         LinesToReplace(c, oldOf), ReplaceEquipmentWrites(c, oldOf, maintenance)
  PROVE  SubstitutesChain'
  <1> DEFINE news == DOMAIN oldOf
             item == leaseItem[c]
  <1>1. /\ news \in SUBSET Equipments
        /\ \A n \in news : oldOf[n] \in Equipments
        /\ \A m, n \in news : oldOf[m] = oldOf[n] => m = n
    BY DEF Replacements
  <1>2. \A n \in Equipments :
          leaseItem'[c][n].replaces = IF n \in news THEN oldOf[n] ELSE item[n].replaces
    BY DEF ReplaceEquipmentWrites, TypeOK, NewItem
  <1>3. \A d \in Contracts : d # c => leaseItem'[d] = leaseItem[d]
    BY DEF ReplaceEquipmentWrites, TypeOK
  <1>4. \A n \in news : item[oldOf[n]].finalStatus \in keepELeaseId
    BY DEF LinesToReplace
  <1>5. Null \notin keepELeaseId /\ Null \notin Equipments
    BY Statuses, NullAssumption
  <1>6. \A n \in news : item[n].finalStatus = Null
    BY <1>1, NullAssumption, Statuses DEF ReplaceEquipmentWrites, FirstLines, HasItem, TypeOK, LeaseItem, NoItem
  <1>7. \A m \in Equipments : item[m].replaces \in Equipments =>
          item[item[m].replaces].finalStatus \in keepELeaseId
    BY <1>5 DEF SubstitutesChain, ReplacedLinesSettled
  <1>8. \A m \in Equipments : item[m].replaces \in Equipments \cup {Null}
    BY DEF TypeOK, LeaseItem, NoItem
  <1>9. ReplacedLinesSettled'
    <2> SUFFICES ASSUME NEW d \in Contracts, NEW n \in Equipments,
                        leaseItem'[d][n].replaces # Null
                 PROVE  leaseItem'[d][leaseItem'[d][n].replaces].finalStatus \in keepELeaseId
      BY DEF ReplacedLinesSettled
    <2> DEFINE o == leaseItem'[d][n].replaces
    <2>1. o \in Equipments /\ leaseItem[d][o].finalStatus \in keepELeaseId
      <3>1. CASE d = c /\ n \in news
        BY <1>1, <1>2, <1>4, <3>1
      <3>2. CASE d = c /\ n \notin news
        BY <1>2, <1>7, <1>8, <3>2
      <3>3. CASE d # c
        BY <1>3, <3>3 DEF SubstitutesChain, ReplacedLinesSettled, TypeOK, LeaseItem, NoItem
      <3>4. QED
        BY <3>1, <3>2, <3>3
    <2>2. leaseItem'[d][o] = leaseItem[d][o]
      BY <1>5, <2>1 DEF SettledStep
    <2>3. QED
      BY <2>1, <2>2
  <1>10. ReplacedOnce'
    <2> SUFFICES ASSUME NEW d \in Contracts, NEW m \in Equipments, NEW n \in Equipments,
                        leaseItem'[d][m].replaces = leaseItem'[d][n].replaces,
                        leaseItem'[d][m].replaces # Null
                 PROVE  m = n
      BY DEF ReplacedOnce
    <2>1. CASE d # c
      BY <1>3, <2>1 DEF SubstitutesChain, ReplacedOnce
    <2>2. CASE d = c
      <3>1. \A k \in news, x \in Equipments : item[x].replaces # oldOf[k]
        BY DEF ReplaceEquipmentWrites, FirstSubstitutes, Replaced
      <3>2. QED
        BY <1>1, <1>2, <2>2, <3>1 DEF SubstitutesChain, ReplacedOnce
    <2>3. QED
      BY <2>1, <2>2
  <1>11. NoReplacementCycle'
    <2> SUFFICES ASSUME NEW d \in Contracts, NEW S \in SUBSET Equipments, S # {}
                 PROVE  \E n \in S : leaseItem'[d][n].replaces \notin S
      BY DEF NoReplacementCycle
    <2>1. CASE d # c
      BY <1>3, <2>1 DEF SubstitutesChain, NoReplacementCycle
    <2>2. CASE d = c /\ S \subseteq news
      <3>1. PICK n \in S : TRUE
        OBVIOUS
      <3>2. leaseItem'[c][n].replaces = oldOf[n]
        BY <1>1, <1>2, <2>2
      <3>3. oldOf[n] \notin news
        BY <1>4, <1>5, <1>6, <2>2
      <3>4. QED
        BY <2>2, <3>2, <3>3
    <2>3. CASE d = c /\ ~ (S \subseteq news)
      <3>1. PICK n \in S \ news : item[n].replaces \notin S \ news
        <4>1. S \ news \in (SUBSET Equipments) \ {{}}
          BY <2>3
        <4>2. QED
          BY <4>1 DEF SubstitutesChain, NoReplacementCycle
      <3>2. leaseItem'[c][n].replaces = item[n].replaces
        BY <1>2, <3>1
      <3>3. item[n].replaces \notin news
        BY <1>1, <1>5, <1>6, <1>7, <3>1
      <3>4. QED
        BY <2>3, <3>1, <3>2, <3>3
    <2>4. QED
      BY <2>1, <2>2, <2>3
  <1>12. QED
    BY <1>9, <1>10, <1>11 DEF SubstitutesChain

LEMMA WritesChain ==
  ASSUME TypeOK, PendingLinesAreOpen, SubstitutesChain, WriteStep
  PROVE  SubstitutesChain'
  <1>1. SettledStep
    BY WritesSettled
  <1>2. ASSUME NEW c \in Contracts, NEW oldOf \in Replacements, NEW maintenance,
               LinesToReplace(c, oldOf), ReplaceEquipmentWrites(c, oldOf, maintenance)
        PROVE  SubstitutesChain'
    BY <1>1, <1>2, ReplaceKeepsChains
  <1> DEFINE Fewer == \A c \in Contracts, e \in Equipments :
                        leaseItem'[c][e].replaces \in {leaseItem[c][e].replaces, Null}
  <1>3. NoItem.replaces = Null /\ \A s : NewItem(s, Null).replaces = Null
    BY DEF NoItem, NewItem
  <1>4. ASSUME NEW c \in Contracts, NEW es \in SUBSET Equipments,
               \/ CreateELeaseWrites(c, es)
               \/ AddEquipmentsWrites(c, es)
               \/ RemoveEquipmentsWrites(c, es)
        PROVE  Fewer
    BY <1>3, <1>4 DEF TypeOK, CreateELeaseWrites, AddEquipmentsWrites, RemoveEquipmentsWrites,
       UpdateMany
  <1>5. ASSUME NEW c \in Contracts, StartContractWrites(c)
        PROVE  Fewer
    <2>1. \A e \in Equipments : leaseItem'[c][e] \in {leaseItem[c][e], Started(leaseItem[c][e])}
      BY <1>5 DEF TypeOK, StartContractWrites
    <2>2. \A d \in Contracts : d # c => leaseItem'[d] = leaseItem[d]
      BY <1>5 DEF TypeOK, StartContractWrites
    <2>3. \A e \in Equipments : leaseItem[c][e] \in LeaseItem \cup {NoItem}
      BY DEF TypeOK
    <2>4. QED
      BY <2>1, <2>2, <2>3, LineUpdates
  <1>6. ASSUME NEW c \in Contracts, CancelContractWrites(c)
        PROVE  Fewer
    <2>1. \A e \in Equipments : leaseItem'[c][e] \in {leaseItem[c][e], Settled(leaseItem[c][e], "AVAILABLE")}
      BY <1>6 DEF TypeOK, CancelContractWrites
    <2>2. \A d \in Contracts : d # c => leaseItem'[d] = leaseItem[d]
      BY <1>6 DEF TypeOK, CancelContractWrites
    <2>3. \A e \in Equipments : leaseItem[c][e] \in LeaseItem \cup {NoItem}
      BY DEF TypeOK
    <2>4. QED
      BY <2>1, <2>2, <2>3, LineUpdates
  <1>7. ASSUME NEW c \in Contracts, NEW es \in SUBSET Equipments, NEW s \in returnStatus,
               UpdateEquipmentWrites(c, es, s)
        PROVE  Fewer
    BY <1>7, LineUpdates DEF TypeOK, UpdateEquipmentWrites
  <1>8. UNCHANGED leaseItem => Fewer
    OBVIOUS
  <1>9. Fewer => SubstitutesChain'
    BY <1>1, FewerLinks
  <1>10. QED
    BY <1>2, <1>4, <1>5, <1>6, <1>7, <1>8, <1>9
    DEF WriteStep, CloseContractWrites, GenerateContractWrites, CreateEquipment,
        EditEquipmentWrites, DeleteEquipmentWrites, ReactivateEquipment

-----------------------------------------------------------------------------
(***************************************************************************)
(* The slots: what a request keeps has the type its route gives it, and is *)
(* still true when the request writes.                                     *)
(***************************************************************************)
LEMMA RequestFields ==
  ASSUME NEW q \in Request \cup {Idle}
  PROVE  /\ q.route = "createELease" => q.equipments \in SUBSET Equipments
         /\ q.route \in {"startContract", "cancelContract", "closeContract", "generateContract",
                         "addEquipments", "removeEquipments", "updateEquipment",
                         "replaceEquipment"}
              => q.contract \in Contracts
         /\ q.route \in {"addEquipments", "removeEquipments", "updateEquipment"}
              => q.equipments \in SUBSET Equipments
         /\ q.route = "updateEquipment" => q.to \in returnStatus
         /\ q.route = "replaceEquipment" =>
              q.oldOf \in Replacements /\ q.maintenance \in SUBSET Equipments
         /\ q.route \in {"editEquipment", "deleteEquipment"} => q.equipment \in Equipments
         /\ q.route = "editEquipment" =>
              q.to \in EDITABLE_STATUSES \cup {Null} /\ q.code \in Codes \cup {Null}
  BY DEF Request, Idle

\* A read stores a request of the right type and writes no record.
LEMMA ReadTyped ==
  ASSUME NEW r \in Requests, ReadStep(r)
  PROVE  UNCHANGED vars /\ \E q \in Request : request' = [request EXCEPT ![r] = q]
  <1>1. ASSUME CreateELeaseRead(r) PROVE \E q \in Request : Read(r, q)
    BY <1>1 DEF CreateELeaseRead, Request
  <1>2. ASSUME StartContractRead(r) PROVE \E q \in Request : Read(r, q)
    BY <1>2 DEF StartContractRead, Request
  <1>3. ASSUME CancelContractRead(r) PROVE \E q \in Request : Read(r, q)
    BY <1>3 DEF CancelContractRead, Request
  <1>4. ASSUME AddEquipmentsRead(r) PROVE \E q \in Request : Read(r, q)
    BY <1>4 DEF AddEquipmentsRead, Request, SomeEquipments
  <1>5. ASSUME RemoveEquipmentsRead(r) PROVE \E q \in Request : Read(r, q)
    BY <1>5 DEF RemoveEquipmentsRead, Request, RemovableFrom, Linked
  <1>6. ASSUME UpdateEquipmentRead(r) PROVE \E q \in Request : Read(r, q)
    BY <1>6 DEF UpdateEquipmentRead, Request, SomeEquipments
  <1>7. ASSUME ReplaceEquipmentRead(r) PROVE \E q \in Request : Read(r, q)
    <2>1. PICK c \in Contracts, oldOf \in Replacements :
            Read(r, [route |-> "replaceEquipment", contract |-> c, oldOf |-> oldOf,
                     maintenance |-> MaintenanceIds(oldOf)])
      BY <1>7 DEF ReplaceEquipmentRead
    <2>2. MaintenanceIds(oldOf) \in SUBSET Equipments
      BY DEF MaintenanceIds, Replacements
    <2>3. QED
      BY <2>1, <2>2 DEF Request
  <1>8. ASSUME CloseContractRead(r) PROVE \E q \in Request : Read(r, q)
    BY <1>8 DEF CloseContractRead, Request
  <1>9. ASSUME GenerateContractRead(r) PROVE \E q \in Request : Read(r, q)
    BY <1>9 DEF GenerateContractRead, Request
  <1>10. ASSUME EditEquipmentRead(r) PROVE \E q \in Request : Read(r, q)
    BY <1>10 DEF EditEquipmentRead, Request
  <1>11. ASSUME DeleteEquipmentRead(r) PROVE \E q \in Request : Read(r, q)
    BY <1>11 DEF DeleteEquipmentRead, Request
  <1>12. QED
    BY <1>1, <1>2, <1>3, <1>4, <1>5, <1>6, <1>7, <1>8, <1>9, <1>10, <1>11 DEF ReadStep, Read

\* A commit is one handler's writes, and frees the slot.
LEMMA CommitWrites ==
  ASSUME ServerTypeOK, SnapshotsStayTrue, NEW r \in Requests, CommitStep(r)
  PROVE  WriteStep /\ request' = [request EXCEPT ![r] = Idle]
  <1>1. request[r] \in Request \cup {Idle}
    BY DEF ServerTypeOK
  <1>2. /\ request[r].route = "startContract" => documented[request[r].contract]
        /\ request[r].route = "addEquipments" => leaseStatus[request[r].contract] # Null
        /\ request[r].route = "replaceEquipment" =>
             LinesToReplace(request[r].contract, request[r].oldOf)
    BY DEF SnapshotsStayTrue, SnapshotTrue, LinesToReplace
  <1>3. QED
    BY <1>1, <1>2, RequestFields
    DEF WriteStep, CommitStep, Commit, CreateELeaseCommit, StartContractCommit,
        CancelContractCommit, AddEquipmentsCommit, RemoveEquipmentsCommit,
        UpdateEquipmentCommit, ReplaceEquipmentCommit, CloseContractCommit,
        GenerateContractCommit, EditEquipmentCommit, DeleteEquipmentCommit

\* The inductive invariant of the server.
ServerInv == ServerTypeOK /\ RecordsInv /\ SnapshotsStayTrue

\* A step of the server writes as one handler, or not at all.
LEMMA ServerStepWrites ==
  ASSUME ServerInv, [ServerNext]_serverVars
  PROVE  WriteStep \/ UNCHANGED vars
  BY ReadTyped, CommitWrites
  DEF ServerInv, ServerNext, serverVars, Rollback, CreateEquipmentNow, ReactivateEquipmentNow,
      WriteStep

\* What a request remembers survives the writes of the others: documents stay
\* generated, contracts stay, settled lines stay.
LEMMA SnapshotKept ==
  ASSUME TypeOK, PendingLinesAreOpen, StartedIsDocumented, WriteStep \/ UNCHANGED vars,
         NEW q \in Request \cup {Idle}, SnapshotTrue(q)
  PROVE  SnapshotTrue(q)'
  <1>1. CASE UNCHANGED vars
    BY <1>1 DEF vars, SnapshotTrue
  <1>2. CASE WriteStep
    <2>1. q.route = "startContract" => documented'[q.contract]
      BY <1>2, WritesDocumented, RequestFields DEF SnapshotTrue
    <2>2. q.route = "addEquipments" => leaseStatus'[q.contract] # Null
      BY <1>2, WritesLifecycle, RequestFields, NullAssumption
      DEF SnapshotTrue, LifecycleStep, LeaseStatus
    <2>3. ASSUME q.route = "replaceEquipment", NEW n \in DOMAIN q.oldOf
          PROVE  leaseItem'[q.contract][q.oldOf[n]].finalStatus \in keepELeaseId
      <3>1. q.contract \in Contracts /\ q.oldOf[n] \in Equipments
        BY <2>3, RequestFields DEF Replacements
      <3>2. leaseItem[q.contract][q.oldOf[n]].finalStatus \in keepELeaseId
        BY <2>3 DEF SnapshotTrue
      <3>3. Null \notin keepELeaseId
        BY Statuses, NullAssumption
      <3>4. QED
        BY <1>2, <3>1, <3>2, <3>3, WritesSettled DEF SettledStep
    <2>4. QED
      BY <2>1, <2>2, <2>3 DEF SnapshotTrue
  <1>3. QED
    BY <1>1, <1>2

\* What a request reads is true when it reads it.
LEMMA ReadSnapshot ==
  ASSUME NEW r \in Requests, ReadStep(r), ServerTypeOK
  PROVE  SnapshotTrue(request'[r])
  <1>1. StartContractRead(r) => SnapshotTrue(request'[r])
    BY DEF StartContractRead, StartContractChecks, Read, SnapshotTrue, ServerTypeOK
  <1>2. AddEquipmentsRead(r) => SnapshotTrue(request'[r])
    BY NullAssumption DEF AddEquipmentsRead, AddEquipmentsChecks, Read, SnapshotTrue,
       ServerTypeOK, LeaseStatus
  <1>3. ReplaceEquipmentRead(r) => SnapshotTrue(request'[r])
    BY DEF ReplaceEquipmentRead, ReplaceEquipmentChecks, Read, SnapshotTrue, ServerTypeOK
  <1>4. \/ CreateELeaseRead(r) \/ CancelContractRead(r) \/ RemoveEquipmentsRead(r)
        \/ UpdateEquipmentRead(r) \/ CloseContractRead(r) \/ GenerateContractRead(r)
        \/ EditEquipmentRead(r) \/ DeleteEquipmentRead(r)
        => SnapshotTrue(request'[r])
    BY DEF CreateELeaseRead, CancelContractRead, RemoveEquipmentsRead, UpdateEquipmentRead,
       CloseContractRead, GenerateContractRead, EditEquipmentRead, DeleteEquipmentRead, Read,
       SnapshotTrue, ServerTypeOK
  <1>5. QED
    BY <1>1, <1>2, <1>3, <1>4 DEF ReadStep

LEMMA ServerInit_Inv == ServerInit => ServerInv
  <1> SUFFICES ASSUME ServerInit PROVE ServerInv
    OBVIOUS
  <1>1. ServerTypeOK
    BY DEF ServerInit, Init, ServerTypeOK, TypeOK
  <1>2. \A c \in Contracts, e \in Equipments : leaseItem[c][e] = NoItem
    BY DEF ServerInit, Init
  <1>3. SubstitutesChain
    BY <1>2, NullAssumption DEF NoItem, SubstitutesChain, ReplacedLinesSettled, ReplacedOnce,
       NoReplacementCycle
  <1>4. PendingLinesAreOpen /\ StartedIsDocumented
    BY <1>2, NullAssumption DEF ServerInit, Init, NoItem, PendingLinesAreOpen,
       StartedIsDocumented, LeaseStatus
  <1>5. SnapshotsStayTrue
    BY DEF ServerInit, Idle, SnapshotsStayTrue, SnapshotTrue
  <1>6. QED
    BY <1>1, <1>3, <1>4, <1>5 DEF ServerInv, RecordsInv, ServerTypeOK

LEMMA ServerStep_Inv == ServerInv /\ [ServerNext]_serverVars => ServerInv'
  <1> SUFFICES ASSUME ServerInv, [ServerNext]_serverVars PROVE ServerInv'
    OBVIOUS
  <1> USE DEF ServerInv, RecordsInv
  <1>1. WriteStep \/ UNCHANGED vars
    BY ServerStepWrites
  <1>2. RecordsInv'
    <2>1. CASE WriteStep
      BY <2>1, WritesTyped, WritesSettled, WritesChain, WritesDocumented
    <2>2. CASE UNCHANGED vars
      BY <2>2 DEF vars, TypeOK, PendingLinesAreOpen, SubstitutesChain, ReplacedLinesSettled,
         ReplacedOnce, NoReplacementCycle, StartedIsDocumented
    <2>3. QED
      BY <1>1, <2>1, <2>2
  <1> DEFINE SlotsStep ==
               /\ request' \in [Requests -> Request \cup {Idle}]
               /\ \A r \in Requests :
                    request'[r] = request[r] \/ request'[r] = Idle \/ ReadStep(r)
  <1>3. SlotsStep
    <2>1. CASE UNCHANGED request
      BY <2>1 DEF ServerTypeOK
    <2>2. ASSUME NEW r \in Requests, request' = [request EXCEPT ![r] = Idle]
          PROVE  SlotsStep
      BY <2>2 DEF ServerTypeOK
    <2>3. ASSUME NEW r \in Requests, ReadStep(r)
          PROVE  SlotsStep
      BY <2>3, ReadTyped DEF ServerTypeOK
    <2>4. QED
      BY <2>1, <2>2, <2>3, CommitWrites
      DEF ServerNext, serverVars, Rollback, CreateEquipmentNow, ReactivateEquipmentNow
  <1>4. SnapshotsStayTrue'
    <2> SUFFICES ASSUME NEW r \in Requests PROVE SnapshotTrue(request[r])'
      BY DEF SnapshotsStayTrue
    <2>1. CASE request'[r] = request[r]
      <3>1. request[r] \in Request \cup {Idle} /\ SnapshotTrue(request[r])
        BY DEF ServerTypeOK, SnapshotsStayTrue
      <3>2. \A q \in Request \cup {Idle} : SnapshotTrue(q) => SnapshotTrue(q)'
        BY <1>1, SnapshotKept
      <3>3. QED
        BY <2>1, <3>1, <3>2 DEF SnapshotTrue
    <2>2. CASE request'[r] = Idle
      BY <2>2 DEF Idle, SnapshotTrue
    <2>3. CASE ReadStep(r)
      BY <2>3, ReadSnapshot, ReadTyped DEF SnapshotTrue, vars
    <2>4. QED
      BY <1>3, <2>1, <2>2, <2>3
  <1>5. QED
    BY <1>2, <1>3, <1>4 DEF ServerTypeOK

THEOREM ServerInvariant == ServerSpec => []ServerInv
  BY ServerInit_Inv, ServerStep_Inv, PTL DEF ServerSpec

-----------------------------------------------------------------------------
(***************************************************************************)
(* The theorems, under any interleaving of any requests.                   *)
(***************************************************************************)

\* Every column and every slot keeps its type.
THEOREM ServerTyping == ServerSpec => []ServerTypeOK
  BY ServerInvariant, PTL DEF ServerInv

\* The lines of every contract always form chains, each line on exactly one:
\* the statement bills every line once.
THEOREM SubstitutesAlwaysChain == ServerSpec => []SubstitutesChain
  BY ServerInvariant, PTL DEF ServerInv, RecordsInv

\* No contract starts without its document.
THEOREM StartedAlwaysDocumented == ServerSpec => []StartedIsDocumented
  BY ServerInvariant, PTL DEF ServerInv, RecordsInv

\* What starts, additions and replacements read and do not re-check (SnapshotTrue) is
\* still true when they write.
THEOREM SnapshotsAlwaysTrue == ServerSpec => []SnapshotsStayTrue
  BY ServerInvariant, PTL DEF ServerInv

\* A contract's status only moves forward.
THEOREM ServerLifecycle == ServerSpec => Lifecycle
  <1>1. ServerInv /\ [ServerNext]_serverVars => [LifecycleStep]_vars
    BY ServerStepWrites, WritesLifecycle DEF ServerInv, RecordsInv
  <1>2. QED
    BY <1>1, ServerInvariant, PTL DEF ServerSpec, Lifecycle

\* A settled line never changes again and is never deleted.
THEOREM ServerSettledLinesFrozen == ServerSpec => SettledLinesFrozen
  <1>1. ServerInv /\ [ServerNext]_serverVars => [SettledStep]_vars
    BY ServerStepWrites, WritesSettled DEF ServerInv, RecordsInv
  <1>2. QED
    BY <1>1, ServerInvariant, PTL DEF ServerSpec, SettledLinesFrozen
=============================================================================
