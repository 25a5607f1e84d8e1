------------------------------- MODULE Rental -------------------------------
(***************************************************************************)
(* The rental records of KRLoc: contracts (ELease), units of equipment     *)
(* (Equipment) and the lines of each contract (LeaseItem), with every      *)
(* handler of elease.service.ts and equipment.service.ts that writes them. *)
(*                                                                         *)
(* Each handler first reads and refuses, then writes.  The two halves are  *)
(* operators of their own: XChecks is what the handler refuses on, XWrites *)
(* is its transaction, whose guard is what the transaction re-checks (a    *)
(* where clause of a single-row update, a row count, a unique index) and   *)
(* rolls back on.  Here a handler runs alone: its action is both halves in *)
(* one step.  RentalServer puts other requests between the two halves.     *)
(*                                                                         *)
(* A refused request changes nothing, so it is a stuttering step.  Dates,  *)
(* prices, names, the audit log and the accessories of a unit are left     *)
(* out: none of the guards modelled here depends on them, except that a    *)
(* replacement also wants equal accessory counts, taken as met.            *)
(*                                                                         *)
(* XSlip is X with a mistake in it that the code could have: put in X's    *)
(* place, it must break one of the properties.                             *)
(***************************************************************************)
EXTENDS FiniteSets

CONSTANTS
  Contracts,        \* ids of contracts, existing or not yet created
  Equipments,       \* ids of units of equipment, registered or not yet
  Codes,            \* equipment types (the code column)
  Null,             \* SQL NULL, and the mark of a row that does not exist
  ForeignRemovals   \* TRUE: a removal may name any unit, as the API allows;
                    \* FALSE: only units linked to its contract

(***************************************************************************)
(* The enums of schema.prisma, and the status lists of the handlers.       *)
(***************************************************************************)
LeaseStatus == {"PENDING", "ACTIVE", "COMPLETED", "CANCELLED"}

StatusEquipment ==
  {"AVAILABLE", "LEASED", "MAINTENANCE", "RETIRED", "STOLEN", "PENDING", "REPLACE"}

\* What the registration form may write, and what only a contract writes.
EDITABLE_STATUSES == {"AVAILABLE", "MAINTENANCE", "STOLEN"}
CONTRACT_STATUSES == {"PENDING", "LEASED", "REPLACE"}

\* A unit that is on site, what it may come back as, and the two ways of
\* coming back that keep it linked to the contract and allow a substitute.
outStatusSlip == {"LEASED"}
outStatus == {"LEASED", "REPLACE"}
returnStatus == {"AVAILABLE", "STOLEN", "MAINTENANCE"}
keepELeaseId == {"STOLEN", "MAINTENANCE"}

ASSUME NullAssumption ==
  Null \notin Contracts \cup Equipments \cup Codes \cup LeaseStatus \cup StatusEquipment

ASSUME ForeignRemovalsAssumption == ForeignRemovals \in BOOLEAN

VARIABLES
  leaseStatus,  \* ELease.status, Null before the contract is created
  documented,   \* ELease.contract_generated is set
  status,       \* Equipment.status, Null before the unit is registered
  eleaseId,     \* Equipment.eleaseId: the contract the unit is linked to
  code,         \* Equipment.code
  leaseItem     \* leaseItem[c][e]: the line of contract c for unit e

vars == <<leaseStatus, documented, status, eleaseId, code, leaseItem>>

\* A line: how the unit entered, how it left (Null: still open; finishDate is
\* always written together with finalStatus) and the unit whose line it
\* replaces.  @@unique([contractId, equipmentId]) makes it one line per pair.
LeaseItem == [startStatus : CONTRACT_STATUSES,
              finalStatus : returnStatus \cup {Null},
              replaces    : Equipments \cup {Null}]

NoItem == [startStatus |-> Null, finalStatus |-> Null, replaces |-> Null]

NewItemSlip(start, old) == [startStatus |-> "LEASED", finalStatus |-> Null, replaces |-> old]
NewItem(start, old) == [startStatus |-> start, finalStatus |-> Null, replaces |-> old]
StartedSlip(item) == [item EXCEPT !.startStatus = "ACTIVE"]
Started(item) == [item EXCEPT !.startStatus = "LEASED"]
Settled(item, final) == [item EXCEPT !.finalStatus = final]

HasItem(c, e) == leaseItem[c][e].startStatus # Null

Open(c, e) == HasItem(c, e) /\ leaseItem[c][e].finalStatus = Null

\* The line of e in c was already replaced by another line of c.
Replaced(c, e) == \E n \in Equipments : leaseItem[c][n].replaces = e

TypeOK ==
  /\ leaseStatus \in [Contracts -> LeaseStatus \cup {Null}]
  /\ documented \in [Contracts -> BOOLEAN]
  /\ status \in [Equipments -> StatusEquipment \cup {Null}]
  /\ eleaseId \in [Equipments -> Contracts \cup {Null}]
  /\ code \in [Equipments -> Codes \cup {Null}]
  /\ leaseItem \in [Contracts -> [Equipments -> LeaseItem \cup {NoItem}]]

Init ==
  /\ leaseStatus = [c \in Contracts |-> Null]
  /\ documented = [c \in Contracts |-> FALSE]
  /\ status = [e \in Equipments |-> Null]
  /\ eleaseId = [e \in Equipments |-> Null]
  /\ code = [e \in Equipments |-> Null]
  /\ leaseItem = [c \in Contracts |-> [e \in Equipments |-> NoItem]]

\* Prisma's updateMany: the rows that match the where clause get the value.
UpdateMany(column, rows, value) ==
  [x \in DOMAIN column |-> IF x \in rows THEN value ELSE column[x]]

Linked(c) == {e \in Equipments : eleaseId[e] = c}

AllAvailable(es) == \A e \in es : status[e] = "AVAILABLE"

(***************************************************************************)
(* What the transactions re-check when they write.                         *)
(***************************************************************************)

\* The single-row updates of a contract name its status beside its id, and
\* find no row, which rolls back, if it moved on.
wherePendingSlip(c) == TRUE
wherePending(c) == leaseStatus[c] = "PENDING"
whereActive(c) == leaseStatus[c] = "ACTIVE"

\* createELease compares the count of the rows it reserved with the request.
reservedAllSlip(es) == TRUE
reservedAll(es) == AllAvailable(es)

\* The unique indexes of LeaseItem: one line per contract and unit, and one
\* substitute per line.
FirstLinesSlip(c, es) == TRUE
FirstLines(c, es) == \A e \in es : ~ HasItem(c, e)
FirstSubstitutesSlip(c, es) == TRUE
FirstSubstitutes(c, olds) == \A o \in olds : ~ Replaced(c, o)

-----------------------------------------------------------------------------
(***************************************************************************)
(* elease.service.ts                                                       *)
(***************************************************************************)

\* createELease: the units must be available when read, outside the
\* transaction, and still be when the transaction reserves them.
CreateELeaseChecks(es) == AllAvailable(es)

CreateELeaseWrites(c, es) ==
  LET reserved == {e \in es : status[e] = "AVAILABLE"} IN
  /\ leaseStatus[c] = Null
  /\ reservedAll(es)
  /\ leaseStatus' = [leaseStatus EXCEPT ![c] = "PENDING"]
  /\ status' = UpdateMany(status, reserved, "PENDING")
  /\ eleaseId' = UpdateMany(eleaseId, reserved, c)
  /\ leaseItem' = [leaseItem EXCEPT ![c] = UpdateMany(@, es, NewItem("PENDING", Null))]
  /\ UNCHANGED <<documented, code>>

\* startContract: every linked unit must be reserved and the document generated.
StartContractChecksSlip(c) ==
  /\ leaseStatus[c] = "PENDING"
  /\ \A e \in Linked(c) : status[e] = "PENDING"

StartContractChecks(c) ==
  /\ leaseStatus[c] = "PENDING"
  /\ \A e \in Linked(c) : status[e] = "PENDING"
  /\ documented[c]

StartContractWrites(c) ==
  /\ wherePending(c)
  /\ leaseStatus' = [leaseStatus EXCEPT ![c] = "ACTIVE"]
  /\ status' = UpdateMany(status, {e \in Linked(c) : status[e] = "PENDING"}, "LEASED")
  /\ leaseItem' = [leaseItem EXCEPT ![c] =
       [e \in Equipments |-> IF @[e].startStatus = "PENDING"
                             THEN Started(@[e])
                             ELSE @[e]]]
  /\ UNCHANGED <<documented, eleaseId, code>>

\* cancelContract: releases the reserved units and settles the lines.
CancelContractChecks(c) ==
  /\ leaseStatus[c] = "PENDING"
  /\ \A e \in Linked(c) : status[e] = "PENDING"

CancelContractWrites(c) ==
  LET released == {e \in Linked(c) : status[e] = "PENDING"} IN
  /\ wherePending(c)
  /\ leaseStatus' = [leaseStatus EXCEPT ![c] = "CANCELLED"]
  /\ status' = UpdateMany(status, released, "AVAILABLE")
  /\ eleaseId' = UpdateMany(eleaseId, released, Null)
  /\ leaseItem' = [leaseItem EXCEPT ![c] =
       [e \in Equipments |-> IF @[e].startStatus = "PENDING"
                             THEN Settled(@[e], "AVAILABLE")
                             ELSE @[e]]]
  /\ UNCHANGED <<documented, code>>

\* addEquipmentsToELease: the update of the contract names it by id alone and
\* connects the units whatever their status; only their own update asks for
\* AVAILABLE, and its count is not read.  The unique index is what refuses.
AddEquipmentsChecksSlip(c, es) == leaseStatus[c] # Null /\ AllAvailable(es)
AddEquipmentsChecks(c, es) == leaseStatus[c] = "PENDING" /\ AllAvailable(es)

AddEquipmentsWrites(c, es) ==
  /\ FirstLines(c, es)
  /\ status' = UpdateMany(status, {e \in es : status[e] = "AVAILABLE"}, "PENDING")
  /\ eleaseId' = UpdateMany(eleaseId, es, c)
  /\ leaseItem' = [leaseItem EXCEPT ![c] = UpdateMany(@, es, NewItem("PENDING", Null))]
  /\ UNCHANGED <<leaseStatus, documented, code>>

\* removeEquipmentsToELease: wants the contract not to hold exactly one unit,
\* and the named units reserved, by whichever contract.  Disconnecting leaves
\* alone a unit linked elsewhere; the update to AVAILABLE does not.
RemoveEquipmentsChecks(c, es) ==
  /\ leaseStatus[c] = "PENDING"
  /\ Cardinality(Linked(c)) # 1
  /\ \A e \in es : status[e] = "PENDING"

RemoveEquipmentsWrites(c, es) ==
  /\ wherePending(c)
  /\ eleaseId' = UpdateMany(eleaseId, es \cap Linked(c), Null)
  /\ status' = UpdateMany(status, {e \in es : status[e] = "PENDING"}, "AVAILABLE")
  /\ leaseItem' = [leaseItem EXCEPT ![c] = UpdateMany(@, es, NoItem)]
  /\ UNCHANGED <<leaseStatus, documented, code>>

\* activeELeaseUpdateEquipment: units on site come back as s.  One status of a
\* setUpdateStatusEquipment request, which runs its statuses as transactions
\* of their own.
UpdateEquipmentChecks(c, es) ==
  /\ leaseStatus[c] = "ACTIVE"
  /\ \A e \in es : eleaseId[e] = c /\ status[e] \in outStatus

UpdateEquipmentWrites(c, es, s) ==
  /\ \A e \in es : eleaseId[e] = c /\ status[e] \in outStatus
  /\ status' = UpdateMany(status, es, s)
  /\ eleaseId' = UpdateMany(eleaseId, es, IF s \in keepELeaseId THEN c ELSE Null)
  /\ leaseItem' = [leaseItem EXCEPT ![c] =
       [e \in Equipments |->
          IF e \in es /\ @[e].startStatus \in outStatus /\ @[e].finalStatus = Null
          THEN Settled(@[e], s)
          ELSE @[e]]]
  /\ UNCHANGED <<leaseStatus, documented, code>>

\* The replacements of a request, new unit -> old unit: no unit twice.
Replacements ==
  {f \in UNION {[news -> Equipments] : news \in (SUBSET Equipments) \ {{}}} :
     \A m, n \in DOMAIN f : f[m] = f[n] => m = n}

\* replaceEquipment: the old units came back broken or stolen and their lines
\* have no substitute yet; the new ones are available units of the same type.
ReplaceEquipmentChecks(c, oldOf) ==
  /\ leaseStatus[c] = "ACTIVE"
  /\ \A n \in DOMAIN oldOf :
       LET o == oldOf[n] IN
       /\ leaseItem[c][o].finalStatus \in keepELeaseId
       /\ ~ Replaced(c, o)
       /\ status[o] \in keepELeaseId
       /\ status[n] = "AVAILABLE"
       /\ code[n] = code[o]

\* The old units that a replacement unlinks, as read before the transaction.
MaintenanceIds(oldOf) == {o \in {oldOf[n] : n \in DOMAIN oldOf} : status[o] = "MAINTENANCE"}

\* The new units are connected whatever their status by then, and the count of
\* the guarded update is not read; both unique indexes of LeaseItem refuse.
ReplaceEquipmentWrites(c, oldOf, maintenance) ==
  LET news == DOMAIN oldOf IN
  /\ whereActive(c)
  /\ FirstLines(c, news)
  /\ FirstSubstitutes(c, {oldOf[n] : n \in news})
  /\ status' = UpdateMany(status, {n \in news : status[n] = "AVAILABLE"}, "REPLACE")
  /\ eleaseId' = UpdateMany(UpdateMany(eleaseId, maintenance \cap Linked(c), Null), news, c)
  /\ leaseItem' = [leaseItem EXCEPT ![c] =
       [e \in Equipments |-> IF e \in news THEN NewItem("REPLACE", oldOf[e]) ELSE @[e]]]
  /\ UNCHANGED <<leaseStatus, documented, code>>

\* closeContract: every line must be settled; what is still linked is let go.
CloseContractChecksSlip(c) == leaseStatus[c] = "ACTIVE"
CloseContractChecks(c) ==
  /\ leaseStatus[c] = "ACTIVE"
  /\ \A e \in Equipments : ~ Open(c, e)

CloseContractWrites(c) ==
  /\ whereActive(c)
  /\ leaseStatus' = [leaseStatus EXCEPT ![c] = "COMPLETED"]
  /\ eleaseId' = UpdateMany(eleaseId, Linked(c), Null)
  /\ UNCHANGED <<documented, status, code, leaseItem>>

-----------------------------------------------------------------------------
(***************************************************************************)
(* document.service.ts: generating the contract's document marks it.       *)
(***************************************************************************)
GenerateContractChecks(c) == leaseStatus[c] = "PENDING"

GenerateContractWrites(c) ==
  /\ documented' = [documented EXCEPT ![c] = TRUE]
  /\ UNCHANGED <<leaseStatus, status, eleaseId, code, leaseItem>>

(***************************************************************************)
(* equipment.service.ts: the registration of units.                        *)
(***************************************************************************)
\* Units that no contract has.
outOfContractSlip(e) == status[e] \notin {Null, "LEASED"}
outOfContract(e) == status[e] # Null /\ status[e] \notin CONTRACT_STATUSES

CreateEquipment(e, s, k) ==
  /\ status[e] = Null
  /\ status' = [status EXCEPT ![e] = s]
  /\ code' = [code EXCEPT ![e] = k]
  /\ UNCHANGED <<leaseStatus, documented, eleaseId, leaseItem>>

\* The body of an edit may carry a status and a code, or leave either alone;
\* the update names the unit by id alone.
EditEquipmentChecks(e) == outOfContract(e) /\ status[e] # "RETIRED"

EditEquipmentWrites(e, s, k) ==
  /\ status' = [status EXCEPT ![e] = IF s = Null THEN @ ELSE s]
  /\ code' = [code EXCEPT ![e] = IF k = Null THEN @ ELSE k]
  /\ UNCHANGED <<leaseStatus, documented, eleaseId, leaseItem>>

\* deleteEquipment retires the unit, by id alone.
DeleteEquipmentChecksSlip(e) == status[e] # Null
DeleteEquipmentChecks(e) == outOfContract(e)

DeleteEquipmentWrites(e) ==
  /\ status' = [status EXCEPT ![e] = "RETIRED"]
  /\ UNCHANGED <<leaseStatus, documented, eleaseId, code, leaseItem>>

\* reactivateEquipment re-checks RETIRED in its one update.
ReactivateEquipment(e) ==
  /\ status[e] = "RETIRED"
  /\ status' = [status EXCEPT ![e] = "AVAILABLE"]
  /\ UNCHANGED <<leaseStatus, documented, eleaseId, code, leaseItem>>

-----------------------------------------------------------------------------
(***************************************************************************)
(* Requests served one at a time.                                          *)
(***************************************************************************)

\* The ids a removal of contract c may name.
RemovableFrom(c) == IF ForeignRemovals THEN Equipments ELSE Linked(c)

CreateELease(c, es) == CreateELeaseChecks(es) /\ CreateELeaseWrites(c, es)
StartContract(c) == StartContractChecks(c) /\ StartContractWrites(c)
CancelContract(c) == CancelContractChecks(c) /\ CancelContractWrites(c)
AddEquipments(c, es) == AddEquipmentsChecks(c, es) /\ AddEquipmentsWrites(c, es)
RemoveEquipments(c, es) ==
  /\ es \subseteq RemovableFrom(c)
  /\ RemoveEquipmentsChecks(c, es)
  /\ RemoveEquipmentsWrites(c, es)
UpdateEquipment(c, es, s) == UpdateEquipmentChecks(c, es) /\ UpdateEquipmentWrites(c, es, s)
ReplaceEquipment(c, oldOf) ==
  /\ ReplaceEquipmentChecks(c, oldOf)
  /\ ReplaceEquipmentWrites(c, oldOf, MaintenanceIds(oldOf))
CloseContract(c) == CloseContractChecks(c) /\ CloseContractWrites(c)
GenerateContract(c) == GenerateContractChecks(c) /\ GenerateContractWrites(c)
EditEquipment(e, s, k) == EditEquipmentChecks(e) /\ EditEquipmentWrites(e, s, k)
DeleteEquipment(e) == DeleteEquipmentChecks(e) /\ DeleteEquipmentWrites(e)

\* The body of a request that must name at least one unit (ArrayNotEmpty).
SomeEquipments == (SUBSET Equipments) \ {{}}

Next ==
  \/ \E c \in Contracts :
       \/ \E es \in SUBSET Equipments : CreateELease(c, es)
       \/ StartContract(c)
       \/ CancelContract(c)
       \/ \E es \in SomeEquipments : AddEquipments(c, es)
       \/ \E es \in SomeEquipments : RemoveEquipments(c, es)
       \/ \E es \in SomeEquipments, s \in returnStatus : UpdateEquipment(c, es, s)
       \/ \E oldOf \in Replacements : ReplaceEquipment(c, oldOf)
       \/ CloseContract(c)
       \/ GenerateContract(c)
  \/ \E e \in Equipments :
       \/ \E s \in EDITABLE_STATUSES, k \in Codes : CreateEquipment(e, s, k)
       \/ \E s \in EDITABLE_STATUSES \cup {Null}, k \in Codes \cup {Null} : EditEquipment(e, s, k)
       \/ DeleteEquipment(e)
       \/ ReactivateEquipment(e)

Spec == Init /\ [][Next]_vars

-----------------------------------------------------------------------------
(***************************************************************************)
(* What the records must say of the yard.                                  *)
(***************************************************************************)

\* The status a contract must have for its line to be in the given phase.
PhaseOf(start) == IF start = "PENDING" THEN "PENDING" ELSE "ACTIVE"

\* A unit shown as reserved, rented or substitute is linked to a contract in
\* the matching phase that has an open line for it, entered the same way: no
\* unit is kept out of the yard by a contract that does not bill it
\* (createELease, addEquipmentsToELease and replaceEquipment write the three
\* tables in separate statements).
OutIsAccounted ==
  \A e \in Equipments : status[e] \in CONTRACT_STATUSES =>
    \E c \in Contracts :
      /\ eleaseId[e] = c
      /\ Open(c, e)
      /\ leaseItem[c][e].startStatus = status[e]
      /\ leaseStatus[c] = PhaseOf(status[e])

\* An open line, which bills every day until it is settled, belongs to a
\* contract that has not ended and to a unit that contract really holds; hence
\* no unit is on two open lines (equipment_unavailable, equipment_reserved).
OpenLineHoldsUnit ==
  \A c \in Contracts, e \in Equipments : Open(c, e) =>
    /\ eleaseId[e] = c
    /\ status[e] = leaseItem[c][e].startStatus
    /\ leaseStatus[c] = PhaseOf(status[e])

\* A contract that was cancelled or completed keeps no unit linked to it
\* (cancelContract, closeContract).
EndedHoldsNothing ==
  \A c \in Contracts : leaseStatus[c] \in {"CANCELLED", "COMPLETED"} => Linked(c) = {}

\* No contract gets stuck: a pending one can be cancelled, and every open line
\* of an active one can be settled, after which it can be closed (the refusals
\* contract_equipment_not_reserved and contract_items_out never become final).
ContractCanEnd ==
  \A c \in Contracts :
    /\ leaseStatus[c] = "PENDING" => CancelContractChecks(c)
    /\ leaseStatus[c] = "ACTIVE" =>
         \A e \in Equipments : Open(c, e) => UpdateEquipmentChecks(c, {e})

\* The lines of a contract form chains, original unit then its substitutes:
\* each link goes to a line that came back broken or stolen, no line is
\* replaced twice, and there is no cycle.  positionsOf in statement.ts starts
\* from the lines that replace nothing and follows replacedBy, so a line on no
\* such chain, or on two, would be billed never, or twice.
ReplacedLinesSettled ==
  \A c \in Contracts, n \in Equipments :
    LET o == leaseItem[c][n].replaces IN
    o # Null => leaseItem[c][o].finalStatus \in keepELeaseId

ReplacedOnce ==
  \A c \in Contracts, m, n \in Equipments :
    /\ leaseItem[c][m].replaces = leaseItem[c][n].replaces
    /\ leaseItem[c][m].replaces # Null
    => m = n

\* Every group of lines has one that replaces none of the group.
NoReplacementCycle ==
  \A c \in Contracts, S \in (SUBSET Equipments) \ {{}} :
    \E n \in S : leaseItem[c][n].replaces \notin S

SubstitutesChain == ReplacedLinesSettled /\ ReplacedOnce /\ NoReplacementCycle

\* The lines of a contract keep to its phase: none before it is created, and
\* while it is pending only booked ones that nothing has settled yet (the
\* PENDING guards of removeEquipmentsToELease, which deletes lines, and of
\* cancelContract, which settles them, rest on it to touch no history).
PendingLinesAreOpen ==
  \A c \in Contracts, e \in Equipments :
    /\ leaseStatus[c] = Null => leaseItem[c][e] = NoItem
    /\ leaseStatus[c] = "PENDING" =>
         /\ leaseItem[c][e].startStatus \in {Null, "PENDING"}
         /\ leaseItem[c][e].finalStatus = Null

\* A contract that started has its document generated (PENTEST.md:263, "sem o
\* documento assinado que o inicio exige").
StartedIsDocumented ==
  \A c \in Contracts : leaseStatus[c] \in {"ACTIVE", "COMPLETED"} => documented[c]

\* A contract only goes from pending to active to completed, or from pending to
\* cancelled, and an ended one never changes again (the status guards of
\* startContract, cancelContract and closeContract).
LifecycleStep ==
  \A c \in Contracts : leaseStatus'[c] # leaseStatus[c] =>
    <<leaseStatus[c], leaseStatus'[c]>> \in
      {<<Null, "PENDING">>, <<"PENDING", "ACTIVE">>, <<"PENDING", "CANCELLED">>,
       <<"ACTIVE", "COMPLETED">>}
Lifecycle == [][LifecycleStep]_vars

\* A settled line is history: its end is what the statement bills to, so no
\* later request changes or deletes it (the finalStatus: null of
\* activeELeaseUpdateEquipment, the PENDING of cancel and remove).
SettledStep ==
  \A c \in Contracts, e \in Equipments :
    leaseItem[c][e].finalStatus # Null => leaseItem'[c][e] = leaseItem[c][e]
SettledLinesFrozen == [][SettledStep]_vars

\* A reserved, rented or substitute unit changes only through the contract it
\* is linked to: with a change of that contract or of its line for the unit
\* (PENTEST.md:325, "so muda pelo contrato").
OnlyThroughContractStep ==
  \A e \in Equipments :
    status[e] \in CONTRACT_STATUSES /\ status'[e] # status[e] =>
      \E c \in Contracts :
        /\ eleaseId[e] = c
        /\ leaseStatus'[c] # leaseStatus[c] \/ leaseItem'[c][e] # leaseItem[c][e]
OnlyThroughContract == [][OnlyThroughContractStep]_vars

\* A unit has an open line in one contract at most, over every status the
\* contracts may have (equipment_reserved, "Some equipment was already
\* reserved"; PENTEST.md:322, "entrar num segundo contrato").
NoDoubleBooking ==
  \A c, d \in Contracts, e \in Equipments : Open(c, e) /\ Open(d, e) => c = d

\* A completed contract has nothing on site (contract_items_out, "Some
\* equipment has not been returned yet").
CompletedIsSettled ==
  \A c \in Contracts, e \in Equipments : leaseStatus[c] = "COMPLETED" => ~ Open(c, e)

(***************************************************************************)
(* The yard the records stand for: a contract holds the units that are     *)
(* reserved or out and linked to it.  With removals of own units only,     *)
(* every handler is a step of Custody or leaves the yard as it is.         *)
(***************************************************************************)
phase ==
  [c \in Contracts |->
     CASE leaseStatus[c] = Null      -> "new"
       [] leaseStatus[c] = "PENDING" -> "booked"
       [] leaseStatus[c] = "ACTIVE"  -> "running"
       [] OTHER                      -> "ended"]

holder == [e \in Equipments |-> IF status[e] \in CONTRACT_STATUSES THEN eleaseId[e] ELSE Null]

Yard == INSTANCE Custody WITH Nobody <- Null

\* The records implement the yard: units change hands only through a contract
\* in the right phase, and a contract ends holding nothing.
ImplementsCustody == Yard!Spec
=============================================================================
