---------------------------- MODULE RentalServer ----------------------------
(***************************************************************************)
(* Rental under concurrent requests.  The API is one Node process, or      *)
(* several, over PostgreSQL at READ COMMITTED (Prisma's default): between  *)
(* the reads a handler refuses on and the writes it commits, other         *)
(* requests commit theirs.                                                 *)
(*                                                                         *)
(* A request occupies a slot.  Its first step, XRead, is the handler up to *)
(* its last check; the slot then holds what the handler keeps in its       *)
(* variables: the ids of the body and what it read and will use again.     *)
(* Its second step, XCommit, is the transaction's writes on the rows as    *)
(* they are by then.  In between it may fail for any reason (a refused     *)
(* where clause or count, a unique index, the transaction's timeout, a     *)
(* crash of the process): PostgreSQL rolls back and the slot is free.      *)
(*                                                                         *)
(* The reads of a handler are one step, and so are its writes: PostgreSQL  *)
(* makes the writes visible at commit, and the row locks the writes take   *)
(* order transactions that touch the same contract or unit.                *)
(***************************************************************************)
EXTENDS Rental

CONSTANTS
  Requests,   \* slots for requests in flight
  Routes      \* names of the routes in use; AllRoutes is the whole API

AllRoutes ==
  {"createELease", "startContract", "cancelContract", "addEquipments", "removeEquipments",
   "updateEquipment", "replaceEquipment", "closeContract", "generateContract",
   "editEquipment", "deleteEquipment"}

ASSUME RoutesAssumption == Routes \subseteq AllRoutes

VARIABLE request  \* request[r]: what the request in slot r keeps, or Idle

serverVars == <<vars, request>>

Idle == [route |-> "idle"]

\* What each handler carries from its checks to its writes.
Request ==
  [route : {"createELease"}, equipments : SUBSET Equipments]
  \cup [route : {"startContract", "cancelContract", "closeContract", "generateContract"},
        contract : Contracts]
  \cup [route : {"addEquipments", "removeEquipments"},
        contract : Contracts, equipments : SUBSET Equipments]
  \cup [route : {"updateEquipment"},
        contract : Contracts, equipments : SUBSET Equipments, to : returnStatus]
  \cup [route : {"replaceEquipment"},
        contract : Contracts, oldOf : Replacements, maintenance : SUBSET Equipments]
  \cup [route : {"editEquipment"},
        equipment : Equipments, to : EDITABLE_STATUSES \cup {Null}, code : Codes \cup {Null}]
  \cup [route : {"deleteEquipment"}, equipment : Equipments]

ServerTypeOK == TypeOK /\ request \in [Requests -> Request \cup {Idle}]

ServerInit == Init /\ request = [r \in Requests |-> Idle]

\* The handler of slot r passed its checks and keeps q; nothing is written yet.
Read(r, q) ==
  /\ q.route \in Routes
  /\ request[r] = Idle
  /\ request' = [request EXCEPT ![r] = q]
  /\ UNCHANGED vars

\* The request in slot r is on the given route, and its transaction commits.
Commit(r, route) ==
  /\ request[r].route = route
  /\ request' = [request EXCEPT ![r] = Idle]

\* The request in slot r fails; its transaction is rolled back.
Rollback(r) ==
  /\ request[r] # Idle
  /\ request' = [request EXCEPT ![r] = Idle]
  /\ UNCHANGED vars

-----------------------------------------------------------------------------
CreateELeaseRead(r) ==
  \E es \in SUBSET Equipments :
    /\ CreateELeaseChecks(es)
    /\ Read(r, [route |-> "createELease", equipments |-> es])

CreateELeaseCommit(r) ==
  /\ Commit(r, "createELease")
  /\ \E c \in Contracts : CreateELeaseWrites(c, request[r].equipments)

StartContractRead(r) ==
  \E c \in Contracts :
    /\ StartContractChecks(c)
    /\ Read(r, [route |-> "startContract", contract |-> c])

StartContractCommit(r) ==
  Commit(r, "startContract") /\ StartContractWrites(request[r].contract)

CancelContractRead(r) ==
  \E c \in Contracts :
    /\ CancelContractChecks(c)
    /\ Read(r, [route |-> "cancelContract", contract |-> c])

CancelContractCommit(r) ==
  Commit(r, "cancelContract") /\ CancelContractWrites(request[r].contract)

AddEquipmentsRead(r) ==
  \E c \in Contracts, es \in SomeEquipments :
    /\ AddEquipmentsChecks(c, es)
    /\ Read(r, [route |-> "addEquipments", contract |-> c, equipments |-> es])

AddEquipmentsCommit(r) ==
  /\ Commit(r, "addEquipments")
  /\ AddEquipmentsWrites(request[r].contract, request[r].equipments)

RemoveEquipmentsRead(r) ==
  \E c \in Contracts, es \in SomeEquipments :
    /\ es \subseteq RemovableFrom(c)
    /\ RemoveEquipmentsChecks(c, es)
    /\ Read(r, [route |-> "removeEquipments", contract |-> c, equipments |-> es])

RemoveEquipmentsCommit(r) ==
  /\ Commit(r, "removeEquipments")
  /\ RemoveEquipmentsWrites(request[r].contract, request[r].equipments)

\* Each status of a setUpdateStatusEquipment request is a request here: they
\* run in parallel, and one may commit while another is refused.
UpdateEquipmentRead(r) ==
  \E c \in Contracts, es \in SomeEquipments, s \in returnStatus :
    /\ UpdateEquipmentChecks(c, es)
    /\ Read(r, [route |-> "updateEquipment", contract |-> c, equipments |-> es, to |-> s])

UpdateEquipmentCommit(r) ==
  /\ Commit(r, "updateEquipment")
  /\ UpdateEquipmentWrites(request[r].contract, request[r].equipments, request[r].to)

ReplaceEquipmentRead(r) ==
  \E c \in Contracts, oldOf \in Replacements :
    /\ ReplaceEquipmentChecks(c, oldOf)
    /\ Read(r, [route |-> "replaceEquipment", contract |-> c, oldOf |-> oldOf,
                maintenance |-> MaintenanceIds(oldOf)])

ReplaceEquipmentCommit(r) ==
  /\ Commit(r, "replaceEquipment")
  /\ ReplaceEquipmentWrites(request[r].contract, request[r].oldOf, request[r].maintenance)

CloseContractRead(r) ==
  \E c \in Contracts :
    /\ CloseContractChecks(c)
    /\ Read(r, [route |-> "closeContract", contract |-> c])

CloseContractCommit(r) ==
  Commit(r, "closeContract") /\ CloseContractWrites(request[r].contract)

GenerateContractRead(r) ==
  \E c \in Contracts :
    /\ GenerateContractChecks(c)
    /\ Read(r, [route |-> "generateContract", contract |-> c])

GenerateContractCommit(r) ==
  Commit(r, "generateContract") /\ GenerateContractWrites(request[r].contract)

EditEquipmentRead(r) ==
  \E e \in Equipments, s \in EDITABLE_STATUSES \cup {Null}, k \in Codes \cup {Null} :
    /\ EditEquipmentChecks(e)
    /\ Read(r, [route |-> "editEquipment", equipment |-> e, to |-> s, code |-> k])

EditEquipmentCommit(r) ==
  /\ Commit(r, "editEquipment")
  /\ EditEquipmentWrites(request[r].equipment, request[r].to, request[r].code)

DeleteEquipmentRead(r) ==
  \E e \in Equipments :
    /\ DeleteEquipmentChecks(e)
    /\ Read(r, [route |-> "deleteEquipment", equipment |-> e])

DeleteEquipmentCommit(r) ==
  Commit(r, "deleteEquipment") /\ DeleteEquipmentWrites(request[r].equipment)

\* Handlers of one writing statement that carries its own check.
CreateEquipmentNow ==
  /\ \E e \in Equipments, s \in EDITABLE_STATUSES, k \in Codes : CreateEquipment(e, s, k)
  /\ UNCHANGED request

ReactivateEquipmentNow ==
  /\ \E e \in Equipments : ReactivateEquipment(e)
  /\ UNCHANGED request

ReadStep(r) ==
  \/ CreateELeaseRead(r)
  \/ StartContractRead(r)
  \/ CancelContractRead(r)
  \/ AddEquipmentsRead(r)
  \/ RemoveEquipmentsRead(r)
  \/ UpdateEquipmentRead(r)
  \/ ReplaceEquipmentRead(r)
  \/ CloseContractRead(r)
  \/ GenerateContractRead(r)
  \/ EditEquipmentRead(r)
  \/ DeleteEquipmentRead(r)

CommitStep(r) ==
  \/ CreateELeaseCommit(r)
  \/ StartContractCommit(r)
  \/ CancelContractCommit(r)
  \/ AddEquipmentsCommit(r)
  \/ RemoveEquipmentsCommit(r)
  \/ UpdateEquipmentCommit(r)
  \/ ReplaceEquipmentCommit(r)
  \/ CloseContractCommit(r)
  \/ GenerateContractCommit(r)
  \/ EditEquipmentCommit(r)
  \/ DeleteEquipmentCommit(r)

ServerNext ==
  \/ \E r \in Requests : ReadStep(r) \/ CommitStep(r) \/ Rollback(r)
  \/ CreateEquipmentNow
  \/ ReactivateEquipmentNow

ServerSpec == ServerInit /\ [][ServerNext]_serverVars

-----------------------------------------------------------------------------
\* Three things that requests read and never re-check are still true as they write: the
\* document of the contract it starts is still generated, the contract it adds
\* units to still exists, and the lines it replaces still ended in maintenance
\* or theft (startContract, addEquipmentsToELease and replaceEquipment re-check
\* none of these in their writes).
SnapshotTrue(q) ==
  /\ q.route = "startContract" => documented[q.contract]
  /\ q.route = "addEquipments" => leaseStatus[q.contract] # Null
  /\ q.route = "replaceEquipment" =>
       \A n \in DOMAIN q.oldOf :
         leaseItem[q.contract][q.oldOf[n]].finalStatus \in keepELeaseId

SnapshotsStayTrue == \A r \in Requests : SnapshotTrue(request[r])
=============================================================================
