---------------------------- MODULE Accessories -----------------------------
(***************************************************************************)
(* The stock of accessories and the units that carry them                  *)
(* (accessory.service.ts).  An associated accessory leaves the stock and   *)
(* stays with its unit for good: no route takes it off.                    *)
(*                                                                         *)
(* As in RentalServer, a request occupies a slot between what its handler  *)
(* reads and refuses on (XRead) and what it writes (XCommit); the slot     *)
(* keeps what the handler keeps.  A request may fail in between and be     *)
(* rolled back.  Names and indemnity prices are left out.  A CSV import is *)
(* a series of CreateAccessory steps; like a body, it may hold a quantity  *)
(* below zero, and what the column cannot hold fails and writes nothing.   *)
(*                                                                         *)
(* XSlip is X with a mistake in it that the code could have.               *)
(***************************************************************************)
EXTENDS Integers, FiniteSets

CONSTANTS
  Accessories,   \* ids of accessories
  Equipments,    \* ids of units
  Requests,      \* slots for requests in flight
  Quantities,    \* quantities a body may carry: any numbers, nothing asks for a positive one
  EditsStock,    \* whether edits carry a quantity at all
  Null,          \* no row
  Undefined      \* a field that the body leaves out

ASSUME AccessoriesAssumption ==
  /\ IsFiniteSet(Equipments) /\ IsFiniteSet(Requests) /\ Requests # {}
  /\ Quantities \subseteq Int
  /\ EditsStock \in BOOLEAN
  /\ Null \notin Int /\ Undefined \notin Int

VARIABLES
  quantity,   \* quantity[a]: the stock of accessory a, or Null if it has no row
  attached,   \* attached[a]: the units associated with a
  available,  \* the units whose status is AVAILABLE
  owned,      \* owned[a]: what was bought of a less what was discarded; no column
              \* keeps it, it is what a count of the shelves and the units would find
  request     \* request[r]: what the request in slot r keeps, or Idle

stock == <<quantity, attached, owned>>
vars == <<stock, available, request>>

Idle == [route |-> "idle"]

\* The quantities that edits carry.
EditedQuantities == IF EditsStock THEN Quantities ELSE {}

Request ==
  [route : {"associate"}, equipment : Equipments, accessories : SUBSET Accessories]
  \cup [route : {"update"}, accessory : Accessories, found : Int,
        data : EditedQuantities \cup {Undefined}]
  \cup [route : {"delete"}, accessory : Accessories, found : Int]

Exists(a) == quantity[a] # Null

Init ==
  /\ quantity = [a \in Accessories |-> Null]
  /\ attached = [a \in Accessories |-> {}]
  /\ available = Equipments
  /\ owned = [a \in Accessories |-> Null]
  /\ request = [r \in Requests |-> Idle]

\* The handler of slot r passed its checks and keeps q; nothing is written yet.
Read(r, q) ==
  /\ request[r] = Idle
  /\ request' = [request EXCEPT ![r] = q]
  /\ UNCHANGED <<stock, available>>

\* The request in slot r, on the given route, writes and is answered.
Commit(r, route) ==
  /\ request[r].route = route
  /\ request' = [request EXCEPT ![r] = Idle]
  /\ UNCHANGED available

Rollback(r) ==
  /\ request[r] # Idle
  /\ request' = [request EXCEPT ![r] = Idle]
  /\ UNCHANGED <<stock, available>>

-----------------------------------------------------------------------------
\* The id is a new one; nobody else can know it yet, so there is no race to have.
CreateAccessory(a, n) ==
  /\ owned[a] = Null
  /\ quantity' = [quantity EXCEPT ![a] = n]
  /\ owned' = [owned EXCEPT ![a] = n]
  /\ UNCHANGED <<attached, available, request>>

InStock(as) == \A a \in as : Exists(a) /\ quantity[a] > 0

AssociateRead(r) ==
  \E e \in Equipments, as \in SUBSET Accessories \ {{}} :
    /\ e \in available
    /\ InStock(as)
    /\ Read(r, [route |-> "associate", equipment |-> e, accessories |-> as])

\* The count of the guarded update must be that of the accessories, and no pair may
\* be there already (the table's key); if not, nothing is written.
AssociateWritesSlip(e, as) ==
  /\ \A a \in as : Exists(a) /\ e \notin attached[a]
  /\ quantity' = [a \in Accessories |->
                    IF a \in as /\ quantity[a] > 0 THEN quantity[a] - 1 ELSE quantity[a]]
  /\ attached' = [a \in Accessories |-> IF a \in as THEN attached[a] \cup {e} ELSE attached[a]]

AssociateWrites(e, as) ==
  /\ InStock(as)
  /\ \A a \in as : e \notin attached[a]
  /\ quantity' = [a \in Accessories |-> IF a \in as THEN quantity[a] - 1 ELSE quantity[a]]
  /\ attached' = [a \in Accessories |-> IF a \in as THEN attached[a] \cup {e} ELSE attached[a]]

AssociateCommit(r) ==
  /\ Commit(r, "associate")
  /\ AssociateWrites(request[r].equipment, request[r].accessories)
  /\ UNCHANGED owned

\* An edit that carries a quantity may not lower the one it found.
UpdateRead(r) ==
  \E a \in Accessories, n \in EditedQuantities \cup {Undefined} :
    /\ Exists(a)
    /\ n # Undefined => quantity[a] <= n
    /\ Read(r, [route |-> "update", accessory |-> a, found |-> quantity[a], data |-> n])

\* What an edit leaves in the column.
EditedSlip(old, n) == n

Edited(old, n) == IF n = Undefined THEN old ELSE n

\* How many more the company says it has: what an edit adds to what it found.
Added(q) == IF q.data = Undefined THEN 0 ELSE q.data - q.found

\* The row is written by its id, whatever it holds by then.
UpdateCommit(r) ==
  /\ Commit(r, "update")
  /\ LET q == request[r]
         a == q.accessory
     IN /\ Exists(a)
        /\ quantity' = [quantity EXCEPT ![a] = Edited(quantity[a], q.data)]
        /\ owned' = [owned EXCEPT ![a] = @ + Added(q)]
  /\ UNCHANGED attached

DeleteRead(r) ==
  \E a \in Accessories :
    /\ Exists(a)
    /\ attached[a] = {}
    /\ Read(r, [route |-> "delete", accessory |-> a, found |-> quantity[a]])

DiscardsSlip(found) == found >= 0

Discards(found) == found > 0

\* One is discarded, if the handler found any.
DiscardCommit(r) ==
  /\ Commit(r, "delete")
  /\ Discards(request[r].found)
  /\ LET a == request[r].accessory
     IN /\ Exists(a)
        /\ quantity' = [quantity EXCEPT ![a] = @ - 1]
        /\ owned' = [owned EXCEPT ![a] = @ - 1]
  /\ UNCHANGED attached

\* Or else the row is deleted, which its foreign keys refuse while a unit carries it.
DeleteCommit(r) ==
  /\ Commit(r, "delete")
  /\ ~Discards(request[r].found)
  /\ LET a == request[r].accessory
     IN /\ Exists(a)
        /\ attached[a] = {}
        /\ quantity' = [quantity EXCEPT ![a] = Null]
  /\ UNCHANGED <<attached, owned>>

\* A contract or the registry takes a unit, and it comes back.
Reserve(e) == e \in available /\ available' = available \ {e} /\ UNCHANGED <<stock, request>>
Return(e) == e \notin available /\ available' = available \cup {e} /\ UNCHANGED <<stock, request>>

Next ==
  \/ \E a \in Accessories, n \in Quantities : CreateAccessory(a, n)
  \/ \E r \in Requests :
       \/ AssociateRead(r) \/ AssociateCommit(r)
       \/ UpdateRead(r) \/ UpdateCommit(r)
       \/ DeleteRead(r) \/ DiscardCommit(r) \/ DeleteCommit(r)
       \/ Rollback(r)
  \/ \E e \in Equipments : Reserve(e) \/ Return(e)

Spec == Init /\ [][Next]_vars

-----------------------------------------------------------------------------
\* The stock is a whole number, of rows there are, and requests are what handlers keep.
AccessoriesTypeOK ==
  /\ quantity \in [Accessories -> Int \cup {Null}]
  /\ attached \in [Accessories -> SUBSET Equipments]
  /\ available \subseteq Equipments
  /\ owned \in [Accessories -> Int \cup {Null}]
  /\ \A a \in Accessories : Exists(a) => owned[a] # Null
  /\ request \in [Requests -> Request \cup {Idle}]

\* What the company has of an accessory is on the shelf or on a unit, each once: an
\* association takes exactly one from the shelf, and neither it nor a deletion racing
\* it loses any.  An accessory is struck off only when there is none left.
StockConserved ==
  \A a \in Accessories :
    IF Exists(a)
    THEN owned[a] = quantity[a] + Cardinality(attached[a])
    ELSE attached[a] = {} /\ (owned[a] # Null => owned[a] <= 0)

\* None of the numbers that edits carry is lower, nor is zero.
IsLeast(low) == \A n \in EditedQuantities \cup {0} : low <= n

\* Each request in flight but one may take the stock one below zero, since a deletion
\* does not re-check what it found; a request at a time never takes it there.  That
\* is so whatever the accessory was created with: from below zero nothing is discarded.
\* If edits carry numbers below zero, the floor is lower by as much.
StockFloorStep ==
  \A a \in Accessories, low \in EditedQuantities \cup {0} :
    IsLeast(low) /\ Exists(a) /\ Exists(a)' /\ quantity'[a] < quantity[a] =>
      quantity'[a] >= low + 1 - Cardinality(Requests)
StockFloor == [][StockFloorStep]_vars
=============================================================================
