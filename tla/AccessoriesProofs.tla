------------------------- MODULE AccessoriesProofs --------------------------
(***************************************************************************)
(* Theorems about Accessories, for any sets of accessories, units, slots   *)
(* and quantities.                                                         *)
(***************************************************************************)
EXTENDS Accessories, FiniteSetTheorems, TLAPS

-----------------------------------------------------------------------------
(***************************************************************************)
(* Types.                                                                  *)
(***************************************************************************)

\* What a request on each route keeps.
LEMMA AssociateRequest ==
  ASSUME NEW q \in Request \cup {Idle}, q.route = "associate"
  PROVE  q.equipment \in Equipments /\ q.accessories \in SUBSET Accessories
  BY DEF Request, Idle

LEMMA UpdateRequest ==
  ASSUME NEW q \in Request \cup {Idle}, q.route = "update"
  PROVE  \E a \in Accessories, found \in Int, n \in EditedQuantities \cup {Undefined} :
            q = [route |-> "update", accessory |-> a, found |-> found, data |-> n]
  BY DEF Request, Idle

LEMMA DeleteRequest ==
  ASSUME NEW q \in Request \cup {Idle}, q.route = "delete"
  PROVE  q.accessory \in Accessories /\ q.found \in Int
  BY DEF Request, Idle

\* An association's writes.
LEMMA AssociateType ==
  ASSUME AccessoriesTypeOK, NEW e \in Equipments, NEW as \in SUBSET Accessories,
         AssociateWrites(e, as)
  PROVE  /\ quantity' \in [Accessories -> Int \cup {Null}]
         /\ attached' \in [Accessories -> SUBSET Equipments]
         /\ \A a \in Accessories : Exists(a)' <=> Exists(a)
<1>1. ASSUME NEW a \in as PROVE quantity[a] \in Int /\ quantity[a] - 1 \in Int
  <2>1. a \in Accessories /\ quantity[a] # Null
    BY DEF AssociateWrites, InStock, Exists
  <2>2. quantity[a] \in Int
    BY <2>1 DEF AccessoriesTypeOK
  <2> QED
    BY <2>2
<1>2. quantity' \in [Accessories -> Int \cup {Null}]
  BY <1>1 DEF AccessoriesTypeOK, AssociateWrites
<1>3. attached' \in [Accessories -> SUBSET Equipments]
  BY DEF AccessoriesTypeOK, AssociateWrites
<1>4. \A a \in Accessories : Exists(a)' <=> Exists(a)
  BY <1>1, AccessoriesAssumption DEF AssociateWrites, InStock, Exists
<1> QED
  BY <1>2, <1>3, <1>4

\* What an edit writes and adds are whole numbers.
LEMMA EditedType ==
  ASSUME NEW old \in Int, NEW n \in EditedQuantities \cup {Undefined}
  PROVE  Edited(old, n) \in Int /\ (n # Undefined => n \in Int)
  <1>1. n # Undefined => n \in Int
    BY AccessoriesAssumption DEF EditedQuantities
  <1> QED
    BY <1>1 DEF Edited

\* Every step keeps the types.
LEMMA TypeStep ==
  AccessoriesTypeOK /\ [Next]_vars => AccessoriesTypeOK'
<1> SUFFICES ASSUME AccessoriesTypeOK, [Next]_vars PROVE AccessoriesTypeOK'
  OBVIOUS
<1> USE AccessoriesAssumption
<1>1. ASSUME NEW a \in Accessories, NEW n \in Quantities, CreateAccessory(a, n)
      PROVE  AccessoriesTypeOK'
  BY <1>1 DEF AccessoriesTypeOK, CreateAccessory, Exists
<1>2. ASSUME NEW r \in Requests, AssociateRead(r) PROVE AccessoriesTypeOK'
  <2>1. PICK e \in Equipments, as \in SUBSET Accessories :
          Read(r, [route |-> "associate", equipment |-> e, accessories |-> as])
    BY <1>2 DEF AssociateRead
  <2>2. [route |-> "associate", equipment |-> e, accessories |-> as] \in Request
    BY <2>1 DEF Request
  <2> QED
    BY <2>1, <2>2 DEF AccessoriesTypeOK, Read, stock, Exists
<1>3. ASSUME NEW r \in Requests, AssociateCommit(r) PROVE AccessoriesTypeOK'
  <2>1. /\ request[r].equipment \in Equipments
        /\ request[r].accessories \in SUBSET Accessories
    BY <1>3, AssociateRequest DEF AccessoriesTypeOK, AssociateCommit, Commit
  <2>2. AssociateWrites(request[r].equipment, request[r].accessories)
    BY <1>3 DEF AssociateCommit
  <2>3. /\ quantity' \in [Accessories -> Int \cup {Null}]
        /\ attached' \in [Accessories -> SUBSET Equipments]
        /\ \A a \in Accessories : Exists(a)' <=> Exists(a)
    BY <2>1, <2>2, AssociateType
  <2> QED
    BY <1>3, <2>3 DEF AccessoriesTypeOK, AssociateCommit, Commit
<1>4. ASSUME NEW r \in Requests, UpdateRead(r) PROVE AccessoriesTypeOK'
  <2>1. PICK a \in Accessories, n \in EditedQuantities \cup {Undefined} :
          /\ Exists(a)
          /\ Read(r, [route |-> "update", accessory |-> a, found |-> quantity[a], data |-> n])
    BY <1>4 DEF UpdateRead
  <2>2. [route |-> "update", accessory |-> a, found |-> quantity[a], data |-> n] \in Request
    BY <2>1 DEF AccessoriesTypeOK, Exists, Request
  <2> QED
    BY <2>1, <2>2 DEF AccessoriesTypeOK, Read, stock, Exists
<1>5. ASSUME NEW r \in Requests, UpdateCommit(r) PROVE AccessoriesTypeOK'
  <2>1. PICK a \in Accessories, found \in Int, n \in EditedQuantities \cup {Undefined} :
          request[r] = [route |-> "update", accessory |-> a, found |-> found, data |-> n]
    BY <1>5, UpdateRequest DEF AccessoriesTypeOK, UpdateCommit, Commit
  <2> DEFINE extra == IF n = Undefined THEN 0 ELSE n - found
  <2>2. /\ Exists(a)
        /\ quantity' = [quantity EXCEPT ![a] = Edited(quantity[a], n)]
        /\ owned' = [owned EXCEPT ![a] = @ + extra]
        /\ UNCHANGED <<attached, available>>
        /\ request' = [request EXCEPT ![r] = Idle]
    BY <1>5, <2>1 DEF UpdateCommit, Commit, Added
  <2>3. quantity[a] \in Int /\ owned[a] \in Int
    BY <2>2 DEF AccessoriesTypeOK, Exists
  <2>4. Edited(quantity[a], n) \in Int /\ owned[a] + extra \in Int
    <3>1. Edited(quantity[a], n) \in Int /\ (n # Undefined => n \in Int)
      BY <2>3, EditedType
    <3>2. extra \in Int
      BY <3>1
    <3> QED
      BY <2>3, <3>1, <3>2
  <2> HIDE DEF extra
  <2>5. /\ quantity' \in [Accessories -> Int \cup {Null}]
        /\ owned' \in [Accessories -> Int \cup {Null}]
    BY <2>2, <2>4 DEF AccessoriesTypeOK
  <2>6. \A b \in Accessories : Exists(b)' => owned'[b] # Null
    BY <2>2, <2>3, <2>4 DEF AccessoriesTypeOK, Exists
  <2> QED
    BY <2>2, <2>5, <2>6 DEF AccessoriesTypeOK
<1>6. ASSUME NEW r \in Requests, DeleteRead(r) PROVE AccessoriesTypeOK'
  <2>1. PICK a \in Accessories :
          /\ Exists(a)
          /\ Read(r, [route |-> "delete", accessory |-> a, found |-> quantity[a]])
    BY <1>6 DEF DeleteRead
  <2>2. [route |-> "delete", accessory |-> a, found |-> quantity[a]] \in Request
    BY <2>1 DEF AccessoriesTypeOK, Exists, Request
  <2> QED
    BY <2>1, <2>2 DEF AccessoriesTypeOK, Read, stock, Exists
<1>7. ASSUME NEW r \in Requests, DiscardCommit(r) PROVE AccessoriesTypeOK'
  <2>1. request[r].accessory \in Accessories
    BY <1>7, DeleteRequest DEF AccessoriesTypeOK, DiscardCommit, Commit
  <2> QED
    BY <1>7, <2>1 DEF AccessoriesTypeOK, DiscardCommit, Commit, Exists
<1>8. ASSUME NEW r \in Requests, DeleteCommit(r) PROVE AccessoriesTypeOK'
  <2>1. request[r].accessory \in Accessories
    BY <1>8, DeleteRequest DEF AccessoriesTypeOK, DeleteCommit, Commit
  <2> QED
    BY <1>8, <2>1 DEF AccessoriesTypeOK, DeleteCommit, Commit, Exists
<1>9. ASSUME NEW r \in Requests, Rollback(r) PROVE AccessoriesTypeOK'
  BY <1>9 DEF AccessoriesTypeOK, Rollback, stock, Exists
<1>10. ASSUME NEW e \in Equipments, Reserve(e) \/ Return(e) PROVE AccessoriesTypeOK'
  BY <1>10 DEF AccessoriesTypeOK, Reserve, Return, stock, Exists
<1>11. CASE UNCHANGED vars
  BY <1>11 DEF AccessoriesTypeOK, vars, stock, Exists
<1> QED
  BY <1>1, <1>2, <1>3, <1>4, <1>5, <1>6, <1>7, <1>8, <1>9, <1>10, <1>11 DEF Next

\* Quantities stay whole numbers of existing rows, and slots hold what handlers keep.
THEOREM AccessoriesTyping == Spec => []AccessoriesTypeOK
<1>1. Init => AccessoriesTypeOK
  BY AccessoriesAssumption DEF Init, AccessoriesTypeOK, Exists
<1> QED
  BY <1>1, TypeStep, PTL DEF Spec

-----------------------------------------------------------------------------
(***************************************************************************)
(* The floor of the stock.                                                 *)
(***************************************************************************)

\* The requests in flight that will take one from the stock of a, come what may.
Discarding(a) ==
  {r \in Requests : /\ request[r].route = "delete"
                    /\ request[r].accessory = a
                    /\ Discards(request[r].found)}

\* A deletion in flight is of an accessory that was registered.
DeletesKnown ==
  \A r \in Requests : request[r].route = "delete" => owned[request[r].accessory] # Null

\* While requests in flight may yet take from the stock, it is above the floor by as
\* many as they may take.
RoomToDiscard ==
  \A a \in Accessories, low \in EditedQuantities \cup {0} :
    IsLeast(low) /\ Exists(a) /\ Discarding(a) # {} =>
      quantity[a] >= low + 1 - Cardinality(Requests) + Cardinality(Discarding(a))

FloorInv == AccessoriesTypeOK /\ DeletesKnown /\ RoomToDiscard

\* The floor is a whole number and not above zero.
LEMMA FloorType ==
  ASSUME NEW low \in EditedQuantities \cup {0}, IsLeast(low)
  PROVE  low \in Int /\ low <= 0
<1>1. EditedQuantities \subseteq Int
  BY AccessoriesAssumption DEF EditedQuantities
<1> QED
  BY <1>1 DEF IsLeast

\* What was registered stays so.
LEMMA OwnedStays ==
  AccessoriesTypeOK /\ [Next]_vars => \A a \in Accessories : owned[a] # Null => owned'[a] # Null
<1> SUFFICES ASSUME AccessoriesTypeOK, [Next]_vars, NEW a \in Accessories, owned[a] # Null
             PROVE  owned'[a] # Null
  OBVIOUS
<1>1. owned[a] \in Int
  BY DEF AccessoriesTypeOK
<1>2. ASSUME NEW b \in Accessories, NEW n \in Quantities, CreateAccessory(b, n)
      PROVE  owned'[a] # Null
  BY <1>2 DEF CreateAccessory, AccessoriesTypeOK
<1>3. ASSUME NEW r \in Requests, UpdateCommit(r) PROVE owned'[a] # Null
  <2>1. PICK b \in Accessories, found \in Int, n \in EditedQuantities \cup {Undefined} :
          request[r] = [route |-> "update", accessory |-> b, found |-> found, data |-> n]
    BY <1>3, UpdateRequest DEF AccessoriesTypeOK, UpdateCommit, Commit
  <2>2. owned' = [owned EXCEPT ![b] = @ + IF n = Undefined THEN 0 ELSE n - found]
    BY <1>3, <2>1 DEF UpdateCommit, Added
  <2>3. n # Undefined => n \in Int
    BY EditedType
  <2>4. owned[a] + (IF n = Undefined THEN 0 ELSE n - found) \in Int
    BY <1>1, <2>3
  <2> QED
    BY <2>2, <2>4, AccessoriesAssumption DEF AccessoriesTypeOK
<1>4. ASSUME NEW r \in Requests, DiscardCommit(r) PROVE owned'[a] # Null
  <2>1. request[r].accessory \in Accessories
    BY <1>4, DeleteRequest DEF AccessoriesTypeOK, DiscardCommit, Commit
  <2>2. owned' = [owned EXCEPT ![request[r].accessory] = @ - 1]
    BY <1>4 DEF DiscardCommit
  <2> QED
    BY <1>1, <2>1, <2>2, AccessoriesAssumption DEF AccessoriesTypeOK
<1>5. ASSUME UNCHANGED owned PROVE owned'[a] # Null
  BY <1>5
<1> QED
  BY <1>2, <1>3, <1>4, <1>5
     DEF Next, vars, stock, AssociateRead, AssociateCommit, UpdateRead, DeleteRead, Read,
         DeleteCommit, Rollback, Reserve, Return

\* What a handler keeps when its checks pass.
Kept(q) ==
  /\ q.route = "delete" => /\ q.accessory \in Accessories
                           /\ Exists(q.accessory)
                           /\ q.found = quantity[q.accessory]
  /\ q.route = "update" => EditsStock \/ q.data = Undefined

\* What the checks of each route establish.
LEMMA ReadKeeps ==
  ASSUME NEW r \in Requests, AssociateRead(r) \/ UpdateRead(r) \/ DeleteRead(r)
  PROVE  \E q : Read(r, q) /\ Kept(q)
<1>1. CASE AssociateRead(r)
  <2>1. PICK e, as : Read(r, [route |-> "associate", equipment |-> e, accessories |-> as])
    BY <1>1 DEF AssociateRead
  <2> QED
    BY <2>1 DEF Kept
<1>2. CASE UpdateRead(r)
  <2>1. PICK a, n : /\ Read(r, [route |-> "update", accessory |-> a, found |-> quantity[a],
                                data |-> n])
                    /\ EditsStock \/ n = Undefined
    BY <1>2 DEF UpdateRead, EditedQuantities
  <2> QED
    BY <2>1 DEF Kept
<1>3. CASE DeleteRead(r)
  <2>1. PICK a \in Accessories :
          /\ Exists(a)
          /\ Read(r, [route |-> "delete", accessory |-> a, found |-> quantity[a]])
    BY <1>3 DEF DeleteRead
  <2> QED
    BY <2>1 DEF Kept
<1> QED
  BY <1>1, <1>2, <1>3

\* A step fills one slot, frees one, or leaves them.
LEMMA SlotStep ==
  ASSUME [Next]_vars
  PROVE  \/ \E r \in Requests : \E q : Read(r, q) /\ Kept(q)
         \/ \E r \in Requests : request' = [request EXCEPT ![r] = Idle]
         \/ UNCHANGED request
<1>1. ASSUME NEW r \in Requests,
             \/ AssociateCommit(r) \/ UpdateCommit(r) \/ DiscardCommit(r)
             \/ DeleteCommit(r) \/ Rollback(r)
      PROVE  request' = [request EXCEPT ![r] = Idle]
  BY <1>1 DEF AssociateCommit, UpdateCommit, DiscardCommit, DeleteCommit, Rollback, Commit
<1> QED
  BY <1>1, ReadKeeps DEF Next, vars, CreateAccessory, Reserve, Return

\* A deletion in flight stays one of a registered accessory.
LEMMA DeletesKnownStep ==
  AccessoriesTypeOK /\ DeletesKnown /\ [Next]_vars => DeletesKnown'
<1> SUFFICES ASSUME AccessoriesTypeOK, DeletesKnown, [Next]_vars,
                    NEW r \in Requests, request'[r].route = "delete"
             PROVE  owned'[request'[r].accessory] # Null
  BY DEF DeletesKnown
<1>1. CASE request'[r] = request[r]
  <2>1. request[r].accessory \in Accessories
    BY <1>1, DeleteRequest DEF AccessoriesTypeOK
  <2> QED
    BY <1>1, <2>1, OwnedStays DEF DeletesKnown
<1>2. CASE request'[r] # request[r]
  <2>1. request'[r] # Idle
    BY DEF Idle
  <2>2. PICK q : Read(r, q) /\ q.accessory \in Accessories /\ Exists(q.accessory)
    BY <1>2, <2>1, SlotStep DEF Read, Kept, AccessoriesTypeOK
  <2> QED
    BY <2>2 DEF Read, stock, AccessoriesTypeOK
<1> QED
  BY <1>1, <1>2

\* There are no more discards in flight than slots; one fewer if a slot has none.
LEMMA DiscardingBound ==
  ASSUME NEW a
  PROVE  /\ IsFiniteSet(Discarding(a))
         /\ Cardinality(Discarding(a)) \in Nat
         /\ Cardinality(Requests) \in Nat
         /\ Cardinality(Discarding(a)) <= Cardinality(Requests)
         /\ \A r \in Requests \ Discarding(a) :
               Cardinality(Discarding(a)) <= Cardinality(Requests) - 1
<1> USE AccessoriesAssumption
<1>1. Discarding(a) \in SUBSET Requests
  BY DEF Discarding
<1>2. /\ IsFiniteSet(Discarding(a))
      /\ Cardinality(Discarding(a)) <= Cardinality(Requests)
  BY <1>1, FS_Subset
<1>3. Cardinality(Discarding(a)) \in Nat /\ Cardinality(Requests) \in Nat
  BY <1>2, FS_CardinalityType
<1>4. ASSUME NEW r \in Requests \ Discarding(a)
      PROVE  Cardinality(Discarding(a)) <= Cardinality(Requests) - 1
  <2>1. /\ IsFiniteSet(Requests \ {r})
        /\ Cardinality(Requests \ {r}) = Cardinality(Requests) - 1
    BY FS_RemoveElement
  <2>2. Discarding(a) \in SUBSET (Requests \ {r})
    BY <1>1
  <2> QED
    BY <2>1, <2>2, FS_Subset
<1> QED
  BY <1>2, <1>3, <1>4

\* A slot that is freed takes its discard, if it had one, out of those in flight.
LEMMA DiscardingFreed ==
  ASSUME NEW r \in Requests, NEW a, request \in [Requests -> Request \cup {Idle}],
         request' = [request EXCEPT ![r] = Idle]
  PROVE  /\ Cardinality(Discarding(a)') \in Nat
         /\ Cardinality(Discarding(a)') <= Cardinality(Discarding(a))
         /\ Discarding(a)' \subseteq Discarding(a)
         /\ r \in Discarding(a) =>
               Cardinality(Discarding(a)') = Cardinality(Discarding(a)) - 1
         /\ r \notin Discarding(a) => Cardinality(Discarding(a)') <= Cardinality(Requests) - 1
<1>1. Idle.route # "delete"
  BY DEF Idle
<1>2. Discarding(a)' = Discarding(a) \ {r}
  BY <1>1 DEF Discarding
<1>3. Cardinality(Discarding(a) \ {r}) =
        IF r \in Discarding(a) THEN Cardinality(Discarding(a)) - 1
                               ELSE Cardinality(Discarding(a))
  BY DiscardingBound, FS_RemoveElement
<1>4. IsFiniteSet(Discarding(a) \ {r})
  BY DiscardingBound, FS_RemoveElement
<1>5. Cardinality(Discarding(a) \ {r}) \in Nat
  BY <1>4, FS_CardinalityType
<1> QED
  BY <1>2, <1>3, <1>5, DiscardingBound

\* A request that is not a deletion about to discard a changes none of them.
LEMMA DiscardingKept ==
  ASSUME NEW r \in Requests, NEW a, NEW q, request \in [Requests -> Request \cup {Idle}],
         request[r] = Idle, request' = [request EXCEPT ![r] = q],
         ~(q.route = "delete" /\ q.accessory = a /\ Discards(q.found))
  PROVE  Discarding(a)' = Discarding(a)
  BY DEF Discarding, Idle

\* A step that frees a slot without touching the stock leaves as much room.
LEMMA RoomWhenFreed ==
  ASSUME FloorInv, NEW r \in Requests, request' = [request EXCEPT ![r] = Idle],
         UNCHANGED quantity
  PROVE  RoomToDiscard'
<1> SUFFICES ASSUME NEW a \in Accessories, NEW low \in EditedQuantities \cup {0}, IsLeast(low),
                    Exists(a), Discarding(a)' # {}
             PROVE  quantity[a] >= low + 1 - Cardinality(Requests) + Cardinality(Discarding(a)')
  BY DEF RoomToDiscard, Exists
<1>0. Discarding(a)' \subseteq Discarding(a)
  BY DiscardingFreed DEF FloorInv, AccessoriesTypeOK
<1>1. /\ quantity[a] \in Int
      /\ quantity[a] >= low + 1 - Cardinality(Requests) + Cardinality(Discarding(a))
  BY <1>0 DEF FloorInv, AccessoriesTypeOK, RoomToDiscard, Exists
<1>2. /\ Cardinality(Discarding(a)') \in Nat /\ Cardinality(Discarding(a)) \in Nat
      /\ Cardinality(Requests) \in Nat
      /\ Cardinality(Discarding(a)') <= Cardinality(Discarding(a))
  BY DiscardingBound, DiscardingFreed DEF FloorInv, AccessoriesTypeOK
<1> QED
  BY <1>1, <1>2, FloorType

\* Each step keeps the room.
LEMMA RoomStep ==
  FloorInv /\ [Next]_vars => RoomToDiscard'
<1> SUFFICES ASSUME FloorInv, [Next]_vars PROVE RoomToDiscard'
  OBVIOUS
<1>0. AccessoriesTypeOK /\ DeletesKnown /\ RoomToDiscard
  BY DEF FloorInv
<1>1. ASSUME NEW b \in Accessories, NEW n \in Quantities, CreateAccessory(b, n)
      PROVE  RoomToDiscard'
  <2>1. Discarding(b) = {}
    BY <1>0, <1>1 DEF Discarding, DeletesKnown, CreateAccessory
  <2>2. \A a : Discarding(a)' = Discarding(a)
    BY <1>1 DEF Discarding, CreateAccessory
  <2>3. \A a \in Accessories : Exists(a)' /\ Discarding(a) # {} => quantity'[a] = quantity[a]
    BY <1>0, <1>1, <2>1 DEF CreateAccessory, AccessoriesTypeOK, Exists
  <2>4. ASSUME NEW a \in Accessories, NEW low \in EditedQuantities \cup {0}, IsLeast(low),
               Exists(a)', Discarding(a)' # {}
        PROVE  quantity'[a] >= low + 1 - Cardinality(Requests) + Cardinality(Discarding(a)')
    <3>1. Discarding(a)' = Discarding(a) /\ quantity'[a] = quantity[a]
      BY <2>2, <2>3, <2>4
    <3> QED
      BY <1>0, <2>4, <3>1 DEF RoomToDiscard, Exists
  <2> QED
    BY <2>4 DEF RoomToDiscard
<1>2. ASSUME NEW r \in Requests, NEW q, Read(r, q), Kept(q)
      PROVE  RoomToDiscard'
  <2> SUFFICES ASSUME NEW a \in Accessories, NEW low \in EditedQuantities \cup {0}, IsLeast(low),
                      Exists(a), Discarding(a)' # {}
               PROVE  quantity[a] >= low + 1 - Cardinality(Requests) + Cardinality(Discarding(a)')
    BY <1>2 DEF RoomToDiscard, Exists, Read, stock
  <2>1. quantity[a] \in Int
    BY <1>0 DEF AccessoriesTypeOK, Exists
  <2>2. CASE q.route = "delete" /\ q.accessory = a /\ Discards(q.found)
    <3>1. quantity[a] > 0
      BY <1>2, <2>2 DEF Kept, Discards
    <3>2. /\ Cardinality(Discarding(a)') \in Nat /\ Cardinality(Requests) \in Nat
          /\ Cardinality(Discarding(a)') <= Cardinality(Requests)
      <4>1. Discarding(a)' \in SUBSET Requests
        BY DEF Discarding
      <4> QED
        BY <4>1, AccessoriesAssumption, FS_Subset, FS_CardinalityType
    <3> QED
      BY <2>1, <3>1, <3>2, FloorType
  <2>3. CASE ~(q.route = "delete" /\ q.accessory = a /\ Discards(q.found))
    <3>1. Discarding(a)' = Discarding(a)
      BY <1>0, <1>2, <2>3, DiscardingKept DEF Read, AccessoriesTypeOK
    <3> QED
      BY <1>0, <3>1 DEF RoomToDiscard
  <2> QED
    BY <2>2, <2>3
<1>3. ASSUME NEW r \in Requests, AssociateCommit(r) PROVE RoomToDiscard'
  <2> DEFINE as == request[r].accessories
  <2>1. as \in SUBSET Accessories
    BY <1>0, <1>3, AssociateRequest DEF AccessoriesTypeOK, AssociateCommit, Commit
  <2>2. /\ InStock(as)
        /\ quantity' = [a \in Accessories |-> IF a \in as THEN quantity[a] - 1 ELSE quantity[a]]
        /\ request' = [request EXCEPT ![r] = Idle]
        /\ request[r].route # "delete"
    BY <1>3 DEF AssociateCommit, AssociateWrites, Commit
  <2> HIDE DEF as
  <2> SUFFICES ASSUME NEW a \in Accessories, NEW low \in EditedQuantities \cup {0}, IsLeast(low),
                      Exists(a)', Discarding(a)' # {}
               PROVE  quantity'[a] >= low + 1 - Cardinality(Requests) + Cardinality(Discarding(a)')
    BY DEF RoomToDiscard
  <2>3. r \notin Discarding(a)
    BY <2>2 DEF Discarding
  <2>4. /\ Cardinality(Discarding(a)') \in Nat /\ Cardinality(Discarding(a)) \in Nat
        /\ Cardinality(Requests) \in Nat
        /\ Discarding(a)' \subseteq Discarding(a)
        /\ Cardinality(Discarding(a)') <= Cardinality(Discarding(a))
        /\ Cardinality(Discarding(a)') <= Cardinality(Requests) - 1
    BY <1>0, <2>2, <2>3, DiscardingFreed, DiscardingBound DEF AccessoriesTypeOK
  <2>5. CASE a \in as
    <3>1. quantity[a] \in Int /\ quantity[a] > 0
      BY <1>0, <2>2, <2>5 DEF InStock, Exists, AccessoriesTypeOK
    <3>2. quantity'[a] = quantity[a] - 1
      BY <2>2, <2>5
    <3> QED
      BY <2>4, <3>1, <3>2, FloorType
  <2>6. CASE a \notin as
    <3>1. quantity'[a] = quantity[a] /\ Exists(a)
      BY <2>2, <2>6 DEF Exists
    <3>2. quantity[a] \in Int
      BY <1>0, <3>1 DEF AccessoriesTypeOK, Exists
    <3>3. quantity[a] >= low + 1 - Cardinality(Requests) + Cardinality(Discarding(a))
      BY <1>0, <2>4, <3>1 DEF RoomToDiscard
    <3> QED
      BY <2>4, <3>1, <3>2, <3>3, FloorType
  <2> QED
    BY <2>5, <2>6
<1>4. ASSUME NEW r \in Requests, UpdateCommit(r) PROVE RoomToDiscard'
  <2>1. PICK b \in Accessories, found \in Int, n \in EditedQuantities \cup {Undefined} :
          request[r] = [route |-> "update", accessory |-> b, found |-> found, data |-> n]
    BY <1>0, <1>4, UpdateRequest DEF AccessoriesTypeOK, UpdateCommit, Commit
  <2>2. /\ Exists(b)
        /\ quantity' = [quantity EXCEPT ![b] = Edited(quantity[b], n)]
        /\ request' = [request EXCEPT ![r] = Idle]
    BY <1>4, <2>1 DEF UpdateCommit, Commit
  <2> SUFFICES ASSUME NEW a \in Accessories, NEW low \in EditedQuantities \cup {0}, IsLeast(low),
                      Exists(a)', Discarding(a)' # {}
               PROVE  quantity'[a] >= low + 1 - Cardinality(Requests) + Cardinality(Discarding(a)')
    BY DEF RoomToDiscard
  <2>3. r \notin Discarding(a)
    BY <2>1 DEF Discarding
  <2>4. /\ Cardinality(Discarding(a)') \in Nat /\ Cardinality(Discarding(a)) \in Nat
        /\ Cardinality(Requests) \in Nat
        /\ Discarding(a)' \subseteq Discarding(a)
        /\ Cardinality(Discarding(a)') <= Cardinality(Discarding(a))
        /\ Cardinality(Discarding(a)') <= Cardinality(Requests) - 1
    BY <1>0, <2>2, <2>3, DiscardingFreed, DiscardingBound DEF AccessoriesTypeOK
  <2>5. CASE a = b /\ n # Undefined
    <3>1. quantity'[a] = n
      BY <1>0, <2>2, <2>5 DEF AccessoriesTypeOK, Edited
    <3>2. n \in Int /\ low <= n
      BY <2>5, EditedType DEF IsLeast
    <3> QED
      BY <2>4, <3>1, <3>2, FloorType
  <2>6. CASE ~(a = b /\ n # Undefined)
    <3>1. quantity'[a] = quantity[a] /\ Exists(a)
      BY <1>0, <2>2, <2>6 DEF AccessoriesTypeOK, Edited, Exists
    <3>2. quantity[a] \in Int
      BY <1>0, <3>1 DEF AccessoriesTypeOK, Exists
    <3>3. quantity[a] >= low + 1 - Cardinality(Requests) + Cardinality(Discarding(a))
      BY <1>0, <2>4, <3>1 DEF RoomToDiscard
    <3> QED
      BY <2>4, <3>1, <3>2, <3>3, FloorType
  <2> QED
    BY <2>5, <2>6
<1>5. ASSUME NEW r \in Requests, DiscardCommit(r) PROVE RoomToDiscard'
  <2> DEFINE b == request[r].accessory
  <2>1. /\ b \in Accessories /\ r \in Discarding(b)
        /\ Exists(b)
        /\ quantity' = [quantity EXCEPT ![b] = @ - 1]
        /\ request' = [request EXCEPT ![r] = Idle]
    BY <1>0, <1>5, DeleteRequest DEF AccessoriesTypeOK, DiscardCommit, Commit, Discarding
  <2> HIDE DEF b
  <2> SUFFICES ASSUME NEW a \in Accessories, NEW low \in EditedQuantities \cup {0}, IsLeast(low),
                      Exists(a)', Discarding(a)' # {}
               PROVE  quantity'[a] >= low + 1 - Cardinality(Requests) + Cardinality(Discarding(a)')
    BY DEF RoomToDiscard
  <2>2. /\ Cardinality(Discarding(a)') \in Nat /\ Cardinality(Discarding(a)) \in Nat
        /\ Cardinality(Requests) \in Nat
        /\ Discarding(a)' \subseteq Discarding(a)
        /\ Cardinality(Discarding(a)') <= Cardinality(Discarding(a))
        /\ a = b => Cardinality(Discarding(a)') = Cardinality(Discarding(a)) - 1
    BY <1>0, <2>1, DiscardingFreed, DiscardingBound DEF AccessoriesTypeOK
  <2>3. quantity'[a] = IF a = b THEN quantity[a] - 1 ELSE quantity[a]
    BY <1>0, <2>1 DEF AccessoriesTypeOK
  <2>4. Exists(a)
    BY <2>1, <2>3 DEF Exists
  <2>5. /\ quantity[a] \in Int
        /\ quantity[a] >= low + 1 - Cardinality(Requests) + Cardinality(Discarding(a))
    BY <1>0, <2>2, <2>4 DEF AccessoriesTypeOK, RoomToDiscard, Exists
  <2> QED
    BY <2>2, <2>3, <2>5, FloorType
<1>6. ASSUME NEW r \in Requests, DeleteCommit(r) PROVE RoomToDiscard'
  <2>1. /\ request' = [request EXCEPT ![r] = Idle]
        /\ quantity' = [quantity EXCEPT ![request[r].accessory] = Null]
    BY <1>6 DEF DeleteCommit, Commit
  <2> SUFFICES ASSUME NEW a \in Accessories, NEW low \in EditedQuantities \cup {0}, IsLeast(low),
                      Exists(a)', Discarding(a)' # {}
               PROVE  quantity'[a] >= low + 1 - Cardinality(Requests) + Cardinality(Discarding(a)')
    BY DEF RoomToDiscard
  <2>2. quantity'[a] = quantity[a] /\ Exists(a)
    BY <1>0, <2>1 DEF AccessoriesTypeOK, Exists
  <2>3. /\ Cardinality(Discarding(a)') \in Nat /\ Cardinality(Discarding(a)) \in Nat
        /\ Cardinality(Requests) \in Nat
        /\ Discarding(a)' \subseteq Discarding(a)
        /\ Cardinality(Discarding(a)') <= Cardinality(Discarding(a))
    BY <1>0, <2>1, DiscardingFreed, DiscardingBound DEF AccessoriesTypeOK
  <2>4. /\ quantity[a] \in Int
        /\ quantity[a] >= low + 1 - Cardinality(Requests) + Cardinality(Discarding(a))
    BY <1>0, <2>2, <2>3 DEF AccessoriesTypeOK, RoomToDiscard, Exists
  <2> QED
    BY <2>2, <2>3, <2>4, FloorType
<1>7. ASSUME NEW r \in Requests, Rollback(r) PROVE RoomToDiscard'
  BY <1>7, RoomWhenFreed DEF Rollback, stock
<1>8. CASE UNCHANGED <<quantity, request>>
  BY <1>0, <1>8 DEF RoomToDiscard, Discarding, Exists
<1> QED
  BY <1>1, <1>2, <1>3, <1>4, <1>5, <1>6, <1>7, <1>8, ReadKeeps
     DEF Next, vars, stock, Reserve, Return

\* No step takes from the stock more than the room there is.
LEMMA FloorStep ==
  FloorInv /\ [Next]_vars => StockFloorStep
<1> SUFFICES ASSUME FloorInv, [Next]_vars, NEW a \in Accessories,
                    NEW low \in EditedQuantities \cup {0}, IsLeast(low),
                    Exists(a), Exists(a)', quantity'[a] < quantity[a]
             PROVE  quantity'[a] >= low + 1 - Cardinality(Requests)
  BY DEF StockFloorStep
<1>0. /\ AccessoriesTypeOK /\ RoomToDiscard
      /\ quantity[a] \in Int /\ low \in Int /\ low <= 0
  BY FloorType DEF FloorInv, AccessoriesTypeOK, Exists
<1>1. Cardinality(Requests) \in Nat /\ Cardinality(Requests) >= 1
  BY AccessoriesAssumption, FS_EmptySet, FS_CardinalityType
<1>2. ASSUME NEW b \in Accessories, NEW n \in Quantities, CreateAccessory(b, n) PROVE FALSE
  BY <1>0, <1>2 DEF CreateAccessory, AccessoriesTypeOK, Exists
<1>3. ASSUME NEW r \in Requests, AssociateCommit(r)
      PROVE  quantity'[a] >= low + 1 - Cardinality(Requests)
  <2> DEFINE as == request[r].accessories
  <2>1. /\ InStock(as)
        /\ quantity' = [b \in Accessories |-> IF b \in as THEN quantity[b] - 1 ELSE quantity[b]]
    BY <1>3 DEF AssociateCommit, AssociateWrites
  <2> HIDE DEF as
  <2>2. a \in as
    <3>1. ASSUME a \notin as PROVE FALSE
      <4>1. quantity'[a] = quantity[a]
        BY <2>1, <3>1
      <4> QED
        BY <1>0, <4>1
    <3> QED
      BY <3>1
  <2>3. quantity[a] > 0 /\ quantity'[a] = quantity[a] - 1
    BY <2>1, <2>2 DEF InStock
  <2> QED
    BY <1>0, <1>1, <2>3
<1>4. ASSUME NEW r \in Requests, UpdateCommit(r)
      PROVE  quantity'[a] >= low + 1 - Cardinality(Requests)
  <2>1. PICK b \in Accessories, found \in Int, n \in EditedQuantities \cup {Undefined} :
          request[r] = [route |-> "update", accessory |-> b, found |-> found, data |-> n]
    BY <1>0, <1>4, UpdateRequest DEF AccessoriesTypeOK, UpdateCommit, Commit
  <2>2. quantity' = [quantity EXCEPT ![b] = Edited(quantity[b], n)]
    BY <1>4, <2>1 DEF UpdateCommit
  <2>3. a = b /\ n # Undefined /\ quantity'[a] = n
    BY <1>0, <2>2 DEF AccessoriesTypeOK, Edited
  <2>4. n \in Int /\ low <= n
    BY <2>3, EditedType DEF IsLeast
  <2> QED
    BY <1>0, <1>1, <2>3, <2>4
<1>5. ASSUME NEW r \in Requests, DiscardCommit(r)
      PROVE  quantity'[a] >= low + 1 - Cardinality(Requests)
  <2>1. quantity' = [quantity EXCEPT ![request[r].accessory] = @ - 1]
    BY <1>5 DEF DiscardCommit
  <2>2. a = request[r].accessory /\ quantity'[a] = quantity[a] - 1
    BY <1>0, <2>1 DEF AccessoriesTypeOK
  <2>3. r \in Discarding(a)
    BY <1>5, <2>2 DEF DiscardCommit, Commit, Discarding
  <2>4. /\ Cardinality(Discarding(a)) \in Nat /\ Cardinality(Discarding(a)) # 0
        /\ quantity[a] >= low + 1 - Cardinality(Requests) + Cardinality(Discarding(a))
    BY <1>0, <2>3, DiscardingBound, FS_EmptySet DEF RoomToDiscard
  <2> QED
    BY <1>0, <1>1, <2>2, <2>4
<1>6. ASSUME NEW r \in Requests, DeleteCommit(r) PROVE FALSE
  BY <1>0, <1>6 DEF DeleteCommit, AccessoriesTypeOK, Exists
<1>7. CASE UNCHANGED quantity
  BY <1>0, <1>7
<1> QED
  BY <1>2, <1>3, <1>4, <1>5, <1>6, <1>7
     DEF Next, vars, stock, AssociateRead, UpdateRead, DeleteRead, Read, Rollback, Reserve, Return

\* Whatever accessories are created with, each request in flight but one may take the
\* stock one below zero, and no step takes it further (accessory.service.ts:219-228).
THEOREM StockHasFloor == Spec => StockFloor
<1>1. Init => FloorInv
  BY AccessoriesAssumption DEF Init, FloorInv, AccessoriesTypeOK, DeletesKnown, RoomToDiscard,
     Exists, Idle
<1>2. FloorInv /\ [Next]_vars => FloorInv'
  BY TypeStep, DeletesKnownStep, RoomStep DEF FloorInv
<1>3. FloorInv /\ [Next]_vars => StockFloorStep
  BY FloorStep
<1> QED
  BY <1>1, <1>2, <1>3, PTL DEF Spec, StockFloor

-----------------------------------------------------------------------------
(***************************************************************************)
(* Conservation of the stock.                                              *)
(***************************************************************************)

\* Without edits of the stock, it never rises while a deletion is in flight.
FoundIsCeiling ==
  \A r \in Requests :
    request[r].route = "delete" =>
      LET a == request[r].accessory IN Exists(a) => quantity[a] <= request[r].found

\* No edit in flight carries a quantity.
NoStockEdits ==
  \A r \in Requests : request[r].route = "update" => request[r].data = Undefined

ConservedInv ==
  AccessoriesTypeOK /\ DeletesKnown /\ FoundIsCeiling /\ NoStockEdits /\ StockConserved

\* An association is one more unit that carries each of its accessories.
LEMMA OneMoreCarrier ==
  ASSUME AccessoriesTypeOK, NEW a \in Accessories, NEW e \in Equipments, e \notin attached[a]
  PROVE  /\ Cardinality(attached[a]) \in Nat
         /\ Cardinality(attached[a] \cup {e}) = Cardinality(attached[a]) + 1
<1>1. attached[a] \in SUBSET Equipments
  BY DEF AccessoriesTypeOK
<1>2. IsFiniteSet(attached[a])
  BY <1>1, AccessoriesAssumption, FS_Subset
<1> QED
  BY <1>2, FS_AddElement, FS_CardinalityType

\* The slots: edits carry no quantity, and what a deletion found is no less than
\* what there is, as the stock does not rise.
LEMMA SlotsStep ==
  ASSUME ConservedInv, [Next]_vars, ~EditsStock,
         \A a \in Accessories : Exists(a)' /\ owned[a] # Null =>
            Exists(a) /\ quantity'[a] <= quantity[a]
  PROVE  FoundIsCeiling' /\ NoStockEdits'
<1> SUFFICES ASSUME NEW r \in Requests
             PROVE  /\ request'[r].route = "delete" =>
                         LET a == request'[r].accessory
                         IN  quantity'[a] # Null => quantity'[a] <= request'[r].found
                    /\ request'[r].route = "update" => request'[r].data = Undefined
  BY DEF FoundIsCeiling, NoStockEdits, Exists
<1>0. /\ AccessoriesTypeOK /\ DeletesKnown /\ FoundIsCeiling /\ NoStockEdits
  BY DEF ConservedInv
<1>1. CASE request'[r] = request[r] /\ request[r].route = "delete"
  <2>1. PICK a \in Accessories : a = request[r].accessory
    BY <1>0, <1>1, DeleteRequest DEF AccessoriesTypeOK
  <2>2. request[r].found \in Int /\ owned[a] # Null
    BY <1>0, <1>1, <2>1, DeleteRequest DEF AccessoriesTypeOK, DeletesKnown
  <2>3. Exists(a) => quantity[a] <= request[r].found /\ quantity[a] \in Int
    BY <1>0, <1>1, <2>1 DEF FoundIsCeiling, AccessoriesTypeOK, Exists
  <2>4. Exists(a)' => Exists(a) /\ quantity'[a] <= quantity[a]
    BY <2>2
  <2>5. Exists(a)' => quantity'[a] \in Int
    BY <1>0, TypeStep DEF AccessoriesTypeOK, Exists
  <2>6. quantity'[a] # Null => quantity'[a] <= request[r].found
    BY <2>2, <2>3, <2>4, <2>5 DEF Exists
  <2> QED
    BY <1>1, <2>1, <2>6
<1>2. CASE request'[r] = request[r] /\ request[r].route # "delete"
  BY <1>0, <1>2 DEF NoStockEdits
<1>3. CASE request'[r] # request[r] /\ request'[r] = Idle
  BY <1>3 DEF Idle
<1>4. CASE request'[r] # request[r] /\ request'[r] # Idle
  <2>0. PICK s \in Requests : \E q : Read(s, q) /\ Kept(q)
    BY <1>0, <1>4, SlotStep DEF AccessoriesTypeOK
  <2>1. PICK q : Read(s, q) /\ Kept(q)
    BY <2>0
  <2>2. request'[r] = q /\ UNCHANGED quantity
    BY <1>0, <1>4, <2>1 DEF Read, stock, AccessoriesTypeOK
  <2>3. q.route = "delete" => /\ q.accessory \in Accessories
                             /\ Exists(q.accessory)
                             /\ q.found = quantity[q.accessory]
    BY <2>1 DEF Kept
  <2>4. q.route = "delete" => quantity[q.accessory] \in Int
    BY <1>0, <2>3 DEF AccessoriesTypeOK, Exists
  <2>5. q.route = "update" => q.data = Undefined
    BY <2>1 DEF Kept
  <2> QED
    BY <2>2, <2>3, <2>4, <2>5
<1> QED
  BY <1>1, <1>2, <1>3, <1>4

\* What conservation asks of one accessory.
Conserved(a) ==
  IF Exists(a)
  THEN owned[a] = quantity[a] + Cardinality(attached[a])
  ELSE attached[a] = {} /\ (owned[a] # Null => owned[a] <= 0)

\* The stock: each step conserves it, and raises that of no accessory there was.
LEMMA StockStep ==
  ASSUME ConservedInv, [Next]_vars, ~EditsStock
  PROVE  \A a \in Accessories :
           /\ Conserved(a)'
           /\ Exists(a)' /\ owned[a] # Null => Exists(a) /\ quantity'[a] <= quantity[a]
<1> SUFFICES ASSUME NEW a \in Accessories
             PROVE  /\ Conserved(a)'
                    /\ Exists(a)' /\ owned[a] # Null => Exists(a) /\ quantity'[a] <= quantity[a]
  OBVIOUS
<1>0. /\ AccessoriesTypeOK /\ DeletesKnown /\ FoundIsCeiling /\ NoStockEdits
      /\ Conserved(a)
  BY DEF ConservedInv, StockConserved, Conserved
<1>00. Exists(a) => quantity[a] \in Int /\ owned[a] \in Int
  BY <1>0 DEF AccessoriesTypeOK, Exists
<1>1. ASSUME UNCHANGED stock
      PROVE  /\ Conserved(a)'
             /\ Exists(a)' /\ owned[a] # Null => Exists(a) /\ quantity'[a] <= quantity[a]
  BY <1>0, <1>00, <1>1 DEF stock, Conserved, Exists
<1>2. ASSUME NEW b \in Accessories, NEW n \in Quantities, CreateAccessory(b, n)
      PROVE  /\ Conserved(a)'
             /\ Exists(a)' /\ owned[a] # Null => Exists(a) /\ quantity'[a] <= quantity[a]
  <2>1. CASE a = b
    <3>1. ~Exists(a) /\ attached[a] = {} /\ owned[a] = Null
      BY <1>0, <1>2, <2>1 DEF CreateAccessory, AccessoriesTypeOK, Conserved
    <3>2. /\ quantity'[a] = n /\ owned'[a] = n /\ attached' = attached
          /\ n \in Int /\ n # Null
      BY <1>0, <1>2, <2>1, AccessoriesAssumption DEF CreateAccessory, AccessoriesTypeOK
    <3>3. Cardinality(attached'[a]) = 0
      BY <3>1, <3>2, FS_EmptySet
    <3> QED
      BY <3>1, <3>2, <3>3 DEF Conserved, Exists
  <2>2. CASE a # b
    <3>1. quantity'[a] = quantity[a] /\ owned'[a] = owned[a] /\ attached' = attached
      BY <1>0, <1>2, <2>2 DEF CreateAccessory, AccessoriesTypeOK
    <3> QED
      BY <1>0, <1>00, <3>1 DEF Conserved, Exists
  <2> QED
    BY <2>1, <2>2
<1>3. ASSUME NEW r \in Requests, AssociateCommit(r)
      PROVE  /\ Conserved(a)'
             /\ Exists(a)' /\ owned[a] # Null => Exists(a) /\ quantity'[a] <= quantity[a]
  <2> DEFINE as == request[r].accessories
             e == request[r].equipment
  <2>1. as \in SUBSET Accessories /\ e \in Equipments
    BY <1>0, <1>3, AssociateRequest DEF AccessoriesTypeOK, AssociateCommit, Commit
  <2>2. AssociateWrites(e, as) /\ owned' = owned
    BY <1>3 DEF AssociateCommit
  <2> HIDE DEF as, e
  <2>3. CASE a \in as
    <3>1. /\ Exists(a) /\ e \notin attached[a]
          /\ quantity'[a] = quantity[a] - 1
          /\ attached'[a] = attached[a] \cup {e}
      BY <2>2, <2>3 DEF AssociateWrites, InStock
    <3>2. /\ Cardinality(attached[a]) \in Nat
          /\ Cardinality(attached'[a]) = Cardinality(attached[a]) + 1
      BY <1>0, <2>1, <3>1, OneMoreCarrier
    <3>3. owned[a] = quantity[a] + Cardinality(attached[a])
      BY <1>0, <3>1 DEF Conserved
    <3>4. quantity[a] \in Int /\ quantity'[a] \in Int /\ quantity'[a] # Null
      BY <1>00, <3>1, AccessoriesAssumption
    <3>5. owned'[a] = quantity'[a] + Cardinality(attached'[a])
      BY <2>2, <3>1, <3>2, <3>3, <3>4
    <3>6. quantity'[a] <= quantity[a]
      BY <3>1, <3>4
    <3> QED
      BY <3>1, <3>4, <3>5, <3>6 DEF Conserved, Exists
  <2>4. CASE a \notin as
    <3>1. quantity'[a] = quantity[a] /\ owned'[a] = owned[a] /\ attached'[a] = attached[a]
      BY <2>2, <2>4 DEF AssociateWrites
    <3> QED
      BY <1>0, <1>00, <3>1 DEF Conserved, Exists
  <2> QED
    BY <2>3, <2>4
<1>4. ASSUME NEW r \in Requests, UpdateCommit(r)
      PROVE  /\ Conserved(a)'
             /\ Exists(a)' /\ owned[a] # Null => Exists(a) /\ quantity'[a] <= quantity[a]
  <2>1. PICK b \in Accessories, found \in Int :
          request[r] = [route |-> "update", accessory |-> b, found |-> found,
                        data |-> Undefined]
    BY <1>0, <1>4, UpdateRequest DEF AccessoriesTypeOK, UpdateCommit, Commit, NoStockEdits
  <2>2. /\ Exists(b)
        /\ quantity' = [quantity EXCEPT ![b] = @]
        /\ owned' = [owned EXCEPT ![b] = @ + 0]
        /\ attached' = attached
    BY <1>4, <2>1 DEF UpdateCommit, Edited, Added
  <2>3. owned[b] \in Int
    BY <1>0, <2>2 DEF AccessoriesTypeOK, Exists
  <2>4. quantity'[a] = quantity[a] /\ owned'[a] = owned[a]
    BY <1>0, <2>2, <2>3 DEF AccessoriesTypeOK
  <2> QED
    BY <1>0, <1>00, <2>2, <2>4 DEF Conserved, Exists
<1>5. ASSUME NEW r \in Requests, DiscardCommit(r)
      PROVE  /\ Conserved(a)'
             /\ Exists(a)' /\ owned[a] # Null => Exists(a) /\ quantity'[a] <= quantity[a]
  <2> DEFINE b == request[r].accessory
  <2>1. /\ b \in Accessories /\ Exists(b)
        /\ quantity' = [quantity EXCEPT ![b] = @ - 1]
        /\ owned' = [owned EXCEPT ![b] = @ - 1]
        /\ attached' = attached
    BY <1>0, <1>5, DeleteRequest DEF AccessoriesTypeOK, DiscardCommit, Commit
  <2> HIDE DEF b
  <2>2. CASE a = b
    <3>1. /\ Exists(a) /\ quantity'[a] = quantity[a] - 1 /\ owned'[a] = owned[a] - 1
      BY <1>0, <2>1, <2>2 DEF AccessoriesTypeOK
    <3>2. Cardinality(attached[a]) \in Nat
      BY <1>0, AccessoriesAssumption, FS_Subset, FS_CardinalityType DEF AccessoriesTypeOK
    <3>3. owned[a] = quantity[a] + Cardinality(attached[a])
      BY <1>0, <3>1 DEF Conserved
    <3>4. quantity[a] \in Int /\ quantity'[a] \in Int /\ quantity'[a] # Null
      BY <1>00, <3>1, AccessoriesAssumption
    <3>5. /\ owned'[a] = quantity'[a] + Cardinality(attached[a])
          /\ quantity'[a] <= quantity[a]
      BY <3>1, <3>2, <3>3, <3>4
    <3> QED
      BY <2>1, <3>1, <3>4, <3>5 DEF Conserved, Exists
  <2>3. CASE a # b
    <3>1. quantity'[a] = quantity[a] /\ owned'[a] = owned[a]
      BY <1>0, <2>1, <2>3 DEF AccessoriesTypeOK
    <3> QED
      BY <1>0, <1>00, <2>1, <3>1 DEF Conserved, Exists
  <2> QED
    BY <2>2, <2>3
<1>6. ASSUME NEW r \in Requests, DeleteCommit(r)
      PROVE  /\ Conserved(a)'
             /\ Exists(a)' /\ owned[a] # Null => Exists(a) /\ quantity'[a] <= quantity[a]
  <2> DEFINE b == request[r].accessory
  <2>1. /\ b \in Accessories /\ request[r].found \in Int
        /\ request[r].route = "delete" /\ ~Discards(request[r].found)
        /\ Exists(b) /\ attached[b] = {}
        /\ quantity' = [quantity EXCEPT ![b] = Null]
        /\ owned' = owned /\ attached' = attached
    BY <1>0, <1>6, DeleteRequest DEF AccessoriesTypeOK, DeleteCommit, Commit
  <2>2. quantity[b] <= request[r].found
    BY <1>0, <2>1 DEF FoundIsCeiling
  <2>3. request[r].found <= 0
    BY <2>1 DEF Discards
  <2>4. CASE a = b
    <3>1. quantity'[a] = Null
      BY <1>0, <2>1, <2>4 DEF AccessoriesTypeOK
    <3>2. quantity[a] \in Int /\ quantity[a] <= 0
      BY <1>00, <2>1, <2>2, <2>3, <2>4
    <3>3. owned[a] = quantity[a] + 0
      BY <1>0, <2>1, <2>4, FS_EmptySet DEF Conserved
    <3>4. owned[a] <= 0
      BY <3>2, <3>3
    <3> QED
      BY <2>1, <2>4, <3>1, <3>4 DEF Conserved, Exists
  <2>5. CASE a # b
    <3>1. quantity'[a] = quantity[a]
      BY <1>0, <2>1, <2>5 DEF AccessoriesTypeOK
    <3> QED
      BY <1>0, <1>00, <2>1, <3>1 DEF Conserved, Exists
  <2> QED
    BY <2>4, <2>5
<1>7. \/ UNCHANGED stock
      \/ \E b \in Accessories, n \in Quantities : CreateAccessory(b, n)
      \/ \E r \in Requests : \/ AssociateCommit(r) \/ UpdateCommit(r)
                             \/ DiscardCommit(r) \/ DeleteCommit(r)
  BY DEF Next, vars, AssociateRead, UpdateRead, DeleteRead, Read, Rollback, Reserve, Return
<1> QED
  BY <1>1, <1>2, <1>3, <1>4, <1>5, <1>6, <1>7

\* While edits leave the quantity alone, everything bought and not discarded is on the
\* shelf or on a unit, once, whatever the requests in flight.
THEOREM StockAlwaysConserved == ~EditsStock => (Spec => []StockConserved)
<1> SUFFICES ASSUME ~EditsStock PROVE Spec => []StockConserved
  OBVIOUS
<1>1. Init => ConservedInv
  BY AccessoriesAssumption DEF Init, ConservedInv, AccessoriesTypeOK, DeletesKnown,
     FoundIsCeiling, NoStockEdits, StockConserved, Exists, Idle
<1>2. ConservedInv /\ [Next]_vars => ConservedInv'
  <2> SUFFICES ASSUME ConservedInv, [Next]_vars PROVE ConservedInv'
    OBVIOUS
  <2>1. AccessoriesTypeOK' /\ DeletesKnown'
    BY TypeStep, DeletesKnownStep DEF ConservedInv
  <2>2. StockConserved'
    BY StockStep DEF StockConserved, Conserved
  <2>3. FoundIsCeiling' /\ NoStockEdits'
    BY StockStep, SlotsStep
  <2> QED
    BY <2>1, <2>2, <2>3 DEF ConservedInv
<1>3. ConservedInv => StockConserved
  BY DEF ConservedInv
<1> QED
  BY <1>1, <1>2, <1>3, PTL DEF Spec
=============================================================================
