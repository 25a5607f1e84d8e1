--------------------------- MODULE DocumentsProofs --------------------------
(***************************************************************************)
(* Theorems about Documents, for any contracts, processes, slots for       *)
(* requests, templates and numbers of versions, any age of the caches and  *)
(* any latency: the types, that documents are made with whole templates,   *)
(* that the active template is a recent one and that a settled contract    *)
(* keeps its version.                                                      *)
(***************************************************************************)
EXTENDS Documents, TLAPS

\* What checked asks of the contents of a version.
Valid(k, content) ==
  IF k = "CONTRACT" THEN ~contractProblem(content) ELSE ~reportProblem(content)

\* A cached version was published, and had been the newest shortly before it was cached.
EntryFits(pub, k, entry) ==
  entry # NoEntry =>
    /\ entry.version \in 1..Len(pub[k])
    /\ pub[k][entry.version].late <= entry.age + Latency

\* What each step of a request has established for those after it.
RequestFits(pub, q) ==
  q # Idle =>
    /\ q.contract # Null => q.kind = "CONTRACT"
    /\ q.pinned # Null => q.kind = "CONTRACT" /\ q.pinned \in 1..Len(pub["CONTRACT"])
    /\ q.step = "template" => q.waited = 0
    /\ q.step = "fetched" =>
         /\ q.pinned = Null
         /\ q.version \in 1..Len(pub[q.kind])
         /\ pub[q.kind][q.version].late <= q.waited
    /\ q.step = "rendering" =>
         /\ q.version \in 1..Len(pub[q.kind])
         /\ Valid(q.kind, pub[q.kind][q.version].content)
         /\ q.pinned # Null => q.version = q.pinned

TemplateFits(pub, version) ==
  version # Null =>
    /\ version \in 1..Len(pub["CONTRACT"])
    /\ Valid("CONTRACT", pub["CONTRACT"][version].content)

NewestIsOnTime(pub) == \A k \in Kinds : Len(pub[k]) > 0 => pub[k][Len(pub[k])].late = 0

AllFit ==
  /\ NewestIsOnTime(published)
  /\ \A p \in Processes, k \in Kinds : EntryFits(published, k, cache[p][k])
  /\ \A r \in Requests : RequestFits(published, request[r])
  /\ \A c \in Contracts : TemplateFits(published, template[c])

\* The inductive invariant.
DocumentsInv == DocumentsTypeOK /\ AllFit

-----------------------------------------------------------------------------
(***************************************************************************)
(* What the helpers do.                                                    *)
(***************************************************************************)

\* The check looks at the contents of the version only.
LEMMA CheckedIsValid ==
  ASSUME NEW k, NEW version
  PROVE  checked(k, version) <=> Valid(k, published[k][version].content)
BY DEF checked, Valid

\* No entry is as a cached one, and no request as an idle slot.
LEMMA NothingIsNothing ==
  /\ NoEntry \notin Entry
  /\ \A q \in Request : q # Idle /\ q.step # "idle"
  /\ Idle.step = "idle"
<1>1. Null \notin Versions
  BY DocumentsAssumption DEF Versions, Kinds
<1> QED BY <1>1 DEF NoEntry, Entry, Request, Idle

\* Age comes to an end at CacheAge.
LEMMA AgedType ==
  ASSUME NEW entry \in Entry \cup {NoEntry}
  PROVE  /\ aged(entry) \in Entry \cup {NoEntry}
         /\ aged(entry) # NoEntry =>
              /\ entry # NoEntry
              /\ aged(entry).version = entry.version
              /\ aged(entry).age = entry.age + 1
<1>1. CASE entry = NoEntry \/ entry.age + 1 = CacheAge
  BY <1>1 DEF aged
<1>2. CASE ~(entry = NoEntry \/ entry.age + 1 = CacheAge)
  <2>1. aged(entry) = [entry EXCEPT !.age = @ + 1]
    BY <1>2 DEF aged
  <2>2. entry \in Entry /\ entry.age \in 0..CacheAge - 1 /\ entry.age + 1 # CacheAge
    BY <1>2 DEF Entry
  <2>3. entry.age + 1 \in 0..CacheAge - 1
    BY <2>2, DocumentsAssumption
  <2> QED BY <2>1, <2>2, <2>3, <1>2 DEF Entry
<1> QED BY <1>1, <1>2

\* A version that a process may cache or a request name.
LEMMA PublishedVersions ==
  ASSUME DocumentsTypeOK, NEW k \in Kinds, NEW version \in 1..newest(k)
  PROVE  version \in Versions
<1>1. newest(k) \in Nat /\ newest(k) <= MaxVersions[k] /\ MaxVersions[k] \in Nat
  BY DocumentsAssumption DEF DocumentsTypeOK, newest
<1> QED BY <1>1 DEF Versions

-----------------------------------------------------------------------------
(***************************************************************************)
(* What the kinds of steps do to the invariant: one request moves, a       *)
(* version is published, a tick passes.                                    *)
(***************************************************************************)

RequestsInv ==
  /\ request \in [Requests -> Request \cup {Idle}]
  /\ \A r \in Requests : RequestFits(published, request[r])

\* A request that goes from one step to the next, with the versions as they are.
LEMMA OneRequest ==
  ASSUME RequestsInv, UNCHANGED published,
         NEW r \in Requests, NEW q \in Request \cup {Idle}, RequestFits(published, q),
         request' = [request EXCEPT ![r] = q]
  PROVE  RequestsInv'
<1>1. request' \in [Requests -> Request \cup {Idle}]
  BY DEF RequestsInv
<1>2. ASSUME NEW s \in Requests PROVE RequestFits(published', request'[s])
  <2>1. request'[s] = IF s = r THEN q ELSE request[s]
    BY DEF RequestsInv
  <2> QED BY <2>1 DEF RequestsInv
<1> QED BY <1>1, <1>2 DEF RequestsInv

\* A version is published after the others, which stay as they are.
LEMMA PublishAppends ==
  ASSUME DocumentsTypeOK, NEW k \in Kinds, NEW row,
         published' = [published EXCEPT ![k] = Append(@, row)]
  PROVE  /\ \A j \in Kinds : Len(published'[j]) = IF j = k THEN Len(published[j]) + 1
                                           ELSE Len(published[j])
         /\ \A j \in Kinds : \A v \in 1..Len(published[j]) : published'[j][v] = published[j][v]
         /\ published'[k][Len(published'[k])] = row
<1>1. published \in [Kinds -> Seq(Row)]
  BY DEF DocumentsTypeOK
<1>2. \A j \in Kinds : published'[j] = IF j = k THEN Append(published[j], row) ELSE published[j]
  BY <1>1
<1>3. \A j \in Kinds : published[j] \in Seq(Row) /\ Len(published[j]) \in Nat
  BY <1>1
<1>4. /\ Len(Append(published[k], row)) = Len(published[k]) + 1
      /\ Append(published[k], row)[Len(published[k]) + 1] = row
      /\ \A v \in 1..Len(published[k]) : Append(published[k], row)[v] = published[k][v]
  BY <1>3
<1>5. ASSUME NEW j \in Kinds
      PROVE  /\ Len(published'[j]) = IF j = k THEN Len(published[j]) + 1 ELSE Len(published[j])
             /\ \A v \in 1..Len(published[j]) : published'[j][v] = published[j][v]
  <2>1. CASE j = k
    <3>1. published'[k] = Append(published[k], row)
      BY <1>2
    <3> QED BY <3>1, <2>1, <1>4
  <2>2. CASE j # k
    BY <2>2, <1>2
  <2> QED BY <2>1, <2>2
<1>6. published'[k] = Append(published[k], row)
  BY <1>2
<1> QED BY <1>4, <1>5, <1>6

\* The ticks of a version that is not the newest.
LEMMA LaterType ==
  ASSUME NEW late \in 0..Ancient
  PROVE  later(late) \in 0..Ancient /\ later(late) <= late + 1
<1>1. Ancient \in Nat
  BY DocumentsAssumption DEF Ancient
<1> QED BY <1>1 DEF later

\* A tick publishes nothing, and makes each version later by one at most.
LEMMA TickOfVersions ==
  ASSUME DocumentsTypeOK, Tick, NEW k \in Kinds
  PROVE  /\ published'[k] \in Seq(Row) /\ Len(published'[k]) = Len(published[k])
         /\ \A v \in 1..Len(published[k]) :
              /\ published'[k][v].content = published[k][v].content
              /\ published'[k][v].late <= published[k][v].late + 1
              /\ v = Len(published[k]) => published'[k][v] = published[k][v]
<1>1. published[k] \in Seq(Row) /\ Len(published[k]) \in Nat
      /\ DOMAIN published[k] = 1..Len(published[k])
      /\ \A v \in 1..Len(published[k]) : published[k][v] \in Row
  BY DEF DocumentsTypeOK
<1>2. published'[k] = [v \in 1..Len(published[k]) |->
                        IF v = newest(k) THEN published[k][v]
                        ELSE [published[k][v] EXCEPT !.late = later(@)]]
  BY <1>1 DEF Tick
<1>3. ASSUME NEW v \in 1..Len(published[k])
      PROVE  /\ published'[k][v] \in Row
             /\ published'[k][v].content = published[k][v].content
             /\ published'[k][v].late <= published[k][v].late + 1
             /\ v = Len(published[k]) => published'[k][v] = published[k][v]
  <2>1. published[k][v] \in Row /\ published[k][v].late \in 0..Ancient /\ Ancient \in Nat
    BY <1>1, DocumentsAssumption DEF Row, Ancient
  <2>2. CASE v = Len(published[k])
    BY <2>1, <2>2, <1>2 DEF newest
  <2>3. CASE v # Len(published[k])
    <3>1. published'[k][v] = [published[k][v] EXCEPT !.late = later(published[k][v].late)]
      BY <2>3, <1>2 DEF newest
    <3>2. later(published[k][v].late) \in 0..Ancient
          /\ later(published[k][v].late) <= published[k][v].late + 1
      BY <2>1, LaterType
    <3> QED BY <3>1, <3>2, <2>1, <2>3 DEF Row
  <2> QED BY <2>2, <2>3
<1>4. PICK n \in Nat : n = Len(published[k])
  BY <1>1
<1>5. published'[k] \in [1..n -> Row]
  BY <1>2, <1>3, <1>4
<1>6. published'[k] \in Seq(Row) /\ Len(published'[k]) = n
  BY <1>5
<1> QED BY <1>3, <1>4, <1>6

-----------------------------------------------------------------------------
(***************************************************************************)
(* The invariant, action by action.                                        *)
(***************************************************************************)
LEMMA InvIsRequestsInv ==
  ASSUME DocumentsInv
  PROVE  RequestsInv
BY DEF DocumentsInv, DocumentsTypeOK, AllFit, RequestsInv

\* A step that only moves requests.
LEMMA OnlyRequests ==
  ASSUME DocumentsInv, RequestsInv', UNCHANGED <<published, cache, contracts>>
  PROVE  DocumentsInv'
<1>1. DocumentsTypeOK'
  BY DEF DocumentsInv, DocumentsTypeOK, RequestsInv, contracts, newest
<1>2. AllFit'
  BY DEF DocumentsInv, AllFit, RequestsInv, contracts
<1> QED BY <1>1, <1>2 DEF DocumentsInv

\* The request's next step, when it takes a version that is there.
LEMMA TakeFits ==
  ASSUME DocumentsInv, NEW r \in Requests, NEW version,
         request[r] \in Request,
         version \in 1..newest(request[r].kind),
         request[r].pinned # Null => version = request[r].pinned,
         Take(r, version), UNCHANGED published
  PROVE  RequestsInv'
<1>1. PICK q : q = [request[r] EXCEPT !.step = "rendering", !.version = version, !.waited = 0]
  OBVIOUS
<1>2. request' = [request EXCEPT ![r] = q]
  BY <1>1 DEF Take, DocumentsInv, DocumentsTypeOK
<1>3. request[r].kind \in Kinds
  BY DEF Request
<1>4. version \in Versions
  BY <1>3, PublishedVersions DEF DocumentsInv
<1>5. 0 \in 0..Latency
  BY DocumentsAssumption
<1>6. q \in Request
  BY <1>1, <1>4, <1>5 DEF Request
<1>7. /\ q.step = "rendering" /\ q.version = version
      /\ q.kind = request[r].kind /\ q.contract = request[r].contract
      /\ q.pinned = request[r].pinned
  BY <1>1 DEF Request
<1>8. Valid(q.kind, published[q.kind][version].content)
  BY <1>7, CheckedIsValid DEF Take
<1>9. RequestFits(published, request[r]) /\ request[r] # Idle
  BY NothingIsNothing DEF DocumentsInv, AllFit
<1>10. RequestFits(published, q)
  BY <1>7, <1>8, <1>9 DEF RequestFits, newest
<1> QED BY <1>2, <1>6, <1>10, OneRequest, InvIsRequestsInv

LEMMA RefuseFits ==
  ASSUME DocumentsInv, NEW r \in Requests, Refuse(r), UNCHANGED published
  PROVE  RequestsInv'
<1>1. PICK q : q = Idle
  OBVIOUS
<1>2. RequestFits(published, q) /\ q \in Request \cup {Idle}
  BY <1>1 DEF RequestFits
<1>3. request' = [request EXCEPT ![r] = q]
  BY <1>1 DEF Refuse
<1> QED BY <1>2, <1>3, OneRequest, InvIsRequestsInv

\* A slot whose step is not "idle" has a request.
LEMMA InFlight ==
  ASSUME DocumentsInv, NEW r \in Requests, request[r].step # "idle"
  PROVE  request[r] \in Request /\ request[r] # Idle
BY NothingIsNothing DEF DocumentsInv, DocumentsTypeOK

LEMMA BeginInv ==
  ASSUME DocumentsInv, NEW r \in Requests, NEW p \in Processes, NEW k \in Kinds,
         NEW c \in Contracts \cup {Null}, NEW version \in Versions \cup {Null},
         c # Null => k = "CONTRACT",
         version # Null => k = "CONTRACT" /\ version \in 1..newest("CONTRACT"),
         Begin(r, p, k, c, version)
  PROVE  DocumentsInv'
<1>1. PICK q : q = [step |-> "template", process |-> p, kind |-> k, contract |-> c,
                    pinned |-> version, version |-> Null, waited |-> 0]
  OBVIOUS
<1>2. 0 \in 0..Latency
  BY DocumentsAssumption
<1>3. q \in Request
  BY <1>1, <1>2 DEF Request
<1>4. RequestFits(published, q)
  BY <1>1 DEF RequestFits, newest
<1>5. request' = [request EXCEPT ![r] = q] /\ UNCHANGED <<published, cache, contracts>>
  BY <1>1 DEF Begin
<1> QED BY <1>3, <1>4, <1>5, OneRequest, InvIsRequestsInv, OnlyRequests

LEMMA GenerateInv ==
  ASSUME DocumentsInv, NEW r \in Requests, NEW p \in Processes, NEW c \in Contracts,
         generateContract(r, p, c)
  PROVE  DocumentsInv'
<1>1. template[c] \in Versions \cup {Null} /\ TemplateFits(published, template[c])
  BY DEF DocumentsInv, DocumentsTypeOK, AllFit
<1>2. template[c] # Null => template[c] \in 1..newest("CONTRACT")
  BY <1>1 DEF TemplateFits, newest
<1>3. Begin(r, p, "CONTRACT", c, template[c])
  BY DEF generateContract
<1>4. "CONTRACT" \in Kinds
  BY DEF Kinds
<1>5. PICK v : v = template[c]
  OBVIOUS
<1>6. Begin(r, p, "CONTRACT", c, v) /\ v \in Versions \cup {Null}
      /\ (v # Null => v \in 1..newest("CONTRACT"))
  BY <1>1, <1>2, <1>3, <1>5
<1> QED BY <1>4, <1>6, BeginInv

LEMMA ConsultInv ==
  ASSUME DocumentsInv, NEW r \in Requests, NEW p \in Processes, NEW k \in Kinds,
         Consult(r, p, k)
  PROVE  DocumentsInv'
BY BeginInv DEF Consult

LEMMA FindPinnedInv ==
  ASSUME DocumentsInv, NEW r \in Requests, FindPinned(r)
  PROVE  DocumentsInv'
<1>1. request[r] \in Request /\ request[r] # Idle
  BY InFlight DEF FindPinned
<1>2. PICK version : version = request[r].pinned
  OBVIOUS
<1>3. version \in 1..newest(request[r].kind)
  BY <1>1, <1>2 DEF FindPinned, DocumentsInv, AllFit, RequestFits, newest
<1>4. Take(r, version) /\ UNCHANGED <<published, cache, contracts>>
  BY <1>2 DEF FindPinned, rowById
<1> QED BY <1>1, <1>2, <1>3, <1>4, TakeFits, OnlyRequests

LEMMA FindCachedInv ==
  ASSUME DocumentsInv, NEW r \in Requests, FindCached(r)
  PROVE  DocumentsInv'
<1>1. request[r] \in Request
  BY InFlight DEF FindCached
<1>2. request[r].process \in Processes /\ request[r].kind \in Kinds
  BY <1>1 DEF Request
<1>3. EntryFits(published, request[r].kind, held(r))
  BY <1>2 DEF DocumentsInv, AllFit, held
<1>4. PICK version : version = held(r).version
  OBVIOUS
<1>5. version \in 1..newest(request[r].kind) /\ request[r].pinned = Null
  BY <1>3, <1>4 DEF FindCached, EntryFits, newest
<1>6. Take(r, version) /\ UNCHANGED <<published, cache, contracts>>
  BY <1>4 DEF FindCached, afterHit
<1> QED BY <1>1, <1>5, <1>6, TakeFits, OnlyRequests

\* The newest is on time, and the answer has not waited.
LEMMA FetchInv ==
  ASSUME DocumentsInv, NEW r \in Requests, Fetch(r)
  PROVE  DocumentsInv'
<1>1. request[r] \in Request /\ request[r] # Idle
  BY InFlight DEF Fetch
<1>2. request[r].kind \in Kinds
  BY <1>1 DEF Request
<1>3. PICK version : version = newest(request[r].kind)
  OBVIOUS
<1>4. published[request[r].kind] \in Seq(Row) /\ version \in Nat
  BY <1>2, <1>3 DEF DocumentsInv, DocumentsTypeOK, newest
<1>5. version \in 1..newest(request[r].kind)
  BY <1>3, <1>4 DEF Fetch
<1>6. published[request[r].kind][version].late = 0
  BY <1>2, <1>3, <1>4 DEF Fetch, newest, DocumentsInv, AllFit, NewestIsOnTime
<1>7. PICK q : q = [request[r] EXCEPT !.step = "fetched", !.version = version]
  OBVIOUS
<1>8. request' = [request EXCEPT ![r] = q] /\ UNCHANGED <<published, cache, contracts>>
  BY <1>3, <1>7 DEF Fetch, DocumentsInv, DocumentsTypeOK
<1>9. version \in Versions
  BY <1>2, <1>5, PublishedVersions DEF DocumentsInv
<1>10. q \in Request
  BY <1>1, <1>7, <1>9 DEF Request
<1>11. /\ q.step = "fetched" /\ q.version = version
       /\ q.kind = request[r].kind /\ q.contract = request[r].contract
       /\ q.pinned = request[r].pinned /\ q.waited = request[r].waited
  BY <1>1, <1>7 DEF Request
<1>12. RequestFits(published, request[r])
  BY DEF DocumentsInv, AllFit
<1>13. request[r].waited = 0 /\ request[r].pinned = Null
  BY <1>1, <1>12 DEF Fetch, RequestFits
<1>14. RequestFits(published, q)
  BY <1>1, <1>5, <1>6, <1>11, <1>12, <1>13 DEF RequestFits, newest
<1> QED BY <1>8, <1>10, <1>14, OneRequest, InvIsRequestsInv, OnlyRequests

\* What was fetched has waited Latency at most.
LEMMA StoreInv ==
  ASSUME DocumentsInv, NEW r \in Requests, Store(r)
  PROVE  DocumentsInv'
<1>1. request[r] \in Request /\ request[r] # Idle /\ request[r].step = "fetched"
  BY InFlight DEF Store
<1>2. PICK p \in Processes, k \in Kinds : p = request[r].process /\ k = request[r].kind
  BY <1>1 DEF Request
<1>3. RequestFits(published, request[r])
  BY DEF DocumentsInv, AllFit
<1>4. PICK version : version = request[r].version
  OBVIOUS
<1>5. version \in 1..newest(k) /\ published[k][version].late <= request[r].waited
      /\ request[r].pinned = Null
  BY <1>1, <1>2, <1>3, <1>4 DEF RequestFits, newest
<1>6. version \in Versions
  BY <1>5, PublishedVersions DEF DocumentsInv
<1>7. PICK entry : entry = [version |-> version, age |-> 0]
  OBVIOUS
<1>8. 0 \in 0..CacheAge - 1
  BY DocumentsAssumption
<1>9. entry \in Entry /\ entry.version = version /\ entry.age = 0
  BY <1>6, <1>7, <1>8 DEF Entry
<1>10. request[r].waited \in 0..Latency /\ Latency \in Nat
  BY <1>1, DocumentsAssumption DEF Request
<1>11. published[k][version].late <= 0 + Latency
  <2>1. newest(k) \in Nat /\ published[k] \in Seq(Row)
    BY DEF DocumentsInv, DocumentsTypeOK, newest
  <2>2. published[k][version] \in Row /\ Ancient \in Nat
    BY <1>5, <2>1, DocumentsAssumption DEF newest, Ancient
  <2>3. published[k][version].late \in 0..Ancient
    BY <2>2 DEF Row
  <2> QED BY <1>5, <1>10, <2>2, <2>3
<1>12. EntryFits(published, k, entry)
  BY <1>5, <1>9, <1>11 DEF EntryFits, newest
<1>13. cache' = [cache EXCEPT ![p][k] = entry] /\ UNCHANGED <<published, contracts>>
  BY <1>2, <1>4, <1>7 DEF Store
<1>14. \A x \in Processes, j \in Kinds :
         cache'[x][j] = IF x = p /\ j = k THEN entry ELSE cache[x][j]
  BY <1>13 DEF DocumentsInv, DocumentsTypeOK
<1>15. RequestsInv'
  <2>1. CASE Take(r, request[r].version)
    BY <1>1, <1>2, <1>4, <1>5, <1>13, <2>1, TakeFits
  <2>2. CASE Refuse(r)
    BY <1>13, <2>2, RefuseFits
  <2> QED BY <2>1, <2>2 DEF Store
<1>16. cache' \in [Processes -> [Kinds -> Entry \cup {NoEntry}]]
  BY <1>9, <1>13 DEF DocumentsInv, DocumentsTypeOK
<1>17. DocumentsTypeOK'
  <2>1. \A x \in Processes, j \in Kinds :
          cache'[x][j] # NoEntry => cache'[x][j].version <= newest(j)
    <3>1. entry.version <= newest(k)
      BY <1>5, <1>9 DEF DocumentsInv, DocumentsTypeOK, newest
    <3> QED BY <3>1, <1>14 DEF DocumentsInv, DocumentsTypeOK
  <2> QED BY <2>1, <1>13, <1>15, <1>16
       DEF DocumentsInv, DocumentsTypeOK, RequestsInv, contracts, newest
<1>18. AllFit'
  BY <1>12, <1>13, <1>14, <1>15 DEF DocumentsInv, AllFit, RequestsInv, contracts
<1> QED BY <1>17, <1>18 DEF DocumentsInv

\* The version kept is the one the document was rendered with.
LEMMA WriteContractInv ==
  ASSUME DocumentsInv, NEW r \in Requests, WriteContract(r)
  PROVE  DocumentsInv'
<1>1. request[r] \in Request /\ request[r] # Idle /\ request[r].step = "rendering"
  BY InFlight DEF WriteContract
<1>2. PICK c \in Contracts : c = request[r].contract
  BY <1>1 DEF Request, WriteContract
<1>3. PICK version : version = request[r].version
  OBVIOUS
<1>4. c # Null
  BY DocumentsAssumption
<1>5. request[r].kind = "CONTRACT" /\ version \in 1..newest("CONTRACT")
      /\ Valid("CONTRACT", published["CONTRACT"][version].content)
  BY <1>1, <1>2, <1>3, <1>4 DEF DocumentsInv, AllFit, RequestFits, newest
<1>6. version \in Versions
  BY <1>5, PublishedVersions DEF DocumentsInv, Kinds
<1>7. template' = [template EXCEPT ![c] = version]
  BY <1>2, <1>3 DEF WriteContract
<1>8. UNCHANGED <<published, cache, status>> /\ Refuse(r)
      /\ generated' = generated \cup {c}
  BY <1>2 DEF WriteContract
<1>9. RequestsInv'
  BY <1>8, RefuseFits
<1>10. DocumentsTypeOK'
  BY <1>6, <1>7, <1>8, <1>9 DEF DocumentsInv, DocumentsTypeOK, RequestsInv, newest
<1>11. ASSUME NEW d \in Contracts PROVE TemplateFits(published', template'[d])
  <2>1. template'[d] = IF d = c THEN version ELSE template[d]
    BY <1>7 DEF DocumentsInv, DocumentsTypeOK
  <2>2. TemplateFits(published, version)
    BY <1>5 DEF TemplateFits, newest
  <2> QED BY <1>8, <2>1, <2>2 DEF DocumentsInv, AllFit
<1>12. AllFit'
  BY <1>8, <1>9, <1>11 DEF DocumentsInv, AllFit, RequestsInv
<1> QED BY <1>10, <1>12 DEF DocumentsInv

LEMMA EndInv ==
  ASSUME DocumentsInv, NEW r \in Requests, End(r)
  PROVE  DocumentsInv'
BY RefuseFits, OnlyRequests DEF End

LEMMA RestartInv ==
  ASSUME DocumentsInv, NEW p \in Processes, Restart(p)
  PROVE  DocumentsInv'
<1>1. RequestsInv'
  <2>1. \A r \in Requests : request'[r] = Idle \/ request'[r] = request[r]
    BY DEF Restart
  <2>2. request' \in [Requests -> Request \cup {Idle}]
    BY DEF Restart, DocumentsInv, DocumentsTypeOK
  <2> QED BY <2>1, <2>2 DEF RequestsInv, DocumentsInv, AllFit, RequestFits, Restart
<1>2. \A x \in Processes, k \in Kinds : cache'[x][k] = NoEntry \/ cache'[x][k] = cache[x][k]
  BY DEF Restart, DocumentsInv, DocumentsTypeOK
<1>3. cache' \in [Processes -> [Kinds -> Entry \cup {NoEntry}]]
  BY DEF Restart, DocumentsInv, DocumentsTypeOK
<1>4. DocumentsTypeOK'
  BY <1>1, <1>2, <1>3
  DEF Restart, DocumentsInv, DocumentsTypeOK, RequestsInv, contracts, newest
<1>5. AllFit'
  BY <1>1, <1>2 DEF Restart, DocumentsInv, AllFit, RequestsInv, contracts, EntryFits
<1> QED BY <1>4, <1>5 DEF DocumentsInv

LEMMA ContractInv ==
  ASSUME DocumentsInv, NEW c \in Contracts, StartContract(c) \/ CancelContract(c)
  PROVE  DocumentsInv'
<1>1. /\ UNCHANGED <<published, cache, generated, template, request>>
      /\ status' \in [Contracts -> {"PENDING", "ACTIVE", "CANCELLED"}]
  BY DEF StartContract, CancelContract, DocumentsInv, DocumentsTypeOK
<1>2. DocumentsTypeOK'
  BY <1>1 DEF DocumentsInv, DocumentsTypeOK, newest
<1>3. AllFit'
  BY <1>1 DEF DocumentsInv, AllFit
<1> QED BY <1>2, <1>3 DEF DocumentsInv

\* The rows are never changed, so what was read of them stays true.
LEMMA PublishInv ==
  ASSUME DocumentsInv, NEW k \in Kinds, NEW content \in Contents[k], Publish(k, content)
  PROVE  DocumentsInv'
<1>1. PICK row : row = [content |-> content, late |-> 0]
  OBVIOUS
<1>2. published' = [published EXCEPT ![k] = Append(@, row)]
  BY <1>1 DEF Publish
<1>3. UNCHANGED <<cache, contracts, request>>
  BY DEF Publish
<1>4. /\ \A j \in Kinds : Len(published'[j]) = IF j = k THEN Len(published[j]) + 1
                                         ELSE Len(published[j])
      /\ \A j \in Kinds : \A v \in 1..Len(published[j]) : published'[j][v] = published[j][v]
      /\ published'[k][Len(published'[k])] = row
  <2>1. DocumentsTypeOK
    BY DEF DocumentsInv
  <2> QED BY <1>2, <2>1, PublishAppends
<1>5. \A j \in Kinds : Len(published[j]) \in Nat /\ published[j] \in Seq(Row)
  BY DEF DocumentsInv, DocumentsTypeOK
<1>6. \A j \in Kinds : \A v \in 1..Len(published[j]) :
                            v \in 1..Len(published'[j]) /\ published'[j][v] = published[j][v]
  BY <1>4, <1>5
<1>7. "CONTRACT" \in Kinds
  BY DEF Kinds
<1>8. DocumentsTypeOK'
  <2>1. row \in Row
    <3>1. 0 \in 0..Ancient
      BY DocumentsAssumption DEF Ancient
    <3> QED BY <1>1, <3>1 DEF Row
  <2>2. published' \in [Kinds -> Seq(Row)]
    BY <1>2, <2>1 DEF DocumentsInv, DocumentsTypeOK
  <2>3. \A j \in Kinds : Len(published'[j]) <= MaxVersions[j]
    <3>1. Len(published[k]) < MaxVersions[k] /\ MaxVersions \in [Kinds -> Nat]
      BY DocumentsAssumption DEF Publish, newest
    <3>2. \A j \in Kinds : Len(published[j]) <= MaxVersions[j]
      BY DEF DocumentsInv, DocumentsTypeOK, newest
    <3> QED BY <1>4, <1>5, <3>1, <3>2
  <2>4. ASSUME NEW p \in Processes, NEW j \in Kinds, cache[p][j] # NoEntry
        PROVE  cache[p][j].version <= Len(published'[j])
    <3>1. cache[p][j].version \in 1..Len(published[j])
      BY <2>4 DEF DocumentsInv, AllFit, EntryFits
    <3> QED BY <3>1, <1>6
  <2> QED BY <1>3, <2>2, <2>3, <2>4
       DEF DocumentsInv, DocumentsTypeOK, contracts, newest
<1>9. ASSUME NEW p \in Processes, NEW j \in Kinds
      PROVE  EntryFits(published', j, cache'[p][j])
  <2>1. EntryFits(published, j, cache[p][j])
    BY DEF DocumentsInv, AllFit
  <2> QED BY <1>3, <1>6, <2>1 DEF EntryFits
<1>10. ASSUME NEW r \in Requests PROVE RequestFits(published', request'[r])
  <2>1. RequestFits(published, request[r])
    BY DEF DocumentsInv, AllFit
  <2>2. request[r] # Idle => request[r].kind \in Kinds
    BY DEF DocumentsInv, DocumentsTypeOK, Request
  <2> QED BY <1>3, <1>6, <1>7, <2>1, <2>2 DEF RequestFits
<1>11. ASSUME NEW c \in Contracts PROVE TemplateFits(published', template'[c])
  BY <1>3, <1>6, <1>7 DEF TemplateFits, DocumentsInv, AllFit, contracts
<1>12. NewestIsOnTime(published')
  <2>1. ASSUME NEW j \in Kinds, Len(published'[j]) > 0 PROVE published'[j][Len(published'[j])].late = 0
    <3>1. CASE j = k
      BY <1>1, <1>4, <3>1
    <3>2. CASE j # k
      <4>1. Len(published'[j]) = Len(published[j]) /\ Len(published[j]) > 0
        BY <1>4, <2>1, <3>2
      <4>2. published[j][Len(published[j])].late = 0
        BY <4>1 DEF DocumentsInv, AllFit, NewestIsOnTime
      <4>3. published'[j][Len(published[j])] = published[j][Len(published[j])]
        BY <1>5, <1>6, <4>1
      <4> QED BY <4>1, <4>2, <4>3
    <3> QED BY <3>1, <3>2
  <2> QED BY <1>3, <2>1 DEF NewestIsOnTime
<1> QED BY <1>8, <1>9, <1>10, <1>11, <1>12 DEF DocumentsInv, AllFit

\* Entries and answers grow old as fast as the versions they name grow late.
LEMMA TickInv ==
  ASSUME DocumentsInv, Tick
  PROVE  DocumentsInv'
<1>1. \A k \in Kinds :
        /\ published'[k] \in Seq(Row) /\ Len(published'[k]) = Len(published[k])
        /\ \A v \in 1..Len(published[k]) :
             /\ published'[k][v].content = published[k][v].content
             /\ published'[k][v].late <= published[k][v].late + 1
             /\ v = Len(published[k]) => published'[k][v] = published[k][v]
  BY TickOfVersions DEF DocumentsInv
<1>2. \A p \in Processes, k \in Kinds : cache'[p][k] = aged(cache[p][k])
  BY DEF Tick
<1>3. \A p \in Processes, k \in Kinds : cache[p][k] \in Entry \cup {NoEntry}
  BY DEF DocumentsInv, DocumentsTypeOK
<1>4. \A k \in Kinds : \A v \in 1..Len(published[k]) :
        published[k][v].late \in Nat /\ published'[k][v].late \in Nat
  <2>1. Ancient \in Nat
    BY DocumentsAssumption DEF Ancient
  <2>2. \A k \in Kinds : published[k] \in Seq(Row)
    BY DEF DocumentsInv, DocumentsTypeOK
  <2>3. \A k \in Kinds : \A v \in 1..Len(published[k]) :
          published[k][v] \in Row /\ published'[k][v] \in Row
    BY <1>1, <2>2
  <2> QED BY <2>1, <2>3 DEF Row
<1>5. "CONTRACT" \in Kinds /\ UNCHANGED contracts
  BY DEF Kinds, Tick
<1>6. ASSUME NEW r \in Requests
      PROVE  \/ request'[r] = request[r] /\ request[r].step # "fetched"
             \/ /\ request[r].step = "fetched"
                /\ request[r].waited < Latency
                /\ request'[r] = [request[r] EXCEPT !.waited = @ + 1]
  BY DEF Tick
<1>7. ASSUME NEW r \in Requests
      PROVE  /\ request'[r] \in Request \cup {Idle}
             /\ RequestFits(published', request'[r])
  <2>1. RequestFits(published, request[r]) /\ request[r] \in Request \cup {Idle}
    BY DEF DocumentsInv, DocumentsTypeOK, AllFit
  <2>2. CASE request'[r] = request[r] /\ request[r].step # "fetched"
    <3>1. request[r] # Idle => request[r].kind \in Kinds
      BY <2>1 DEF Request
    <3> QED BY <1>1, <1>5, <2>1, <2>2, <3>1 DEF RequestFits
  <2>3. CASE /\ request[r].step = "fetched"
             /\ request[r].waited < Latency
             /\ request'[r] = [request[r] EXCEPT !.waited = @ + 1]
    <3>1. request[r] \in Request /\ request[r] # Idle
      BY <2>3, InFlight
    <3>2. PICK waited \in Nat : waited = request[r].waited /\ waited + 1 \in 0..Latency
      BY <2>3, <3>1, DocumentsAssumption DEF Request
    <3>3. PICK q : q = [request[r] EXCEPT !.waited = waited + 1]
      OBVIOUS
    <3>4. request'[r] = q
      BY <2>3, <3>2, <3>3
    <3>5. /\ q \in Request /\ q.step = "fetched" /\ q.waited = waited + 1
          /\ q.version = request[r].version /\ q.kind = request[r].kind
          /\ q.contract = request[r].contract /\ q.pinned = request[r].pinned
      BY <2>3, <3>1, <3>2, <3>3 DEF Request
    <3>6. PICK k \in Kinds, v \in Versions \cup {Null} :
            k = request[r].kind /\ v = request[r].version
      BY <3>1 DEF Request
    <3>7. v \in 1..Len(published[k]) /\ published[k][v].late <= waited
          /\ request[r].pinned = Null /\ (request[r].contract # Null => k = "CONTRACT")
      BY <2>1, <2>3, <3>1, <3>2, <3>6 DEF RequestFits
    <3>8. v \in 1..Len(published'[k]) /\ published'[k][v].late <= waited + 1
      <4>1. /\ v \in 1..Len(published'[k])
            /\ published'[k][v].late <= published[k][v].late + 1
        BY <1>1, <3>7
      <4>2. published[k][v].late \in Nat /\ published'[k][v].late \in Nat
        BY <1>4, <3>7
      <4> QED BY <4>1, <4>2, <3>7
    <3>9. RequestFits(published', q)
      BY <3>5, <3>6, <3>7, <3>8 DEF RequestFits
    <3> QED BY <3>4, <3>5, <3>9
  <2> QED BY <1>6, <2>2, <2>3
<1>8. request' \in [Requests -> Request \cup {Idle}]
  <2>1. request' = [r \in Requests |-> request'[r]]
    BY DEF Tick
  <2> QED BY <1>7, <2>1
<1>9. ASSUME NEW p \in Processes, NEW k \in Kinds
      PROVE  /\ cache'[p][k] \in Entry \cup {NoEntry}
             /\ EntryFits(published', k, cache'[p][k])
  <2>1. PICK entry \in Entry \cup {NoEntry} : entry = cache[p][k]
    BY <1>3
  <2>2. cache'[p][k] = aged(entry) /\ EntryFits(published, k, entry)
    BY <1>2, <2>1 DEF DocumentsInv, AllFit
  <2>3. CASE aged(entry) = NoEntry
    BY <2>2, <2>3 DEF EntryFits
  <2>4. CASE aged(entry) # NoEntry
    <3>1. /\ aged(entry) \in Entry /\ entry \in Entry /\ entry # NoEntry
          /\ aged(entry).version = entry.version /\ aged(entry).age = entry.age + 1
      BY <2>4, AgedType
    <3>2. PICK v, age : v = entry.version /\ age = entry.age
      OBVIOUS
    <3>3. v \in 1..Len(published[k]) /\ published[k][v].late <= age + Latency
      BY <2>2, <3>1, <3>2 DEF EntryFits
    <3>4. v \in 1..Len(published'[k]) /\ published'[k][v].late <= (age + 1) + Latency
      <4>1. /\ v \in 1..Len(published'[k])
            /\ published'[k][v].late <= published[k][v].late + 1
        BY <1>1, <3>3
      <4>2. published[k][v].late \in Nat /\ published'[k][v].late \in Nat
        BY <1>4, <3>3
      <4>3. age \in Nat /\ Latency \in Nat
        BY <3>1, <3>2, DocumentsAssumption DEF Entry
      <4> QED BY <4>1, <4>2, <4>3, <3>3
    <3>5. EntryFits(published', k, aged(entry))
      BY <3>1, <3>2, <3>4 DEF EntryFits
    <3> QED BY <2>2, <3>1, <3>5
  <2> QED BY <2>3, <2>4
<1>10. DocumentsTypeOK'
  <2>1. published' \in [Kinds -> Seq(Row)]
    <3>1. published' = [k \in Kinds |-> published'[k]]
      BY DEF Tick
    <3> QED BY <1>1, <3>1
  <2>2. cache' \in [Processes -> [Kinds -> Entry \cup {NoEntry}]]
    <3>1. \A p \in Processes : cache'[p] = [k \in Kinds |-> cache'[p][k]]
      BY DEF Tick
    <3>2. cache' = [p \in Processes |-> cache'[p]]
      BY DEF Tick
    <3> QED BY <1>9, <3>1, <3>2
  <2>3. \A k \in Kinds : Len(published'[k]) <= MaxVersions[k]
    BY <1>1 DEF DocumentsInv, DocumentsTypeOK, newest
  <2>4. \A p \in Processes, k \in Kinds :
          cache'[p][k] # NoEntry => cache'[p][k].version <= Len(published'[k])
    <3>1. \A k \in Kinds : Len(published'[k]) \in Nat
      BY <2>1
    <3> QED BY <1>9, <3>1 DEF EntryFits
  <2> QED BY <1>5, <1>8, <2>1, <2>2, <2>3, <2>4
       DEF DocumentsInv, DocumentsTypeOK, contracts, newest
<1>11. NewestIsOnTime(published')
  <2>1. ASSUME NEW k \in Kinds, Len(published'[k]) > 0
        PROVE  published'[k][Len(published'[k])].late = 0
    <3>1. Len(published'[k]) = Len(published[k]) /\ Len(published[k]) \in 1..Len(published[k])
      BY <1>1, <2>1 DEF DocumentsInv, DocumentsTypeOK
    <3>2. published'[k][Len(published[k])] = published[k][Len(published[k])]
      BY <1>1, <3>1
    <3>3. published[k][Len(published[k])].late = 0
      BY <2>1, <3>1 DEF DocumentsInv, AllFit, NewestIsOnTime
    <3> QED BY <3>1, <3>2, <3>3
  <2> QED BY <2>1 DEF NewestIsOnTime
<1>12. ASSUME NEW c \in Contracts PROVE TemplateFits(published', template'[c])
  BY <1>1, <1>5 DEF TemplateFits, DocumentsInv, AllFit, contracts
<1> QED BY <1>7, <1>9, <1>10, <1>11, <1>12 DEF DocumentsInv, AllFit

LEMMA InitInv ==
  ASSUME Init
  PROVE  DocumentsInv
<1>1. published \in [Kinds -> Seq(Row)] /\ \A k \in Kinds : Len(published[k]) = 0
  BY DEF Init
<1>2. DocumentsTypeOK
  BY <1>1, DocumentsAssumption DEF Init, DocumentsTypeOK, newest
<1>3. AllFit
  BY <1>1 DEF Init, AllFit, NewestIsOnTime, EntryFits, RequestFits, TemplateFits
<1> QED BY <1>2, <1>3 DEF DocumentsInv

\* Every step keeps the invariant.
LEMMA StepInv ==
  ASSUME DocumentsInv, [Next]_vars
  PROVE  DocumentsInv'
<1>1. CASE Tick
  BY <1>1, TickInv
<1>2. CASE \E k \in Kinds : \E content \in Contents[k] : Publish(k, content)
  BY <1>2, PublishInv
<1>3. CASE \E c \in Contracts : StartContract(c) \/ CancelContract(c)
  BY <1>3, ContractInv
<1>4. CASE \E r \in Requests, p \in Processes :
             \/ \E c \in Contracts : generateContract(r, p, c)
             \/ \E k \in Kinds : Consult(r, p, k)
  BY <1>4, GenerateInv, ConsultInv
<1>5. CASE \E r \in Requests : \/ FindPinned(r) \/ FindCached(r) \/ Fetch(r) \/ Store(r)
                               \/ WriteContract(r) \/ End(r)
  BY <1>5, FindPinnedInv, FindCachedInv, FetchInv, StoreInv, WriteContractInv, EndInv
<1>6. CASE \E p \in Processes : Restart(p)
  BY <1>6, RestartInv
<1>7. CASE UNCHANGED vars
  BY <1>7 DEF vars, contracts, DocumentsInv, DocumentsTypeOK, AllFit, newest
<1> QED BY <1>1, <1>2, <1>3, <1>4, <1>5, <1>6, <1>7 DEF Next

LEMMA DocumentsInvAlways == Spec => []DocumentsInv
<1>1. Init => DocumentsInv
  BY InitInv
<1>2. DocumentsInv /\ [Next]_vars => DocumentsInv'
  BY StepInv
<1> QED BY <1>1, <1>2, PTL DEF Spec

-----------------------------------------------------------------------------
(***************************************************************************)
(* The theorems.                                                           *)
(***************************************************************************)

\* Versions, caches, contracts and requests keep their types, and what they name was
\* published.
THEOREM DocumentsTyping == Spec => []DocumentsTypeOK
<1>1. DocumentsInv => DocumentsTypeOK
  BY DEF DocumentsInv
<1> QED BY <1>1, DocumentsInvAlways, PTL

\* A contract is never made with a template that lacks a clause it is billed by, or a
\* text, whatever was published and by whichever path the template was found.
THEOREM DocumentsAlwaysWhole == Spec => []DocumentsAreWhole
<1>1. ASSUME DocumentsInv PROVE DocumentsAreWhole
  <2> SUFFICES ASSUME NEW c \in Contracts, template[c] # Null
               PROVE  /\ template[c] \in DOMAIN published["CONTRACT"]
                      /\ LET content == published["CONTRACT"][template[c]].content
                         IN  /\ content.issuer
                             /\ \A rule \in REQUIRED_BILLING_RULES :
                                  \E block \in content.blocks : block.billingRule = rule
                             /\ \A block \in content.blocks : block.complete
    BY DEF DocumentsAreWhole
  <2>1. PICK content : content = published["CONTRACT"][template[c]].content
    OBVIOUS
  <2>2. template[c] \in 1..Len(published["CONTRACT"]) /\ Valid("CONTRACT", content)
    BY <1>1, <2>1 DEF DocumentsInv, AllFit, TemplateFits
  <2>3. published["CONTRACT"] \in Seq(Row)
    BY <1>1 DEF DocumentsInv, DocumentsTypeOK, Kinds
  <2>4. template[c] \in DOMAIN published["CONTRACT"]
    BY <2>2, <2>3
  <2>5. ~contractProblem(content)
    BY <2>2 DEF Valid
  <2>6. content.issuer /\ \A block \in content.blocks : block.complete
    BY <2>5 DEF contractProblem, blockProblem
  <2>7. ASSUME NEW rule \in REQUIRED_BILLING_RULES
        PROVE  \E block \in content.blocks : block.billingRule = rule
    BY <2>5 DEF contractProblem, rulesOf
  <2> QED BY <2>1, <2>4, <2>6, <2>7
<1> QED BY <1>1, DocumentsInvAlways, PTL

\* The steps of the request in slot r.
Begins(r) == \E p \in Processes : \/ \E c \in Contracts : generateContract(r, p, c)
                                 \/ \E k \in Kinds : Consult(r, p, k)
Finds(r) == FindPinned(r) \/ FindCached(r) \/ Fetch(r) \/ Store(r)
Ends(r) == WriteContract(r) \/ End(r)

\* A request waits while another is served.
LEMMA OthersWait ==
  ASSUME DocumentsInv, NEW r \in Requests, NEW s \in Requests \ {r},
         Begins(s) \/ Finds(s) \/ Ends(s)
  PROVE  request'[r] = request[r]
<1>1. request \in [Requests -> Request \cup {Idle}]
  BY DEF DocumentsInv, DocumentsTypeOK
<1>2. CASE Begins(s)
  BY <1>1, <1>2 DEF Begins, generateContract, Consult, Begin
<1>3. ASSUME NEW version, Take(s, version) PROVE request'[r] = request[r]
  BY <1>1, <1>3 DEF Take
<1>4. Refuse(s) => request'[r] = request[r]
  BY <1>1 DEF Refuse
<1>5. Fetch(s) => request'[r] = request[r]
  BY <1>1 DEF Fetch
<1>6. CASE Finds(s)
  BY <1>3, <1>4, <1>5, <1>6 DEF Finds, FindPinned, FindCached, Store
<1>7. CASE Ends(s)
  BY <1>4, <1>7 DEF Ends, WriteContract, End
<1> QED BY <1>2, <1>6, <1>7

\* Who waits for a slow query, and whom an answer that came late leaves an old version
\* in the cache, still gets one that was the newest less than CacheAge + Latency ago.
THEOREM ServedAlwaysRecent == Spec => ServedIsRecent
<1>1. ASSUME DocumentsInv, [Next]_vars PROVE ServedIsRecentStep
  <2> SUFFICES ASSUME NEW r \in Requests,
                      request[r] # Idle, request[r].step # "rendering",
                      request[r].pinned = Null,
                      request'[r] # Idle, request'[r].step = "rendering"
               PROVE  Lateness(request'[r].kind, request'[r].version) < CacheAge + Latency
    BY DEF ServedIsRecentStep
  <2>1. request \in [Requests -> Request \cup {Idle}] /\ request[r] \in Request
    BY <1>1 DEF DocumentsInv, DocumentsTypeOK
  <2>2. RequestFits(published, request[r])
    BY <1>1 DEF DocumentsInv, AllFit
  <2>3. request[r].kind \in Kinds /\ request[r].process \in Processes
        /\ request[r].waited \in 0..Latency
    BY <2>1 DEF Request
  <2>4. {CacheAge, Latency} \subseteq Nat \ {0}
    BY DocumentsAssumption
  <2>5. ASSUME NEW k \in Kinds, NEW v \in 1..Len(published[k])
        PROVE  published[k][v].late \in Nat
    <3>1. published[k] \in Seq(Row) /\ Ancient \in Nat
      BY <1>1, DocumentsAssumption DEF DocumentsInv, DocumentsTypeOK, Ancient
    <3>2. published[k][v] \in Row
      BY <3>1
    <3> QED BY <3>1, <3>2 DEF Row
  <2>6. \/ FindCached(r)
        \/ Store(r)
    <3>1. request'[r] # request[r]
      OBVIOUS
    <3>2. CASE Tick
      BY <2>1, <3>2 DEF Tick, Request
    <3>3. CASE \/ \E k \in Kinds : \E content \in Contents[k] : Publish(k, content)
               \/ \E c \in Contracts : StartContract(c) \/ CancelContract(c)
               \/ UNCHANGED vars
      BY <3>3 DEF Publish, StartContract, CancelContract, vars
    <3>4. CASE Begins(r)
      BY <2>1, <3>4 DEF Begins, generateContract, Consult, Begin
    <3>5. CASE FindPinned(r) \/ Fetch(r) \/ WriteContract(r) \/ End(r)
      <4>1. Fetch(r) => request'[r].step = "fetched"
        BY <2>1 DEF Fetch, Request
      <4>2. WriteContract(r) \/ End(r) => request'[r] = Idle
        BY <2>1 DEF WriteContract, End, Refuse
      <4>3. ~FindPinned(r)
        BY DEF FindPinned
      <4> QED BY <3>5, <4>1, <4>2, <4>3
    <3>6. CASE \E s \in Requests \ {r} : Begins(s) \/ Finds(s) \/ Ends(s)
      BY <1>1, <3>1, <3>6, OthersWait
    <3>7. CASE \E p \in Processes : Restart(p)
      BY <2>1, <3>7 DEF Restart
    <3> QED BY <1>1, <3>2, <3>3, <3>4, <3>5, <3>6, <3>7 DEF Next, Begins, Finds, Ends
  <2>7. CASE FindCached(r)
    <3>1. PICK k, entry : k = request[r].kind /\ entry = held(r)
      OBVIOUS
    <3>2. request'[r].kind = k /\ request'[r].version = entry.version
      BY <2>1, <2>7, <3>1 DEF FindCached, Take, Request
    <3>3. entry \in Entry /\ EntryFits(published, k, entry) /\ entry # NoEntry
      BY <1>1, <2>3, <2>7, <3>1 DEF DocumentsInv, DocumentsTypeOK, AllFit, held, FindCached
    <3>4. published[k][entry.version].late <= entry.age + Latency
          /\ entry.version \in 1..Len(published[k])
      BY <3>3 DEF EntryFits
    <3>5. entry.age \in 0..CacheAge - 1
      BY <3>3 DEF Entry
    <3>6. published[k][entry.version].late \in Nat
      BY <2>3, <2>5, <3>1, <3>4
    <3>7. published[k][entry.version].late < CacheAge + Latency
      BY <2>4, <3>4, <3>5, <3>6
    <3> QED BY <3>2, <3>7 DEF Lateness
  <2>8. CASE Store(r)
    <3>1. PICK k, v : k = request[r].kind /\ v = request[r].version
      OBVIOUS
    <3>2. request'[r].kind = k /\ request'[r].version = v
      BY <2>1, <2>8, <3>1 DEF Store, Take, Refuse, Request
    <3>3. published[k][v].late <= request[r].waited /\ v \in 1..Len(published[k])
      BY <2>2, <2>8, <3>1 DEF RequestFits, Store
    <3>4. published[k][v].late \in Nat
      BY <2>3, <2>5, <3>1, <3>3
    <3>5. published[k][v].late < CacheAge + Latency
      BY <2>3, <2>4, <3>3, <3>4
    <3> QED BY <3>2, <3>5 DEF Lateness
  <2> QED BY <2>6, <2>7, <2>8
<1> QED BY <1>1, DocumentsInvAlways, PTL DEF Spec, ServedIsRecent

\* Once settled, the version kept with a contract stays, whatever happens to the
\* templates, the caches and the processes.
THEOREM VersionAlwaysKept == Spec => VersionKept
<1>1. ASSUME DocumentsInv, [Next]_vars PROVE VersionKeptStep
  <2> SUFFICES ASSUME NEW c \in Contracts, NEW v \in Versions, Settled(c, v)
               PROVE  Settled(c, v)'
    BY DEF VersionKeptStep
  <2>1. /\ request \in [Requests -> Request \cup {Idle}]
        /\ template \in [Contracts -> Versions \cup {Null}]
    BY <1>1 DEF DocumentsInv, DocumentsTypeOK
  <2>2. c # Null /\ v # Null
    BY DocumentsAssumption DEF Versions, Kinds
  <2>3. template[c] = v
    BY DEF Settled
  <2>4. ASSUME NEW r \in Requests, request[r] # Idle, request[r].contract = c
        PROVE  request[r].pinned = v
    BY <2>4 DEF Settled
  <2>5. template'[c] = v
    <3>1. CASE UNCHANGED template
      BY <2>3, <3>1
    <3>2. CASE \E r \in Requests : WriteContract(r)
      <4>1. PICK r \in Requests : WriteContract(r)
        BY <3>2
      <4>2. request[r] \in Request /\ request[r] # Idle /\ RequestFits(published, request[r])
        BY <1>1, <4>1, InFlight DEF WriteContract, DocumentsInv, AllFit
      <4>3. template' = [template EXCEPT ![request[r].contract] = request[r].version]
        BY <4>1 DEF WriteContract
      <4>4. CASE request[r].contract = c
        <5>1. request[r].pinned = v
          BY <2>4, <4>2, <4>4
        <5>2. request[r].version = v
          BY <2>2, <4>1, <4>2, <5>1 DEF RequestFits, WriteContract
        <5> QED BY <2>1, <4>3, <4>4, <5>2
      <4>5. CASE request[r].contract # c
        BY <2>1, <2>3, <4>3, <4>5
      <4> QED BY <4>4, <4>5
    <3>3. UNCHANGED template \/ \E r \in Requests : WriteContract(r)
      BY <1>1 DEF Next, vars, contracts, Tick, Publish, StartContract, CancelContract,
           generateContract, Consult, Begin, FindPinned, FindCached, Fetch, Store, End, Restart
    <3> QED BY <3>1, <3>2, <3>3
  <2>6. ASSUME NEW r \in Requests, request'[r] # Idle, request'[r].contract = c
        PROVE  request'[r].pinned = v
    <3>1. CASE \E p \in Processes : generateContract(r, p, c)
      <4>1. request'[r].pinned = template[c]
        BY <2>1, <3>1 DEF generateContract, Begin
      <4> QED BY <2>3, <4>1
    <3>2. CASE /\ request[r] # Idle /\ request'[r].contract = request[r].contract
               /\ request'[r].pinned = request[r].pinned
      BY <2>4, <2>6, <3>2
    <3>3. \/ \E p \in Processes : generateContract(r, p, c)
          \/ /\ request[r] # Idle /\ request'[r].contract = request[r].contract
             /\ request'[r].pinned = request[r].pinned
      <4>1. CASE request'[r] = request[r]
        BY <2>6, <4>1
      <4>2. CASE Tick
        <5>1. CASE request[r].step = "fetched"
          <6>1. request[r] \in Request /\ request[r] # Idle
            BY <1>1, <5>1, InFlight
          <6>2. request'[r] = [request[r] EXCEPT !.waited = @ + 1]
            BY <4>2, <5>1 DEF Tick
          <6> QED BY <6>1, <6>2 DEF Request
        <5>2. CASE request[r].step # "fetched"
          BY <4>1, <4>2, <5>2 DEF Tick
        <5> QED BY <5>1, <5>2
      <4>3. CASE \E p \in Processes, d \in Contracts : generateContract(r, p, d)
        <5>1. PICK p \in Processes, d \in Contracts : generateContract(r, p, d)
          BY <4>3
        <5>2. request'[r].contract = d
          BY <2>1, <5>1 DEF generateContract, Begin
        <5> QED BY <2>6, <5>1, <5>2
      <4>4. CASE \E p \in Processes, k \in Kinds : Consult(r, p, k)
        BY <2>1, <2>2, <2>6, <4>4 DEF Consult, Begin
      <4>5. CASE FindPinned(r) \/ FindCached(r) \/ Fetch(r) \/ Store(r)
        <5>1. request[r] \in Request /\ request[r] # Idle
          BY <1>1, <4>5, InFlight DEF FindPinned, FindCached, Fetch, Store
        <5> QED BY <2>1, <2>6, <4>5, <5>1
             DEF FindPinned, FindCached, Fetch, Store, Take, Refuse, Request
      <4>6. CASE WriteContract(r) \/ End(r)
        BY <2>1, <2>6, <4>6 DEF WriteContract, End, Refuse
      <4>7. CASE \E p \in Processes : Restart(p)
        BY <2>6, <4>1, <4>7 DEF Restart
      <4>8. CASE \E s \in Requests \ {r} : Begins(s) \/ Finds(s) \/ Ends(s)
        BY <1>1, <4>1, <4>8, OthersWait
      <4>9. CASE \/ \E k \in Kinds : \E content \in Contents[k] : Publish(k, content)
                 \/ \E d \in Contracts : StartContract(d) \/ CancelContract(d)
                 \/ UNCHANGED vars
        BY <4>1, <4>9 DEF Publish, StartContract, CancelContract, vars
      <4> QED BY <1>1, <4>2, <4>3, <4>4, <4>5, <4>6, <4>7, <4>8, <4>9
           DEF Next, Begins, Finds, Ends
    <3> QED BY <3>1, <3>2, <3>3
  <2> QED BY <2>5, <2>6 DEF Settled
<1> QED BY <1>1, DocumentsInvAlways, PTL DEF Spec, VersionKept
=============================================================================
