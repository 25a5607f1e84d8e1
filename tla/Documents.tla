----------------------------- MODULE Documents ------------------------------
(***************************************************************************)
(* The documents made from templates (document.service.ts) and the         *)
(* templates themselves (documentTemplate.service.ts): versions that are   *)
(* published and never changed, of which each process of the service keeps *)
(* the newest of a kind for a while, and of which a contract keeps the one *)
(* its document was made with.                                             *)
(*                                                                         *)
(* A request waits on the database in the middle of its handler, so others *)
(* run between its steps: it reads the contract, finds a template, renders *)
(* and, for a contract, writes.  A process may die, and forgets its cache. *)
(* Time passes in ticks.  What the documents show is left out: Billing     *)
(* computes it, and the rest is layout.                                    *)
(*                                                                         *)
(* XSlip is X with a mistake in it that the code could have.               *)
(***************************************************************************)
EXTENDS Integers, Sequences

CONSTANTS
  Contracts,    \* ids of contracts
  Processes,    \* instances of the service
  Requests,     \* slots for requests in flight
  Contents,     \* Contents[k]: what a version of kind k may hold
  MaxVersions,  \* MaxVersions[k]: bound on the versions of kind k
  CacheAge,     \* ticks that a process trusts what it cached (CACHE_MS)
  Latency,      \* ticks that the database may take to answer
  Null          \* no value

Kinds == {"CONTRACT", "REPORT"}

ASSUME DocumentsAssumption ==
  /\ DOMAIN Contents = Kinds
  /\ MaxVersions \in [Kinds -> Nat]
  /\ {CacheAge, Latency} \subseteq Nat \ {0}
  /\ Null \notin Nat \cup Contracts

VARIABLES
  published,  \* published[k]: the versions of kind k, oldest first, with the ticks
              \* (up to Ancient) since each ceased to be the newest
  cache,      \* cache[p][k]: what process p holds of kind k, and for how long
  status,     \* status[c]: the contract's status
  generated,  \* the contracts marked as documented (contract_generated)
  template,   \* template[c]: the version kept with the contract (documentTemplateId)
  request     \* request[r]: what the request in slot r keeps, or Idle

contracts == <<status, generated, template>>
vars == <<published, cache, contracts, request>>

Versions == UNION {1..MaxVersions[k] : k \in Kinds}

\* Long enough ago for no cache to remember.
Ancient == CacheAge + Latency

NoEntry == [version |-> Null, age |-> 0]
Idle == [step |-> "idle"]

newest(k) == Len(published[k])

-----------------------------------------------------------------------------
(***************************************************************************)
(* documentTemplate.ts: what is wrong with a template.  A block says       *)
(* whether the texts it must have are there; its order is layout.          *)
(***************************************************************************)
REQUIRED_BILLING_RULES == {"usage", "renewal", "excess", "indemnity"}
BILLING_RULES == REQUIRED_BILLING_RULES \cup {"release"}

TEXT_BLOCKS == {"title", "section", "paragraph", "clause"}
DATA_BLOCKS == {"renter", "items", "prices", "signatures"}

blockProblem(block) ==
  \/ block.kind \notin TEXT_BLOCKS \cup DATA_BLOCKS
  \/ ~block.complete
  \/ block.kind = "clause" /\ block.billingRule \notin BILLING_RULES \cup {Null}

\* A rule counts on whatever block it is.
rulesOf(content) == {block.billingRule : block \in content.blocks}

contractProblem(content) ==
  \/ ~content.issuer
  \/ content.blocks = Null
  \/ \E block \in content.blocks : blockProblem(block)
  \/ ~(REQUIRED_BILLING_RULES \subseteq rulesOf(content))

reportProblem(content) == ~(content.issuer /\ content.billingNote /\ content.signatures)

\* checked: the template may be used.
checkedSlip(k, version) == version \in DOMAIN published[k]

checked(k, version) ==
  LET content == published[k][version].content
  IN  IF k = "CONTRACT" THEN ~contractProblem(content) ELSE ~reportProblem(content)

-----------------------------------------------------------------------------
Init ==
  /\ published = [k \in Kinds |-> <<>>]
  /\ cache = [p \in Processes |-> [k \in Kinds |-> NoEntry]]
  /\ status = [c \in Contracts |-> "PENDING"]
  /\ generated \in SUBSET Contracts   \* before templates, documents kept no version
  /\ template = [c \in Contracts |-> Null]
  /\ request = [r \in Requests |-> Idle]

\* The version that ceases to be the newest has just done so; of the new one it is
\* not known when it will.
Publish(k, content) ==
  /\ newest(k) < MaxVersions[k]
  /\ published' = [published EXCEPT ![k] = Append(@, [content |-> content, late |-> 0])]
  /\ UNCHANGED <<cache, contracts, request>>

\* An entry as old as CacheAge is as none.
agedSlip(entry) == entry

agedLateSlip(entry) ==
  IF entry = NoEntry \/ entry.age = CacheAge THEN NoEntry
  ELSE [entry EXCEPT !.age = @ + 1]

aged(entry) ==
  IF entry = NoEntry \/ entry.age + 1 = CacheAge THEN NoEntry
  ELSE [entry EXCEPT !.age = @ + 1]

later(late) == IF late < Ancient THEN late + 1 ELSE late

\* A tick passes; no query takes longer than Latency to answer.
Tick ==
  /\ \A r \in Requests : request[r].step = "fetched" => request[r].waited < Latency
  /\ published' = [k \in Kinds |-> [v \in DOMAIN published[k] |->
                     IF v = newest(k) THEN published[k][v]
                     ELSE [published[k][v] EXCEPT !.late = later(@)]]]
  /\ cache' = [p \in Processes |-> [k \in Kinds |-> aged(cache[p][k])]]
  /\ request' = [r \in Requests |->
                   IF request[r].step = "fetched" THEN [request[r] EXCEPT !.waited = @ + 1]
                   ELSE request[r]]
  /\ UNCHANGED contracts

\* A contract's handlers, as far as its document goes: it may start once documented.
StartContract(c) ==
  /\ status[c] = "PENDING"
  /\ c \in generated
  /\ status' = [status EXCEPT ![c] = "ACTIVE"]
  /\ UNCHANGED <<published, cache, generated, template, request>>

CancelContract(c) ==
  /\ status[c] = "PENDING"
  /\ status' = [status EXCEPT ![c] = "CANCELLED"]
  /\ UNCHANGED <<published, cache, generated, template, request>>

-----------------------------------------------------------------------------
(***************************************************************************)
(* The steps of a request: "template" is to find its template, "fetched"   *)
(* has it from the database and is to cache it, "rendering" has it.        *)
(***************************************************************************)
Begin(r, p, k, c, version) ==
  /\ request[r] = Idle
  /\ request' = [request EXCEPT ![r] =
       [step |-> "template", process |-> p, kind |-> k, contract |-> c,
        pinned |-> version, version |-> Null, waited |-> 0]]
  /\ UNCHANGED <<published, cache, contracts>>

generateContract(r, p, c) ==
  /\ status[c] = "PENDING"
  /\ Begin(r, p, "CONTRACT", c, template[c])

\* The reports, the quotes and the reading of the active template write nothing.
Consult(r, p, k) == Begin(r, p, k, Null, Null)

\* The request has its template; it goes on to render if the template may be used.
Take(r, version) ==
  /\ checked(request[r].kind, version)
  /\ request' = [request EXCEPT ![r].step = "rendering", ![r].version = version,
                                ![r].waited = 0]

Refuse(r) == request' = [request EXCEPT ![r] = Idle]

\* contractById, of a contract that keeps a version; rows are never deleted.
rowByIdSlip(r) == newest("CONTRACT")
rowById(r) == request[r].pinned

FindPinned(r) ==
  /\ request[r].step = "template"
  /\ request[r].pinned # Null
  /\ Take(r, rowById(r))
  /\ UNCHANGED <<published, cache, contracts>>

\* activeRow: what the process cached, if it has not expired.
held(r) == cache[request[r].process][request[r].kind]

afterHitSlip(r) ==
  cache' = [cache EXCEPT ![request[r].process][request[r].kind].age = 0]
afterHit(r) == UNCHANGED cache

FindCached(r) ==
  /\ request[r].step = "template"
  /\ request[r].pinned = Null
  /\ held(r) # NoEntry
  /\ Take(r, held(r).version)
  /\ afterHit(r)
  /\ UNCHANGED <<published, contracts>>

\* The database answers with the newest; the handler has yet to hear of it.
Fetch(r) ==
  /\ request[r].step = "template"
  /\ request[r].pinned = Null
  /\ held(r) = NoEntry
  /\ newest(request[r].kind) > 0
  /\ request' = [request EXCEPT ![r].step = "fetched",
                                ![r].version = newest(request[r].kind)]
  /\ UNCHANGED <<published, cache, contracts>>

\* The row is cached, whether or not it may be used and whatever was there.
Store(r) ==
  /\ request[r].step = "fetched"
  /\ cache' = [cache EXCEPT ![request[r].process][request[r].kind] =
                 [version |-> request[r].version, age |-> 0]]
  /\ \/ Take(r, request[r].version)
     \/ ~checked(request[r].kind, request[r].version) /\ Refuse(r)
  /\ UNCHANGED <<published, contracts>>

\* The contract is written by its id alone, whatever became of it.
WriteContract(r) ==
  /\ request[r].step = "rendering"
  /\ request[r].contract # Null
  /\ generated' = generated \cup {request[r].contract}
  /\ template' = [template EXCEPT ![request[r].contract] = request[r].version]
  /\ Refuse(r)
  /\ UNCHANGED <<published, cache, status>>

\* The request is refused, fails, or has nothing to write and is answered.
End(r) ==
  /\ request[r] # Idle
  /\ Refuse(r)
  /\ UNCHANGED <<published, cache, contracts>>

\* A process dies with what it cached and its requests, and another takes its place.
Restart(p) ==
  /\ cache' = [cache EXCEPT ![p] = [k \in Kinds |-> NoEntry]]
  /\ request' = [r \in Requests |->
                   IF request[r] # Idle /\ request[r].process = p THEN Idle ELSE request[r]]
  /\ UNCHANGED <<published, contracts>>

Next ==
  \/ Tick
  \/ \E k \in Kinds : \E content \in Contents[k] : Publish(k, content)
  \/ \E c \in Contracts : StartContract(c) \/ CancelContract(c)
  \/ \E r \in Requests :
       \/ \E p \in Processes :
            \/ \E c \in Contracts : generateContract(r, p, c)
            \/ \E k \in Kinds : Consult(r, p, k)
       \/ FindPinned(r) \/ FindCached(r) \/ Fetch(r) \/ Store(r)
       \/ WriteContract(r) \/ End(r)
  \/ \E p \in Processes : Restart(p)

Spec == Init /\ [][Next]_vars

\* The clock goes on, and what the database answered reaches the handler.
FairSpec == Spec /\ WF_vars(Tick) /\ \A r \in Requests : WF_vars(Store(r))

-----------------------------------------------------------------------------
Request ==
  [step : {"template", "fetched", "rendering"}, process : Processes, kind : Kinds,
   contract : Contracts \cup {Null}, pinned : Versions \cup {Null},
   version : Versions \cup {Null}, waited : 0..Latency]

Row == [content : UNION {Contents[k] : k \in Kinds}, late : 0..Ancient]

Entry == [version : Versions, age : 0..CacheAge - 1]

\* Caches, contracts and requests name versions that were published.
DocumentsTypeOK ==
  /\ published \in [Kinds -> Seq(Row)]
  /\ \A k \in Kinds : newest(k) <= MaxVersions[k]
  /\ cache \in [Processes -> [Kinds -> Entry \cup {NoEntry}]]
  /\ \A p \in Processes, k \in Kinds :
       cache[p][k] # NoEntry => cache[p][k].version <= newest(k)
  /\ status \in [Contracts -> {"PENDING", "ACTIVE", "CANCELLED"}]
  /\ generated \subseteq Contracts
  /\ template \in [Contracts -> Versions \cup {Null}]
  /\ request \in [Requests -> Request \cup {Idle}]

\* What a contract's document was made with states every rule that the contract is
\* billed by, and prints no text that is missing: no path to a template goes round
\* the check, not even that of a version published broken and fetched, cached or
\* kept before (document_template_invalid).
DocumentsAreWhole ==
  \A c \in Contracts :
    template[c] # Null =>
      /\ template[c] \in DOMAIN published["CONTRACT"]
      /\ LET content == published["CONTRACT"][template[c]].content
         IN  /\ content.issuer
             /\ \A rule \in REQUIRED_BILLING_RULES :
                  \E block \in content.blocks : block.billingRule = rule
             /\ \A block \in content.blocks : block.complete

\* Whoever asks for the active template gets one that was the newest less than
\* CacheAge ago, give or take a slow query, although a slow answer may put back in
\* the cache an older version than the one it held (CACHE_MS).
Lateness(k, version) == published[k][version].late

ServedIsRecentStep ==
  \A r \in Requests :
    /\ request[r] # Idle /\ request[r].step # "rendering" /\ request[r].pinned = Null
    /\ request'[r] # Idle /\ request'[r].step = "rendering"
    => Lateness(request'[r].kind, request'[r].version) < CacheAge + Latency
ServedIsRecent == [][ServedIsRecentStep]_vars

\* Once a contract keeps a version, and no request that found it with another or with
\* none is in flight, it keeps it for good, whatever is published, cached or forgotten
\* since (schema.prisma:211-214).
Settled(c, version) ==
  /\ template[c] = version
  /\ \A r \in Requests :
       request[r] # Idle /\ request[r].contract = c => request[r].pinned = version

VersionKeptStep ==
  \A c \in Contracts, v \in Versions : Settled(c, v) => Settled(c, v)'
VersionKept == [][VersionKeptStep]_vars

\* A contract keeps the version it was generated with (schema.prisma:211-214), also
\* when two requests generate its first document.
ContractKeepsItsVersionStep ==
  \A c \in Contracts : template[c] # Null => template'[c] = template[c]
ContractKeepsItsVersion == [][ContractKeepsItsVersionStep]_vars

\* After the last publication every process comes to hold the newest version, or
\* none, for good: an answer that was late in coming does not keep an old one alive.
CachesAgree ==
  \A p \in Processes, k \in Kinds : cache[p][k] # NoEntry => cache[p][k].version = newest(k)
NewestTakesOver == <>[]CachesAgree
=============================================================================
