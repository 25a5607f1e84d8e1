# KRLoc in TLA+

KRLoc is the API of a company that rents equipment: it registers units of equipment and
accessories, makes contracts over them, follows the units from reservation to return, and bills
what was used. It is one NestJS service over PostgreSQL (through Prisma). This directory holds
TLA+ models of its core, the TLC runs that check them on small instances, and TLAPS proofs of
what holds for instances of any size.

Paths below are relative to the repository; line numbers are in `PROJECT.json`.

## 1. The system

### Components

| Component | State | Operations that change it |
|---|---|---|
| contracts (`routes/elease`) | `ELease` (status, dates, document mark), `LeaseItem` (one line per contract and unit: how it entered, how and when it left, whose line it replaces, a snapshot of the prices), `Equipment.status` and `eleaseId` | create, start, cancel, add units, remove units, set the status of units on site, replace broken or stolen units, close |
| equipment registry (`routes/equipment`) | `Equipment` (status, type code, prices) | create, CSV import, edit, delete (retire), reactivate |
| contract documents (`routes/document`) | `ELease.contract_generated`, `documentTemplateId` | generate the contract; the other documents only read |
| document templates | `DocumentTemplate`, versions that are never changed; in each process, the newest of each kind for 60 s | published by migrations; read, checked and cached by the service |
| billing (`routes/finantial`) | none of its own; reads the contract, its lines and `EquipmentPrice` | statement, closing of a month, simulation: pure calculations |
| price history | `EquipmentPrice` | a trigger on `Equipment` appends a row at each change of price |
| audit log | `AuditLog`, with the statement frozen at closing and the amount at start | appended by the contract handlers |
| accessories (`routes/accessory`) | `Accessory.quantity`, `EquipmentAccessory` | create, import, associate, update, delete |
| clients, lessees | registers | create, edit, delete |
| authentication, limits, filters | outside the repository, or stateless | - |

### How they interact

All components share one database; there are no queues and no background jobs. The contract
handlers write three tables (`ELease`, `Equipment`, `LeaseItem`) in several statements of one
transaction. The registry writes `Equipment` too, and must stay away from units a contract has.
The document service writes a mark the start of a contract asks for, and the version of the
template the contract's document was made with. Billing is called by the
start (to log the amount signed) and by the closing of a contract (to freeze its statement), and
reads lines and prices that contracts and registry keep changing.

### What is hard

* **Interleaving.** Node serves many requests at once, and PostgreSQL runs at READ COMMITTED.
  A handler reads and refuses first, then writes. Some writes re-check what was read (a status in
  the `where` of a single-row update, a row count, a unique index) and some do not.
* **Three tables, one fact.** That a unit is out with a contract is in its status, in its link
  and in an open line; each handler updates all three, each with a `where` of its own.
* **Chains of substitutes.** A replaced line points back at its original; a line replaced twice,
  or a cycle, would be billed twice or never.
* **Time.** Contracts may be dated in the past or the future. A statement may be asked as of an
  earlier instant, after lines and prices have changed.
* **Caches and slow queries.** Each process trusts the template it cached; an answer that was slow
  in coming may be older than what another request cached meanwhile, and processes restart.
* **Numbers.** The cheapest set of packages, whose longer packages may cost less than shorter
  ones; days at the boundary of a period.

### What makes each component correct

* contracts and registry: the three tables agree; a unit is in one contract at most; a contract
  that ended holds nothing; no contract gets stuck; status moves only forward; settled lines are
  history; substitutes form chains; units out of the yard change only through their contract.
* documents: no contract starts without one; none is made with a template that lacks a clause the
  contract is billed by; a contract keeps the version of its document; nobody is served a template
  long after it was replaced, and the newest takes over in the end.
* billing: the report of a past month keeps its bill and its lists of units; the frozen statement is the one that would be computed;
  what was signed is what is billed as contracted; each day and each line is billed once; the
  cover is the cheapest and its packages add up to its price; each completed contract is in the
  closing of a month; a statement in progress bills as if the units came back then; what was
  simulated is what is billed.
* accessories: what was bought and not discarded is on the shelf or on a unit, once; no step takes
  the stock below zero by more than the races of deletions explain (registered below zero it may be:
  neither the body nor the CSV import is refused such a number).

## 2. The modules

| Module | What it models |
|---|---|
| `Rental` | contracts, units and lines, with every handler that writes them, one request at a time |
| `RentalServer` | the same handlers with other requests between their reads and their writes |
| `Custody` | the abstract specification: who holds which unit, with no tables |
| `RentalProofs` | theorems about `RentalServer`: types, chains, documents, history |
| `CustodyProofs` | theorems about `Rental`, and `RentalServer` on some routes: custody and the refinement of `Custody` |
| `Packages` | price tables and the cheapest cover, as operators |
| `CheapestCover` | the two loops of `cheapestCover`, step by step |
| `SumTheorems` | lemmas on least elements and on the sums of the community modules |
| `PackagesProofs`, `CheapestCoverProofs` | theorems about both |
| `Billing` | one contract over time: its lines, the prices, its statement, its month's closing, and the simulation of a contract |
| `BillingProofs` | theorems about `Billing` |
| `Accessories` | the stock of accessories and their association to units |
| `AccessoriesProofs` | theorems about `Accessories` |
| `Documents` | templates, their cache in each process, and the requests that make documents from them |
| `DocumentsProofs` | theorems about `Documents` |
| `MCRental`, `MCRentalServer`, `MCCheapestCover`, `MCBilling`, `MCAccessories`, `MCDocuments` | instances for TLC |

### Rental and RentalServer

Each handler is two operators. `XChecks` is what it reads and refuses on; `XWrites` is its
transaction, with the guards that the transaction itself re-checks and rolls back on. A
multi-row `updateMany` is `UpdateMany` over the rows its `where` matches *when it runs*, so the
writes that ignore the count they get are modelled as ignoring it. `Rental` takes both halves in
one step. `RentalServer` takes them in two, `XRead` and `XCommit`, and the slot of the request
keeps between them what the handler keeps in its variables, such as the ids of the broken units
that `replaceEquipment` reads outside its transaction. A request in flight may also be rolled
back at any point, which covers refusals in the transaction, its timeout and a crash: nothing of
the system's state lives outside the database.

The reads of a handler are one step and so are its writes. The writes become visible together at
commit. The row locks they take make transactions over the same rows follow one another, and
PostgreSQL re-evaluates a `where` on a row that changed while it waited, which is what the guards
of `XWrites` do. `startContract`, `cancelContract` and `closeContract` read inside their
transactions; at READ COMMITTED that does not keep their reads valid until the commit.

`setUpdateStatusEquipment` runs one transaction per status in parallel; each is a request here.
Names, dates, prices, the audit log and accessories are left out, since no modelled guard reads
them; the one exception, that a substitute must carry as many accessories as its original, is
taken as met. A CSV import is a series of `CreateEquipment` steps.

`phase` and `holder` map the tables to `Custody`: the contract's phase, and for a unit that is
reserved, rented or a substitute, the contract it is linked to.

### Packages and CheapestCover

Prices are whole cents. `bestOf` chooses the candidate that no other betters, the longest package
among equals, which is what the code's loop from the longest package to the shortest keeps.
`Packages!cheapestCover` is the cost that the first loop ends with, as a recursion on the days, for
`Billing`; `CheapestCover` runs both loops, so that its invariants can speak of each day.
`LoopsReturnCover` proves that they agree.

### Billing

Time is a count of instants, `DayLength` to a business day and `MonthDays` days to a month; the
time zone only decides where a business day starts. Every write has an instant of its own. The
handlers write what a statement reads: dates, lines, snapshots of prices. Their other guards are
those of `Rental`, whose invariant `OpenLineHoldsUnit` says that a unit is out with a contract
exactly while its line is open; here the guard on the unit is that on its line, and the start
does not ask for a document. `ChangePrices` is the trigger of the price history, which takes
changes from any path, so it is not limited to units that the registry may edit.
`closing`, `compute` and the operators they use are functions of the database (`db`) and of an
instant, as in the code. Grouping equal renewals in one line and the conversion to reais are
layout and are left out. The report of a month lists the units broken and stolen in it;
`replacedOf` is the mark on the broken ones, which the code takes from all the lines of today.

`simulate` takes a story (dates, and for each unit when and how it comes back and whether it is
replaced) and rebuilds by hand the lines that the handlers would have written. The code names the
substitute it invents by its original's id and a suffix, which is no unit's id: that is
`SimulationAssumption`. `endOf` is the
instant to which an extract charges what is still on site.

### Accessories

Requests are in two steps, as in `RentalServer`; creation is in one, since nobody knows the id
before. An association re-checks in its transaction that each accessory is in stock, and the
key of the table refuses a pair twice; an edit and a deletion write by id what they decided on a
stock they read. Quantities are any whole numbers, since nothing in the code asks for a positive
one; what the column cannot hold fails and writes nothing. `owned` is not a column: it is what the company would count, bought less
discarded, where an edit buys the difference to the quantity *it found*. `StockConserved` compares
it with the columns. `EditsStock` says whether edits carry a quantity. No route takes an
accessory off a unit, so no action does. The lists of accessories that contracts keep are left
out; the foreign key they have on the accessory refuses nothing that the one of the association
does not, since only associated accessories are listed.

### Documents

A request for a document is a series of steps, since it waits for the database between them: it
reads the contract, finds a template (the version the contract keeps, the one its process holds,
or the newest in the database), renders and, for a contract, writes. Between `Fetch`, when the
database answers, and `Store`, when the handler hears of it and caches the row, up to `Latency`
ticks pass and others run. `aged` lets go of an entry after `CacheAge` ticks, counted from when it was stored. A
template's content is what `checked` reads of it: which texts are there and which rules its clauses
state. `Publish` is a migration; it may publish a template that is not whole. `Restart` is the
death of a process, with its cache and requests. A published version carries `late`, the ticks
since it ceased to be the newest, which no code keeps: the property on the cache's age is stated
with it.

### Slips

`XSlip`, before `X`, is `X` with a mistake in it that the code could have: a dropped guard, an
off-by-one, a missing reset. Each property is violated when some slip takes the place of its
original, which shows that the property and its run can tell the code from a broken one.

## 3. The runs

| Run | Question | Bounds | Result |
|---|---|---|---|
| `rental_serial` | Do the tables agree, does no contract get stuck, and is `Custody` implemented, one request at a time? | 2 contracts, 2 units, 2 types; removals of own units | holds |
| `server_all_routes` | What survives any interleaving of the whole API? | 1 contract, 2 units, 2 requests in flight | holds |
| `server_guarded_routes` | Do the routes whose writes re-check everything keep custody? | 2 contracts, 2 units, 2 requests | holds |
| `rental_foreign_removal` | Do reserved units change only through their contract? | 2 contracts, 2 units, serial | violated |
| `server_close_race` | Is nothing on site when a contract is completed? | 1 contract, 2 units, 2 requests | violated |
| `server_add_race` | Is a unit in one contract at most? | 2 contracts, 1 unit, 2 requests | violated |
| `cheapest_cover` | Is the cover cheapest, and do its packages add up? | 108 tables, up to 38 days, the real packages | holds |
| `billing_life` | Do bills and reports stand, bill everything once, close in one month, and come out as extracted and simulated before? | 2 units, 9 instants (5 days, months of a day), 2 price tables | holds |
| `accessory_stock` | Do associations, discards and deletions in flight conserve the stock? | 2 accessories, 2 units, 2 requests, quantities -1 to 2, edits of names | holds |
| `accessory_edits` | And with edits of the quantity? | the same, quantity 1 | violated |
| `document_versions` | Are documents made with whole and recent templates, and do settled contracts and caches keep to their version? | 1 contract, 1 process, 2 requests, 2 versions of the contract's template and 1 of the report's, `CacheAge` 2, `Latency` 1 | holds |
| `document_regeneration` | Does a contract keep the version it was generated with? | the same, 2 processes | violated |

The bounds are enough for the cases that matter to happen. Two requests over one accessory give
every race of two handlers; a quantity of two lets both units carry one, and zero and less are the
rows that are deleted at once. Two contracts and two units give
every conflict over a unit while another is idle; two requests give every pair of handlers in every order of their
halves (`server_guarded_routes` was also run with three slots, 489 000 states). Longer chains of
substitutes, and more of anything, are the theorems' part. 38 days pass the
longest package (30) by the weekly one, so every combination of packages wins somewhere, and the tables
hold the ties and the inverted prices (a month cheaper than a week). Nine instants are a contract
with a defect, a substitute, two changes of price and a closing, on any side of four month ends,
with up to three renewals; a shorter month only makes more reports of the past to compare.
Two versions of a template and an
expiry of two ticks against an answer of one are enough for an entry to expire, to be replaced and
to be put back by a slow answer; the processes share nothing but the database, so one shows what
a cache does (two processes, or a third version, do not finish in the time a run has). `document_regeneration` has two processes; with
one, a cache that expires in between gives the same violation.
`MaxVersions`, `Horizon`, `MaxPrices` and `MaxDays` are bounds on the publications, on the clock, on the price tables of a unit and
on a period; the code has no such limits, other than 36 600 days on a bill.

`CHECK_DEADLOCK FALSE` is in every configuration but those of the accessories and the documents: contracts and units are finite sets that get used up
(everything ended and retired, the clock at its horizon, a function returned).

What the violations show:

* **`rental_foreign_removal`** - `removeEquipmentsToELease` asks that the units it is given be
  reserved, not that they be reserved by that contract: a removal on contract B of a unit reserved
  by A makes it AVAILABLE, still linked to A and on A's open line. All other runs of custody let
  removals name own units only (`ForeignRemovals = FALSE`).
* **`server_close_race`** - a replacement commits between `closeContract`'s reading of the open
  lines and its update, which asks only for the status ACTIVE. The contract completes with a
  substitute on site that no route can bring back.
* **`server_add_race`** - `addEquipmentsToELease` connects the units by id and does not read the
  count of its guarded update: a unit that another contract reserved in between gets a second
  open line.
* **`accessory_edits`** - an edit reads one accessory on the shelf; an association takes it; the edit
  writes back the one it saw, and the accessory is counted on the shelf and on the unit. With
  more quantities two edits lose a purchase in the same way.
* **`document_regeneration`** - two requests find a contract with no document; one picks the
  version its process holds, the other one just published; the write is by id alone, so the second
  replaces the version the first kept, even if the contract has started since. `VersionKept`, which
  holds, is what remains: once no such request is in flight, the version stays.

Three limits of what holds. `ReportsStand` leaves out the marks of which broken units were replaced: the
code takes them from the lines of today (`billing.service.ts:262-264`), with no cut at the end of the month
such as the bill has, so a unit that breaks in one month and is replaced in the next is not replaced
in the report of the first month when that month ends, and is replaced in the same report asked again.
`ClosedInOneMonth` leaves out a contract completed before its own start date (dated in a later month,
started and completed in this one): it is in the closing of no month, since one filter asks for its
start and the other for its end. And `ServedIsRecent` allows
`Latency` beyond `CacheAge`, because a slow answer may put an older version over a newer one in
the cache, with a fresh age.

More on custody under concurrency: `create`, `start`, `cancel`, status, `close` and document keep
it whatever the interleaving. Add to them any one of add, remove, replace, edit or delete, and
TLC finds it broken: those five write by id what they checked before. The first three
violations above keep the counterexamples a reader most needs; the other races are listed as hazards
with no property, since no run checks custody with those routes in flight together.

### Fairness

`CheapestCover` assumes weak fairness of its next step, since the function is synchronous code
that nothing interrupts. `Documents` assumes that the clock goes on and that what the database
answered reaches the handler that waits for it (`Tick` and `Store` of each slot): a process that
dies takes its cache along, so nothing else is needed for the newest template to take over. It
is not assumed that anyone asks for a document or that anything is published. The service promises
no request that it will be served, and none of the properties of the contracts is a liveness
property; that no contract is stuck is stated as an invariant, `ContractCanEnd`.

## 4. The proofs

`RentalProofs` proves, for any sets of contracts, units, codes and slots, any routes in use and removals
of any units, from the assumptions on the constants (`Null` is not an id, a code or a status;
`ForeignRemovals` is a Boolean; `Routes` are routes):

| Theorem | States |
|---|---|
| `ServerTyping` | `[]ServerTypeOK` |
| `SubstitutesAlwaysChain` | `[]SubstitutesChain` |
| `StartedAlwaysDocumented` | `[]StartedIsDocumented` |
| `SnapshotsAlwaysTrue` | `[]SnapshotsStayTrue` |
| `ServerLifecycle` | `Lifecycle` |
| `ServerSettledLinesFrozen` | `SettledLinesFrozen` |

The inductive invariant is `ServerInv`: the types, `RecordsInv` (`PendingLinesAreOpen`,
`SubstitutesChain`, `StartedIsDocumented`) and `SnapshotsStayTrue`. None of the parts is
inductive alone. That chains have no cycle rests on substitutes being lines that were not there
(a first line of their unit) and on replaced lines being settled. A replaced line stays settled only if
removals, which delete lines, and cancellations, which settle them again, meet nothing but open
lines: `PendingLinesAreOpen`. And `replaceEquipment` checks that the old line is settled before
its transaction and not in it, as `startContract` does with the document: `SnapshotsStayTrue` carries
both from the read to the commit.

The proof is in layers: what each `XWrites` does to the types, the chains, the documents and the
settled lines, one lemma per handler; that every step of the server is the writes of one handler
or leaves the tables alone (`ServerStepWrites`); that each read puts in its slot what is true then
(`ReadSnapshot`) and each write keeps it true (`SnapshotKept`). `Lifecycle` and
`SettledLinesFrozen` follow from the same invariant.

`AccessoriesProofs` proves, for any finite sets of units and slots, any accessories and any
whole quantities, negative ones too:

| Theorem | States |
|---|---|
| `AccessoriesTyping` | `[]AccessoriesTypeOK` |
| `StockHasFloor` | `StockFloor`: with n slots no step lowers a stock to less than 1 - n, or as much below the least negative number that edits carry |
| `StockAlwaysConserved` | `~EditsStock => []StockConserved` |

The floor is one of steps and not of states, since an accessory may be registered below it. To know
what a step does, one must know which deletions that found one are still in flight when the stock is
zero. `RoomToDiscard` says that while there are any, the stock is above the floor by as many as they
may yet take. They join only while the stock is positive, and an association or an edit that
commits frees a slot that holds none. `StockConserved` needs `FoundIsCeiling`: while nothing
raises the stock, a deletion that found none deletes a row that still has none.

`CustodyProofs` proves, for any contracts, units and codes, of `Rental`, where requests are served one at a
time, with removals of own units (`ForeignRemovals = FALSE`, but for `Typing`, which does not need it):

| Theorem | States |
|---|---|
| `Typing` | `[]TypeOK` |
| `OutAlwaysAccounted` | `[]OutIsAccounted` |
| `OpenLineAlwaysHoldsUnit` | `[]OpenLineHoldsUnit` |
| `EndedAlwaysHoldsNothing` | `[]EndedHoldsNothing` |
| `ContractCanAlwaysEnd` | `[]ContractCanEnd` |
| `ChangesThroughContract` | `OnlyThroughContract` |
| `RecordsImplementCustody` | `ImplementsCustody` |

and of `RentalServer`, for any number of requests in any interleaving on the guarded routes
(`Routes \subseteq GuardedRoutes`, the set of `server_guarded_routes`):

| Theorem | States |
|---|---|
| `GuardedCustody` | `[](OutIsAccounted /\ OpenLineHoldsUnit /\ ContractCanEnd)` |
| `GuardedImplementsCustody` | `ImplementsCustody` |

The two custody invariants say that status, link and open line agree, one from the unit and one
from the line. They are not inductive: a cancellation unlinks the units that are PENDING, so it
needs that a pending contract is linked to no others (`PendingHoldsReserved`); a new contract must
not find units linked to its id (`IdleHoldsNothing`); and a start moves the lines that entered as
PENDING, which `PendingLinesAreOpen` says are the open ones. `CustodyPre` is the conjunction. There
is one lemma per handler, which shows the invariant, `OnlyThroughContractStep` and the step of
`Custody` it stands for (create is `Book`, start `Run`, cancel `Drop`, add and replace `Take`, remove and
return `Leave`, close `End`, and the registry's steps stutter). On the guarded routes the writes
re-check all that those lemmas use except that a closing contract has nothing out;
`ClosingHasNothingOut` carries it from the read to the commit, since only add and replace, which
are not among those routes, open a line in a contract that exists.

`DocumentsProofs` proves, for any templates, versions, contracts, processes and slots, any
`CacheAge` and `Latency`:

| Theorem | States |
|---|---|
| `DocumentsTyping` | `[]DocumentsTypeOK` |
| `DocumentsAlwaysWhole` | `[]DocumentsAreWhole` |
| `ServedAlwaysRecent` | `ServedIsRecent` |
| `VersionAlwaysKept` | `VersionKept` |

The inductive invariant, `DocumentsInv`, adds to the types `AllFit`: the newest version of a kind is
not late; what a process holds ceased to be the newest no longer ago than the age of the entry and
one `Latency` (`EntryFits`); what a request fetched, no longer ago than it has waited; what it
renders was checked (`RequestFits`); and so was what a contract keeps (`TemplateFits`). A tick adds
one to each side.

`CheapestCoverProofs` proves, for any lengths of the four packages (all different, the daily one of a day),
any price tables as the registry has them and periods of any length:

| Theorem | States |
|---|---|
| `CoverTyping` | `[]CoverTypeOK` |
| `CoverAlwaysCheapest` | `[]CoverIsCheapest` |
| `NoBasketIsBetter` | the same of every basket of packages on offer that covers the period, not only of those the run tries |
| `PackagesAlwaysAddUp` | `[]PackagesAddUp` |
| `LongerIsNeverCheaper` | `[]LongerNeverCheaper` |
| `LoopsReturnCover` | when both loops are done, `best[days] = cheapestCover(prices, days)` |

The inductive invariant, `CoverInv`, says that what is done of the first loop is what the loop gives
for that many days (`Loop`), and of the second, that what is counted and the cover of the days left
make the cover of the period (`Remaining`). That `bestOf` has a candidate to choose is not obvious,
since it chooses the one ahead of all others: `AheadIsAnOrder` and `FirstOfBoth` show that the order of the
code is total on packages of different lengths. `LoopFindsCheapest` takes a package off a basket: what is left
covers the day before the package, whose cover is no worse. `LoopNeverCheaper` takes the choice of a day
to the day before it. Both go by the least day that fails, and so does everything that
needs induction on data here: `Least` and `SmallestSubset` of `SumTheorems`, proved from the
well-foundedness of the naturals, take the place of the induction theorems with an operator for
parameter, which the provers cannot use. The other lemmas of `SumTheorems` say what a sum
over a finite set is: zero of nothing, any term plus the rest, the same under other names.

`BillingProofs` proves, for any finite set of units, price tables, periods, lengths of the day and the
month, any bound on the clock and on the changes of price, and chains of substitutes of any length:

| Theorem | States |
|---|---|
| `RecordsHold` | `[]RecordsInv`, below |
| `BillingTyping` | `[]BillingTypeOK` |
| `FrozenStands` | `[]FrozenIsRecomputed` |
| `SignedPricesStand` | `[]SignedPriceStands` |
| `DaysAreBilledOnce` | `[]DaysAddUp` |
| `LinesAreBilledOnce` | `[]EveryLineBilledOnce` |
| `ClosesOnce` | `[]ClosedInOneMonth` |
| `ExtractsAreAsIfReturned` | `[]ExtractIsAsIfReturned` |
| `SimulationsAreAsBilled` | `[]SimulatedAsBilled` |
| `ReportsAreForGood` | `ReportsStand`, which leaves the marks of replaced units out of what stands |
| `QuotesStand` | `QuoteStands` |

All rest on `RecordsInv`: the types (`TypeInv`); dates in order, a contract that ended doing so in the
past (`DatesInv`); and of the lines (`LinesInv`) that no two replace the same, that a line has a finish date
exactly if it has a final status, that a substitute starts after its original was settled as broken or
stolen, and that a completed contract has none open or settled later. It is inductive: each handler has a
lemma.

* *Prices of the past* (`PastPricesStand`): a price comes in force at `now`, so it moves none asked
  for an earlier instant. `SameCharge` says what a charge reads: two sets of lines and two histories that are
  `AlikeFor` a position charge it alike. Its renewals are the point, since each starts at an instant that
  the proof must show is no later than the bill. `FrozenStands` and `ReportsAreForGood` follow.
* *Reports* (`AsItWasStands`): what a step writes is of its own instant, so `asItWas` of an earlier one
  undoes it: a unit settled later is again on site, a substitute that came later is gone. The marks of the
  replaced are not cut so: they are left out of what stands, and `ReplacedStays` says that they only grow.
* *What was signed* (`agreed`): the sum, over the lines that replace none, of the cover of the planned
  days at their own prices. `ContractedInv` says that it is what was logged; a running contract keeps those
  lines and their prices (`RootsStay`), and positions may be counted by their first unit
  (`ContractedIsAgreed`, by `SumRenamed`).
* *Chains*: `chainFrom` takes as many steps as there are units, and a chain has no unit twice
  (`ChainIsInjective`: it starts at a line that replaces none), so by the pigeonhole principle it ends
  (`ChainEnds`). Two positions that share a unit share their first (`PositionsAreDisjoint`), and the line
  that was settled first of those in no position would replace one that was settled before it
  (`PositionsCover`).
* *Days*: `DaysAddUp` is division with rest, and a month's end is a multiple of its length, so an
  instant is in one month (`ClosesOnce`).
* *Simulations*: in a story that can be told, a chain is a unit or a unit and its substitute
  (`ToldChains`); `SimulatedLines` finds the lines that `simulate` rebuilds, `SimulatedPositions` their chains, and
  `FlatCharge` shows that with one price for all units a charge depends only on the stay, the price signed and the
  thefts. `PricesInv` says that a unit with one price table was signed at that one.

The assumptions on constants are those of the modules: packages of different lengths,
`Null` no number and no value of the columns, finite units, days and months of at least one instant or day,
periods that do not end before they start, and `SimulationAssumption`.

Model-checked only: the races of routes that are not guarded (where custody does not hold), and the
liveness of `Finishes` and `NewestTakesOver`, which is out of the prover's reach. Every invariant and
action property of the passing runs is a theorem.

## 5. Not modelled

The wording and PDF layout of documents, queries, file validation and the address service (no
state), authentication (a library outside the repository). Clients and lessees are registers whose
writes are each of one row: deletions of parties in use are refused by foreign keys in a race; an edit that repeats the
postal code it read, while another edit changes the address, puts the old code on the new address, and
is listed as a hazard. The contracts' lists of accessories are written and never read but to be
listed, and no text says what they promise. The data types of prices (floating-point reais before
`toCents`) and the time zone's changes of offset are left out.

## 6. Plan

Done: `Rental`, `Custody`, `RentalServer`, `Packages`, `CheapestCover`, `Billing` for one contract (with
extracts and simulations), `Accessories` and `Documents`, each with its proofs.

Next, in this order:

1. Simulations of stories with changes of price, or in which a unit comes back before the contract starts,
   which `Tellable` leaves out: what `SimulatedAsBilled` becomes there.
2. Clients and lessees, with the address service as an external call between the read and the write.
3. The contracts' lists of accessories: what a replacement carries and an addition leaves out.
