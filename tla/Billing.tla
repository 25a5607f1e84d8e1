------------------------------- MODULE Billing ------------------------------
(***************************************************************************)
(* What a contract bills: the positions of its statement and what each     *)
(* charges (statement.ts, rules.ts, calendar.ts), the price in force at an *)
(* instant, the statement frozen at closing and the closing of a month     *)
(* (billing.service.ts), over the life of one contract.                    *)
(*                                                                         *)
(* Time is a count of instants, DayLength to a business day and MonthDays  *)
(* days to a month.  Every write is stamped with its own instant, now, and *)
(* a statement of now is one asked after the writes before it.  A contract *)
(* may start in the past or in the future: nothing compares its dates with *)
(* the clock.                                                              *)
(*                                                                         *)
(* The handlers of elease.service.ts are here what they write that a       *)
(* statement reads: the contract's dates and its lines.  The status of the *)
(* units is left to Rental, where a unit is out exactly while its line is  *)
(* open, and so is the document a start wants.                             *)
(*                                                                         *)
(* XSlip is X with a mistake in it that the code could have.               *)
(***************************************************************************)
EXTENDS Packages

CONSTANTS
  Equipments,   \* ids of units
  Tables,       \* price tables a unit may have
  Periods,      \* pairs of a start and an end that a contract may be made for
  DayLength,    \* instants in a business day
  MonthDays,    \* business days in a month
  Opening,      \* when the units were registered
  Horizon,      \* bound on the clock
  MaxPrices     \* bound on the price tables a unit has over time

Instants == 0..Horizon

ASSUME BillingAssumption ==
  /\ {DayLength, MonthDays, MaxPrices} \subseteq Nat \ {0}
  /\ Horizon \in Nat /\ Opening \in Instants
  /\ Tables \subseteq PriceTable
  /\ Periods \subseteq {p \in Instants \X Instants : p[1] <= p[2]}
  /\ IsFiniteSet(Equipments) /\ Null \notin Equipments
  /\ Null \notin {"PENDING", "ACTIVE", "COMPLETED", "CANCELLED", "AVAILABLE", "STOLEN", "MAINTENANCE"}

VARIABLES
  now,        \* the clock
  contract,   \* the contract: status (Null before it is made) and dates
  items,      \* items[e]: the contract's line for unit e
  history,    \* history[e]: the price tables of e, with when each came in force
  contracted, \* the amount logged when the contract started
  frozen      \* the statement kept when the contract was completed

vars == <<now, contract, items, history, contracted, frozen>>

NoItem == [startDate |-> Null, finishDate |-> Null, finalStatus |-> Null,
           replaces |-> Null, prices |-> Null]

NewItem(e, start, old) ==
  [startDate |-> start, finishDate |-> Null, finalStatus |-> Null,
   replaces |-> old, prices |-> Last(history[e]).prices]

\* The lines there are in a contract's lines.
LinesIn(its) == {e \in DOMAIN its : its[e] # NoItem}

-----------------------------------------------------------------------------
(***************************************************************************)
(* calendar.ts                                                             *)
(***************************************************************************)
businessDay(instant) == instant \div DayLength

dayStart(day) == day * DayLength

calendarDays(start, end) == Max({1, businessDay(end) - businessDay(start)})

addDays(start, n) == dayStart(businessDay(start) + n)

monthRange(month) ==
  [from |-> dayStart(month * MonthDays), to |-> dayStart((month + 1) * MonthDays)]

(***************************************************************************)
(* The price of a unit at an instant: the last to come in force by then,   *)
(* or the first of all if the unit was registered later.                   *)
(***************************************************************************)
priceAtSlip(tables, at) == Last(tables).prices

priceAt(tables, at) ==
  LET known == {i \in DOMAIN tables : tables[i].from <= at}
  IN  tables[IF known = {} THEN 1 ELSE Max(known)].prices

\* cheapestCover(prices, d).amount, once for every table and period.
coverOf == [prices \in Tables |->
              [d \in 1..Horizon + 1 |-> cheapestCover(priceTable(prices), d).cost]]

-----------------------------------------------------------------------------
(***************************************************************************)
(* rules.ts: the charge of a position.  units is its chain of lines, its   *)
(* the lines as the statement knows them, hist the history of the prices.  *)
(***************************************************************************)

\* The last unit of the chain that had come by then, or the original one.
unitOnSite(its, units, at) ==
  LET came == {i \in DOMAIN units : its[units[i]].startDate <= at}
  IN  units[IF came = {} THEN 1 ELSE Max(came)]

\* A tenth of the monthly price, rounded to the cent, or the daily price.
excessDailyRate(prices) ==
  IF prices.monthly # Null THEN (prices.monthly + 5) \div 10 ELSE prices.daily

expired(days, planned) == days \div planned

\* The whole periods after the first, each at the price in force as it starts.
renewalsSlip(hist, its, units, days, planned) ==
  [i \in 1..expired(days, planned) |-> coverOf[its[units[1]].prices][planned]]
renewals(hist, its, units, days, planned) ==
  [i \in 1..expired(days, planned) - 1 |->
     LET from == addDays(its[units[1]].startDate, i * planned)
     IN  coverOf[priceAt(hist[unitOnSite(its, units, from)], from)][planned]]

signedBySlip(units) == Last(units)
signedBy(units) == Head(units)

\* A unit still on site is charged as if it came back at the instant of the bill.
endOfSlip(item, asOf) == IF item.finishDate = Null THEN asOf - DayLength ELSE item.finishDate
endOf(item, asOf) == IF item.finishDate = Null THEN asOf ELSE item.finishDate

chargePosition(hist, its, units, planned, asOf) ==
  LET last == Last(units)
      endDate == endOf(its[last], asOf)
      days == calendarDays(its[units[1]].startDate, endDate)
      prices == its[signedBy(units)].prices
      whole == coverOf[prices][planned]
      early == days < planned
      renewed == IF early THEN <<>> ELSE renewals(hist, its, units, days, planned)
      excess == IF early THEN 0 ELSE days - expired(days, planned) * planned
      first == IF early THEN coverOf[prices][days] ELSE whole
      indemnities == [e \in {u \in Range(units) : its[u].finalStatus = "STOLEN"} |->
                        priceAt(hist[e], asOf).indemnity]
      daily == excessDailyRate(priceAt(hist[last], endDate))
      rental == first + SumFunction(renewed) + excess * daily
  IN  [days |-> days, contracted |-> whole, periods |-> Len(renewed) + (IF early THEN 0 ELSE 1),
       excess |-> excess, rental |-> rental, indemnities |-> indemnities,
       total |-> rental + SumFunction(indemnities)]

quotePositionSlip(its, units, planned) ==
  LET whole == coverOf[Last(history[Head(units)]).prices][planned]
  IN  [days |-> planned, contracted |-> whole, periods |-> 1, excess |-> 0,
       rental |-> whole, indemnities |-> <<>>, total |-> whole]

quotePosition(its, units, planned) ==
  LET whole == coverOf[its[signedBy(units)].prices][planned]
  IN  [days |-> planned, contracted |-> whole, periods |-> 1, excess |-> 0,
       rental |-> whole, indemnities |-> <<>>, total |-> whole]

-----------------------------------------------------------------------------
(***************************************************************************)
(* statement.ts                                                            *)
(***************************************************************************)

\* The lines that replace none, each with its substitutes after it.
chainFrom(its, root) ==
  LET next(e) == {n \in DOMAIN its : its[n].replaces = e}
      walk[k \in 0..Cardinality(DOMAIN its)] ==
        IF k = 0 THEN <<root>>
        ELSE LET units == walk[k - 1] IN
             IF next(Last(units)) = {} THEN units
             ELSE Append(units, CHOOSE n \in next(Last(units)) : TRUE)
  IN  walk[Cardinality(DOMAIN its)]

positionsOfSlip(its) ==
  {chainFrom(its, root) : root \in {e \in LinesIn(its) : \A n \in DOMAIN its : its[n].replaces # e}}

positionsOf(its) ==
  {chainFrom(its, root) : root \in {e \in LinesIn(its) : its[e].replaces = Null}}

\* The lines as an earlier instant knew them.
asItWasSlip(its, asOf) ==
  [e \in DOMAIN its |-> IF its[e] # NoItem /\ its[e].startDate <= asOf THEN its[e] ELSE NoItem]

asItWas(its, asOf) ==
  [e \in DOMAIN its |->
     IF its[e] = NoItem \/ its[e].startDate > asOf THEN NoItem
     ELSE IF its[e].finishDate # Null /\ its[e].finishDate > asOf
          THEN [its[e] EXCEPT !.finishDate = Null, !.finalStatus = Null]
          ELSE its[e]]

\* A charge for each position, by the position's units.
buildStatement(c, its, hist, asOf) ==
  LET planned == calendarDays(c.startDate, c.endDate)
      positions == CASE c.status = "CANCELLED" -> {}
                     [] c.status = "ACTIVE"    -> positionsOf(asItWas(its, asOf))
                     [] OTHER                  -> positionsOf(its)
      lines == IF c.status = "ACTIVE" THEN asItWas(its, asOf) ELSE its
  IN  [units \in positions |->
         IF c.status = "PENDING" THEN quotePosition(its, units, planned)
         ELSE chargePosition(hist, lines, units, planned, asOf)]

\* What the financial routes read of the database.
db == [contract |-> contract, items |-> items, history |-> history, frozen |-> frozen]

\* billing.service.ts: a completed contract is billed as of its closing.
compute(d, c, asOf) ==
  buildStatement(c, d.items, d.history, IF c.status = "COMPLETED" THEN c.finishDate ELSE asOf)

totals(statement, column) == SumFunction([units \in DOMAIN statement |-> statement[units][column]])

-----------------------------------------------------------------------------
(***************************************************************************)
(* billing.service.ts: the closing of a month, taken at its end or, of the *)
(* current month, now.                                                     *)
(***************************************************************************)
started(c, month) == c.startDate < monthRange(month).to

closedInSlip(c, month) ==
  /\ c.status = "COMPLETED"
  /\ started(c, month)
  /\ c.finishDate >= monthRange(month).from

closedIn(c, month) ==
  /\ c.status = "COMPLETED"
  /\ started(c, month)
  /\ c.finishDate >= monthRange(month).from
  /\ c.finishDate < monthRange(month).to

activeIn(c, month) ==
  /\ started(c, month)
  /\ \/ c.status = "ACTIVE"
     \/ c.status = "COMPLETED" /\ c.finishDate >= monthRange(month).to

\* The instant the bills of the active contracts run to.
closingDate(at, month) ==
  IF monthRange(month).to > at THEN at ELSE monthRange(month).to - 1

onSite(its, month) ==
  {e \in LinesIn(its) :
     /\ its[e].startDate < monthRange(month).to
     /\ its[e].finishDate = Null \/ its[e].finishDate >= monthRange(month).to}

\* The units that ended in the month as s.
endedAs(its, s, month) ==
  {e \in LinesIn(its) :
     /\ its[e].finalStatus = s
     /\ its[e].finishDate >= monthRange(month).from
     /\ its[e].finishDate < monthRange(month).to}

\* Those of the units that a substitute came for: as the lines are today, whatever
\* the month.
replacedOf(its, es) == {e \in es : \E n \in LinesIn(its) : its[n].replaces = e}

\* What a bill charges for a theft.
indemnityIn(bill, e) ==
  LET charged == {units \in DOMAIN bill : e \in DOMAIN bill[units].indemnities}
  IN  IF charged = {} THEN 0 ELSE bill[CHOOSE units \in charged : TRUE].indemnities[e]

\* The part of a report on the units of a contract that is billed so.
reported(list, bill, site, its, month) ==
  LET broken == endedAs(its, "MAINTENANCE", month)
  IN  [list |-> list, bill |-> bill, onSite |-> site,
       broken |-> broken, replaced |-> replacedOf(its, broken),
       stolen |-> [e \in endedAs(its, "STOLEN", month) |-> indemnityIn(bill, e)]]

\* What the closing of a month, taken at the given instant, says of the contract.
closing(d, at, month) ==
  CASE closedIn(d.contract, month) -> reported("closed", d.frozen, {}, d.items, month)
    [] activeIn(d.contract, month) ->
         reported("active", compute(d, [d.contract EXCEPT !.status = "ACTIVE"], closingDate(at, month)),
                  onSite(d.items, month), d.items, month)
    [] OTHER -> [list |-> "none", replaced |-> {}]

(***************************************************************************)
(* billing.service.ts: the bill of a contract that is only told.  Of each  *)
(* unit it is said when it comes back and whether before that it breaks or *)
(* is stolen (event), with a substitute of the same prices from then on or *)
(* with none.                                                              *)
(***************************************************************************)
substituto(e) == <<e, "substituto">>

\* The events that end a unit's stay before the customer returns it.
Events == [kind : {"STOLEN", "MAINTENANCE"}, date : Instants, replaced : BOOLEAN]

ASSUME SimulationAssumption ==
  /\ \A e \in Equipments : substituto(e) \notin Equipments \cup {Null}
  /\ Null \notin Events

between(date, from, until) == Min({Max({date, from}), until})

\* When the original unit of an entry stops.
whenSlip(entry, start) ==
  IF entry.event # Null /\ entry.event.replaced
  THEN between(entry.event.date, start, entry.returnDate) ELSE entry.returnDate

when(entry, start) ==
  CASE entry.event = Null -> entry.returnDate
    [] entry.event # Null /\ entry.event.replaced ->
         between(entry.event.date, start, entry.returnDate)
    [] OTHER -> Max({entry.event.date, start})

simulatedItems(d, dto) ==
  LET told == DOMAIN dto.items
      line(e, start, finish, final, old) ==
        [startDate |-> start, finishDate |-> finish, finalStatus |-> final, replaces |-> old,
         prices |-> priceAt(d.history[e], dto.startDate)]
      original(e) ==
        line(e, dto.startDate, when(dto.items[e], dto.startDate),
             IF dto.items[e].event = Null THEN "AVAILABLE" ELSE dto.items[e].event.kind, Null)
      other(e) ==
        line(e, when(dto.items[e], dto.startDate), dto.items[e].returnDate, "AVAILABLE", e)
      replaced == {e \in told : dto.items[e].event # Null /\ dto.items[e].event.replaced}
  IN  [n \in told \cup {substituto(e) : e \in replaced} |->
         IF n \in told THEN original(n) ELSE other(n[1])]

simulate(d, dto) ==
  LET its == simulatedItems(d, dto)
      finish == Max({its[e].finishDate : e \in DOMAIN its})
      hist == [e \in DOMAIN its |-> d.history[IF e \in Equipments THEN e ELSE e[1]]]
  IN  buildStatement([status |-> "COMPLETED", startDate |-> dto.startDate,
                      endDate |-> dto.plannedEndDate, finishDate |-> finish],
                     its, hist, finish)

-----------------------------------------------------------------------------
(***************************************************************************)
(* elease.service.ts: what its handlers write that a statement reads.      *)
(***************************************************************************)
Init ==
  /\ now = Opening
  /\ contract = [status |-> Null, startDate |-> Null, endDate |-> Null, finishDate |-> Null]
  /\ items = [e \in Equipments |-> NoItem]
  /\ history \in [Equipments -> {<<[from |-> Opening, prices |-> p]>> : p \in Tables}]
  /\ contracted = Null
  /\ frozen = Null

\* A write, or the passing of time, up to the end of the clock.
Clock == now < Horizon /\ now' = now + 1

Wait == Clock /\ UNCHANGED <<contract, items, history, contracted, frozen>>

CreateELease(period, es) ==
  /\ Clock
  /\ contract.status = Null
  /\ contract' = [status |-> "PENDING", startDate |-> period[1], endDate |-> period[2],
                   finishDate |-> Null]
  /\ items' = [e \in Equipments |-> IF e \in es THEN NewItem(e, period[1], Null) ELSE NoItem]
  /\ UNCHANGED <<history, contracted, frozen>>

AddEquipments(es) ==
  /\ Clock
  /\ contract.status = "PENDING"
  /\ es \cap LinesIn(items) = {}
  /\ items' = [e \in Equipments |->
                 IF e \in es THEN NewItem(e, contract.startDate, Null) ELSE items[e]]
  /\ UNCHANGED <<contract, history, contracted, frozen>>

RemoveEquipments(es) ==
  /\ Clock
  /\ contract.status = "PENDING"
  /\ Cardinality(LinesIn(items)) # 1
  /\ es \subseteq LinesIn(items)
  /\ items' = [e \in Equipments |-> IF e \in es THEN NoItem ELSE items[e]]
  /\ UNCHANGED <<contract, history, contracted, frozen>>

\* The amount logged is computed while the contract is still pending.
StartContract ==
  /\ Clock
  /\ contract.status = "PENDING"
  /\ contracted' = totals(compute(db, contract, now), "contracted")
  /\ contract' = [contract EXCEPT !.status = "ACTIVE"]
  /\ UNCHANGED <<items, history, frozen>>

settledSlip(item, final) == [item EXCEPT !.finalStatus = final]
settled(item, final) == [item EXCEPT !.finalStatus = final, !.finishDate = now]

CancelContract ==
  /\ Clock
  /\ contract.status = "PENDING"
  /\ contract' = [contract EXCEPT !.status = "CANCELLED", !.finishDate = now]
  /\ items' = [e \in Equipments |->
                 IF e \in LinesIn(items) THEN settled(items[e], "AVAILABLE") ELSE items[e]]
  /\ UNCHANGED <<history, contracted, frozen>>

\* Units come back, as s, with the contract running.
UpdateEquipment(es, s) ==
  /\ Clock
  /\ contract.status = "ACTIVE"
  /\ \A e \in es : e \in LinesIn(items) /\ items[e].finalStatus = Null
  /\ items' = [e \in Equipments |-> IF e \in es THEN settled(items[e], s) ELSE items[e]]
  /\ UNCHANGED <<contract, history, contracted, frozen>>

\* oldOf: the unit that each substitute replaces; it came back broken or stolen.
ReplaceEquipment(oldOf) ==
  /\ Clock
  /\ contract.status = "ACTIVE"
  /\ \A n \in DOMAIN oldOf :
       /\ items[n] = NoItem
       /\ items[oldOf[n]].finalStatus \in {"STOLEN", "MAINTENANCE"}
       /\ \A e \in Equipments : items[e].replaces # oldOf[n]
  /\ items' = [e \in Equipments |->
                 IF e \in DOMAIN oldOf THEN NewItem(e, now, oldOf[e]) ELSE items[e]]
  /\ UNCHANGED <<contract, history, contracted, frozen>>

CloseContract ==
  LET closed == [contract EXCEPT !.status = "COMPLETED", !.finishDate = now] IN
  /\ Clock
  /\ contract.status = "ACTIVE"
  /\ \A e \in LinesIn(items) : items[e].finalStatus # Null
  /\ contract' = closed
  /\ frozen' = compute(db, closed, now)
  /\ UNCHANGED <<items, history, contracted>>

\* The trigger equipment_price_history: a change of the prices of a unit, by
\* whatever path, adds them to its history.
ChangePrices(e, p) ==
  /\ Clock
  /\ Len(history[e]) < MaxPrices
  /\ p # Last(history[e]).prices
  /\ history' = [history EXCEPT ![e] = Append(@, [from |-> now, prices |-> p])]
  /\ UNCHANGED <<contract, items, contracted, frozen>>

SomeEquipments == (SUBSET Equipments) \ {{}}

Replacements ==
  {f \in UNION {[news -> Equipments] : news \in SomeEquipments} : IsInjective(f)}

Next ==
  \/ Wait
  \/ \E period \in Periods, es \in SUBSET Equipments : CreateELease(period, es)
  \/ \E es \in SomeEquipments :
       \/ AddEquipments(es)
       \/ RemoveEquipments(es)
       \/ \E s \in {"AVAILABLE", "STOLEN", "MAINTENANCE"} : UpdateEquipment(es, s)
  \/ StartContract
  \/ CancelContract
  \/ \E oldOf \in Replacements : ReplaceEquipment(oldOf)
  \/ CloseContract
  \/ \E e \in Equipments, p \in Tables : ChangePrices(e, p)

Spec == Init /\ [][Next]_vars

-----------------------------------------------------------------------------
Dates == Instants \cup {Null}

Items ==
  [startDate : Instants, finishDate : Dates,
   finalStatus : {"AVAILABLE", "STOLEN", "MAINTENANCE", Null},
   replaces : Equipments \cup {Null}, prices : Tables]

BillingTypeOK ==
  /\ now \in Instants
  /\ contract \in [status : {Null, "PENDING", "ACTIVE", "COMPLETED", "CANCELLED"},
                   startDate : Dates, endDate : Dates, finishDate : Dates]
  /\ items \in [Equipments -> Items \cup {NoItem}]
  /\ \A e \in Equipments :
       /\ items[e].finishDate = Null <=> items[e].finalStatus = Null
       /\ \A i \in DOMAIN history[e] :
            history[e][i].from \in Instants /\ history[e][i].prices \in Tables
       /\ Last(history[e]).from <= now
  /\ contracted \in Nat \cup {Null}
  /\ contract.status # "COMPLETED" => frozen = Null

\* The report of a month that is over keeps, for a contract that has started, its
\* bill, its units on site and those broken and stolen, whatever happens to it later:
\* units returned or replaced, the contract completed, prices changed (asItWas;
\* schema.prisma:27-28, "a mesma conta refeita depois de uma troca de preco sairia
\* outra").  One thing in it does change, the mark on a broken unit that says
\* whether it was replaced (billing.service.ts:262-264, 292): a substitute that comes
\* after the month puts it there, and nothing takes it off.
exceptMarks(report) == [report EXCEPT !.replaced = {}]

ReportsStandStep ==
  \A month \in 0..Horizon :
    monthRange(month).to <= now /\ contract.status \in {"ACTIVE", "COMPLETED"} =>
      LET printed == closing(db, now, month)
          again == closing(db', now', month)
      IN  /\ exceptMarks(again) = exceptMarks(printed)
          /\ printed.replaced \subseteq again.replaced
ReportsStand == [][ReportsStandStep]_vars

\* The statement frozen when a contract was completed is the one that would be
\* computed today (statement falls back on it when there is no frozen one), so
\* a price changed after the closing bills nothing.
FrozenIsRecomputed == contract.status = "COMPLETED" => frozen = compute(db, contract, now)

\* The contracted amount logged when the contract started is the one that every
\* statement shows from its start date on, and the frozen one too, although
\* units are replaced by others with other prices and prices change.
SignedPriceStands ==
  /\ contract.status = "ACTIVE" /\ now >= contract.startDate =>
       totals(compute(db, contract, now), "contracted") = contracted
  /\ contract.status = "COMPLETED" => totals(frozen, "contracted") = contracted

\* Each day of a position is billed once: the whole periods and the days of
\* excess after them add up to the days from the start of the original unit to
\* the end of its last substitute, the gaps before a substitute included.
DaysAddUp ==
  contract.status \in {"ACTIVE", "COMPLETED"} =>
    LET planned == calendarDays(contract.startDate, contract.endDate)
        statement == compute(db, contract, now)
    IN  \A units \in DOMAIN statement :
          LET p == statement[units] IN
          p.periods > 0 => /\ p.periods * planned + p.excess = p.days
                           /\ p.excess < planned

\* A completed contract bills every line in one position only, and indemnifies
\* each theft once (positionsOf follows one substitute of each line).
EveryLineBilledOnce ==
  contract.status = "COMPLETED" =>
    /\ \A e \in LinesIn(items) :
         Cardinality({units \in DOMAIN frozen : e \in Range(units)}) = 1
    /\ \A units \in DOMAIN frozen :
         DOMAIN frozen[units].indemnities =
           {e \in Range(units) : items[e].finalStatus = "STOLEN"}

\* A contract that is completed after its start date is among those closed in one
\* month, and active in the closings of those before it from its first month on, so
\* the closings miss no bill and repeat none (report.pdf.ts:171).
ClosedInOneMonth ==
  contract.status = "COMPLETED" /\ contract.finishDate >= contract.startDate =>
    \E closes \in 0..Horizon :
      \A month \in 0..Horizon :
        /\ closedIn(contract, month) <=> month = closes
        /\ activeIn(contract, month) <=> month < closes /\ started(contract, month)

\* The statement of a contract in progress is the one it would be completed with if
\* every unit on site came back at that instant (report.pdf.ts:67, "como se todos os
\* equipamentos voltassem nesse dia").
ExtractIsAsIfReturned ==
  contract.status = "ACTIVE" /\ now >= contract.startDate =>
    LET back == [e \in Equipments |->
                   IF e \in LinesIn(items) /\ items[e].finalStatus = Null
                   THEN settled(items[e], "AVAILABLE") ELSE items[e]]
        completed == [contract EXCEPT !.status = "COMPLETED", !.finishDate = now]
    IN  compute(db, contract, now) = compute([db EXCEPT !.items = back], completed, now)

\* What the document of a pending contract shows as its amount changes only with its
\* units, never with the prices of the registry, and is what is logged at the start:
\* what was signed is what was agreed (contract.pdf.ts:129).
QuoteStandsStep ==
  contract.status = "PENDING" /\ LinesIn(items') = LinesIn(items) =>
    LET shown == totals(compute(db, contract, now), "contracted") IN
    /\ contract'.status = "PENDING" => totals(compute(db, contract, now), "contracted")' = shown
    /\ contract'.status = "ACTIVE" => contracted' = shown
QuoteStands == [][QuoteStandsStep]_vars

\* The simulation of what then happened is what was billed: told when each unit
\* stopped and how, and with prices that did not change and substitutes that cost
\* the same, it has the days, the rental and the indemnities of every position.
SamePrices ==
  \A e \in LinesIn(items) :
    /\ Len(history[e]) = 1
    /\ items[e].replaces # Null => items[items[e].replaces].prices = items[e].prices

Tellable ==
  /\ SamePrices
  /\ \A e \in LinesIn(items) : items[e].finishDate >= contract.startDate
  /\ \A e \in LinesIn(items) : items[e].replaces # Null => items[e].finalStatus = "AVAILABLE"

told ==
  LET chain(e) == chainFrom(items, e)
      event(e) == [kind |-> items[e].finalStatus, date |-> items[e].finishDate,
                   replaced |-> Len(chain(e)) > 1]
      entry(e) ==
        [event |-> IF items[e].finalStatus = "AVAILABLE" THEN Null ELSE event(e),
         returnDate |-> IF items[e].finalStatus = "AVAILABLE" \/ Len(chain(e)) > 1
                        THEN items[Last(chain(e))].finishDate ELSE contract.finishDate]
  IN  [startDate |-> contract.startDate, plannedEndDate |-> contract.endDate,
       items |-> [e \in {i \in LinesIn(items) : items[i].replaces = Null} |-> entry(e)]]

SimulatedAsBilled ==
  contract.status = "COMPLETED" /\ LinesIn(items) # {} /\ Tellable =>
    LET simulated == simulate(db, told) IN
    \A units \in DOMAIN frozen :
      \E named \in DOMAIN simulated :
        /\ named[1] = units[1]
        /\ simulated[named] = frozen[units]
=============================================================================
