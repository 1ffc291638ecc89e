------------------------------ MODULE Pricing ------------------------------
(***************************************************************************)
(* The price list an administrator edits, and the price a quotation takes  *)
(* from it.                                                                *)
(*                                                                         *)
(* Money is in cents; a multiplier or weight is an integer over Unit. A    *)
(* call reads, checks and saves in separate statements. A save itself is   *)
(* two: it reads the row again and writes the columns that differ.         *)
(***************************************************************************)
EXTENDS Integers, FiniteSetsExt

CONSTANTS
    WorkerRange,                  \* ids of worker ranges
    Location, Industry, Service,  \* ids of the other tables
    Proc, None, Keep,             \* calls in flight; no value; a field a patch leaves alone
    Unit,                         \* what multiplier and weight count
    Stock,                        \* the rows the tables start with
    NewRange, RangePatch,         \* bodies of POST and PATCH worker-ranges
    NewRow, RowPatch,             \* id -> bodies of POST and PATCH of its table
    Currency, Default,            \* settings.currency; MXN
    Ask,                          \* bodies of POST quotations, the staff's and the customers'
    MaxWorkers, MaxEdits, MaxQuotes  \* bounds: workers, edits, quotations

VARIABLES
    ranges,    \* worker_ranges: id -> row or None
    list,      \* locations, industries, services: id -> row or None
    currency,  \* app_settings.currency or None
    quotes,    \* quotations saved
    call,      \* what each request remembers
    edits      \* what MaxEdits bounds

vars == <<ranges, list, currency, quotes, call, edits>>

Item == Location \cup Industry \cup Service

RangeRow ==
    [min : 0..MaxWorkers, max : {None} \cup 1..MaxWorkers, price : Nat, active : BOOLEAN]

\* Multipliers and weights are positive, prices and fees are not negative.
LocationRow == [multiplier : Nat \ {0}, fee : Nat, active : BOOLEAN]
IndustryRow == [weight : Nat \ {0}, active : BOOLEAN]
ServiceRow == [price : Nat, active : BOOLEAN]

\* A field of a patch, from a set of values.
Kept(values) == {Keep} \cup values

ASSUME PricingAssumption ==
    /\ Unit \in Nat \ {0}
    /\ {MaxWorkers, MaxEdits, MaxQuotes} \subseteq Nat
    /\ IsFiniteSet(Service)
    /\ Location \cap Industry = {} /\ Service \cap (Location \cup Industry) = {}
    /\ WorkerRange \cap Item = {}

\* What the request schemas let through; extra lines are positive.
ASSUME BodiesAssumption ==
    /\ NewRange \subseteq RangeRow
    /\ RangePatch \subseteq [min : Kept(0..MaxWorkers), max : Kept({None} \cup 1..MaxWorkers),
                             price : Kept(Nat), active : Kept(BOOLEAN)]
    /\ \A i \in Location :
          /\ NewRow[i] \subseteq LocationRow
          /\ RowPatch[i] \subseteq [multiplier : Kept(Nat \ {0}), fee : Kept(Nat), active : Kept(BOOLEAN)]
    /\ \A i \in Industry :
          /\ NewRow[i] \subseteq IndustryRow
          /\ RowPatch[i] \subseteq [weight : Kept(Nat \ {0}), active : Kept(BOOLEAN)]
    /\ \A i \in Service :
          /\ NewRow[i] \subseteq ServiceRow
          /\ RowPatch[i] \subseteq [price : Kept(Nat), active : Kept(BOOLEAN)]
    /\ Ask \subseteq [staff : BOOLEAN, workers : 0..MaxWorkers, location : Location, industry : Industry,
                      services : SUBSET Service, gov : Nat, discount : Nat]

Idle == [pc |-> "idle"]

Init ==
    /\ ranges = [r \in WorkerRange |-> Stock[r]]
    /\ list = [i \in Item |-> Stock[i]]
    /\ currency = None
    /\ quotes = {}
    /\ call = [p \in Proc |-> Idle]
    /\ edits = 0

Goto(p, c) == call' = [call EXCEPT ![p] = c]

Edit(p) ==
    /\ call[p].pc = "idle"
    /\ edits < MaxEdits
    /\ edits' = edits + 1

Patched(row, patch) == [f \in DOMAIN row |-> IF patch[f] = Keep THEN row[f] ELSE patch[f]]

\* repository.save of a row whose primary key it looked up: a row that is not there is
\* inserted; of one that is, the columns that differ from the row just read are updated.
Written(now, stored, row) ==
    IF None \in {now, stored} THEN row
    ELSE [f \in DOMAIN row |-> IF row[f] = stored[f] THEN now[f] ELSE row[f]]

-----------------------------------------------------------------------------
(* Worker ranges *)

Infinity == MaxWorkers + 1
Top(max) == IF max = None THEN Infinity ELSE max

Ordered(row) == row.max # None => row.min <= row.max

Active(rows) == {r \in WorkerRange : rows[r] # None /\ rows[r].active}

Overlap_Touching(a, b) ==  \* mutant: ranges that share an end do not overlap
    a.min < Top(b.max) /\ Top(a.max) > b.min

Overlap(a, b) == a.min <= Top(b.max) /\ Top(a.max) >= b.min

\* The rows the tables start with are in order, and the active ranges apart.
ASSUME StockAssumption ==
    /\ \A r \in WorkerRange : Stock[r] \in {None} \cup RangeRow
    /\ \A i \in Location : Stock[i] \in {None} \cup LocationRow
    /\ \A i \in Industry : Stock[i] \in {None} \cup IndustryRow
    /\ \A i \in Service : Stock[i] \in {None} \cup ServiceRow
    /\ \A r \in Active(Stock) :
          /\ Ordered(Stock[r])
          /\ \A s \in Active(Stock) \ {r} :
                /\ ~Overlap(Stock[r], Stock[s])
                /\ Stock[r].max = None => Stock[s].min < Stock[r].min

\* assertNoOverlap: of two ranges only the higher may be open.
Fits(id, row) ==
    \A o \in Active(ranges) \ {id} :
        /\ row.max = None => ranges[o].max # None /\ ranges[o].min < row.min
        /\ ~Overlap(row, ranges[o])

Proceed(p, id, row) ==
    Goto(p, [pc |-> IF row.active THEN "check" ELSE "save", id |-> id, row |-> row])

CreateRange(p, r, new) ==
    /\ Edit(p)
    /\ ranges[r] = None
    /\ \A q \in Proc : call[q].pc \in {"check", "save", "write"} => call[q].id # r
    /\ Ordered(new)
    /\ Proceed(p, r, new)
    /\ UNCHANGED <<ranges, list, currency, quotes>>

\* updateWorkerRange and deactivateWorkerRange
UpdateRange(p, r, patch) ==
    /\ Edit(p)
    /\ ranges[r] # None
    /\ LET new == Patched(ranges[r], patch)
       IN  Ordered(new) /\ Proceed(p, r, new)
    /\ UNCHANGED <<ranges, list, currency, quotes>>

\* The advisory lock is held while the check runs, and no longer.
CheckOverlap(p) ==
    /\ call[p].pc = "check"
    /\ LET c == call[p]
       IN  Goto(p, IF Fits(c.id, c.row) THEN [pc |-> "save", id |-> c.id, row |-> c.row] ELSE Idle)
    /\ UNCHANGED <<ranges, list, currency, quotes, edits>>

\* What the save reads ...
RereadRange(p) ==
    /\ call[p].pc = "save"
    /\ call[p].id \in WorkerRange
    /\ LET c == call[p]
       IN  Goto(p, [pc |-> "write", id |-> c.id, row |-> c.row, stored |-> ranges[c.id]])
    /\ UNCHANGED <<ranges, list, currency, quotes, edits>>

\* ... and what it writes.
SaveRange(p) ==
    /\ call[p].pc = "write"
    /\ call[p].id \in WorkerRange
    /\ ranges' = [ranges EXCEPT ![call[p].id] = Written(@, call[p].stored, call[p].row)]
    /\ Goto(p, Idle)
    /\ UNCHANGED <<list, currency, quotes, edits>>

-----------------------------------------------------------------------------
(* Services, industries and locations, and the currency *)

\* createService (once its category passed), createIndustry, createLocation
CreateItem(p, i, new) ==
    /\ Edit(p)
    /\ list[i] = None
    /\ list' = [list EXCEPT ![i] = new]
    /\ UNCHANGED <<ranges, currency, quotes, call>>

UpdateItem(p, i, patch) ==
    /\ Edit(p)
    /\ list[i] # None
    /\ Goto(p, [pc |-> "save", id |-> i, row |-> Patched(list[i], patch)])
    /\ UNCHANGED <<ranges, list, currency, quotes>>

CreateLocation(p) == \E i \in Location : \E new \in NewRow[i] : CreateItem(p, i, new)
CreateIndustry(p) == \E i \in Industry : \E new \in NewRow[i] : CreateItem(p, i, new)
CreateService(p) == \E i \in Service : \E new \in NewRow[i] : CreateItem(p, i, new)
UpdateLocation(p) == \E i \in Location : \E patch \in RowPatch[i] : UpdateItem(p, i, patch)
UpdateIndustry(p) == \E i \in Industry : \E patch \in RowPatch[i] : UpdateItem(p, i, patch)
UpdateService(p) == \E i \in Service : \E patch \in RowPatch[i] : UpdateItem(p, i, patch)

RereadItem(p) ==
    /\ call[p].pc = "save"
    /\ call[p].id \in Item
    /\ LET c == call[p]
       IN  Goto(p, [pc |-> "write", id |-> c.id, row |-> c.row, stored |-> list[c.id]])
    /\ UNCHANGED <<ranges, list, currency, quotes, edits>>

SaveItem(p) ==
    /\ call[p].pc = "write"
    /\ call[p].id \in Item
    /\ list' = [list EXCEPT ![call[p].id] = Written(@, call[p].stored, call[p].row)]
    /\ Goto(p, Idle)
    /\ UNCHANGED <<ranges, currency, quotes, edits>>

UpdateSetting(p, c) ==
    /\ Edit(p)
    /\ currency' = c
    /\ UNCHANGED <<ranges, list, quotes, call>>

-----------------------------------------------------------------------------
(* publicService.calculate reads five tables at once, each on its own *)

Part == {"ranges", "location", "industry", "services", "currency"}

Live(i) == IF list[i] # None /\ list[i].active THEN list[i] ELSE None

Quote(p, ask) ==
    /\ call[p].pc = "idle"
    /\ Cardinality(quotes) + Cardinality({q \in Proc : call[q].pc = "read"}) < MaxQuotes
    /\ Goto(p, [pc |-> "read", ask |-> ask, seen |-> <<>>])
    /\ UNCHANGED <<ranges, list, currency, quotes, edits>>

Answer_WithRetired(ask, part) ==  \* mutant: the ranges are read without isActive
    CASE part = "ranges"   -> {ranges[r] : r \in {x \in WorkerRange : ranges[x] # None}}
      [] part = "location" -> Live(ask.location)
      [] part = "industry" -> Live(ask.industry)
      [] part = "services" -> [s \in ask.services |-> Live(s)]
      [] OTHER             -> currency

\* What a query of calculate finds.
Answer(ask, part) ==
    CASE part = "ranges"   -> {ranges[r] : r \in Active(ranges)}
      [] part = "location" -> Live(ask.location)
      [] part = "industry" -> Live(ask.industry)
      [] part = "services" -> [s \in ask.services |-> Live(s)]
      [] OTHER             -> currency

ReadPart(p, part) ==
    /\ call[p].pc = "read"
    /\ part \notin DOMAIN call[p].seen
    /\ LET c == call[p]
           answers == [x \in DOMAIN c.seen \cup {part} |->
                          IF x = part THEN Answer(c.ask, part) ELSE c.seen[x]]
       IN  Goto(p, [pc |-> "read", ask |-> c.ask, seen |-> answers])
    /\ UNCHANGED <<ranges, list, currency, quotes, edits>>

\* pickWorkerRange takes the first one found; no order is asked for.
Covering(workers, rows) == {r \in rows : r.min <= workers /\ workers <= Top(r.max)}

Priced(seen, ask) ==
    /\ seen.location # None
    /\ seen.industry # None
    /\ \A s \in ask.services : seen.services[s] # None
    /\ Covering(ask.workers, seen.ranges) # {}

ServiceTotal(services) == MapThenSumSet(LAMBDA s : services[s].price, DOMAIN services)

\* A price is a double printed to two decimals: half a cent goes either way.
Cents(amount) ==
    LET d == Unit * Unit
    IN  {c \in {amount \div d, amount \div d + 1} : 2 * c * d - 2 * amount \in -d..d}

Scaled(range, location, industry) == range.price * location.multiplier * industry.weight

NoItems == [base |-> 0, services |-> 0, fee |-> 0, gov |-> 0, discount |-> 0]

StaffItems_FeeInBase(subtotal, services, fee, ask) ==  \* mutant: base is what the total leaves
    [base |-> subtotal + fee - services, services |-> services, fee |-> fee,
     gov |-> ask.gov, discount |-> -ask.discount]

StaffItems(subtotal, services, fee, ask) ==
    [base |-> subtotal - services, services |-> services, fee |-> fee,
     gov |-> ask.gov, discount |-> -ask.discount]

\* calculateQuotation; subtotal and total are rounded each on their own.
Sums(seen, range) ==
    LET fee == seen.location.fee
        amount == Scaled(range, seen.location, seen.industry) + Unit * Unit * ServiceTotal(seen.services)
    IN  {sums \in [subtotal : Cents(amount), total : Cents(amount + Unit * Unit * fee)] :
            fee = 0 => sums.subtotal = sums.total}

Money(seen) == IF seen.currency = None THEN Default ELSE seen.currency

\* create: the services are itemised, the rest is in the total only.
CustomerQuote(ask, seen, sums) ==
    [ask |-> ask, currency |-> Money(seen), total |-> sums.total,
     items |-> [NoItems EXCEPT !.services = ServiceTotal(seen.services)]]

\* staffCreate
StaffQuote(ask, seen, sums) ==
    [ask |-> ask, currency |-> Money(seen), total |-> sums.total + ask.gov - ask.discount,
     items |-> StaffItems(sums.subtotal, ServiceTotal(seen.services), seen.location.fee, ask)]

SaveQuote(p) ==
    /\ call[p].pc = "read"
    /\ DOMAIN call[p].seen = Part
    /\ LET c == call[p]
       IN  /\ Priced(c.seen, c.ask)
           /\ \E range \in Covering(c.ask.workers, c.seen.ranges) :
                \E sums \in Sums(c.seen, range) :
                   \/ /\ c.ask.staff
                      /\ c.ask.discount <= sums.subtotal
                      /\ quotes' = quotes \cup {StaffQuote(c.ask, c.seen, sums)}
                   \/ /\ ~c.ask.staff
                      /\ quotes' = quotes \cup {CustomerQuote(c.ask, c.seen, sums)}
    /\ Goto(p, Idle)
    /\ UNCHANGED <<ranges, list, currency, edits>>

\* The database fails, or the quotation is refused.
Fail(p) ==
    /\ call[p].pc # "idle"
    /\ Goto(p, Idle)
    /\ UNCHANGED <<ranges, list, currency, quotes, edits>>

-----------------------------------------------------------------------------
(* The lists the public site shows *)

PublicRanges == {ranges[r] : r \in Active(ranges)}
PublicLocations == {l \in Location : list[l] # None /\ list[l].active}
PublicIndustries == {i \in Industry : list[i] # None /\ list[i].active}

-----------------------------------------------------------------------------

Step(p) ==
    \/ \E r \in WorkerRange, new \in NewRange : CreateRange(p, r, new)
    \/ \E r \in WorkerRange, patch \in RangePatch : UpdateRange(p, r, patch)
    \/ CheckOverlap(p) \/ RereadRange(p) \/ SaveRange(p)
    \/ CreateLocation(p) \/ CreateIndustry(p) \/ CreateService(p)
    \/ UpdateLocation(p) \/ UpdateIndustry(p) \/ UpdateService(p)
    \/ RereadItem(p) \/ SaveItem(p)
    \/ \E c \in Currency : UpdateSetting(p, c)
    \/ \E ask \in Ask : Quote(p, ask)
    \/ \E part \in Part : ReadPart(p, part)
    \/ SaveQuote(p) \/ Fail(p)

Next == \E p \in Proc : Step(p)

Spec == Init /\ [][Next]_vars
=============================================================================
