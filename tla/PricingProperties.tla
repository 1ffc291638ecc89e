------------------------- MODULE PricingProperties -------------------------
(***************************************************************************)
(* What Pricing is checked for. calm holds as long as no two calls         *)
(* overlapped, alone as long as no two of them edited worker ranges.       *)
(***************************************************************************)
EXTENDS Pricing

\* The lines of a quotation by the staff add up to its total, but for the cent that half a
\* cent makes when subtotal and total are rounded apart; and no total is negative.
QuotesAddUp ==
    \A q \in quotes :
        /\ q.total >= 0
        /\ LET lines == q.items.base + q.items.services + q.items.fee + q.items.gov + q.items.discount
           IN  q.ask.staff => q.total - lines \in -1..1

-----------------------------------------------------------------------------

VARIABLES calm, alone

calmVars == <<vars, calm, alone>>

\* A call that creates or edits a worker range.
Ranging(c) == c.pc \in {"check", "save", "write"} /\ c.id \in WorkerRange

OneRanging == \A p, q \in Proc : Ranging(call[p]) /\ Ranging(call[q]) => p = q

CalmInit == Init /\ calm = TRUE /\ alone = TRUE
CalmNext ==
    /\ Next
    /\ calm' = /\ calm
               /\ \A p, q \in Proc : p # q => Idle \in {call'[p], call'[q]}
               /\ edits' # edits => call = [p \in Proc |-> Idle]
    /\ alone' = (alone /\ OneRanging')
CalmSpec == CalmInit /\ [][CalmNext]_calmVars

\* As long as worker ranges are edited one call at a time, whatever else overlaps and
\* wherever a call fails, edits and reactivations leave the ends of an active range in
\* order, no worker count with two prices, and the open range on top. Two edits of ranges
\* at once do not: a check is over before its save, which writes columns.
RangesDisjoint ==
    alone => \A r \in Active(ranges) :
                /\ Ordered(ranges[r])
                /\ \A s \in Active(ranges) \ {r} :
                      /\ ~Overlap(ranges[r], ranges[s])
                      /\ ranges[r].max = None => ranges[s].min < ranges[r].min

\* workerBasePrice x locationMultiplier x industryWeight + serviceCharges + cityFee, in
\* units of a cent over Unit squared, with the lines of the staff.
ListPrice(ask, range) ==
    LET scale == Unit * Unit
        extra == IF ask.staff THEN ask.gov - ask.discount ELSE 0
    IN  Scaled(range, list[ask.location], list[ask.industry])
        + scale * (MapThenSumSet(LAMBDA s : list[s].price, ask.services) + list[ask.location].fee + extra)

\* Served one by one, a quotation has the one price that the lists on the public site
\* give when it is saved.
QuotedFromList ==
    [][calm' => \A q \in quotes' \ quotes :
          /\ q.ask.location \in PublicLocations /\ q.ask.industry \in PublicIndustries
          /\ \A s \in q.ask.services : list[s].active
          /\ \E range \in PublicRanges :
                /\ Covering(q.ask.workers, PublicRanges) = {range}
                /\ 2 * (q.total * Unit * Unit - ListPrice(q.ask, range)) \in -(Unit * Unit)..(Unit * Unit)
          /\ q.currency = IF currency = None THEN Default ELSE currency]_calmVars
=============================================================================
