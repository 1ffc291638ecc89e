--------------------------- MODULE PricingProofs ---------------------------
(***************************************************************************)
(* For every price list, body and set of overlapping calls: a quotation    *)
(* adds up; and, served one by one, the ranges stay apart and a quotation  *)
(* has the price of the lists. The first part is about the sum over the    *)
(* services, which the community modules define by recursion on sets.      *)
(***************************************************************************)
EXTENDS PricingProperties, FiniteSetTheorems, WellFoundedInduction, TLAPS

\* Of a set of numbers one is the least: what an induction on the size of a set comes to.
LEMMA Least ==
    ASSUME NEW T \in SUBSET Nat, T # {}
    PROVE  \E n \in T : \A m \in T : n <= m
  <1>1. PICK n \in T : \A m \in T : ~(<<m, n>> \in OpToRel(<, Nat))
      BY NatLessThanWellFounded, WFMin
  <1>2. \A m \in T : ~(m < n)
      BY <1>1 DEF OpToRel
  <1> QED  BY <1>2

\* The element a sum takes first; the sums of prices of the sets of T, each from a smaller one.
First(s) == CHOOSE x \in s : TRUE

Adds(rows, T, g) ==
    g = [s \in T |-> IF s = {} THEN 0 ELSE rows[First(s)].price + g[s \ {First(s)}]]

Total(rows, S) == MapThenSumSet(LAMBDA x : rows[x].price, S)

LEMMA TotalUnfold ==
    ASSUME NEW rows, NEW S
    PROVE  Total(rows, S) = (CHOOSE g : Adds(rows, SUBSET S, g))[S]
  BY DEF Total, MapThenSumSet, MapThenFoldSet, Adds, First

LEMMA FirstOf ==
    ASSUME NEW S, IsFiniteSet(S), NEW s \in SUBSET S, s # {}
    PROVE  /\ First(s) \in s
           /\ s \ {First(s)} \in SUBSET S
           /\ Cardinality(s) \in Nat /\ Cardinality(s \ {First(s)}) = Cardinality(s) - 1
  <1>1. First(s) \in s
      BY DEF First
  <1>2. IsFiniteSet(s)
      BY FS_Subset
  <1> QED  BY <1>1, <1>2, FS_CardinalityType, FS_RemoveElement

\* The equations of the sums have a solution: the least set without one would extend the last.
LEMMA AddsExist ==
    ASSUME NEW rows, NEW S, IsFiniteSet(S)
    PROVE  \E g : Adds(rows, SUBSET S, g)
  <1> DEFINE D(n) == {s \in SUBSET S : Cardinality(s) <= n}
             T == {n \in Nat : ~ \E g : Adds(rows, D(n), g)}
  <1>0. \A s \in SUBSET S : IsFiniteSet(s) /\ Cardinality(s) \in Nat /\ Cardinality(s) <= Cardinality(S)
      BY FS_Subset, FS_CardinalityType
  <1>1. T = {}
    <2> SUFFICES ASSUME T # {} PROVE FALSE
        OBVIOUS
    <2>1. T \in SUBSET Nat
        OBVIOUS
    <2>2. PICK n \in T : \A m \in T : n <= m
        BY <2>1, Least
    <2>3. CASE n = 0
      <3> DEFINE g == [s \in D(0) |-> 0]
      <3>1. \A s \in D(0) : s = {}
          BY <1>0, FS_EmptySet
      <3>2. g = [s \in D(0) |-> IF s = {} THEN 0 ELSE rows[First(s)].price + g[s \ {First(s)}]]
          BY <3>1
      <3>3. Adds(rows, D(0), g)
          BY <3>2 DEF Adds
      <3> QED  BY <2>2, <2>3, <3>3
    <2>4. CASE n # 0
      <3>1. n \in Nat /\ n - 1 \in Nat /\ n - 1 \notin T
        <4>1. n \in Nat
            OBVIOUS
        <4> HIDE DEF T
        <4> QED  BY <2>2, <2>4, <4>1
      <3>2. PICK g : Adds(rows, D(n - 1), g)
          BY <3>1
      <3> DEFINE h == [s \in D(n) |-> IF Cardinality(s) <= n - 1 THEN g[s]
                                      ELSE rows[First(s)].price + g[s \ {First(s)}]]
      <3>3. ASSUME NEW s \in D(n)
            PROVE  h[s] = IF s = {} THEN 0 ELSE rows[First(s)].price + h[s \ {First(s)}]
        <4>1. CASE s = {}
          <5>1. Cardinality(s) = 0
              BY <4>1, FS_EmptySet
          <5>2. s \in D(n - 1)
              BY <3>1, <5>1
          <5> QED  BY <3>1, <3>2, <4>1, <5>1, <5>2 DEF Adds
        <4>2. CASE s # {}
          <5> DEFINE t == s \ {First(s)}
          <5>1. t \in SUBSET S /\ Cardinality(s) \in Nat /\ Cardinality(t) = Cardinality(s) - 1
              BY <4>2, FirstOf
          <5>2. t \in D(n - 1) /\ t \in D(n) /\ Cardinality(t) <= n - 1
              BY <3>1, <5>1
          <5>3. h[t] = g[t]
              BY <5>2
          <5>4. h[s] = rows[First(s)].price + g[t]
            <6>1. CASE Cardinality(s) <= n - 1
              <7>1. s \in D(n - 1)
                  BY <6>1
              <7>2. g[s] = rows[First(s)].price + g[t]
                  BY <3>2, <4>2, <7>1 DEF Adds
              <7> QED  BY <6>1, <7>2
            <6>2. CASE ~(Cardinality(s) <= n - 1)
                BY <6>2
            <6> QED  BY <6>1, <6>2
          <5> HIDE DEF h
          <5> QED  BY <4>2, <5>3, <5>4
        <4> QED  BY <4>1, <4>2
      <3>4. h = [s \in D(n) |-> h[s]]
          OBVIOUS
      <3> HIDE DEF h
      <3>5. Adds(rows, D(n), h)
          BY <3>3, <3>4 DEF Adds
      <3> QED  BY <2>2, <3>5
    <2> QED  BY <2>3, <2>4
  <1>2. Cardinality(S) \in Nat
      BY FS_CardinalityType
  <1>3. D(Cardinality(S)) = SUBSET S
      BY <1>0
  <1>4. \E g : Adds(rows, D(Cardinality(S)), g)
      BY <1>1, <1>2
  <1> HIDE DEF D
  <1> QED  BY <1>3, <1>4

LEMMA AddsAgree ==
    ASSUME NEW S, IsFiniteSet(S), NEW rows, NEW others, NEW g, NEW h,
           Adds(rows, SUBSET S, g), Adds(others, SUBSET S, h),
           \A x \in S : rows[x].price \in Nat /\ others[x].price = rows[x].price
    PROVE  g[S] \in Nat /\ h[S] = g[S]
  <1> DEFINE Bad(s) == ~(g[s] \in Nat /\ h[s] = g[s])
             T == {n \in Nat : \E s \in SUBSET S : Cardinality(s) = n /\ Bad(s)}
  <1>1. T = {}
    <2> SUFFICES ASSUME T # {} PROVE FALSE
        OBVIOUS
    <2>1. PICK n \in T : \A m \in T : n <= m
      <3>1. T \in SUBSET Nat
          OBVIOUS
      <3> HIDE DEF T
      <3> QED  BY <3>1, Least
    <2>2. PICK s \in SUBSET S : Cardinality(s) = n /\ Bad(s)
        BY <2>1
    <2>3. s # {}
        BY <2>2 DEF Adds
    <2> DEFINE t == s \ {First(s)}
    <2>4. /\ First(s) \in S /\ t \in SUBSET S
          /\ Cardinality(s) \in Nat /\ Cardinality(t) = Cardinality(s) - 1 /\ Cardinality(t) \in Nat
      <3>1. Cardinality(t) \in Nat
          BY FS_Subset, FS_CardinalityType
      <3> QED  BY <2>3, <3>1, FirstOf
    <2>5. Cardinality(t) \notin T
      <3> HIDE DEF T, t
      <3> QED  BY <2>1, <2>2, <2>4
    <2>6. ~Bad(t)
        BY <2>4, <2>5
    <2>7. g[s] = rows[First(s)].price + g[t] /\ h[s] = others[First(s)].price + h[t]
        BY <2>3 DEF Adds
    <2>8. ~Bad(s)
        BY <2>4, <2>6, <2>7
    <2> QED  BY <2>2, <2>8
  <1>2. Cardinality(S) \in Nat
      BY FS_CardinalityType
  <1>3. ~Bad(S)
      BY <1>1, <1>2
  <1> QED  BY <1>3

\* A total is a number, and depends on the prices of its own rows alone.
LEMMA TotalIs ==
    ASSUME NEW S, IsFiniteSet(S), NEW rows, NEW others,
           \A x \in S : rows[x].price \in Nat /\ others[x].price = rows[x].price
    PROVE  Total(rows, S) \in Nat /\ Total(others, S) = Total(rows, S)
  <1> DEFINE g == CHOOSE x : Adds(rows, SUBSET S, x)
             h == CHOOSE x : Adds(others, SUBSET S, x)
  <1>1. Adds(rows, SUBSET S, g)
      BY AddsExist
  <1>2. Adds(others, SUBSET S, h)
      BY AddsExist
  <1>3. Total(rows, S) = g[S] /\ Total(others, S) = h[S]
      BY TotalUnfold
  <1> HIDE DEF g, h
  <1> QED  BY <1>1, <1>2, <1>3, AddsAgree

-----------------------------------------------------------------------------
(* Rows, and what a call remembers *)

Row(i, row) ==
    /\ i \in Location => row \in LocationRow
    /\ i \in Industry => row \in IndustryRow
    /\ i \in Service => row \in ServiceRow
    /\ i \in WorkerRange => row \in RangeRow

\* What the reads of a quotation found so far.
Found(ask, seen) ==
    /\ "ranges" \in DOMAIN seen => \A r \in seen.ranges : r \in RangeRow
    /\ "location" \in DOMAIN seen => seen.location \in {None} \cup LocationRow
    /\ "industry" \in DOMAIN seen => seen.industry \in {None} \cup IndustryRow
    /\ "services" \in DOMAIN seen => /\ DOMAIN seen.services = ask.services
                                     /\ \A s \in ask.services : seen.services[s] \in {None} \cup ServiceRow

Shaped(c) ==
    /\ c.pc \in {"idle", "check", "save", "write", "read"}
    /\ c.pc = "check" => c.id \in WorkerRange
    /\ c.pc \in {"check", "save", "write"} => Row(c.id, c.row)
    /\ c.pc = "read" => c.ask \in Ask /\ Found(c.ask, c.seen)

Listed(rows) ==
    /\ DOMAIN rows = Item
    /\ \A i \in Item : rows[i] # None => Row(i, rows[i])

Ranged(rows) ==
    /\ DOMAIN rows = WorkerRange
    /\ \A r \in WorkerRange : rows[r] # None => rows[r] \in RangeRow

PriceInv ==
    /\ Ranged(ranges)
    /\ Listed(list)
    /\ DOMAIN call = Proc
    /\ \A p \in Proc : Shaped(call[p])

LEMMA PatchedRange ==
    ASSUME NEW row \in RangeRow, NEW patch \in RangePatch
    PROVE  Patched(row, patch) \in RangeRow
  <1>1. DOMAIN row = {"min", "max", "price", "active"}
      BY DEF RangeRow
  <1>2. patch \in [min : Kept(0..MaxWorkers), max : Kept({None} \cup 1..MaxWorkers),
                   price : Kept(Nat), active : Kept(BOOLEAN)]
      BY BodiesAssumption
  <1> QED  BY <1>1, <1>2 DEF Patched, RangeRow, Kept

LEMMA PatchedItem ==
    ASSUME NEW i \in Item, NEW row, Row(i, row), NEW patch \in RowPatch[i]
    PROVE  Row(i, Patched(row, patch))
  <1>1. CASE i \in Location
    <2>1. row \in LocationRow /\ DOMAIN row = {"multiplier", "fee", "active"}
        BY <1>1 DEF Row, LocationRow
    <2>2. patch \in [multiplier : Kept(Nat \ {0}), fee : Kept(Nat), active : Kept(BOOLEAN)]
        BY <1>1, BodiesAssumption
    <2>3. Patched(row, patch) \in LocationRow
        BY <2>1, <2>2 DEF Patched, LocationRow, Kept
    <2> QED  BY <1>1, <2>3, PricingAssumption DEF Row, Item
  <1>2. CASE i \in Industry
    <2>1. row \in IndustryRow /\ DOMAIN row = {"weight", "active"}
        BY <1>2 DEF Row, IndustryRow
    <2>2. patch \in [weight : Kept(Nat \ {0}), active : Kept(BOOLEAN)]
        BY <1>2, BodiesAssumption
    <2>3. Patched(row, patch) \in IndustryRow
        BY <2>1, <2>2 DEF Patched, IndustryRow, Kept
    <2> QED  BY <1>2, <2>3, PricingAssumption DEF Row, Item
  <1>3. CASE i \in Service
    <2>1. row \in ServiceRow /\ DOMAIN row = {"price", "active"}
        BY <1>3 DEF Row, ServiceRow
    <2>2. patch \in [price : Kept(Nat), active : Kept(BOOLEAN)]
        BY <1>3, BodiesAssumption
    <2>3. Patched(row, patch) \in ServiceRow
        BY <2>1, <2>2 DEF Patched, ServiceRow, Kept
    <2> QED  BY <1>3, <2>3, PricingAssumption DEF Row, Item
  <1> QED  BY <1>1, <1>2, <1>3 DEF Item

\* So is a row of which some columns are written.
LEMMA WrittenRange ==
    ASSUME NEW now, now # None => now \in RangeRow, NEW stored, NEW row \in RangeRow
    PROVE  Written(now, stored, row) \in RangeRow
  <1>1. DOMAIN row = {"min", "max", "price", "active"}
      BY DEF RangeRow
  <1> QED  BY <1>1 DEF Written, RangeRow

LEMMA WrittenItem ==
    ASSUME NEW i \in Item, NEW now, now # None => Row(i, now), NEW stored, NEW row, Row(i, row)
    PROVE  Row(i, Written(now, stored, row))
  <1> SUFFICES ASSUME now # None, stored # None
               PROVE  Row(i, Written(now, stored, row))
      BY DEF Written
  <1>1. CASE i \in Location
    <2>1. row \in LocationRow /\ now \in LocationRow /\ DOMAIN row = {"multiplier", "fee", "active"}
        BY <1>1 DEF Row, LocationRow
    <2>2. Written(now, stored, row) \in LocationRow
        BY <2>1 DEF Written, LocationRow
    <2> QED  BY <1>1, <2>2, PricingAssumption DEF Row, Item
  <1>2. CASE i \in Industry
    <2>1. row \in IndustryRow /\ now \in IndustryRow /\ DOMAIN row = {"weight", "active"}
        BY <1>2 DEF Row, IndustryRow
    <2>2. Written(now, stored, row) \in IndustryRow
        BY <2>1 DEF Written, IndustryRow
    <2> QED  BY <1>2, <2>2, PricingAssumption DEF Row, Item
  <1>3. CASE i \in Service
    <2>1. row \in ServiceRow /\ now \in ServiceRow /\ DOMAIN row = {"price", "active"}
        BY <1>3 DEF Row, ServiceRow
    <2>2. Written(now, stored, row) \in ServiceRow
        BY <2>1 DEF Written, ServiceRow
    <2> QED  BY <1>3, <2>2, PricingAssumption DEF Row, Item
  <1> QED  BY <1>1, <1>2, <1>3 DEF Item

\* A save that finds the row it read writes the row it was given.
LEMMA WrittenSame ==
    ASSUME NEW stored, NEW row \in RangeRow
    PROVE  Written(stored, stored, row) = row
  <1>1. row = [f \in DOMAIN row |-> row[f]]
      BY DEF RangeRow
  <1> QED  BY <1>1 DEF Written

\* A body of a POST is a row of its table.
LEMMA NewItem ==
    ASSUME NEW i \in Item, NEW new \in NewRow[i]
    PROVE  Row(i, new)
  BY BodiesAssumption, PricingAssumption DEF Row, Item

-----------------------------------------------------------------------------
(* Every step keeps the rows in the shape of their tables *)

LEMMA GotoShaped ==
    ASSUME PriceInv, NEW p \in Proc, NEW c, Shaped(c), Goto(p, c), Ranged(ranges'), Listed(list')
    PROVE  PriceInv'
  BY DEF PriceInv, Goto

LEMMA PriceUntouched ==
    ASSUME PriceInv, NEW p \in Proc, NEW c, Shaped(c), Goto(p, c), UNCHANGED <<ranges, list>>
    PROVE  PriceInv'
  BY GotoShaped DEF PriceInv

LEMMA IdleShaped == Shaped(Idle)
  BY DEF Shaped, Idle

LEMMA EditShaped ==
    ASSUME NEW pc \in {"check", "save"}, NEW id, NEW row, Row(id, row), pc = "check" => id \in WorkerRange
    PROVE  Shaped([pc |-> pc, id |-> id, row |-> row])
  BY DEF Shaped

LEMMA WriteShaped ==
    ASSUME NEW id, NEW row, Row(id, row), NEW stored
    PROVE  Shaped([pc |-> "write", id |-> id, row |-> row, stored |-> stored])
  BY DEF Shaped

LEMMA ProceedKeeps ==
    ASSUME PriceInv, NEW p \in Proc, NEW id \in WorkerRange, NEW row \in RangeRow,
           Proceed(p, id, row), UNCHANGED <<ranges, list>>
    PROVE  PriceInv'
  <1>1. Row(id, row)
      BY PricingAssumption DEF Row, Item
  <1> QED  BY <1>1, EditShaped, PriceUntouched DEF Proceed

LEMMA RangeKeeps ==
    ASSUME PriceInv, NEW p \in Proc,
           \/ \E r \in WorkerRange, new \in NewRange : CreateRange(p, r, new)
           \/ \E r \in WorkerRange, patch \in RangePatch : UpdateRange(p, r, patch)
           \/ CheckOverlap(p) \/ RereadRange(p) \/ SaveRange(p)
    PROVE  PriceInv'
  <1>1. CASE \E r \in WorkerRange, new \in NewRange : CreateRange(p, r, new)
      BY <1>1, BodiesAssumption, ProceedKeeps DEF CreateRange
  <1>2. CASE \E r \in WorkerRange, patch \in RangePatch : UpdateRange(p, r, patch)
    <2>1. PICK r \in WorkerRange, patch \in RangePatch : UpdateRange(p, r, patch)
        BY <1>2
    <2>2. Patched(ranges[r], patch) \in RangeRow
        BY <2>1, PatchedRange DEF UpdateRange, PriceInv, Ranged
    <2> QED  BY <2>1, <2>2, ProceedKeeps DEF UpdateRange
  <1>3. CASE CheckOverlap(p)
    <2> DEFINE b == call[p]
               c == IF Fits(b.id, b.row) THEN [pc |-> "save", id |-> b.id, row |-> b.row] ELSE Idle
    <2>1. Row(b.id, b.row)
        BY <1>3 DEF CheckOverlap, PriceInv, Shaped
    <2>2. Shaped(c)
        BY <2>1, EditShaped, IdleShaped
    <2>3. Goto(p, c)
        BY <1>3 DEF CheckOverlap
    <2> QED  BY <1>3, <2>2, <2>3, PriceUntouched DEF CheckOverlap
  <1>4. CASE SaveRange(p)
    <2>1. PICK id, row : id = call[p].id /\ row = Written(ranges[id], call[p].stored, call[p].row)
        OBVIOUS
    <2>2. id \in WorkerRange /\ call[p].row \in RangeRow
        BY <1>4, <2>1 DEF SaveRange, PriceInv, Shaped, Row
    <2>3. row \in RangeRow
        BY <2>1, <2>2, WrittenRange DEF PriceInv, Ranged
    <2>4. ranges' = [ranges EXCEPT ![id] = row] /\ list' = list /\ Goto(p, Idle)
        BY <1>4, <2>1 DEF SaveRange
    <2>5. Ranged(ranges')
        BY <2>2, <2>3, <2>4 DEF PriceInv, Ranged
    <2> QED  BY <2>4, <2>5, IdleShaped, GotoShaped DEF PriceInv
  <1>5. CASE RereadRange(p)
    <2>1. Row(call[p].id, call[p].row)
        BY <1>5 DEF RereadRange, PriceInv, Shaped
    <2> QED  BY <1>5, <2>1, WriteShaped, PriceUntouched DEF RereadRange
  <1> QED  BY <1>1, <1>2, <1>3, <1>4, <1>5

LEMMA ListedKeeps ==
    ASSUME Listed(list), NEW i \in Item, NEW row, Row(i, row), list' = [list EXCEPT ![i] = row]
    PROVE  Listed(list')
  BY DEF Listed

LEMMA CreateItemKeeps ==
    ASSUME PriceInv, NEW p \in Proc, NEW i \in Item, NEW new \in NewRow[i], CreateItem(p, i, new)
    PROVE  PriceInv'
  <1>1. Listed(list')
      BY NewItem, ListedKeeps DEF CreateItem, PriceInv
  <1> QED  BY <1>1 DEF CreateItem, PriceInv

LEMMA UpdateItemKeeps ==
    ASSUME PriceInv, NEW p \in Proc, NEW i \in Item, NEW patch \in RowPatch[i], UpdateItem(p, i, patch)
    PROVE  PriceInv'
  <1>1. Row(i, list[i])
      BY DEF UpdateItem, PriceInv, Listed
  <1>2. Row(i, Patched(list[i], patch))
      BY <1>1, PatchedItem
  <1> QED  BY <1>2, EditShaped, PriceUntouched DEF UpdateItem

LEMMA ItemKeeps ==
    ASSUME PriceInv, NEW p \in Proc,
           \/ CreateLocation(p) \/ CreateIndustry(p) \/ CreateService(p)
           \/ UpdateLocation(p) \/ UpdateIndustry(p) \/ UpdateService(p)
           \/ RereadItem(p) \/ SaveItem(p)
    PROVE  PriceInv'
  <1> Location \subseteq Item /\ Industry \subseteq Item /\ Service \subseteq Item
      BY DEF Item
  <1>1. CASE CreateLocation(p) \/ CreateIndustry(p) \/ CreateService(p)
      BY <1>1, CreateItemKeeps DEF CreateLocation, CreateIndustry, CreateService
  <1>2. CASE UpdateLocation(p) \/ UpdateIndustry(p) \/ UpdateService(p)
      BY <1>2, UpdateItemKeeps DEF UpdateLocation, UpdateIndustry, UpdateService
  <1>3. CASE SaveItem(p)
    <2>1. PICK i, row : i = call[p].id /\ row = Written(list[i], call[p].stored, call[p].row)
        OBVIOUS
    <2>2. i \in Item /\ Row(i, call[p].row) /\ list' = [list EXCEPT ![i] = row]
        BY <1>3, <2>1 DEF SaveItem, PriceInv, Shaped
    <2>3. Row(i, row)
        BY <2>1, <2>2, WrittenItem DEF PriceInv, Listed
    <2>4. Listed(list')
        BY <2>2, <2>3, ListedKeeps DEF PriceInv
    <2> QED  BY <1>3, <2>4, IdleShaped, GotoShaped DEF SaveItem, PriceInv
  <1>4. CASE RereadItem(p)
    <2>1. Row(call[p].id, call[p].row)
        BY <1>4 DEF RereadItem, PriceInv, Shaped
    <2> QED  BY <1>4, <2>1, WriteShaped, PriceUntouched DEF RereadItem
  <1> QED  BY <1>1, <1>2, <1>3, <1>4

-----------------------------------------------------------------------------
(* The reads of a quotation *)

LEMMA LiveFound ==
    ASSUME PriceInv, NEW i \in Item
    PROVE  Live(i) = None \/ (Live(i) = list[i] /\ list[i] # None /\ list[i].active /\ Row(i, list[i]))
  BY DEF Live, PriceInv, Listed

LEMMA AskedItems ==
    ASSUME NEW ask \in Ask
    PROVE  /\ ask.location \in Location /\ ask.industry \in Industry /\ ask.services \in SUBSET Service
           /\ ask.workers \in 0..MaxWorkers /\ ask.gov \in Nat /\ ask.discount \in Nat /\ ask.staff \in BOOLEAN
           /\ ask.location \in Item /\ ask.industry \in Item /\ ask.services \in SUBSET Item
  BY BodiesAssumption DEF Item

LEMMA PartFound ==
    ASSUME PriceInv, NEW ask \in Ask, NEW seen, Found(ask, seen), NEW part \in Part,
           NEW more, more = [x \in DOMAIN seen \cup {part} |-> IF x = part THEN Answer(ask, part) ELSE seen[x]]
    PROVE  Found(ask, more)
  <1>1. "ranges" \in DOMAIN more => \A r \in more.ranges : r \in RangeRow
    <2>1. \A r \in {ranges[x] : x \in Active(ranges)} : r \in RangeRow
        BY DEF PriceInv, Ranged, Active
    <2>2. part = "ranges" => more.ranges = {ranges[x] : x \in Active(ranges)}
        BY DEF Answer
    <2>3. part # "ranges" /\ "ranges" \in DOMAIN more => "ranges" \in DOMAIN seen /\ more.ranges = seen.ranges
        OBVIOUS
    <2> QED  BY <2>1, <2>2, <2>3 DEF Found
  <1>2. "location" \in DOMAIN more => more.location \in {None} \cup LocationRow
    <2>1. Live(ask.location) \in {None} \cup LocationRow
        BY AskedItems, LiveFound DEF Row
    <2>2. part = "location" => more.location = Live(ask.location)
        BY DEF Answer
    <2>3. part # "location" /\ "location" \in DOMAIN more => "location" \in DOMAIN seen /\ more.location = seen.location
        OBVIOUS
    <2> QED  BY <2>1, <2>2, <2>3 DEF Found
  <1>3. "industry" \in DOMAIN more => more.industry \in {None} \cup IndustryRow
    <2>1. Live(ask.industry) \in {None} \cup IndustryRow
        BY AskedItems, LiveFound DEF Row
    <2>2. part = "industry" => more.industry = Live(ask.industry)
        BY DEF Answer
    <2>3. part # "industry" /\ "industry" \in DOMAIN more => "industry" \in DOMAIN seen /\ more.industry = seen.industry
        OBVIOUS
    <2> QED  BY <2>1, <2>2, <2>3 DEF Found
  <1>4. "services" \in DOMAIN more => /\ DOMAIN more.services = ask.services
                                      /\ \A s \in ask.services : more.services[s] \in {None} \cup ServiceRow
    <2>1. \A s \in ask.services : Live(s) \in {None} \cup ServiceRow
        BY AskedItems, LiveFound DEF Row
    <2>2. part = "services" => more.services = [s \in ask.services |-> Live(s)]
        BY DEF Answer
    <2>3. part # "services" /\ "services" \in DOMAIN more => "services" \in DOMAIN seen /\ more.services = seen.services
        OBVIOUS
    <2> QED  BY <2>1, <2>2, <2>3 DEF Found
  <1> QED  BY <1>1, <1>2, <1>3, <1>4 DEF Found

LEMMA ReadShaped ==
    ASSUME NEW ask \in Ask, NEW seen, Found(ask, seen)
    PROVE  Shaped([pc |-> "read", ask |-> ask, seen |-> seen])
  BY DEF Shaped

LEMMA QuoteKeeps ==
    ASSUME PriceInv, NEW p \in Proc,
           \/ \E ask \in Ask : Quote(p, ask)
           \/ \E part \in Part : ReadPart(p, part)
           \/ SaveQuote(p) \/ Fail(p)
    PROVE  PriceInv'
  <1>1. CASE \E ask \in Ask : Quote(p, ask)
    <2>1. PICK ask \in Ask : Quote(p, ask)
        BY <1>1
    <2>2. Found(ask, <<>>)
        BY DEF Found
    <2> QED  BY <2>1, <2>2, ReadShaped, PriceUntouched DEF Quote
  <1>2. CASE \E part \in Part : ReadPart(p, part)
    <2>1. PICK part \in Part : ReadPart(p, part)
        BY <1>2
    <2> DEFINE b == call[p]
               more == [x \in DOMAIN b.seen \cup {part} |->
                           IF x = part THEN Answer(b.ask, part) ELSE b.seen[x]]
    <2>2. b.ask \in Ask /\ Found(b.ask, b.seen)
        BY <2>1 DEF ReadPart, PriceInv, Shaped
    <2>3. Goto(p, [pc |-> "read", ask |-> b.ask, seen |-> more]) /\ UNCHANGED <<ranges, list>>
        BY <2>1 DEF ReadPart
    <2>4. Found(b.ask, more)
        BY <2>2, PartFound
    <2> HIDE DEF more
    <2> QED  BY <2>2, <2>3, <2>4, ReadShaped, PriceUntouched
  <1>3. CASE SaveQuote(p) \/ Fail(p)
      BY <1>3, IdleShaped, PriceUntouched DEF SaveQuote, Fail
  <1> QED  BY <1>1, <1>2, <1>3

LEMMA PriceStep ==
    ASSUME PriceInv, [Next]_vars
    PROVE  PriceInv'
  <1>1. CASE UNCHANGED vars
      BY <1>1 DEF vars, PriceInv
  <1>2. CASE Next
    <2>1. PICK p \in Proc : Step(p)
        BY <1>2 DEF Next
    <2>2. CASE \E c \in Currency : UpdateSetting(p, c)
        BY <2>2 DEF UpdateSetting, PriceInv
    <2> QED  BY <2>1, <2>2, RangeKeeps, ItemKeeps, QuoteKeeps DEF Step
  <1> QED  BY <1>1, <1>2

LEMMA PriceStart == Init => PriceInv
  <1> SUFFICES ASSUME Init PROVE PriceInv
      OBVIOUS
  <1>1. Ranged(ranges)
      BY StockAssumption DEF Init, Ranged, Active
  <1>2. Listed(list)
      BY StockAssumption, PricingAssumption DEF Init, Listed, Row, Item
  <1>3. \A p \in Proc : Shaped(call[p])
      BY IdleShaped DEF Init
  <1> QED  BY <1>1, <1>2, <1>3 DEF PriceInv, Init

-----------------------------------------------------------------------------
(* What a quotation adds up to *)

\* The price a call's reads come to: everything SaveQuote relies on.
LEMMA SeenPriced ==
    ASSUME NEW ask \in Ask, NEW seen, Found(ask, seen), DOMAIN seen = Part, Priced(seen, ask),
           NEW range \in Covering(ask.workers, seen.ranges)
    PROVE  /\ range \in RangeRow /\ seen.location \in LocationRow /\ seen.industry \in IndustryRow
           /\ DOMAIN seen.services = ask.services
           /\ \A s \in ask.services : seen.services[s] # None /\ seen.services[s] \in ServiceRow
           /\ ServiceTotal(seen.services) \in Nat
  <1>1. range \in RangeRow /\ seen.location \in LocationRow /\ seen.industry \in IndustryRow
      BY DEF Found, Part, Priced, Covering
  <1>2. DOMAIN seen.services = ask.services
      BY DEF Found, Part
  <1>3. \A s \in ask.services : seen.services[s] # None /\ seen.services[s] \in ServiceRow
      BY DEF Found, Part, Priced
  <1>4. IsFiniteSet(ask.services)
      BY AskedItems, PricingAssumption, FS_Subset
  <1>5. Total(seen.services, ask.services) \in Nat
      BY <1>3, <1>4, TotalIs DEF ServiceRow
  <1> QED  BY <1>1, <1>2, <1>3, <1>5 DEF ServiceTotal, Total

LEMMA NatTimes ==
    ASSUME NEW a \in Nat, NEW b \in Nat
    PROVE  a * b \in Nat
  OBVIOUS

LEMMA CentsAre ==
    ASSUME NEW amount \in Int, NEW c \in Cents(amount)
    PROVE  c \in Int /\ 2 * c * (Unit * Unit) - 2 * amount \in -(Unit * Unit)..(Unit * Unit)
  <1>1. Unit * Unit \in Nat \ {0}
      BY PricingAssumption
  <1>2. amount \div (Unit * Unit) \in Int
      BY <1>1
  <1> QED  BY <1>1, <1>2 DEF Cents

\* Two amounts a fee apart are a fee apart in cents, but for one cent; d is Unit squared.
LEMMA RoundedApart ==
    ASSUME NEW d \in Nat \ {0}, NEW a \in Nat, NEW fee \in Nat, NEW sub \in Int, NEW tot \in Int,
           2 * sub * d - 2 * a \in -d..d,
           2 * tot * d - 2 * (a + d * fee) \in -d..d,
           fee = 0 => sub = tot
    PROVE  tot - sub - fee \in -1..1 /\ tot >= sub /\ tot >= 0
  <1> DEFINE e == tot - sub - fee
  <1>1. e \in Int /\ 2 * e * d \in -(2 * d)..(2 * d)
      OBVIOUS
  <1>2. e <= 1
    <2> SUFFICES ASSUME e >= 2 PROVE FALSE
        BY <1>1
    <2>1. e * d >= 2 * d
        BY <1>1
    <2> HIDE DEF e
    <2> QED  BY <1>1, <2>1
  <1>3. e >= -1
    <2> SUFFICES ASSUME e <= -2 PROVE FALSE
        BY <1>1
    <2>1. (-e) * d >= 2 * d
        BY <1>1
    <2> HIDE DEF e
    <2> QED  BY <1>1, <2>1
  <1>4. tot >= 0
    <2> SUFFICES ASSUME tot <= -1 PROVE FALSE
        OBVIOUS
    <2>1. d * fee \in Nat
        OBVIOUS
    <2>2. 2 * tot * d <= -(2 * d)
        OBVIOUS
    <2> QED  BY <2>1, <2>2
  <1> QED  BY <1>1, <1>2, <1>3, <1>4

\* The two sums of a quotation.
LEMMA SumsAre ==
    ASSUME NEW seen, NEW range \in RangeRow, seen.location \in LocationRow, seen.industry \in IndustryRow,
           ServiceTotal(seen.services) \in Nat, NEW sums \in Sums(seen, range)
    PROVE  LET d == Unit * Unit
               a == Scaled(range, seen.location, seen.industry) + d * ServiceTotal(seen.services)
               fee == seen.location.fee
           IN  /\ d \in Nat \ {0} /\ a \in Nat /\ fee \in Nat
               /\ Scaled(range, seen.location, seen.industry) \in Nat
               /\ sums.subtotal \in Int /\ sums.total \in Int
               /\ 2 * sums.subtotal * d - 2 * a \in -d..d
               /\ 2 * sums.total * d - 2 * (a + d * fee) \in -d..d
               /\ fee = 0 => sums.subtotal = sums.total
  <1> DEFINE d == Unit * Unit
             st == ServiceTotal(seen.services)
             sc == Scaled(range, seen.location, seen.industry)
             a == sc + d * st
             fee == seen.location.fee
  <1>1. d \in Nat \ {0}
      BY PricingAssumption
  <1>2. fee \in Nat /\ seen.location.multiplier \in Nat /\ seen.industry.weight \in Nat /\ range.price \in Nat
      BY DEF LocationRow, IndustryRow, RangeRow
  <1>3. sc \in Nat
      BY <1>2, NatTimes DEF Scaled
  <1>4. d * st \in Nat /\ d * fee \in Nat
      BY <1>1, <1>2, NatTimes
  <1>5. a \in Nat /\ a + d * fee \in Nat
    <2> HIDE DEF d, st, sc, fee
    <2> QED  BY <1>3, <1>4
  <1>6. /\ sums.subtotal \in Cents(a) /\ sums.total \in Cents(a + d * fee)
        /\ fee = 0 => sums.subtotal = sums.total
      BY DEF Sums
  <1> HIDE DEF st, sc, a, fee
  <1>7. /\ sums.subtotal \in Int /\ 2 * sums.subtotal * (Unit * Unit) - 2 * a \in -(Unit * Unit)..(Unit * Unit)
        /\ sums.total \in Int /\ 2 * sums.total * (Unit * Unit) - 2 * (a + d * fee) \in -(Unit * Unit)..(Unit * Unit)
      BY <1>5, <1>6, CentsAre
  <1> QED  BY <1>1, <1>2, <1>3, <1>5, <1>6, <1>7 DEF st, sc, a, fee

AddsUp(q) ==
    /\ q.total >= 0
    /\ q.ask.staff =>
          q.total - (q.items.base + q.items.services + q.items.fee + q.items.gov + q.items.discount) \in -1..1

LEMMA StaffAddsUp ==
    ASSUME NEW ask \in Ask, NEW seen, NEW sums, NEW fee \in Nat, fee = seen.location.fee,
           sums.subtotal \in Int, sums.total \in Int, ServiceTotal(seen.services) \in Nat,
           sums.total - sums.subtotal - fee \in -1..1, sums.total >= sums.subtotal,
           ask.discount <= sums.subtotal
    PROVE  AddsUp(StaffQuote(ask, seen, sums))
  <1> DEFINE st == ServiceTotal(seen.services)
             q == StaffQuote(ask, seen, sums)
  <1>1. /\ q.total = sums.total + ask.gov - ask.discount
        /\ q.items.base = sums.subtotal - st /\ q.items.services = st /\ q.items.fee = fee
        /\ q.items.gov = ask.gov /\ q.items.discount = -ask.discount
      BY DEF StaffQuote, StaffItems
  <1>2. ask.gov \in Nat /\ ask.discount \in Nat /\ st \in Nat
      BY AskedItems
  <1> HIDE DEF q, st
  <1>3. q.total >= 0
      BY <1>1, <1>2
  <1>4. q.total - (q.items.base + q.items.services + q.items.fee + q.items.gov + q.items.discount)
            = sums.total - sums.subtotal - fee
      BY <1>1, <1>2
  <1>5. AddsUp(q)
      BY <1>3, <1>4 DEF AddsUp
  <1> QED  BY <1>5 DEF q

\* What a call that saves a quotation saves, and from which reads.
LEMMA QuoteSaved ==
    ASSUME PriceInv, NEW p \in Proc, SaveQuote(p)
    PROVE  LET c == call[p]
           IN  /\ c.pc = "read" /\ c.ask \in Ask /\ Found(c.ask, c.seen)
               /\ DOMAIN c.seen = Part /\ Priced(c.seen, c.ask)
               /\ \E range \in Covering(c.ask.workers, c.seen.ranges) :
                     \E sums \in Sums(c.seen, range) :
                        \/ /\ c.ask.staff
                           /\ c.ask.discount <= sums.subtotal
                           /\ quotes' = quotes \cup {StaffQuote(c.ask, c.seen, sums)}
                        \/ /\ ~c.ask.staff
                           /\ quotes' = quotes \cup {CustomerQuote(c.ask, c.seen, sums)}
  BY DEF SaveQuote, PriceInv, Shaped

LEMMA SavedAddsUp ==
    ASSUME PriceInv, NEW p \in Proc, SaveQuote(p), \A q \in quotes : AddsUp(q)
    PROVE  \A q \in quotes' : AddsUp(q)
  <1> DEFINE c == call[p]
  <1>1. /\ c.ask \in Ask /\ Found(c.ask, c.seen)
        /\ DOMAIN c.seen = Part /\ Priced(c.seen, c.ask)
      BY QuoteSaved
  <1>2. PICK range \in Covering(c.ask.workers, c.seen.ranges) :
          \E sums \in Sums(c.seen, range) :
            \/ /\ c.ask.staff
               /\ c.ask.discount <= sums.subtotal
               /\ quotes' = quotes \cup {StaffQuote(c.ask, c.seen, sums)}
            \/ /\ ~c.ask.staff
               /\ quotes' = quotes \cup {CustomerQuote(c.ask, c.seen, sums)}
      BY QuoteSaved
  <1>3. PICK sums \in Sums(c.seen, range) :
            \/ /\ c.ask.staff
               /\ c.ask.discount <= sums.subtotal
               /\ quotes' = quotes \cup {StaffQuote(c.ask, c.seen, sums)}
            \/ /\ ~c.ask.staff
               /\ quotes' = quotes \cup {CustomerQuote(c.ask, c.seen, sums)}
      BY <1>2
  <1> DEFINE fee == c.seen.location.fee
             st == ServiceTotal(c.seen.services)
             d == Unit * Unit
             a == Scaled(range, c.seen.location, c.seen.industry) + d * st
  <1> HIDE DEF c
  <1>4. /\ range \in RangeRow /\ c.seen.location \in LocationRow /\ c.seen.industry \in IndustryRow
        /\ st \in Nat
      BY <1>1, SeenPriced
  <1>5. /\ d \in Nat \ {0} /\ a \in Nat /\ fee \in Nat
        /\ sums.subtotal \in Int /\ sums.total \in Int
        /\ 2 * sums.subtotal * d - 2 * a \in -d..d
        /\ 2 * sums.total * d - 2 * (a + d * fee) \in -d..d
        /\ fee = 0 => sums.subtotal = sums.total
      BY <1>4, SumsAre
  <1>6. sums.total - sums.subtotal - fee \in -1..1 /\ sums.total >= sums.subtotal /\ sums.total >= 0
    <2> HIDE DEF d, a, fee, st
    <2> QED  BY <1>5, RoundedApart
  <1>7. CASE c.ask.staff
    <2>1. c.ask.discount <= sums.subtotal /\ quotes' = quotes \cup {StaffQuote(c.ask, c.seen, sums)}
        BY <1>3, <1>7 DEF c
    <2>2. AddsUp(StaffQuote(c.ask, c.seen, sums))
        BY <1>1, <1>4, <1>5, <1>6, <2>1, StaffAddsUp
    <2> QED  BY <2>1, <2>2
  <1>8. CASE ~c.ask.staff
    <2>1. quotes' = quotes \cup {CustomerQuote(c.ask, c.seen, sums)}
        BY <1>3, <1>8 DEF c
    <2>2. AddsUp(CustomerQuote(c.ask, c.seen, sums))
        BY <1>6, <1>8 DEF AddsUp, CustomerQuote
    <2> QED  BY <2>1, <2>2
  <1> QED  BY <1>7, <1>8

AddUpInv == PriceInv /\ \A q \in quotes : AddsUp(q)

LEMMA AddUpStep ==
    ASSUME AddUpInv, [Next]_vars
    PROVE  AddUpInv'
  <1>1. PriceInv'
      BY PriceStep DEF AddUpInv
  <1>2. CASE quotes' = quotes
      BY <1>1, <1>2 DEF AddUpInv
  <1>3. CASE quotes' # quotes
    <2>1. PICK p \in Proc : SaveQuote(p)
        BY <1>3 DEF vars, Next, Step, CreateRange, UpdateRange, CheckOverlap, RereadRange, SaveRange, CreateLocation,
           CreateIndustry, CreateService, CreateItem, UpdateLocation, UpdateIndustry, UpdateService,
           UpdateItem, RereadItem, SaveItem, UpdateSetting, Quote, ReadPart, Fail
    <2> QED  BY <1>1, <2>1, SavedAddsUp DEF AddUpInv
  <1> QED  BY <1>2, <1>3

\* The lines of every quotation add up to its total but for a cent, and no total is negative,
\* whatever the reads of the price list saw of edits under way: the services are one sum of the
\* prices that were read, and subtotal and total are rounded from the same amount.
THEOREM QuotesAddUpTheorem == CalmSpec => []QuotesAddUp
  <1>1. CalmInit => AddUpInv
      BY PriceStart DEF CalmInit, Init, AddUpInv
  <1>2. AddUpInv /\ [CalmNext]_calmVars => AddUpInv'
    <2> SUFFICES ASSUME AddUpInv, [CalmNext]_calmVars
                 PROVE  AddUpInv'
        OBVIOUS
    <2>1. [Next]_vars
        BY DEF CalmNext, calmVars
    <2> QED  BY <2>1, AddUpStep
  <1>3. AddUpInv => QuotesAddUp
      BY DEF AddUpInv, AddsUp, QuotesAddUp
  <1> QED  BY <1>1, <1>2, <1>3, PTL DEF CalmSpec

-----------------------------------------------------------------------------
(* Worker ranges, edited one call at a time *)

Apart ==
    /\ \A r \in Active(ranges) : Ordered(ranges[r])
    /\ \A r, s \in Active(ranges) : r # s =>
          /\ ~Overlap(ranges[r], ranges[s])
          /\ ranges[r].max = None => ranges[s].min < ranges[r].min

\* What an edit of a range found still holds when it goes on.
Steady(c) ==
    Ranging(c) =>
        /\ Ordered(c.row)
        /\ c.pc \in {"save", "write"} /\ c.row.active => Fits(c.id, c.row)
        /\ c.pc = "write" => c.stored = ranges[c.id]

Served == Apart /\ \A p \in Proc : Steady(call[p])

RangesInv ==
    /\ PriceInv
    /\ alone \in BOOLEAN
    /\ alone => OneRanging /\ Served

LEMMA SteadySame ==
    ASSUME NEW c, Steady(c), ranges' = ranges
    PROVE  Steady(c)'
  BY DEF Steady, Ranging, Fits, Active

\* A step that leaves the ranges alone.
LEMMA ServedUntouched ==
    ASSUME PriceInv, Served, NEW p \in Proc, NEW c, Goto(p, c), Steady(c)', ranges' = ranges
    PROVE  Served'
  <1>1. Apart'
      BY DEF Served, Apart, Active
  <1>2. ASSUME NEW q \in Proc
        PROVE  Steady(call[q])'
    <2>1. PICK d : d = call'[q]
        OBVIOUS
    <2>2. d = c \/ d = call[q]
        BY <2>1 DEF PriceInv, Goto
    <2>3. CASE d = c
        BY <2>1, <2>3
    <2>4. CASE d = call[q]
      <3>1. Steady(d)
          BY <2>4 DEF Served
      <3>2. Steady(d)'
          BY <3>1, SteadySame
      <3> QED  BY <2>1, <3>2
    <2> QED  BY <2>2, <2>3, <2>4
  <1> QED  BY <1>1, <1>2 DEF Served

\* A call that edits no range goes on, or ends.
LEMMA OtherServed ==
    ASSUME PriceInv, Served, NEW p \in Proc, NEW c, Goto(p, c), ~Ranging(c), ranges' = ranges
    PROVE  Served'
  <1>1. Steady(c)'
      BY DEF Steady, Ranging
  <1> QED  BY <1>1, ServedUntouched

LEMMA IdleRanging == ~Ranging(Idle)
  BY DEF Ranging, Idle

\* Two ranges apart, whichever of them came first.
LEMMA FitsBoth ==
    ASSUME NEW a \in RangeRow, NEW b \in RangeRow, Ordered(a), Ordered(b), ~Overlap(a, b),
           a.max = None => b.max # None /\ b.min < a.min
    PROVE  ~Overlap(b, a) /\ (b.max = None => a.min < b.min)
  <1>1. /\ a.min \in 0..MaxWorkers /\ b.min \in 0..MaxWorkers
        /\ a.max # None => a.max \in 1..MaxWorkers
        /\ b.max # None => b.max \in 1..MaxWorkers
      BY DEF RangeRow
  <1>2. Top(a.max) \in Nat /\ Top(b.max) \in Nat
      BY <1>1, PricingAssumption DEF Top, Infinity
  <1>3. ~Overlap(b, a)
      BY <1>1, <1>2 DEF Overlap
  <1>4. ASSUME b.max = None
        PROVE  a.min < b.min
    <2>1. a.max # None /\ a.min <= a.max
        BY <1>4 DEF Ordered
    <2>2. Top(b.max) = MaxWorkers + 1 /\ Top(a.max) = a.max
        BY <1>4, <2>1 DEF Top, Infinity
    <2>3. a.min <= Top(b.max)
        BY <1>1, <2>2, PricingAssumption
    <2>4. ~(Top(a.max) >= b.min)
        BY <2>3 DEF Overlap
    <2>5. Top(a.max) < b.min
        BY <1>1, <1>2, <2>4
    <2> QED  BY <1>1, <2>1, <2>2, <2>5
  <1> QED  BY <1>3, <1>4

LEMMA ProceedServed ==
    ASSUME PriceInv, Served, NEW p \in Proc, NEW id \in WorkerRange, NEW row \in RangeRow,
           Ordered(row), Proceed(p, id, row), ranges' = ranges
    PROVE  Served'
  <1>1. PICK c : c = [pc |-> IF row.active THEN "check" ELSE "save", id |-> id, row |-> row]
      OBVIOUS
  <1>2. Steady(c)' /\ Goto(p, c)
      BY <1>1 DEF Steady, Proceed
  <1> QED  BY <1>2, ServedUntouched

LEMMA RangeServed ==
    ASSUME PriceInv, OneRanging, Served, NEW p \in Proc,
           \/ \E r \in WorkerRange, new \in NewRange : CreateRange(p, r, new)
           \/ \E r \in WorkerRange, patch \in RangePatch : UpdateRange(p, r, patch)
           \/ CheckOverlap(p) \/ RereadRange(p) \/ SaveRange(p)
    PROVE  Served'
  <1>1. CASE \E r \in WorkerRange, new \in NewRange : CreateRange(p, r, new)
      BY <1>1, BodiesAssumption, ProceedServed DEF CreateRange
  <1>2. CASE \E r \in WorkerRange, patch \in RangePatch : UpdateRange(p, r, patch)
    <2>1. PICK r \in WorkerRange, patch \in RangePatch : UpdateRange(p, r, patch)
        BY <1>2
    <2>2. PICK row : row = Patched(ranges[r], patch)
        OBVIOUS
    <2>3. row \in RangeRow
        BY <2>1, <2>2, PatchedRange DEF UpdateRange, PriceInv, Ranged
    <2> QED  BY <2>1, <2>2, <2>3, ProceedServed DEF UpdateRange
  <1>3. CASE CheckOverlap(p)
    <2>1. PICK id, row : id = call[p].id /\ row = call[p].row
        OBVIOUS
    <2>3. PICK c : c = IF Fits(id, row) THEN [pc |-> "save", id |-> id, row |-> row] ELSE Idle
        OBVIOUS
    <2>4. Goto(p, c) /\ ranges' = ranges
        BY <1>3, <2>1, <2>3 DEF CheckOverlap
    <2>5. (Fits(id, row) => Fits(id, row)') /\ (id \in WorkerRange => Ordered(row))
        BY <1>3, <2>1, <2>4 DEF Fits, Active, CheckOverlap, Served, Steady, Ranging
    <2>6. Steady(c)'
      <3>1. CASE Fits(id, row)
          BY <2>3, <2>5, <3>1 DEF Steady, Ranging
      <3>2. CASE ~Fits(id, row)
          BY <2>3, <3>2 DEF Steady, Ranging, Idle
      <3> QED  BY <3>1, <3>2
    <2> QED  BY <2>4, <2>6, ServedUntouched
  <1>4. CASE SaveRange(p)
    <2>1. PICK id, row : id = call[p].id /\ row = call[p].row
        OBVIOUS
    <2>2. id \in WorkerRange /\ row \in RangeRow /\ Ranging(call[p])
        BY <1>4, <2>1 DEF SaveRange, PriceInv, Shaped, Row, Ranging
    <2>4. Ordered(row) /\ (row.active => Fits(id, row)) /\ call[p].stored = ranges[id]
        BY <1>4, <2>1, <2>2 DEF SaveRange, Served, Steady
    <2>3. ranges' = [ranges EXCEPT ![id] = row] /\ Goto(p, Idle)
        BY <1>4, <2>1, <2>2, <2>4, WrittenSame DEF SaveRange
    <2>5. Apart'
      <3>1. \A r \in WorkerRange : ranges'[r] = IF r = id THEN row ELSE ranges[r]
          BY <2>2, <2>3 DEF PriceInv, Ranged
      <3>2. \A r \in Active(ranges') : r \in WorkerRange /\ (r # id => r \in Active(ranges)) /\ (r = id => row.active)
          BY <3>1 DEF Active
      <3>3. \A r \in Active(ranges) : ranges[r] \in RangeRow /\ Ordered(ranges[r])
          BY DEF PriceInv, Ranged, Active, Served, Apart
      <3>5. \A r \in Active(ranges') : Ordered(ranges'[r])
          BY <2>4, <3>1, <3>2, <3>3
      <3>4. ASSUME NEW r \in Active(ranges'), NEW s \in Active(ranges'), r # s
            PROVE  /\ ~Overlap(ranges'[r], ranges'[s])
                   /\ ranges'[r].max = None => ranges'[s].min < ranges'[r].min
        <4>1. CASE r = id
          <5>1. ranges'[r] = row /\ ranges'[s] = ranges[s] /\ s \in Active(ranges) \ {id} /\ Fits(id, row)
              BY <2>4, <3>1, <3>2, <3>4, <4>1
          <5> QED  BY <5>1 DEF Fits
        <4>2. CASE s = id
          <5>1. ranges'[s] = row /\ ranges'[r] = ranges[r] /\ r \in Active(ranges) \ {id} /\ Fits(id, row)
              BY <2>4, <3>1, <3>2, <3>4, <4>2
          <5>2. ~Overlap(row, ranges[r]) /\ (row.max = None => ranges[r].max # None /\ ranges[r].min < row.min)
              BY <5>1 DEF Fits
          <5>3. ranges[r] \in RangeRow /\ Ordered(ranges[r])
              BY <3>3, <5>1
          <5> QED  BY <2>2, <2>4, <5>1, <5>2, <5>3, FitsBoth
        <4>3. CASE r # id /\ s # id
          <5>1. /\ ranges'[r] = ranges[r] /\ ranges'[s] = ranges[s]
                /\ r \in Active(ranges) /\ s \in Active(ranges)
              BY <3>1, <3>2, <4>3
          <5> QED  BY <3>4, <5>1 DEF Served, Apart
        <4> QED  BY <4>1, <4>2, <4>3
      <3> QED  BY <3>4, <3>5 DEF Apart
    <2>8. ASSUME NEW q \in Proc
          PROVE  Steady(call[q])'
      <3>1. PICK d : d = call'[q]
          OBVIOUS
      <3>2. ~Ranging(d)
          BY <2>2, <2>3, <3>1, IdleRanging DEF PriceInv, Goto, OneRanging
      <3>3. Steady(d)'
          BY <3>2 DEF Steady, Ranging
      <3> QED  BY <3>1, <3>3
    <2> QED  BY <2>5, <2>8 DEF Served
  <1>5. CASE RereadRange(p)
    <2>1. PICK id, row : id = call[p].id /\ row = call[p].row
        OBVIOUS
    <2>2. PICK c : c = [pc |-> "write", id |-> id, row |-> row, stored |-> ranges[id]]
        OBVIOUS
    <2>3. Goto(p, c) /\ ranges' = ranges /\ id \in WorkerRange
        BY <1>5, <2>1, <2>2 DEF RereadRange
    <2>4. Ordered(row) /\ (row.active => Fits(id, row))
        BY <1>5, <2>1, <2>3 DEF RereadRange, Served, Steady, Ranging
    <2>5. Fits(id, row) => Fits(id, row)'
        BY <2>3 DEF Fits, Active
    <2>6. Steady(c)'
        BY <2>2, <2>3, <2>4, <2>5 DEF Steady
    <2> QED  BY <2>3, <2>6, ServedUntouched
  <1> QED  BY <1>1, <1>2, <1>3, <1>4, <1>5

\* The other calls edit no range, and a creation or a setting is no more than one step.
LEMMA ListServed ==
    ASSUME PriceInv, Served, NEW p \in Proc,
           \/ CreateLocation(p) \/ CreateIndustry(p) \/ CreateService(p)
           \/ \E c \in Currency : UpdateSetting(p, c)
    PROVE  Served'
  <1>1. UNCHANGED <<ranges, call>>
      BY DEF CreateLocation, CreateIndustry, CreateService, CreateItem, UpdateSetting
  <1>2. Apart'
      BY <1>1 DEF Served, Apart, Active
  <1>3. ASSUME NEW q \in Proc
        PROVE  Steady(call[q])'
    <2>1. PICK d : d = call[q]
        OBVIOUS
    <2>2. Steady(d)
        BY <2>1 DEF Served
    <2>3. Steady(d)'
        BY <1>1, <2>2, SteadySame
    <2> QED  BY <1>1, <2>1, <2>3
  <1> QED  BY <1>2, <1>3 DEF Served

LEMMA ItemServed ==
    ASSUME PriceInv, Served, NEW p \in Proc,
           \/ UpdateLocation(p) \/ UpdateIndustry(p) \/ UpdateService(p)
           \/ RereadItem(p) \/ SaveItem(p)
    PROVE  Served'
  <1>1. CASE UpdateLocation(p) \/ UpdateIndustry(p) \/ UpdateService(p)
    <2>1. PICK i \in Item : \E patch : UpdateItem(p, i, patch)
        BY <1>1 DEF UpdateLocation, UpdateIndustry, UpdateService, Item
    <2>2. PICK patch : UpdateItem(p, i, patch)
        BY <2>1
    <2>3. PICK c : c = [pc |-> "save", id |-> i, row |-> Patched(list[i], patch)]
        OBVIOUS
    <2>4. Goto(p, c) /\ ranges' = ranges
        BY <2>2, <2>3 DEF UpdateItem
    <2>5. ~Ranging(c)
        BY <2>3, PricingAssumption DEF Ranging
    <2> QED  BY <2>4, <2>5, OtherServed
  <1>2. CASE SaveItem(p)
      BY <1>2, IdleRanging, OtherServed DEF SaveItem
  <1>3. CASE RereadItem(p)
    <2>1. PICK c : c = [pc |-> "write", id |-> call[p].id, row |-> call[p].row, stored |-> list[call[p].id]]
        OBVIOUS
    <2>2. Goto(p, c) /\ ranges' = ranges /\ call[p].id \in Item
        BY <1>3, <2>1 DEF RereadItem
    <2>3. ~Ranging(c)
        BY <2>1, <2>2, PricingAssumption DEF Ranging
    <2> QED  BY <2>2, <2>3, OtherServed
  <1> QED  BY <1>1, <1>2, <1>3

LEMMA QuoteServed ==
    ASSUME PriceInv, Served, NEW p \in Proc,
           \/ \E ask \in Ask : Quote(p, ask)
           \/ \E part \in Part : ReadPart(p, part)
           \/ SaveQuote(p) \/ Fail(p)
    PROVE  Served'
  <1>1. CASE \E ask \in Ask : Quote(p, ask)
    <2>1. PICK ask \in Ask : Quote(p, ask)
        BY <1>1
    <2>2. PICK c : c = [pc |-> "read", ask |-> ask, seen |-> <<>>]
        OBVIOUS
    <2>3. Goto(p, c) /\ ranges' = ranges
        BY <2>1, <2>2 DEF Quote
    <2>4. ~Ranging(c)
        BY <2>2 DEF Ranging
    <2> QED  BY <2>3, <2>4, OtherServed
  <1>2. CASE \E part \in Part : ReadPart(p, part)
    <2>1. PICK part \in Part : ReadPart(p, part)
        BY <1>2
    <2>2. PICK answers : Goto(p, [pc |-> "read", ask |-> call[p].ask, seen |-> answers]) /\ ranges' = ranges
        BY <2>1 DEF ReadPart
    <2>3. PICK c : c = [pc |-> "read", ask |-> call[p].ask, seen |-> answers]
        OBVIOUS
    <2>4. Goto(p, c)
        BY <2>2, <2>3
    <2>5. ~Ranging(c)
        BY <2>3 DEF Ranging
    <2> QED  BY <2>2, <2>4, <2>5, OtherServed
  <1>3. CASE SaveQuote(p) \/ Fail(p)
      BY <1>3, IdleRanging, OtherServed DEF SaveQuote, Fail
  <1> QED  BY <1>1, <1>2, <1>3

LEMMA AloneBefore ==
    ASSUME alone \in BOOLEAN, CalmNext
    PROVE  alone' \in BOOLEAN /\ (alone' <=> alone /\ OneRanging')
  <1>1. CASE alone /\ OneRanging'
      BY <1>1 DEF CalmNext
  <1>2. CASE ~(alone /\ OneRanging')
    <2>1. alone' = FALSE
        BY <1>2 DEF CalmNext
    <2> QED  BY <1>2, <2>1
  <1> QED  BY <1>1, <1>2

LEMMA RangesStep ==
    ASSUME RangesInv, [CalmNext]_calmVars
    PROVE  RangesInv'
  <1>1. PriceInv'
      BY PriceStep DEF RangesInv, CalmNext, calmVars
  <1>2. CASE UNCHANGED calmVars
    <2>1. ASSUME Served
          PROVE  Served'
      <3>1. UNCHANGED <<ranges, call>>
          BY <1>2 DEF calmVars, vars
      <3>2. Apart'
          BY <2>1, <3>1 DEF Served, Apart, Active
      <3>3. ASSUME NEW p \in Proc
            PROVE  Steady(call[p])'
        <4>1. PICK c : c = call[p]
            OBVIOUS
        <4>2. Steady(c)'
            BY <2>1, <3>1, <4>1, SteadySame DEF Served
        <4> QED  BY <3>1, <4>1, <4>2
      <3> QED  BY <3>2, <3>3 DEF Served
    <2>2. alone' = alone /\ (OneRanging => OneRanging')
        BY <1>2 DEF calmVars, vars, OneRanging, Ranging
    <2> QED  BY <1>1, <2>1, <2>2 DEF RangesInv
  <1>3. CASE CalmNext
    <2>1. alone' \in BOOLEAN /\ (alone' <=> alone /\ OneRanging')
        BY <1>3, AloneBefore DEF RangesInv
    <2>2. ASSUME alone'
          PROVE  OneRanging' /\ Served'
      <3>1. PriceInv /\ OneRanging /\ Served /\ OneRanging'
          BY <2>1, <2>2 DEF RangesInv
      <3>2. PICK p \in Proc : Step(p)
          BY <1>3 DEF CalmNext, Next
      <3> QED  BY <3>1, <3>2, RangeServed, ListServed, ItemServed, QuoteServed DEF Step
    <2> QED  BY <1>1, <2>1, <2>2 DEF RangesInv
  <1> QED  BY <1>2, <1>3

LEMMA RangesStart == CalmInit => RangesInv
  <1> SUFFICES ASSUME CalmInit PROVE RangesInv
      OBVIOUS
  <1>1. PriceInv
      BY PriceStart DEF CalmInit
  <1>2. \A p \in Proc : call[p] = Idle
      BY DEF CalmInit, Init
  <1>3. Apart
      BY StockAssumption DEF CalmInit, Init, Apart, Active
  <1>4. OneRanging /\ \A p \in Proc : Steady(call[p])
      BY <1>2, IdleRanging DEF OneRanging, Steady
  <1> QED  BY <1>1, <1>3, <1>4 DEF CalmInit, RangesInv, Served

\* As long as worker ranges are edited one call at a time, whatever else overlaps and
\* wherever calls stop, the ends of every active range are in order, no two active ranges
\* share a worker count and the open one is the highest: each save finds the row that was
\* checked, and writes it whole (admin-pricing.service.ts).
THEOREM RangesTheorem == CalmSpec => []RangesDisjoint
  <1>1. RangesInv => RangesDisjoint
      BY DEF RangesInv, Served, Apart, PriceInv, Ranged, RangesDisjoint
  <1> QED  BY <1>1, RangesStart, RangesStep, PTL DEF CalmSpec

-----------------------------------------------------------------------------
(* Served one by one *)

\* The answers of the queries change with the tables alone.
LEMMA SameAnswer ==
    ASSUME NEW ask, NEW part, UNCHANGED <<ranges, list, currency>>
    PROVE  Answer(ask, part)' = Answer(ask, part)
  BY DEF Answer, Live, Active

\* What a quotation has read is what the lists say.
Read(c) == c.pc = "read" => \A part \in DOMAIN c.seen : c.seen[part] = Answer(c.ask, part)

Quiet == \A p, q \in Proc : p # q => Idle \in {call[p], call[q]}

CalmInv ==
    /\ RangesInv
    /\ edits \in Nat /\ calm \in BOOLEAN
    /\ calm => alone /\ Quiet /\ \A p \in Proc : Read(call[p])

\* A call that goes on, or begins, while calm finds every other idle.
LEMMA GoRead ==
    ASSUME PriceInv, Quiet, Quiet', NEW p \in Proc, NEW c, Goto(p, c), Read(c)',
           call[p] # Idle \/ c # Idle
    PROVE  \A q \in Proc : Read(call[q])'
  <1>1. \A q \in Proc : call'[q] = IF q = p THEN c ELSE call[q]
      BY DEF PriceInv, Goto
  <1>2. Idle' = Idle /\ Read(Idle)'
      BY DEF Idle, Read
  <1>3. \A q \in Proc \ {p} : call[q] = Idle
      BY <1>1, <1>2 DEF Quiet
  <1> QED  BY <1>1, <1>2, <1>3

LEMMA PassRead ==
    ASSUME PriceInv, Quiet, Quiet', NEW p \in Proc, NEW c, Goto(p, c), c.pc # "read",
           call[p] # Idle \/ c # Idle
    PROVE  \A q \in Proc : Read(call[q])'
  <1>1. Read(c)'
      BY DEF Read
  <1> QED  BY <1>1, GoRead

LEMMA StepRead ==
    ASSUME PriceInv, Quiet, Quiet', \A q \in Proc : Read(call[q]), NEW p \in Proc, Step(p),
           edits' # edits => call = [q \in Proc |-> Idle], edits \in Nat
    PROVE  \A q \in Proc : Read(call[q])'
  <1>1. CASE \E r \in WorkerRange, new \in NewRange : CreateRange(p, r, new)
      BY <1>1, PassRead DEF CreateRange, Proceed, Idle
  <1>2. CASE \E r \in WorkerRange, patch \in RangePatch : UpdateRange(p, r, patch)
      BY <1>2, PassRead DEF UpdateRange, Proceed, Idle
  <1>3. CASE CheckOverlap(p) \/ RereadRange(p) \/ SaveRange(p) \/ RereadItem(p) \/ SaveItem(p)
             \/ SaveQuote(p) \/ Fail(p)
      BY <1>3, PassRead DEF CheckOverlap, RereadRange, SaveRange, RereadItem, SaveItem, SaveQuote, Fail, Idle
  <1>4. CASE UpdateLocation(p) \/ UpdateIndustry(p) \/ UpdateService(p)
      BY <1>4, PassRead DEF UpdateLocation, UpdateIndustry, UpdateService, UpdateItem, Idle
  <1>5. CASE \/ CreateLocation(p) \/ CreateIndustry(p) \/ CreateService(p)
             \/ \E c \in Currency : UpdateSetting(p, c)
    <2>1. edits' # edits /\ call' = call
        BY <1>5 DEF CreateLocation, CreateIndustry, CreateService, CreateItem, UpdateSetting, Edit
    <2>2. \A q \in Proc : call'[q].pc = "idle"
        BY <2>1 DEF Idle
    <2> QED  BY <2>2 DEF Read
  <1>6. CASE \E ask \in Ask : Quote(p, ask)
    <2>1. PICK ask \in Ask : Quote(p, ask)
        BY <1>6
    <2>2. PICK c : c = [pc |-> "read", ask |-> ask, seen |-> <<>>]
        OBVIOUS
    <2>3. Goto(p, c) /\ c # Idle
        BY <2>1, <2>2 DEF Quote, Idle
    <2>4. Read(c)'
        BY <2>2 DEF Read
    <2> QED  BY <2>3, <2>4, GoRead
  <1>7. CASE \E part \in Part : ReadPart(p, part)
    <2>1. PICK part \in Part : ReadPart(p, part)
        BY <1>7
    <2>2. PICK ask, seen : ask = call[p].ask /\ seen = call[p].seen
        OBVIOUS
    <2>3. PICK more : more = [x \in DOMAIN seen \cup {part} |->
                                 IF x = part THEN Answer(ask, part) ELSE seen[x]]
        OBVIOUS
    <2>4. PICK c : c = [pc |-> "read", ask |-> ask, seen |-> more]
        OBVIOUS
    <2>5. Goto(p, c) /\ UNCHANGED <<ranges, list, currency>> /\ call[p].pc = "read"
        BY <2>1, <2>2, <2>3, <2>4 DEF ReadPart
    <2>6. \A x \in DOMAIN seen : seen[x] = Answer(ask, x)
        BY <2>2, <2>5 DEF Read
    <2>7. \A x \in DOMAIN more : more[x] = Answer(ask, x)
        BY <2>3, <2>6
    <2>8. \A x \in DOMAIN more : more[x] = Answer(ask, x)'
        BY <2>5, <2>7, SameAnswer
    <2>9. Read(c)'
        BY <2>4, <2>8 DEF Read
    <2>10. c # Idle
        BY <2>4 DEF Idle
    <2> QED  BY <2>5, <2>9, <2>10, GoRead
  <1> QED  BY <1>1, <1>2, <1>3, <1>4, <1>5, <1>6, <1>7 DEF Step

LEMMA CalmBefore ==
    ASSUME calm \in BOOLEAN, edits \in Nat, CalmNext
    PROVE  /\ edits' \in Nat /\ calm' \in BOOLEAN
           /\ calm' => calm /\ Quiet' /\ (edits' # edits => call = [p \in Proc |-> Idle])
  <1>1. edits' \in Nat
    <2>1. edits' = edits \/ edits' = edits + 1
        BY DEF CalmNext, Next, Step, Edit, CreateRange, UpdateRange, CheckOverlap, RereadRange, SaveRange, CreateLocation,
           CreateIndustry, CreateService, CreateItem, UpdateLocation, UpdateIndustry, UpdateService,
           UpdateItem, RereadItem, SaveItem, UpdateSetting, Quote, ReadPart, SaveQuote, Fail
    <2> QED  BY <2>1
  <1> DEFINE Single == edits' # edits => call = [p \in Proc |-> Idle]
  <1>2. CASE calm /\ Quiet' /\ Single
      BY <1>1, <1>2 DEF CalmNext, Quiet
  <1>3. CASE ~(calm /\ Quiet' /\ Single)
    <2>1. calm' = FALSE
        BY <1>3 DEF CalmNext, Quiet
    <2> QED  BY <1>1, <2>1
  <1> QED  BY <1>2, <1>3

LEMMA CalmStep ==
    ASSUME CalmInv, [CalmNext]_calmVars
    PROVE  CalmInv'
  <1>1. RangesInv'
      BY RangesStep DEF CalmInv
  <1>2. CASE UNCHANGED calmVars
    <2>1. ASSUME \A p \in Proc : Read(call[p])
          PROVE  \A p \in Proc : Read(call[p])'
      <3>1. UNCHANGED <<ranges, list, currency, call>>
          BY <1>2 DEF calmVars, vars
      <3> QED  BY <2>1, <3>1, SameAnswer DEF Read
    <2>2. UNCHANGED <<edits, calm, alone>> /\ (Quiet => Quiet')
        BY <1>2 DEF calmVars, vars, Quiet, Idle
    <2> QED  BY <1>1, <2>1, <2>2 DEF CalmInv
  <1>3. CASE CalmNext
    <2>1. edits' \in Nat /\ calm' \in BOOLEAN
        BY <1>3, CalmBefore DEF CalmInv
    <2>2. ASSUME calm'
          PROVE  alone' /\ Quiet' /\ \A p \in Proc : Read(call[p])'
      <3>1. /\ PriceInv /\ Quiet /\ Quiet' /\ alone /\ \A p \in Proc : Read(call[p])
            /\ edits' # edits => call = [p \in Proc |-> Idle]
          BY <1>3, <2>2, CalmBefore DEF CalmInv, RangesInv
      <3>2. PICK p \in Proc : Step(p)
          BY <1>3 DEF CalmNext, Next
      <3>3. \A q \in Proc : Read(call[q])'
          BY <3>1, <3>2, StepRead DEF CalmInv
      <3>4. OneRanging'
          BY <3>1 DEF Quiet, OneRanging, Ranging, Idle
      <3>5. alone'
          BY <1>3, <3>1, <3>4, AloneBefore DEF CalmInv, RangesInv
      <3> QED  BY <3>1, <3>3, <3>5
    <2> QED  BY <1>1, <2>1, <2>2 DEF CalmInv
  <1> QED  BY <1>2, <1>3

LEMMA CalmStart == CalmInit => CalmInv
  <1> SUFFICES ASSUME CalmInit PROVE CalmInv
      OBVIOUS
  <1>1. \A p \in Proc : call[p] = Idle
      BY DEF CalmInit, Init
  <1>2. Quiet /\ \A p \in Proc : Read(call[p])
      BY <1>1 DEF Quiet, Read, Idle
  <1> QED  BY <1>2, RangesStart DEF CalmInit, Init, CalmInv

-----------------------------------------------------------------------------
(* A quotation saved while calm has the price of the lists *)

\* Of ranges apart at most one covers a worker count.
LEMMA OneCovers ==
    ASSUME PriceInv, Apart, NEW workers \in Nat, NEW range \in Covering(workers, PublicRanges)
    PROVE  range \in PublicRanges /\ Covering(workers, PublicRanges) = {range}
  <1>1. PICK r \in Active(ranges) : range = ranges[r]
      BY DEF Covering, PublicRanges
  <1>2. ASSUME NEW s \in Active(ranges), ranges[s] \in Covering(workers, PublicRanges)
        PROVE  ranges[s] = range
    <2> SUFFICES ASSUME s # r PROVE FALSE
        BY <1>1
    <2>1. ranges[r] \in RangeRow /\ ranges[s] \in RangeRow
        BY DEF PriceInv, Ranged, Active
    <2>2. /\ ranges[r].min <= workers /\ workers <= Top(ranges[r].max)
          /\ ranges[s].min <= workers /\ workers <= Top(ranges[s].max)
        BY <1>1, <1>2 DEF Covering
    <2>3. ranges[r].min \in Nat /\ ranges[s].min \in Nat /\ Top(ranges[r].max) \in Nat /\ Top(ranges[s].max) \in Nat
        BY <2>1, PricingAssumption DEF RangeRow, Top, Infinity
    <2>4. ranges[r].min <= Top(ranges[s].max) /\ Top(ranges[r].max) >= ranges[s].min
        BY <2>2, <2>3
    <2>5. ~Overlap(ranges[r], ranges[s])
        BY DEF Apart
    <2> QED  BY <2>4, <2>5 DEF Overlap
  <1> QED  BY <1>1, <1>2 DEF Covering, PublicRanges

\* What the reads of a call found, while calm, is what the lists say.
LEMMA SeenListed ==
    ASSUME PriceInv, NEW ask \in Ask, NEW seen, DOMAIN seen = Part, Priced(seen, ask),
           \A part \in DOMAIN seen : seen[part] = Answer(ask, part)
    PROVE  /\ seen.ranges = PublicRanges /\ seen.currency = currency
           /\ ask.location \in PublicLocations /\ seen.location = list[ask.location]
           /\ ask.industry \in PublicIndustries /\ seen.industry = list[ask.industry]
           /\ \A s \in ask.services : list[s].active /\ seen.services[s] = list[s]
  <1>1. /\ seen.ranges = Answer(ask, "ranges") /\ seen.location = Answer(ask, "location")
        /\ seen.industry = Answer(ask, "industry") /\ seen.services = Answer(ask, "services")
        /\ seen.currency = Answer(ask, "currency")
      BY DEF Part
  <1>2. /\ seen.ranges = PublicRanges /\ seen.currency = currency
        /\ seen.location = Live(ask.location) /\ seen.industry = Live(ask.industry)
        /\ seen.services = [s \in ask.services |-> Live(s)]
      BY <1>1 DEF Answer, PublicRanges
  <1>3. /\ ask.location \in PublicLocations /\ seen.location = list[ask.location]
        /\ ask.industry \in PublicIndustries /\ seen.industry = list[ask.industry]
      BY <1>2, AskedItems DEF Priced, Live, PublicLocations, PublicIndustries
  <1>4. \A s \in ask.services : list[s].active /\ seen.services[s] = list[s]
      BY <1>2 DEF Priced, Live
  <1> QED  BY <1>2, <1>3, <1>4

\* The price of the lists, once the reads are what they say.
LEMMA PriceListed ==
    ASSUME PriceInv, NEW ask \in Ask, NEW seen, Found(ask, seen), DOMAIN seen = Part, Priced(seen, ask),
           \A part \in DOMAIN seen : seen[part] = Answer(ask, part), NEW range
    PROVE  ListPrice(ask, range) =
               Scaled(range, seen.location, seen.industry)
               + Unit * Unit * (ServiceTotal(seen.services) + seen.location.fee
                                + (IF ask.staff THEN ask.gov - ask.discount ELSE 0))
  <1>1. /\ seen.location = list[ask.location] /\ seen.industry = list[ask.industry]
        /\ \A s \in ask.services : seen.services[s] = list[s]
      BY SeenListed
  <1>2. \A s \in ask.services : seen.services[s].price \in Nat /\ list[s].price = seen.services[s].price
      BY <1>1 DEF Found, Part, Priced, ServiceRow
  <1>3. IsFiniteSet(ask.services)
      BY AskedItems, PricingAssumption, FS_Subset
  <1>4. Total(list, ask.services) = Total(seen.services, ask.services)
      BY <1>2, <1>3, TotalIs
  <1>5. DOMAIN seen.services = ask.services
      BY DEF Found, Part
  <1>6. MapThenSumSet(LAMBDA s : list[s].price, ask.services) = ServiceTotal(seen.services)
      BY <1>4, <1>5 DEF ServiceTotal, Total
  <1> QED  BY <1>1, <1>6 DEF ListPrice

\* t cents within half a cent of an amount are so whatever whole cents are added to both.
LEMMA AddedCents ==
    ASSUME NEW d \in Nat, NEW sc \in Nat, NEW st \in Nat, NEW fee \in Nat, NEW extra \in Int, NEW t \in Int,
           2 * t * d - 2 * (sc + d * st + d * fee) \in -d..d
    PROVE  2 * ((t + extra) * d - (sc + d * (st + fee + extra))) \in -d..d
  <1>1. (t + extra) * d = t * d + d * extra /\ d * (st + fee + extra) = d * st + d * fee + d * extra
      OBVIOUS
  <1>2. t * d \in Int /\ d * extra \in Int /\ d * st \in Int /\ d * fee \in Int /\ 2 * t * d = 2 * (t * d)
      OBVIOUS
  <1>3. (t + extra) * d - (sc + d * (st + fee + extra)) = t * d - (sc + d * st + d * fee)
      BY <1>1, <1>2
  <1> QED  BY <1>2, <1>3

FromList(q) ==
    /\ q.ask.location \in PublicLocations /\ q.ask.industry \in PublicIndustries
    /\ \A s \in q.ask.services : list[s].active
    /\ \E range \in PublicRanges :
          /\ Covering(q.ask.workers, PublicRanges) = {range}
          /\ 2 * (q.total * Unit * Unit - ListPrice(q.ask, range)) \in -(Unit * Unit)..(Unit * Unit)
    /\ q.currency = IF currency = None THEN Default ELSE currency

LEMMA SavedFromList ==
    ASSUME PriceInv, Apart, \A q \in Proc : Read(call[q]), NEW p \in Proc, SaveQuote(p)
    PROVE  \A q \in quotes' \ quotes : FromList(q)
  <1>1. PICK ask, seen : ask = call[p].ask /\ seen = call[p].seen
      OBVIOUS
  <1>2. ask \in Ask /\ Found(ask, seen) /\ DOMAIN seen = Part /\ Priced(seen, ask)
      BY <1>1, QuoteSaved
  <1>3. \A part \in DOMAIN seen : seen[part] = Answer(ask, part)
      BY <1>1, QuoteSaved DEF Read
  <1>4. PICK range \in Covering(ask.workers, seen.ranges) :
          \E sums \in Sums(seen, range) :
            \/ ask.staff /\ quotes' = quotes \cup {StaffQuote(ask, seen, sums)}
            \/ ~ask.staff /\ quotes' = quotes \cup {CustomerQuote(ask, seen, sums)}
      BY <1>1, QuoteSaved
  <1>5. PICK sums \in Sums(seen, range) :
            \/ ask.staff /\ quotes' = quotes \cup {StaffQuote(ask, seen, sums)}
            \/ ~ask.staff /\ quotes' = quotes \cup {CustomerQuote(ask, seen, sums)}
      BY <1>4
  <1> DEFINE fee == seen.location.fee
             st == ServiceTotal(seen.services)
             d == Unit * Unit
             sc == Scaled(range, seen.location, seen.industry)
             extra == IF ask.staff THEN ask.gov - ask.discount ELSE 0
             total == sums.total + extra
  <1>6. /\ range \in RangeRow /\ seen.location \in LocationRow /\ seen.industry \in IndustryRow
        /\ st \in Nat
      BY <1>2, SeenPriced
  <1>7. /\ d \in Nat \ {0} /\ fee \in Nat /\ sc \in Nat /\ sums.total \in Int
        /\ 2 * sums.total * d - 2 * (sc + d * st + d * fee) \in -d..d
      BY <1>6, SumsAre
  <1>8. extra \in Int
      BY <1>2, AskedItems
  <1>9. 2 * (total * d - (sc + d * (st + fee + extra))) \in -d..d
    <2> HIDE DEF d, fee, sc, st, extra
    <2> QED  BY <1>6, <1>7, <1>8, AddedCents
  <1>10. ListPrice(ask, range) = sc + d * (st + fee + extra)
      BY <1>2, <1>3, PriceListed
  <1>11. total * Unit * Unit = total * d /\ total \in Int
    <2>1. Unit \in Int /\ total \in Int
      <3> HIDE DEF extra
      <3> QED  BY <1>7, <1>8, PricingAssumption
    <2> HIDE DEF total
    <2> QED  BY <2>1
  <1>12. 2 * (total * Unit * Unit - ListPrice(ask, range)) \in -(Unit * Unit)..(Unit * Unit)
    <2> HIDE DEF total, sc, st, fee, extra
    <2> QED  BY <1>9, <1>10, <1>11
  <1>13. /\ seen.ranges = PublicRanges /\ seen.currency = currency
         /\ ask.location \in PublicLocations /\ ask.industry \in PublicIndustries
         /\ \A s \in ask.services : list[s].active
      BY <1>2, <1>3, SeenListed
  <1>14. range \in PublicRanges /\ Covering(ask.workers, PublicRanges) = {range}
    <2>1. ask.workers \in Nat
        BY <1>2, AskedItems, PricingAssumption
    <2> QED  BY <1>13, <2>1, OneCovers
  <1>15. ASSUME NEW q \in quotes' \ quotes
         PROVE  q.ask = ask /\ q.total = total /\ q.currency = Money(seen)
    <2>1. CASE ask.staff
      <3>1. q = StaffQuote(ask, seen, sums)
          BY <1>5, <2>1
      <3>2. q.ask = ask /\ q.total = sums.total + ask.gov - ask.discount /\ q.currency = Money(seen)
          BY <3>1 DEF StaffQuote
      <3>3. ask.gov \in Nat /\ ask.discount \in Nat
          BY <1>2, AskedItems
      <3> QED  BY <1>7, <2>1, <3>2, <3>3
    <2>2. CASE ~ask.staff
      <3>1. q = CustomerQuote(ask, seen, sums)
          BY <1>5, <2>2
      <3>2. q.ask = ask /\ q.total = sums.total /\ q.currency = Money(seen)
          BY <3>1 DEF CustomerQuote
      <3> QED  BY <1>7, <2>2, <3>2
    <2> QED  BY <2>1, <2>2
  <1> HIDE DEF total
  <1> QED  BY <1>12, <1>13, <1>14, <1>15 DEF FromList, Money

\* Served one by one, a quotation has the price the public lists give when it is saved: its
\* five reads are of one list, of the ranges apart one covers its workers, and the sum over the
\* services it read is the sum over the list.
THEOREM QuotedTheorem == CalmSpec => QuotedFromList
  <1>1. ASSUME CalmInv, [CalmNext]_calmVars, calm', NEW q \in quotes' \ quotes
        PROVE  FromList(q)
    <2>1. CalmNext
        BY <1>1 DEF calmVars, vars
    <2>2. PriceInv /\ Apart /\ \A p \in Proc : Read(call[p])
        BY <1>1, <2>1, CalmBefore DEF CalmInv, RangesInv, Served
    <2>3. PICK p \in Proc : SaveQuote(p)
        BY <1>1, <2>1 DEF CalmNext, Next, Step, CreateRange, UpdateRange, CheckOverlap, RereadRange, SaveRange, CreateLocation,
           CreateIndustry, CreateService, CreateItem, UpdateLocation, UpdateIndustry, UpdateService,
           UpdateItem, RereadItem, SaveItem, UpdateSetting, Quote, ReadPart, Fail
    <2> QED  BY <1>1, <2>2, <2>3, SavedFromList
  <1>2. CalmInv /\ [CalmNext]_calmVars =>
            [calm' => \A q \in quotes' \ quotes :
               /\ q.ask.location \in PublicLocations /\ q.ask.industry \in PublicIndustries
               /\ \A s \in q.ask.services : list[s].active
               /\ \E range \in PublicRanges :
                     /\ Covering(q.ask.workers, PublicRanges) = {range}
                     /\ 2 * (q.total * Unit * Unit - ListPrice(q.ask, range)) \in -(Unit * Unit)..(Unit * Unit)
               /\ q.currency = IF currency = None THEN Default ELSE currency]_calmVars
      BY <1>1 DEF FromList
  <1> QED  BY <1>2, CalmStart, CalmStep, PTL DEF CalmSpec, QuotedFromList
=============================================================================
