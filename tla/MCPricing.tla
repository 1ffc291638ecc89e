----------------------------- MODULE MCPricing -----------------------------
(***************************************************************************)
(* Pricing on a small instance: two worker ranges to start with, one of    *)
(* them retired, a city that costs half as much again, and prices that     *)
(* meet half a cent.                                                       *)
(***************************************************************************)
EXTENDS PricingProperties, TLC

CONSTANTS r1, r2, r3, l1, l2, i1, i2, s1, s2

MCStock ==
    r1 :> [min |-> 1, max |-> 2, price |-> 3, active |-> TRUE]
    @@ r2 :> [min |-> 3, max |-> None, price |-> 5, active |-> FALSE]
    @@ r3 :> None
    @@ l1 :> [multiplier |-> 3, fee |-> 1, active |-> TRUE]
    @@ l2 :> None
    @@ i1 :> [weight |-> 2, active |-> TRUE]
    @@ i2 :> None
    @@ s1 :> [price |-> 2, active |-> TRUE]
    @@ s2 :> None

MCNewRange ==
    {[min |-> 2, max |-> 3, price |-> 7, active |-> TRUE],
     [min |-> 3, max |-> 3, price |-> 7, active |-> TRUE],
     [min |-> 0, max |-> 1, price |-> 7, active |-> FALSE]}

MCRangePatch ==
    {[min |-> Keep, max |-> Keep, price |-> Keep, active |-> TRUE],
     [min |-> Keep, max |-> Keep, price |-> Keep, active |-> FALSE],
     [min |-> Keep, max |-> 3, price |-> Keep, active |-> Keep],
     [min |-> 3, max |-> Keep, price |-> Keep, active |-> Keep],
     [min |-> Keep, max |-> None, price |-> Keep, active |-> Keep]}

MCNewRow == [i \in Item |->
    IF i \in Location THEN {[multiplier |-> 2, fee |-> 0, active |-> TRUE]}
    ELSE IF i \in Industry THEN {[weight |-> 1, active |-> TRUE]}
    ELSE {[price |-> 4, active |-> TRUE]}]

MCRowPatch == [i \in Item |->
    IF i \in Location THEN {[multiplier |-> 2, fee |-> 0, active |-> Keep]}
    ELSE IF i \in Industry THEN {[weight |-> 1, active |-> Keep]}
    ELSE {[price |-> Keep, active |-> FALSE], [price |-> Keep, active |-> TRUE]}]

MCAsk ==
    {[staff |-> TRUE, workers |-> 2, location |-> l1, industry |-> i1, services |-> {s1}, gov |-> 1, discount |-> 7],
     [staff |-> FALSE, workers |-> 3, location |-> l1, industry |-> i1, services |-> {}, gov |-> 0, discount |-> 0]}

Symmetry == Permutations(Proc)
=============================================================================
