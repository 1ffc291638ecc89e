------------------------------ MODULE MCBilling ------------------------------
(***************************************************************************)
(* Billing on a small instance: every quotation is for two cents, paid   *)
(* in amounts of one and two.                                              *)
(***************************************************************************)
EXTENDS BillingProperties, TLC

MCPrice == [q \in Quotation |-> 2]

\* Ids are compared only for equality.
Ids == Permutations(Quotation) \cup Permutations(Invoice) \cup Permutations(Proc)
=============================================================================
