----------------------------- MODULE MCDocuments -----------------------------
(***************************************************************************)
(* Documents on a small instance: a customer, the agent assigned to the    *)
(* customer, the customer's manager and an admin, or some of them.         *)
(***************************************************************************)
EXTENDS DocumentsProperties, TLC

CONSTANTS c1, a1, m1, adm

MCRoleOf == [a \in Actor |->
    CASE a = c1  -> "customer"
      [] a = a1  -> "agent"
      [] a = m1  -> "manager"
      [] a = adm -> "admin"]

MCOwner == [d \in Doc |-> c1]

MCServes == {<<a, c1>> : a \in Actor \cap {a1, m1}}

\* Ids are handed out by the database and compared only for equality.
Ids == Permutations(Version) \cup Permutations(Proc)
=============================================================================
