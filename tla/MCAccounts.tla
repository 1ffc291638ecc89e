----------------------------- MODULE MCAccounts -----------------------------
(***************************************************************************)
(* Accounts on a small instance: two administrators and a customer are     *)
(* signed in, two managers can be assigned, one id is free.                *)
(***************************************************************************)
EXTENDS AccountsProperties, TLC

CONSTANTS a1, a2, c1, m1, m2, t1, t2, t3, old

Row(role, status) ==
    [role |-> role, isActive |-> TRUE, status |-> status, validFrom |-> 0, password |-> old]

\* The customer waits for approval and m2 is a manager, or is approved and looked after
\* by m1, and m2 is an agent.
MCPopulation ==
    {[users |-> [u \in User |-> CASE u \in {a1, a2} -> Row("admin", "approved")
                                  [] u = m1 -> Row("manager", "approved")
                                  [] u = m2 -> Row(IF new THEN "manager" ELSE "agent", "approved")
                                  [] u = c1 -> Row("customer", IF new THEN "pending_approval" ELSE "approved")
                                  [] OTHER  -> None],
      manager |-> [u \in User |-> IF u = c1 /\ m1 \in User /\ ~new THEN m1 ELSE None]] : new \in BOOLEAN}

MCSignedIn == [t \in Token |-> CASE t = t1 -> a1 [] t = t2 -> a2 [] t = t3 -> c1 [] OTHER -> None]

Symmetry == Permutations(Proc)

=============================================================================
