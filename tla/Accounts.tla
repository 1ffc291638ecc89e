------------------------------ MODULE Accounts ------------------------------
(***************************************************************************)
(* Sessions composed with the administration of accounts: staff accounts,  *)
(* the approval of customers, and who looks after which customer           *)
(* (modules/admin/admin-user.service.ts, admin-customer.service.ts,        *)
(* assignments/assignment.service.ts, users/user.service.ts).              *)
(*                                                                         *)
(* A handler starts where authenticate let its caller through; its first   *)
(* reads are part of that step.                                            *)
(***************************************************************************)
EXTENDS Sessions, Sequences

CONSTANTS
    Population, \* what a behaviour may start from: the users, and customer -> manager or None
    SignedIn,   \* token -> the user who holds it at the start, or None
    Offered,    \* bound: the kinds of calls that may change something, of session, account, assignment
    MaxWrites   \* bound: how many of them are made

VARIABLES
    manager, \* customer_manager_assignments: customer -> manager or None
    log,     \* customer_manager_assignment_log: customer -> rows
    agents,  \* agent_customer_assignments: pairs <<agent, customer>>
    writes   \* calls started that may change something

assignments == <<manager, log, agents>>

vars == <<users, tokens, mirror, issued, cache, resets, clock, call, manager, log, agents, writes>>

LogRow == [from: User \cup {None}, to: User]

ASSUME AccountsAssumption ==
    /\ None \notin User \cup Token \cup Reset \cup UserRow \cup TokenRow \cup SessionState \cup Role \cup BOOLEAN
    /\ IsFiniteSet(User)
    /\ Population \subseteq [users: [User -> UserRow \cup {None}], manager: [User -> User \cup {None}]]
    /\ SignedIn \in [Token -> User \cup {None}]
    /\ MaxTime \in Nat \ {0}
    /\ MaxWrites \in Nat
    /\ \A pop \in Population :
          /\ \A t \in Token : SignedIn[t] # None => pop.users[SignedIn[t]] # None
          \* no cut-off lies ahead of the clock
          /\ \A u \in User : pop.users[u] # None => pop.users[u].validFrom <= 1

Init ==
    /\ \E pop \in Population : users = pop.users /\ manager = pop.manager
    /\ tokens = [t \in Token |-> IF SignedIn[t] = None THEN None
                                 ELSE [user |-> SignedIn[t], iat |-> 1, revoked |-> FALSE, parent |-> None]]
    /\ mirror = {t \in Token : SignedIn[t] # None}
    /\ issued = {t \in Token : SignedIn[t] # None}
    /\ cache = [u \in User |-> None]
    /\ resets = [k \in Reset |-> None]
    /\ clock = 1
    /\ call = [p \in Proc |-> Idle]
    /\ log = [c \in User |-> IF manager[c] = None THEN <<>> ELSE <<[from |-> None, to |-> manager[c]]>>]
    /\ agents = {}
    /\ writes = 0

HasRole(u, role) == users[u] # None /\ users[u].role = role

\* The row of a user under a handler that will save it.
Saving(op, u, row) == [pc |-> "save_user", op |-> op, on |-> u, row |-> row]

-----------------------------------------------------------------------------
(* The caller's own profile: updateCurrentUser (name, phone, address) *)

UpdateCurrentUser(p) ==
    /\ Admitted(p, <<"users", "updateCurrentUser">>)
    /\ Goto(p, Saving("profile", Caller(p), users[Caller(p)]))
    /\ UNCHANGED store

-----------------------------------------------------------------------------
(* adminUserService *)

\* createUser: the column default leaves every account made here approved.
CreateUser(p, u, role, pw) ==
    /\ Admitted(p, <<"admin", "createUser">>)
    /\ users[u] = None
    /\ Goto(p, [pc |-> "insert_user", op |-> "create", on |-> u,
                row |-> [role |-> role, isActive |-> TRUE, status |-> "approved",
                         validFrom |-> 0, password |-> pw]])
    /\ UNCHANGED store

ActiveAdmins == {u \in User : HasRole(u, "admin") /\ users[u].isActive}

\* updateUser, setUserStatus; None leaves a column alone.
UpdateUser(p, u, role, active) ==
    /\ \/ Admitted(p, <<"admin", "updateUser">>)
       \/ role = None /\ active # None /\ Admitted(p, <<"admin", "setUserStatus">>)
    /\ users[u] # None
    /\ u = Caller(p) => role \in {None, "admin"} /\ active # FALSE
    /\ LET row == users[u]
           new == [row EXCEPT !.role = IF role = None THEN @ ELSE role,
                              !.isActive = IF active = None THEN @ ELSE active]
           op == IF new # row THEN "update_access" ELSE "update"
           losing == row.role = "admin" /\ (new.role # "admin" \/ (row.isActive /\ ~new.isActive))
       IN  Goto(p, [pc |-> IF losing THEN "count_admins" ELSE "save_user", op |-> op, on |-> u, row |-> new])
    /\ UNCHANGED store

CountAdmins(p) ==
    /\ At(p, "count_admins")
    /\ IF Cardinality(ActiveAdmins) <= 1 THEN Done(p) ELSE Goto(p, Saving(call[p].op, call[p].on, call[p].row))
    /\ UNCHANGED store

-----------------------------------------------------------------------------
(* adminCustomerService *)

\* approve assigns the manager before it flips the account.
Approve_FlipsFirst(p, c, m) ==  \* mutant
    /\ Admitted(p, <<"admin", "approve">>)
    /\ HasRole(c, "customer")
    /\ Goto(p, Saving("approve", c, [users[c] EXCEPT !.status = "approved"]))
    /\ UNCHANGED store
Approve(p, c, m) ==
    /\ Admitted(p, <<"admin", "approve">>)
    /\ HasRole(c, "customer")
    /\ Goto(p, [pc |-> "find_manager", op |-> "approve", on |-> c, to |-> m, row |-> users[c]])
    /\ UNCHANGED store

Suspend(p, c) ==
    /\ Admitted(p, <<"admin", "suspend">>)
    /\ HasRole(c, "customer")
    /\ Goto(p, Saving("suspend", c, [users[c] EXCEPT !.status = "suspended"]))
    /\ UNCHANGED store

Reactivate(p, c) ==
    /\ Admitted(p, <<"admin", "reactivate">>)
    /\ HasRole(c, "customer")
    /\ Goto(p, Saving("reactivate", c, [users[c] EXCEPT !.status = "approved"]))
    /\ UNCHANGED store

ReassignManager(p, c, m) ==
    /\ Admitted(p, <<"admin", "reassignManager">>)
    /\ HasRole(c, "customer")
    /\ Goto(p, [pc |-> "find_manager", op |-> "reassign", on |-> c, to |-> m, row |-> users[c]])
    /\ UNCHANGED store

-----------------------------------------------------------------------------
(* assignmentService *)

\* setManager checks both roles, reads the row there is (outside the transaction) ...
FindManager(p) ==
    /\ At(p, "find_manager")
    /\ LET c == call[p]
       IN  IF HasRole(c.on, "customer") /\ HasRole(c.to, "manager")
           THEN Goto(p, [pc |-> "set_manager", op |-> c.op, on |-> c.on, to |-> c.to, row |-> c.row,
                         found |-> manager[c.on]])
           ELSE Done(p)
    /\ UNCHANGED <<store, assignments>>

\* ... and saves it, with a log row when the manager is not the one it read. The
\* unique index refuses a second row of a customer.
SetManager_Unlogged(p) ==  \* mutant
    /\ At(p, "set_manager")
    /\ LET c == call[p]
       IN  IF c.found = None /\ manager[c.on] # None
           THEN Done(p) /\ UNCHANGED <<manager, log>>
           ELSE /\ manager' = [manager EXCEPT ![c.on] = c.to]
                /\ log' = IF c.found # None THEN log
                          ELSE [log EXCEPT ![c.on] = Append(@, [from |-> c.found, to |-> c.to])]
                /\ IF c.op = "approve" THEN Goto(p, Saving("approve", c.on, [c.row EXCEPT !.status = "approved"]))
                                       ELSE Done(p)
    /\ UNCHANGED <<store, agents>>
SetManager(p) ==
    /\ At(p, "set_manager")
    /\ LET c == call[p]
       IN  IF c.found = None /\ manager[c.on] # None
           THEN Done(p) /\ UNCHANGED <<manager, log>>
           ELSE /\ manager' = [manager EXCEPT ![c.on] = c.to]
                /\ log' = IF c.found = c.to THEN log
                          ELSE [log EXCEPT ![c.on] = Append(@, [from |-> c.found, to |-> c.to])]
                /\ IF c.op = "approve" THEN Goto(p, Saving("approve", c.on, [c.row EXCEPT !.status = "approved"]))
                                       ELSE Done(p)
    /\ UNCHANGED <<store, agents>>

\* assign checks both ends and looks for the pair; assigning it again is no error ...
Assign(p, a, c) ==
    /\ Admitted(p, <<"manager", "assign">>)
    /\ HasRole(a, "agent")
    /\ HasRole(c, "customer")
    /\ Goto(p, [pc |-> "save_pair", pair |-> <<a, c>>, found |-> <<a, c>> \in agents])
    /\ UNCHANGED store

\* ... a second insert of the same pair is refused by the unique index.
SavePair(p) ==
    /\ At(p, "save_pair")
    /\ agents' = agents \cup {call[p].pair}
    /\ Done(p)
    /\ UNCHANGED <<store, manager, log>>

\* removeById (and unassign) of a pair that is there ...
Unassign(p, pair) ==
    /\ Admitted(p, <<"manager", "removeAssignment">>)
    /\ pair \in agents
    /\ Goto(p, [pc |-> "delete_pair", pair |-> pair])
    /\ UNCHANGED store

DeletePair(p) ==
    /\ At(p, "delete_pair")
    /\ agents' = agents \ {call[p].pair}
    /\ Done(p)
    /\ UNCHANGED <<store, manager, log>>

-----------------------------------------------------------------------------

\* Calls that may change something, from their first step.
SessionWrite(p) ==
    \/ \E u \in User, pw \in Password : Register(p, u, pw) \/ Login(p, u, pw)
    \/ \E t \in Token : Refresh(p, t) \/ Logout(p, t)
    \/ \E u \in User : ForgotPassword(p, u)
    \/ \E k \in Reset, pw \in Password : ConsumeReset(p, k, pw)
    \/ UpdateCurrentUser(p)
    \/ \E u \in User, role \in Role, pw \in Password : CreateUser(p, u, role, pw)
    \/ \E c \in User : Suspend(p, c)

AccountWrite(p) ==
    \/ \E u \in User, role \in Role \cup {None}, active \in BOOLEAN \cup {None} : UpdateUser(p, u, role, active)
    \/ \E c \in User : Reactivate(p, c)

AssignmentWrite(p) ==
    \/ \E c, m \in User : Approve(p, c, m) \/ ReassignManager(p, c, m) \/ Assign(p, m, c)
    \/ \E pair \in agents : Unassign(p, pair)

StartWrite(p) ==
    \/ "session" \in Offered /\ SessionWrite(p)
    \/ "account" \in Offered /\ AccountWrite(p)
    \/ "assignment" \in Offered /\ AssignmentWrite(p)

\* The steps of a call under way.
Step(p) ==
    \/ InsertUser(p)
    \/ \E t \in Token : Mint(p, t)
    \/ MirrorToken(p)
    \/ RefreshRow(p) \/ RefreshUser(p) \/ Unmirror(p) \/ Revoke(p)
    \/ \E k \in Reset : IssueReset(p, k)
    \/ ResetUser(p) \/ SaveUser(p) \/ RevokeAll(p) \/ CutOff(p) \/ Uncache(p)
    \/ LoadState(p) \/ FillCache(p)
    \/ CountAdmins(p)

AssignmentStep(p) == FindManager(p) \/ SetManager(p) \/ SavePair(p) \/ DeletePair(p)

\* An error, or a process that dies, between two steps.
Abandon(p) ==
    /\ call[p] # Idle
    /\ Done(p)
    /\ UNCHANGED store

Serving(p) ==
    \/ /\ writes < MaxWrites
       /\ writes' = writes + 1
       /\ StartWrite(p)
       /\ UNCHANGED assignments
    \/ /\ \/ \E t \in Token : Request(p, t)
          \/ Refuse(p) \/ Serve(p) \/ Step(p)
       /\ UNCHANGED <<assignments, writes>>
    \/ AssignmentStep(p) /\ UNCHANGED writes

Faulty(p) == (Abandon(p) \/ UncacheFails(p)) /\ UNCHANGED <<assignments, writes>>

Time ==
    /\ \/ Tick
       \/ \E u \in User : ExpireState(u)
       \/ \E k \in Reset : ExpireReset(k)
    /\ UNCHANGED <<assignments, writes>>

Next ==
    \/ \E p \in Proc : (Serving(p) \/ Faulty(p)) /\ UNCHANGED clock
    \/ Time

Spec == Init /\ [][Next]_vars
=============================================================================
