---------------------------- MODULE AccountsProofs ----------------------------
(***************************************************************************)
(* Sessions, accounts and assignments, for every set of users, tokens and  *)
(* handlers, every population to start from and every bound.               *)
(***************************************************************************)
EXTENDS AccountsProperties, SequenceTheorems, TLAPS

-----------------------------------------------------------------------------
(* What each call carries *)

OfUser ==
    {"issue_reset", "revoke_all", "cut_off", "uncache", "reset_user", "save_user",
     "count_admins", "find_manager", "set_manager"}
OfToken == {"refresh_row", "refresh_user", "unmirror", "revoke", "load", "fill", "decide"}

\* The row a call will save, insert or flip.
WithRow == {"insert_user", "save_user", "count_admins", "find_manager", "set_manager"}

LEMMA CallFields ==
    ASSUME NEW c \in Call
    PROVE  /\ c.pc \in OfUser \cup {"insert_user"} => c.on \in User
           /\ c.pc \in OfToken \cup {"mirror"} => c.token \in Token
           /\ c.pc \in WithRow => c.row \in UserRow
           /\ c.pc = "mint" => c.user \in User /\ c.parent \in Token \cup {None}
           /\ c.pc \in {"fill", "decide"} => c.state \in SessionState
           /\ c.pc = "reset_user" => c.reset \in Reset /\ c.password \in Password
           /\ c.pc \in {"unmirror", "revoke"} => c.op \in {"refresh", "logout"}
           /\ c.pc \in {"find_manager", "set_manager"} => c.op \in {"approve", "reassign"} /\ c.to \in User
           /\ c.pc = "set_manager" => c.found \in User \cup {None}
           /\ c.pc \in {"save_pair", "delete_pair"} => c.pair \in User \X User
           /\ c.pc = "count_admins" =>
                c.op \in {"profile", "update", "update_access", "approve", "suspend", "reactivate"}
  BY DEF Call, Idle, OfUser, OfToken, WithRow
-----------------------------------------------------------------------------
(* Types, and the rows a call relies on *)

\* The user a call is about has a row for good; a token comes to its user once, when its
\* row is there, and only then is it refreshed, used or revoked; what is being revoked has
\* left the mirror.
Backed(c, usrs, toks, out, mirr) ==
    /\ c.pc = "mint" => usrs[c.user] # None
    /\ c.pc \in OfUser => usrs[c.on] # None
    /\ c.pc = "mirror" => toks[c.token] # None /\ c.token \notin out
    /\ c.pc \in OfToken => c.token \in out
    /\ c.pc = "revoke" => c.token \notin mirr

TablesInv ==
    /\ users \in [User -> UserRow \cup {None}]
    /\ tokens \in [Token -> TokenRow \cup {None}]
    /\ mirror \subseteq Token
    /\ issued \subseteq Token
    /\ cache \in [User -> SessionState \cup {None}]
    /\ resets \in [Reset -> User \cup {None}]
    /\ clock \in 1..MaxTime
    /\ manager \in [User -> User \cup {None}]
    /\ log \in [User -> Seq(LogRow)]
    /\ agents \subseteq User \X User
    /\ writes \in 0..MaxWrites
    /\ \A t \in issued : tokens[t] # None
    /\ \A t \in Token : tokens[t] # None => users[tokens[t].user] # None
    /\ \A k \in Reset : resets[k] # None => users[resets[k]] # None

CallsInv ==
    /\ call \in [Proc -> Call]
    /\ \A p \in Proc : Backed(call[p], users, tokens, issued, mirror)
    /\ \A p, q \in Proc :
          call[p].pc = "mirror" /\ call[q].pc = "mirror" /\ call[p].token = call[q].token => p = q

SignInv == TablesInv /\ CallsInv

\* What a step may do to the tables the other calls rely on.
Grows(p) ==
    /\ \A u \in User : users[u] # None => users'[u] # None
    /\ \A t \in Token : tokens[t] # None => tokens'[t] # None
    /\ issued \subseteq issued'
    /\ \A t \in issued' \ issued : call[p].pc = "mirror" /\ t = call[p].token
    /\ \A t \in mirror' \ mirror : t \notin issued

LEMMA CallMoves ==
    ASSUME SignInv, NEW p \in Proc, Grows(p), NEW d \in Call,
           call' = [call EXCEPT ![p] = d],
           Backed(d, users', tokens', issued', mirror'),
           d.pc = "mirror" => tokens[d.token] = None
    PROVE  CallsInv'
  <1>1. ASSUME NEW q \in Proc, q # p
        PROVE  call'[q] = call[q] /\ Backed(call'[q], users', tokens', issued', mirror')
    <2>1. call'[q] = call[q] /\ call[q] \in Call /\ Backed(call[q], users, tokens, issued, mirror)
        BY <1>1 DEF SignInv, CallsInv
    <2>2. /\ call[q].pc \in OfUser => call[q].on \in User
          /\ call[q].pc \in OfToken \cup {"mirror"} => call[q].token \in Token
          /\ call[q].pc = "mint" => call[q].user \in User
        BY <2>1, CallFields
    <2>3. call[p].pc = "mirror" /\ call[q].pc = "mirror" => call[p].token # call[q].token
        BY <1>1 DEF SignInv, CallsInv
    <2>4. call[q].pc = "revoke" => call[q].token \in issued
        BY <2>1 DEF Backed, OfToken
    <2> QED  BY <2>1, <2>2, <2>3, <2>4 DEF Grows, Backed
  <1>2. call'[p] = d /\ call' \in [Proc -> Call]
      BY DEF SignInv, CallsInv
  <1>3. ASSUME NEW q \in Proc, call[q].pc = "mirror"
        PROVE  tokens[call[q].token] # None
      BY <1>3 DEF SignInv, CallsInv, Backed
  <1>4. ASSUME NEW q \in Proc, NEW r \in Proc,
               call'[q].pc = "mirror", call'[r].pc = "mirror", call'[q].token = call'[r].token
        PROVE  q = r
    <2>1. ASSUME q # p, r # p PROVE q = r
        BY <1>1, <1>4, <2>1 DEF SignInv, CallsInv
    <2>2. ASSUME q # p, r = p PROVE FALSE
        BY <1>1, <1>2, <1>3, <1>4, <2>2
    <2>3. ASSUME q = p, r # p PROVE FALSE
        BY <1>1, <1>2, <1>3, <1>4, <2>3
    <2> QED  BY <2>1, <2>2, <2>3
  <1> QED  BY <1>1, <1>2, <1>4 DEF CallsInv

\* A step that only looks.
LEMMA CallLooks ==
    ASSUME SignInv, NEW p \in Proc, NEW d \in Call, Goto(p, d),
           UNCHANGED <<store, clock, assignments>>, writes' \in 0..MaxWrites,
           Backed(d, users, tokens, issued, mirror), d.pc # "mirror"
    PROVE  SignInv'
  <1> USE DEF store, assignments
  <1>1. TablesInv'
      BY DEF SignInv, TablesInv
  <1>2. Grows(p)
      BY DEF Grows
  <1>3. CallsInv'
      BY <1>2, CallMoves DEF Goto
  <1> QED  BY <1>1, <1>3 DEF SignInv

LEMMA RowTypes ==
    ASSUME SignInv
    PROVE  /\ \A u \in User : users[u] # None => users[u] \in UserRow
           /\ \A t \in Token : tokens[t] # None => tokens[t] \in TokenRow /\ users[tokens[t].user] # None
           /\ \A row \in UserRow : State(row) \in SessionState
           /\ \A row \in UserRow, pw \in Password : [row EXCEPT !.password = pw] \in UserRow
           /\ \A row \in UserRow, s \in AccountStatus : [row EXCEPT !.status = s] \in UserRow
           /\ \A row \in UserRow, n \in 0..MaxTime : [row EXCEPT !.validFrom = n] \in UserRow
  BY DEF SignInv, TablesInv, UserRow, SessionState, State

\* Who a request comes from.
LEMMA CallerHasRow ==
    ASSUME SignInv, NEW p \in Proc, call[p].pc = "decide"
    PROVE  Caller(p) \in User /\ users[Caller(p)] # None
  <1>1. call[p].token \in issued /\ call[p].token \in Token
      BY CallFields DEF SignInv, CallsInv, Backed, OfToken
  <1>2. tokens[call[p].token] \in TokenRow
      BY <1>1, RowTypes DEF SignInv, TablesInv
  <1> QED  BY <1>1, <1>2, RowTypes DEF Caller, TokenRow, SignInv, TablesInv

\* What looks and moves on: nothing stored changes.
Looking(p) == UNCHANGED <<store, clock, assignments>> /\ writes' \in 0..MaxWrites

LEMMA SignInLooks ==
    ASSUME SignInv, NEW p \in Proc, Looking(p),
           \/ \E u \in User, pw \in Password : Register(p, u, pw) \/ Login(p, u, pw)
           \/ \E t \in Token : Refresh(p, t) \/ Logout(p, t) \/ Request(p, t)
           \/ \E u \in User : ForgotPassword(p, u)
    PROVE  SignInv'
  <1> USE AccountsAssumption DEF Looking, At
  <1>1. ASSUME NEW u \in User, NEW pw \in Password, Register(p, u, pw)
        PROVE  SignInv'
    <2> DEFINE row == [role |-> "customer", isActive |-> TRUE, status |-> "pending_approval",
                       validFrom |-> 0, password |-> pw]
    <2>1. row \in UserRow
        BY DEF UserRow, Role, AccountStatus
    <2> HIDE DEF row
    <2>2. [pc |-> "insert_user", op |-> "register", on |-> u, row |-> row] \in Call
        BY <2>1 DEF Call
    <2>3. Goto(p, [pc |-> "insert_user", op |-> "register", on |-> u, row |-> row])
        BY <1>1 DEF Register, row
    <2> QED  BY <2>2, <2>3, CallLooks DEF Backed, OfUser, OfToken
  <1>2. ASSUME NEW u \in User, NEW pw \in Password, Login(p, u, pw)
        PROVE  SignInv'
      BY <1>2, CallLooks DEF Login, Call, Backed, OfUser, OfToken
  <1>3. ASSUME NEW t \in Token, Refresh(p, t)
        PROVE  SignInv'
      BY <1>3, CallLooks DEF Refresh, Call, Backed, OfUser, OfToken
  <1>4. ASSUME NEW t \in Token, Logout(p, t)
        PROVE  SignInv'
      BY <1>4, CallLooks DEF Logout, Call, Backed, OfUser, OfToken
  <1>5. ASSUME NEW t \in Token, Request(p, t)
        PROVE  SignInv'
    <2> DEFINE s == cache[tokens[t].user]
    <2>1. t \in issued /\ tokens[t] \in TokenRow
        BY <1>5, RowTypes DEF Request, SignInv, TablesInv
    <2>2. s \in SessionState \cup {None}
        BY <2>1 DEF SignInv, TablesInv, TokenRow
    <2>3. Goto(p, IF s # None THEN [pc |-> "decide", token |-> t, state |-> s]
                              ELSE [pc |-> "load", token |-> t])
        BY <1>5 DEF Request
    <2> HIDE DEF s
    <2>4. CASE s # None
        BY <2>1, <2>2, <2>3, <2>4, CallLooks DEF Call, Backed, OfUser, OfToken
    <2>5. CASE s = None
        BY <2>1, <2>3, <2>5, CallLooks DEF Call, Backed, OfUser, OfToken
    <2> QED  BY <2>4, <2>5
  <1>6. ASSUME NEW u \in User, ForgotPassword(p, u)
        PROVE  SignInv'
      BY <1>6, CallLooks DEF ForgotPassword, Call, Backed, OfUser, OfToken
  <1> QED  BY <1>1, <1>2, <1>3, <1>4, <1>5, <1>6

\* What a call under way read before it looks on.
LEMMA OwnRows ==
    ASSUME SignInv, NEW p \in Proc
    PROVE  /\ call[p] \in Call /\ Backed(call[p], users, tokens, issued, mirror)
           /\ call[p].pc \in OfUser => call[p].on \in User /\ users[call[p].on] \in UserRow
           /\ call[p].pc \in OfToken =>
                /\ call[p].token \in issued /\ call[p].token \in Token
                /\ tokens[call[p].token] \in TokenRow
                /\ users[tokens[call[p].token].user] \in UserRow
  <1>1. call[p] \in Call /\ Backed(call[p], users, tokens, issued, mirror)
      BY DEF SignInv, CallsInv
  <1>2. /\ call[p].pc \in OfUser => call[p].on \in User
        /\ call[p].pc \in OfToken => call[p].token \in Token
      BY <1>1, CallFields
  <1>3. call[p].pc \in OfToken => call[p].token \in issued /\ tokens[call[p].token] \in TokenRow
      BY <1>1, <1>2, RowTypes DEF Backed, SignInv, TablesInv
  <1>4. call[p].pc \in OfUser => users[call[p].on] \in UserRow
      BY <1>1, <1>2, RowTypes DEF Backed
  <1>5. ASSUME call[p].pc \in OfToken
        PROVE  users[tokens[call[p].token].user] \in UserRow
    <2>1. tokens[call[p].token] \in TokenRow /\ tokens[call[p].token] # None
        BY <1>3, <1>5, AccountsAssumption
    <2>2. tokens[call[p].token].user \in User
        BY <2>1 DEF TokenRow
    <2> QED  BY <1>2, <1>5, <2>1, <2>2, RowTypes
  <1> QED  BY <1>1, <1>2, <1>3, <1>4, <1>5

LEMMA StepLooks ==
    ASSUME SignInv, NEW p \in Proc, Looking(p),
           \/ RefreshRow(p) \/ RefreshUser(p) \/ ResetUser(p) \/ LoadState(p) \/ CountAdmins(p)
           \/ UncacheFails(p) \/ Abandon(p) \/ Refuse(p) \/ Serve(p)
    PROVE  SignInv'
  <1> USE DEF Looking, At
  <1>1. Done(p) => SignInv'
      BY CallLooks DEF Done, Idle, Call, Backed, OfUser, OfToken
  <1>2. CASE UncacheFails(p) \/ Abandon(p) \/ Refuse(p) \/ Serve(p)
      BY <1>1, <1>2 DEF UncacheFails, Abandon, Refuse, Serve
  <1>3. CASE RefreshRow(p)
      BY <1>1, <1>3, OwnRows, CallLooks DEF RefreshRow, Call, Backed, OfUser, OfToken
  <1>4. CASE RefreshUser(p)
      BY <1>1, <1>4, OwnRows, CallLooks DEF RefreshUser, Call, Backed, OfUser, OfToken
  <1>5. CASE ResetUser(p)
    <2> DEFINE c == call[p]
               row == [users[c.on] EXCEPT !.password = c.password]
               d == [pc |-> "save_user", op |-> "reset", on |-> c.on, reset |-> c.reset, row |-> row]
    <2>1. c.pc = "reset_user" /\ (Goto(p, d) \/ Done(p))
        BY <1>5 DEF ResetUser
    <2>2. c.on \in User /\ users[c.on] \in UserRow /\ c.reset \in Reset /\ c.password \in Password
        BY <2>1, OwnRows, CallFields DEF OfUser
    <2>3. row \in UserRow /\ users[c.on] # None
        BY <2>2, RowTypes, AccountsAssumption
    <2> HIDE DEF row
    <2>4. d \in Call /\ Backed(d, users, tokens, issued, mirror) /\ d.pc # "mirror"
        BY <2>2, <2>3 DEF Call, Backed, OfUser, OfToken
    <2> QED  BY <1>1, <2>1, <2>4, CallLooks
  <1>6. CASE LoadState(p)
    <2> DEFINE t == call[p].token
               s == State(users[tokens[t].user])
               d == [pc |-> "fill", token |-> t, state |-> s]
    <2>1. call[p].pc = "load" /\ Goto(p, d)
        BY <1>6 DEF LoadState
    <2>2. t \in issued /\ t \in Token /\ s \in SessionState
        BY <2>1, OwnRows, RowTypes DEF OfToken
    <2> HIDE DEF s
    <2>3. d \in Call /\ Backed(d, users, tokens, issued, mirror) /\ d.pc # "mirror"
        BY <2>2 DEF Call, Backed, OfUser, OfToken
    <2> QED  BY <2>1, <2>3, CallLooks
  <1>7. CASE CountAdmins(p)
    <2> DEFINE c == call[p]
               d == Saving(c.op, c.on, c.row)
    <2>1. c.pc = "count_admins" /\ (Goto(p, d) \/ Done(p))
        BY <1>7 DEF CountAdmins
    <2>2. /\ c.on \in User /\ users[c.on] # None /\ c.row \in UserRow
          /\ c.op \in {"profile", "update", "update_access", "approve", "suspend", "reactivate"}
        BY <2>1, OwnRows, CallFields DEF OfUser, WithRow, Backed
    <2>3. d \in Call /\ Backed(d, users, tokens, issued, mirror) /\ d.pc # "mirror"
        BY <2>2 DEF Saving, Call, Backed, OfUser, OfToken
    <2> QED  BY <1>1, <2>1, <2>3, CallLooks
  <1> QED  BY <1>2, <1>3, <1>4, <1>5, <1>6, <1>7

\* The first steps of the handlers that save a user or an assignment.
LEMMA HandlerLooks ==
    ASSUME SignInv, NEW p \in Proc, Looking(p),
           \/ UpdateCurrentUser(p)
           \/ \E u \in User, role \in Role, pw \in Password : CreateUser(p, u, role, pw)
           \/ \E u \in User, role \in Role \cup {None}, active \in BOOLEAN \cup {None} :
                 UpdateUser(p, u, role, active)
           \/ \E c \in User : Suspend(p, c) \/ Reactivate(p, c)
    PROVE  SignInv'
  <1> USE DEF Looking, At, Admitted
  <1>1. ASSUME NEW on \in User, users[on] # None, NEW row \in UserRow, NEW label \in {"save_user", "count_admins"},
               NEW op \in {"profile", "update", "update_access", "approve", "suspend", "reactivate"},
               Goto(p, [pc |-> label, op |-> op, on |-> on, row |-> row])
        PROVE  SignInv'
    <2> DEFINE d == [pc |-> label, op |-> op, on |-> on, row |-> row]
    <2>1. d \in Call /\ Backed(d, users, tokens, issued, mirror) /\ d.pc # "mirror"
        BY <1>1 DEF Call, Backed, OfUser, OfToken
    <2> QED  BY <1>1, <2>1, CallLooks
  <1>2. CASE UpdateCurrentUser(p)
      BY <1>1, <1>2, CallerHasRow, RowTypes DEF UpdateCurrentUser, Saving
  <1>3. ASSUME NEW u \in User, NEW role \in Role, NEW pw \in Password, CreateUser(p, u, role, pw)
        PROVE  SignInv'
    <2> DEFINE row == [role |-> role, isActive |-> TRUE, status |-> "approved", validFrom |-> 0, password |-> pw]
               d == [pc |-> "insert_user", op |-> "create", on |-> u, row |-> row]
    <2>1. row \in UserRow
        BY AccountsAssumption DEF UserRow, AccountStatus
    <2>2. Goto(p, d)
        BY <1>3 DEF CreateUser
    <2> HIDE DEF row
    <2>3. d \in Call /\ Backed(d, users, tokens, issued, mirror) /\ d.pc # "mirror"
        BY <2>1 DEF Call, Backed, OfUser, OfToken
    <2> QED  BY <2>2, <2>3, CallLooks
  <1>4. ASSUME NEW u \in User, NEW role \in Role \cup {None}, NEW active \in BOOLEAN \cup {None},
               UpdateUser(p, u, role, active)
        PROVE  SignInv'
    <2> DEFINE new == [users[u] EXCEPT !.role = IF role = None THEN @ ELSE role,
                                       !.isActive = IF active = None THEN @ ELSE active]
               losing == users[u].role = "admin" /\ (new.role # "admin" \/ (users[u].isActive /\ ~new.isActive))
               label == IF losing THEN "count_admins" ELSE "save_user"
               op == IF new # users[u] THEN "update_access" ELSE "update"
    <2>1. users[u] # None /\ users[u] \in UserRow
        BY <1>4, RowTypes DEF UpdateUser
    <2>2. new \in UserRow
        BY <2>1 DEF UserRow
    <2>3. Goto(p, [pc |-> label, op |-> op, on |-> u, row |-> new])
        BY <1>4 DEF UpdateUser
    <2>4. label \in {"save_user", "count_admins"} /\ op \in {"update", "update_access"}
        OBVIOUS
    <2> HIDE DEF new, label, op
    <2> QED  BY <1>1, <2>1, <2>2, <2>3, <2>4
  <1>5. ASSUME NEW c \in User, Suspend(p, c)
        PROVE  SignInv'
    <2> DEFINE new == [users[c] EXCEPT !.status = "suspended"]
    <2>1. users[c] # None /\ new \in UserRow
        BY <1>5, RowTypes DEF Suspend, HasRole, AccountStatus
    <2>2. Goto(p, [pc |-> "save_user", op |-> "suspend", on |-> c, row |-> new])
        BY <1>5 DEF Suspend, Saving
    <2> QED  BY <1>1, <2>1, <2>2
  <1>6. ASSUME NEW c \in User, Reactivate(p, c)
        PROVE  SignInv'
    <2> DEFINE new == [users[c] EXCEPT !.status = "approved"]
    <2>1. users[c] # None /\ new \in UserRow
        BY <1>6, RowTypes DEF Reactivate, HasRole, AccountStatus
    <2>2. Goto(p, [pc |-> "save_user", op |-> "reactivate", on |-> c, row |-> new])
        BY <1>6 DEF Reactivate, Saving
    <2> QED  BY <1>1, <2>1, <2>2
  <1> QED  BY <1>2, <1>3, <1>4, <1>5, <1>6

LEMMA AssignmentLooks ==
    ASSUME SignInv, NEW p \in Proc, Looking(p),
           \/ \E c, m \in User : Approve(p, c, m) \/ ReassignManager(p, c, m) \/ Assign(p, m, c)
           \/ \E pair \in agents : Unassign(p, pair)
           \/ FindManager(p)
    PROVE  SignInv'
  <1> USE DEF Looking, At, Admitted
  <1>1. ASSUME NEW op \in {"approve", "reassign"}, NEW c \in User, NEW m \in User, HasRole(c, "customer"),
               Goto(p, [pc |-> "find_manager", op |-> op, on |-> c, to |-> m, row |-> users[c]])
        PROVE  SignInv'
    <2> DEFINE d == [pc |-> "find_manager", op |-> op, on |-> c, to |-> m, row |-> users[c]]
    <2>1. users[c] # None /\ users[c] \in UserRow
        BY <1>1, RowTypes DEF HasRole
    <2>2. d \in Call /\ Backed(d, users, tokens, issued, mirror) /\ d.pc # "mirror"
        BY <2>1 DEF Call, Backed, OfUser, OfToken
    <2> QED  BY <1>1, <2>2, CallLooks
  <1>2. ASSUME NEW c \in User, NEW m \in User, Approve(p, c, m) \/ ReassignManager(p, c, m)
        PROVE  SignInv'
      BY <1>1, <1>2 DEF Approve, ReassignManager
  <1>3. ASSUME NEW c \in User, NEW a \in User, Assign(p, a, c)
        PROVE  SignInv'
    <2> DEFINE d == [pc |-> "save_pair", pair |-> <<a, c>>, found |-> <<a, c>> \in agents]
    <2>1. d \in Call /\ Backed(d, users, tokens, issued, mirror) /\ d.pc # "mirror"
        BY <1>3 DEF Call, Backed, OfUser, OfToken
    <2> QED  BY <1>3, <2>1, CallLooks DEF Assign
  <1>4. ASSUME NEW pair \in agents, Unassign(p, pair)
        PROVE  SignInv'
    <2> DEFINE d == [pc |-> "delete_pair", pair |-> pair]
    <2>1. d \in Call /\ Backed(d, users, tokens, issued, mirror) /\ d.pc # "mirror"
        BY <1>4 DEF Call, Backed, OfUser, OfToken, SignInv, TablesInv
    <2> QED  BY <1>4, <2>1, CallLooks DEF Unassign
  <1>5. CASE FindManager(p)
    <2> DEFINE c == call[p]
               d == [pc |-> "set_manager", op |-> c.op, on |-> c.on, to |-> c.to, row |-> c.row,
                     found |-> manager[c.on]]
    <2>1. c.pc = "find_manager" /\ (Goto(p, d) \/ Done(p))
        BY <1>5 DEF FindManager
    <2>2. /\ c.on \in User /\ users[c.on] # None /\ c.row \in UserRow
          /\ c.op \in {"approve", "reassign"} /\ c.to \in User
        BY <2>1, OwnRows, CallFields DEF OfUser, WithRow, Backed
    <2>3. d \in Call /\ Backed(d, users, tokens, issued, mirror) /\ d.pc # "mirror"
        BY <2>2 DEF Call, Backed, OfUser, OfToken, SignInv, TablesInv
    <2>4. Done(p) => SignInv'
        BY CallLooks DEF Done, Idle, Call, Backed, OfUser, OfToken
    <2> QED  BY <2>1, <2>3, <2>4, CallLooks
  <1> QED  BY <1>2, <1>3, <1>4, <1>5

-----------------------------------------------------------------------------
(* The steps that write *)

\* How a writing step goes on: a call that has to be backed by the tables it leaves.
Onward(p, d) ==
    /\ call' = [call EXCEPT ![p] = d]
    /\ d \in Call
    /\ Backed(d, users', tokens', issued', mirror')
    /\ d.pc = "mirror" => tokens[d.token] = None

LEMMA Goes ==
    ASSUME SignInv, NEW p \in Proc, NEW d, Onward(p, d), Grows(p), TablesInv'
    PROVE  SignInv'
  BY CallMoves DEF Onward, SignInv

LEMMA GoesIdle ==
    ASSUME SignInv, NEW p \in Proc, Done(p), Grows(p), TablesInv'
    PROVE  SignInv'
  <1>1. Onward(p, Idle)
      BY DEF Onward, Done, Goto, Idle, Call, Backed, OfUser, OfToken
  <1> QED  BY <1>1, Goes

\* What leaves the counters of the bounds alone.
Ticking == clock' \in 1..MaxTime /\ writes' \in 0..MaxWrites

\* A user's row is written.
LEMMA UsersWritten ==
    ASSUME SignInv, NEW p \in Proc, NEW u \in User, NEW row \in UserRow, Ticking,
           users' = [users EXCEPT ![u] = row],
           UNCHANGED <<tokens, mirror, issued, cache, resets, assignments>>
    PROVE  TablesInv' /\ Grows(p)
  <1>1. row # None /\ \A v \in User : users'[v] = IF v = u THEN row ELSE users[v]
      BY AccountsAssumption DEF SignInv, TablesInv
  <1>2. \A v \in User : users[v] # None => users'[v] # None
      BY <1>1
  <1>3. \A t \in Token : tokens[t] # None => tokens[t].user \in User
      BY RowTypes DEF TokenRow
  <1>4. \A k \in Reset : resets[k] # None => resets[k] \in User
      BY DEF SignInv, TablesInv
  <1>5. \A t \in Token : tokens'[t] # None => users'[tokens'[t].user] # None
      BY <1>2, <1>3 DEF SignInv, TablesInv
  <1>6. \A k \in Reset : resets'[k] # None => users'[resets'[k]] # None
      BY <1>2, <1>4 DEF SignInv, TablesInv
  <1>7. users' \in [User -> UserRow \cup {None}]
      BY DEF SignInv, TablesInv
  <1> QED  BY <1>2, <1>5, <1>6, <1>7 DEF SignInv, TablesInv, Ticking, Grows, assignments

LEMMA UserWrites ==
    ASSUME SignInv, NEW p \in Proc, Ticking, UNCHANGED <<clock, assignments>>,
           InsertUser(p) \/ SaveUser(p) \/ CutOff(p)
    PROVE  SignInv'
  <1> DEFINE c == call[p]
  <1> USE DEF At, Goto
  <1>1. CASE InsertUser(p) /\ users[c.on] # None
    <2>1. Done(p) /\ UNCHANGED <<users, tokens, mirror, issued, cache, resets>>
        BY <1>1 DEF InsertUser
    <2>2. TablesInv' /\ Grows(p)
        BY <2>1 DEF SignInv, TablesInv, Ticking, Grows, assignments
    <2> QED  BY <2>1, <2>2, GoesIdle
  <1>2. CASE InsertUser(p) /\ users[c.on] = None
    <2> DEFINE d == IF c.op = "register" THEN [pc |-> "mint", user |-> c.on, parent |-> None] ELSE Idle
    <2>1. /\ c.pc = "insert_user" /\ users' = [users EXCEPT ![c.on] = c.row]
          /\ UNCHANGED <<tokens, mirror, issued, cache, resets>>
          /\ call' = [call EXCEPT ![p] = d]
        BY <1>2 DEF InsertUser, Done
    <2>2. c.on \in User /\ c.row \in UserRow /\ c.row # None
        BY <2>1, OwnRows, CallFields, AccountsAssumption DEF WithRow
    <2>3. TablesInv' /\ Grows(p)
        BY <2>1, <2>2, UsersWritten
    <2>4. users'[c.on] # None
        BY <2>1, <2>2 DEF SignInv, TablesInv
    <2>5. d \in Call /\ d.pc \in {"mint", "idle"} /\ (d.pc = "mint" => d.user = c.on)
        BY <2>2 DEF Call, Idle
    <2>6. Onward(p, d)
        BY <2>1, <2>4, <2>5 DEF Onward, Backed, OfUser, OfToken
    <2> QED  BY <2>3, <2>6, Goes
  <1>3. CASE SaveUser(p)
    <2> DEFINE label == IF c.op \in EndsSessions THEN "revoke_all" ELSE "uncache"
               d == [pc |-> label, on |-> c.on]
    <2>1. /\ c.pc = "save_user" /\ users' = [users EXCEPT ![c.on] = c.row]
          /\ UNCHANGED <<tokens, mirror, issued, cache, resets>>
          /\ call' = [call EXCEPT ![p] = d]
        BY <1>3 DEF SaveUser
    <2>2. c.on \in User /\ c.row \in UserRow /\ c.row # None
        BY <2>1, OwnRows, CallFields, AccountsAssumption DEF WithRow, OfUser
    <2>3. TablesInv' /\ Grows(p)
        BY <2>1, <2>2, UsersWritten
    <2>4. users'[c.on] # None
        BY <2>1, <2>2 DEF SignInv, TablesInv
    <2>5. label \in {"revoke_all", "uncache"}
        OBVIOUS
    <2> HIDE DEF label
    <2>6. Onward(p, d)
        BY <2>1, <2>2, <2>4, <2>5 DEF Onward, Call, Backed, OfUser, OfToken
    <2> QED  BY <2>3, <2>6, Goes
  <1>4. CASE CutOff(p)
    <2> DEFINE row == [users[c.on] EXCEPT !.validFrom = clock]
               d == [pc |-> "uncache", on |-> c.on]
    <2>1. c.pc = "cut_off" /\ call' = [call EXCEPT ![p] = d]
          /\ UNCHANGED <<tokens, mirror, issued, cache, resets>>
        BY <1>4 DEF CutOff
    <2>2. c.on \in User /\ users[c.on] \in UserRow /\ clock \in 0..MaxTime
        BY <2>1, OwnRows, AccountsAssumption DEF OfUser, SignInv, TablesInv
    <2>3. row \in UserRow /\ row # None /\ users' = [users EXCEPT ![c.on] = row]
        BY <1>4, <2>2, RowTypes, AccountsAssumption DEF CutOff
    <2> HIDE DEF row
    <2>4. TablesInv' /\ Grows(p)
        BY <2>1, <2>2, <2>3, UsersWritten
    <2>5. users'[c.on] # None
        BY <2>2, <2>3 DEF SignInv, TablesInv
    <2>6. Onward(p, d)
        BY <2>1, <2>2, <2>5 DEF Onward, Call, Backed, OfUser, OfToken
    <2> QED  BY <2>4, <2>6, Goes
  <1> QED  BY <1>1, <1>2, <1>3, <1>4

\* Tokens are minted, or marked revoked.
LEMMA TokensWritten ==
    ASSUME SignInv, NEW p \in Proc, Ticking, tokens' \in [Token -> TokenRow \cup {None}],
           \A t \in Token : tokens[t] # None => tokens'[t] # None /\ tokens'[t].user = tokens[t].user,
           \A t \in Token : tokens[t] = None /\ tokens'[t] # None => users[tokens'[t].user] # None,
           UNCHANGED <<users, mirror, issued, cache, resets, assignments>>
    PROVE  TablesInv' /\ Grows(p)
  BY DEF SignInv, TablesInv, Ticking, Grows, assignments

LEMMA TokenWrites ==
    ASSUME SignInv, NEW p \in Proc, Ticking, UNCHANGED <<clock, assignments>>,
           (\E t \in Token : Mint(p, t)) \/ Revoke(p) \/ RevokeAll(p)
    PROVE  SignInv'
  <1> DEFINE c == call[p]
  <1> USE DEF At, Goto
  <1>1. ASSUME NEW t \in Token, Mint(p, t)
        PROVE  SignInv'
    <2> DEFINE row == [user |-> c.user, iat |-> clock, revoked |-> FALSE, parent |-> c.parent]
               d == [pc |-> "mirror", token |-> t]
    <2>1. /\ c.pc = "mint" /\ tokens[t] = None /\ tokens' = [tokens EXCEPT ![t] = row]
          /\ UNCHANGED <<users, mirror, issued, cache, resets>>
          /\ call' = [call EXCEPT ![p] = d]
        BY <1>1 DEF Mint
    <2>2. c.user \in User /\ c.parent \in Token \cup {None} /\ users[c.user] # None
        BY <2>1, OwnRows, CallFields DEF Backed
    <2>3. row \in TokenRow /\ row # None /\ row.user = c.user
      <3>1. row \in TokenRow
          BY <2>2 DEF TokenRow, SignInv, TablesInv
      <3> QED  BY <3>1, AccountsAssumption
    <2> HIDE DEF row
    <2>4. tokens' \in [Token -> TokenRow \cup {None}] /\ tokens'[t] = row
          /\ \A x \in Token \ {t} : tokens'[x] = tokens[x]
        BY <2>1, <2>3 DEF SignInv, TablesInv
    <2>5. TablesInv' /\ Grows(p)
        BY <2>1, <2>2, <2>3, <2>4, TokensWritten
    <2>6. t \notin issued
        BY <2>1 DEF SignInv, TablesInv
    <2>7. d \in Call /\ Backed(d, users', tokens', issued', mirror') /\ tokens[d.token] = None
        BY <2>1, <2>3, <2>4, <2>6 DEF Call, Backed, OfUser, OfToken
    <2>8. Onward(p, d)
        BY <2>1, <2>7 DEF Onward
    <2> QED  BY <2>5, <2>8, Goes
  <1>2. CASE Revoke(p)
    <2> DEFINE d == IF c.op = "refresh" THEN [pc |-> "mint", user |-> tokens[c.token].user, parent |-> c.token]
                                        ELSE Idle
    <2>1. /\ c.pc = "revoke" /\ tokens' = [tokens EXCEPT ![c.token].revoked = TRUE]
          /\ UNCHANGED <<users, mirror, issued, cache, resets>>
          /\ call' = [call EXCEPT ![p] = d]
        BY <1>2 DEF Revoke, Done
    <2>2. c.token \in Token /\ tokens[c.token] \in TokenRow /\ users[tokens[c.token].user] \in UserRow
        BY <2>1, OwnRows DEF OfToken
    <2>3. /\ [tokens[c.token] EXCEPT !.revoked = TRUE] \in TokenRow
          /\ tokens'[c.token] = [tokens[c.token] EXCEPT !.revoked = TRUE]
          /\ tokens'[c.token].user = tokens[c.token].user
          /\ \A x \in Token \ {c.token} : tokens'[x] = tokens[x]
        BY <2>1, <2>2 DEF TokenRow, SignInv, TablesInv
    <2>4. tokens' \in [Token -> TokenRow \cup {None}]
        BY <2>1, <2>3 DEF SignInv, TablesInv
    <2>9. tokens[c.token] # None /\ tokens'[c.token] # None
        BY <2>2, <2>3, AccountsAssumption
    <2>5. TablesInv' /\ Grows(p)
        BY <2>1, <2>2, <2>3, <2>4, <2>9, TokensWritten
    <2>6. tokens[c.token].user \in User /\ users[tokens[c.token].user] # None
        BY <2>2, AccountsAssumption DEF TokenRow
    <2>7. d \in Call /\ d.pc \in {"mint", "idle"} /\ (d.pc = "mint" => d.user = tokens[c.token].user)
        BY <2>2, <2>6 DEF Call, Idle
    <2>8. Onward(p, d)
        BY <2>1, <2>6, <2>7 DEF Onward, Backed, OfUser, OfToken
    <2> QED  BY <2>5, <2>8, Goes
  <1>3. CASE RevokeAll(p)
    <2> DEFINE d == [pc |-> "cut_off", on |-> c.on]
    <2>1. /\ c.pc = "revoke_all"
          /\ tokens' = [t \in Token |-> IF tokens[t] # None /\ tokens[t].user = c.on
                                        THEN [tokens[t] EXCEPT !.revoked = TRUE] ELSE tokens[t]]
          /\ UNCHANGED <<users, mirror, issued, cache, resets>>
          /\ call' = [call EXCEPT ![p] = d]
        BY <1>3 DEF RevokeAll
    <2>2. c.on \in User /\ users[c.on] # None
        BY <2>1, OwnRows, AccountsAssumption DEF OfUser
    <2>3. ASSUME NEW t \in Token
          PROVE  /\ tokens'[t] \in TokenRow \cup {None}
                 /\ tokens[t] = None => tokens'[t] = None
                 /\ tokens[t] # None => tokens'[t] # None /\ tokens'[t].user = tokens[t].user
      <3>1. tokens[t] # None => [tokens[t] EXCEPT !.revoked = TRUE] \in TokenRow
                                /\ [tokens[t] EXCEPT !.revoked = TRUE].user = tokens[t].user
          BY RowTypes DEF TokenRow
      <3> QED  BY <2>1, <3>1, RowTypes, AccountsAssumption
    <2>4. TablesInv' /\ Grows(p)
        BY <2>1, <2>3, TokensWritten
    <2>5. Onward(p, d)
        BY <2>1, <2>2 DEF Onward, Call, Backed, OfUser, OfToken
    <2> QED  BY <2>4, <2>5, Goes
  <1> QED  BY <1>1, <1>2, <1>3

LEMMA MirrorWrites ==
    ASSUME SignInv, NEW p \in Proc, Ticking, UNCHANGED <<clock, assignments>>,
           MirrorToken(p) \/ Unmirror(p)
    PROVE  SignInv'
  <1> DEFINE c == call[p]
  <1> USE DEF At, Goto
  <1>1. CASE MirrorToken(p)
    <2>1. /\ c.pc = "mirror" /\ mirror' = mirror \cup {c.token} /\ issued' = issued \cup {c.token}
          /\ Done(p) /\ UNCHANGED <<users, tokens, cache, resets>>
        BY <1>1 DEF MirrorToken
    <2>2. c.token \in Token /\ tokens[c.token] # None /\ c.token \notin issued
        BY <2>1, OwnRows, CallFields DEF Backed
    <2>3. TablesInv' /\ Grows(p)
        BY <2>1, <2>2 DEF SignInv, TablesInv, Ticking, Grows, assignments
    <2> QED  BY <2>1, <2>3, GoesIdle
  <1>2. CASE Unmirror(p)
    <2> DEFINE d == [pc |-> "revoke", op |-> c.op, token |-> c.token]
    <2>1. /\ c.pc = "unmirror" /\ mirror' = mirror \ {c.token} /\ call' = [call EXCEPT ![p] = d]
          /\ UNCHANGED <<users, tokens, issued, cache, resets>>
        BY <1>2 DEF Unmirror
    <2>2. c.token \in Token /\ c.token \in issued /\ c.op \in {"refresh", "logout"}
        BY <2>1, OwnRows, CallFields DEF OfToken
    <2>3. TablesInv' /\ Grows(p)
        BY <2>1 DEF SignInv, TablesInv, Ticking, Grows, assignments
    <2>4. Onward(p, d)
        BY <2>1, <2>2 DEF Onward, Call, Backed, OfUser, OfToken
    <2> QED  BY <2>3, <2>4, Goes
  <1> QED  BY <1>1, <1>2

LEMMA RedisWrites ==
    ASSUME SignInv, NEW p \in Proc, Ticking, UNCHANGED <<clock, assignments>>,
           \/ \E k \in Reset : IssueReset(p, k)
           \/ \E k \in Reset, pw \in Password : ConsumeReset(p, k, pw)
           \/ Uncache(p) \/ FillCache(p)
    PROVE  SignInv'
  <1> DEFINE c == call[p]
  <1> USE DEF At, Goto
  <1>1. ASSUME NEW k \in Reset, IssueReset(p, k)
        PROVE  SignInv'
    <2>1. /\ c.pc = "issue_reset" /\ resets' = [resets EXCEPT ![k] = c.on]
          /\ Done(p) /\ UNCHANGED <<users, tokens, mirror, issued, cache>>
        BY <1>1 DEF IssueReset
    <2>2. c.on \in User /\ users[c.on] # None
        BY <2>1, OwnRows DEF OfUser, Backed
    <2>3. TablesInv' /\ Grows(p)
        BY <2>1, <2>2 DEF SignInv, TablesInv, Ticking, Grows, assignments
    <2> QED  BY <2>1, <2>3, GoesIdle
  <1>2. ASSUME NEW k \in Reset, NEW pw \in Password, ConsumeReset(p, k, pw)
        PROVE  SignInv'
    <2> DEFINE d == [pc |-> "reset_user", on |-> resets[k], reset |-> k, password |-> pw]
    <2>1. /\ resets[k] # None /\ resets' = [resets EXCEPT ![k] = None]
          /\ call' = [call EXCEPT ![p] = d] /\ UNCHANGED <<users, tokens, mirror, issued, cache>>
        BY <1>2 DEF ConsumeReset
    <2>2. resets[k] \in User /\ users[resets[k]] # None
        BY <2>1 DEF SignInv, TablesInv
    <2>3. TablesInv' /\ Grows(p)
        BY <2>1 DEF SignInv, TablesInv, Ticking, Grows, assignments
    <2>4. Onward(p, d)
        BY <2>1, <2>2 DEF Onward, Call, Backed, OfUser, OfToken
    <2> QED  BY <2>3, <2>4, Goes
  <1>3. CASE Uncache(p)
    <2>1. cache' = [cache EXCEPT ![c.on] = None] /\ Done(p)
          /\ UNCHANGED <<users, tokens, mirror, issued, resets>>
        BY <1>3 DEF Uncache
    <2>2. TablesInv' /\ Grows(p)
        BY <2>1 DEF SignInv, TablesInv, Ticking, Grows, assignments
    <2> QED  BY <2>1, <2>2, GoesIdle
  <1>4. CASE FillCache(p)
    <2> DEFINE d == [pc |-> "decide", token |-> c.token, state |-> c.state]
    <2>1. /\ c.pc = "fill" /\ cache' \in {cache, [cache EXCEPT ![tokens[c.token].user] = c.state]}
          /\ call' = [call EXCEPT ![p] = d] /\ UNCHANGED <<users, tokens, mirror, issued, resets>>
        BY <1>4 DEF FillCache
    <2>2. c.token \in Token /\ c.token \in issued /\ c.state \in SessionState
        BY <2>1, OwnRows, CallFields DEF OfToken
    <2>3. cache' \in [User -> SessionState \cup {None}]
        BY <2>1, <2>2 DEF SignInv, TablesInv
    <2>4. TablesInv' /\ Grows(p)
        BY <2>1, <2>3 DEF SignInv, TablesInv, Ticking, Grows, assignments
    <2>5. Onward(p, d)
        BY <2>1, <2>2 DEF Onward, Call, Backed, OfUser, OfToken
    <2> QED  BY <2>4, <2>5, Goes
  <1> QED  BY <1>1, <1>2, <1>3, <1>4

LEMMA AssignmentWrites ==
    ASSUME SignInv, NEW p \in Proc, Ticking, UNCHANGED clock,
           SetManager(p) \/ SavePair(p) \/ DeletePair(p)
    PROVE  SignInv'
  <1> DEFINE c == call[p]
  <1> USE DEF At, store
  <1>1. ASSUME UNCHANGED store, manager' \in [User -> User \cup {None}], log' \in [User -> Seq(LogRow)],
               agents' \subseteq User \X User
        PROVE  TablesInv' /\ Grows(p)
      BY <1>1 DEF SignInv, TablesInv, Ticking, Grows
  <1>2. CASE SetManager(p)
    <2> DEFINE refused == c.found = None /\ manager[c.on] # None
               row == [c.row EXCEPT !.status = "approved"]
               d == IF ~refused /\ c.op = "approve"
                    THEN [pc |-> "save_user", op |-> "approve", on |-> c.on, row |-> row] ELSE Idle
               entry == [from |-> c.found, to |-> c.to]
    <2>1. /\ c.pc = "set_manager" /\ call' = [call EXCEPT ![p] = d] /\ UNCHANGED <<store, agents>>
          /\ manager' = manager \/ manager' = [manager EXCEPT ![c.on] = c.to]
          /\ log' = log \/ log' = [log EXCEPT ![c.on] = Append(log[c.on], entry)]
        BY <1>2 DEF SetManager, Goto, Done, Saving
    <2>2. /\ c.on \in User /\ users[c.on] # None /\ c.row \in UserRow
          /\ c.to \in User /\ c.found \in User \cup {None}
        BY <2>1, OwnRows, CallFields DEF OfUser, WithRow, Backed
    <2>3. entry \in LogRow /\ row \in UserRow
        BY <2>2, RowTypes DEF LogRow, AccountStatus
    <2> HIDE DEF entry, row
    <2>4. manager' \in [User -> User \cup {None}] /\ log' \in [User -> Seq(LogRow)] /\ agents' \subseteq User \X User
      <3>1. manager \in [User -> User \cup {None}] /\ log \in [User -> Seq(LogRow)] /\ agents \subseteq User \X User
          BY DEF SignInv, TablesInv
      <3>2. Append(log[c.on], entry) \in Seq(LogRow)
          BY <2>2, <2>3, <3>1, AppendProperties
      <3> QED  BY <2>1, <2>2, <3>1, <3>2
    <2>5. TablesInv' /\ Grows(p)
        BY <1>1, <2>1, <2>4
    <2>6. d \in Call /\ d.pc \in {"save_user", "idle"} /\ (d.pc = "save_user" => d.on = c.on)
        BY <2>2, <2>3 DEF Call, Idle
    <2>7. Onward(p, d)
        BY <2>1, <2>2, <2>6 DEF Onward, Backed, OfUser, OfToken
    <2> QED  BY <2>5, <2>7, Goes
  <1>3. CASE SavePair(p) \/ DeletePair(p)
    <2>1. /\ c.pc \in {"save_pair", "delete_pair"} /\ Done(p) /\ UNCHANGED <<store, manager, log>>
          /\ agents' \subseteq agents \cup {c.pair}
        BY <1>3 DEF SavePair, DeletePair
    <2>2. agents' \subseteq User \X User
      <3>1. c.pair \in User \X User
          BY <2>1, OwnRows, CallFields
      <3> QED  BY <2>1, <3>1 DEF SignInv, TablesInv
    <2>3. TablesInv' /\ Grows(p)
        BY <1>1, <2>1, <2>2 DEF SignInv, TablesInv
    <2> QED  BY <2>1, <2>3, GoesIdle
  <1> QED  BY <1>2, <1>3

LEMMA TimePasses ==
    ASSUME SignInv, Time
    PROVE  SignInv'
  <1> USE AccountsAssumption
  <1>1. UNCHANGED <<users, tokens, mirror, issued, call, assignments, writes>>
      BY DEF Time, Tick, ExpireState, ExpireReset, store
  <1>2. /\ clock' \in 1..MaxTime /\ cache' \in [User -> SessionState \cup {None}]
        /\ resets' \in [Reset -> User \cup {None}]
        /\ \A k \in Reset : resets'[k] # None => resets'[k] = resets[k]
    <2>1. /\ clock \in 1..MaxTime /\ cache \in [User -> SessionState \cup {None}]
          /\ resets \in [Reset -> User \cup {None}] /\ MaxTime \in Nat
        BY DEF SignInv, TablesInv
    <2>2. CASE Tick
        BY <2>1, <2>2 DEF Tick, store
    <2>3. CASE \E u \in User : ExpireState(u)
        BY <2>1, <2>3 DEF ExpireState
    <2>4. CASE \E k \in Reset : ExpireReset(k)
        BY <2>1, <2>4 DEF ExpireReset
    <2> QED  BY <2>2, <2>3, <2>4 DEF Time
  <1>3. TablesInv'
      BY <1>1, <1>2 DEF SignInv, TablesInv, assignments
  <1>4. CallsInv'
      BY <1>1 DEF SignInv, CallsInv, Backed
  <1> QED  BY <1>3, <1>4 DEF SignInv

LEMMA ServingKeeps ==
    ASSUME SignInv, NEW p \in Proc, Serving(p) \/ Faulty(p), UNCHANGED clock
    PROVE  SignInv'
  <1> USE DEF store
  <1>1. writes' \in 0..MaxWrites /\ Ticking
      BY AccountsAssumption DEF Serving, Faulty, SignInv, TablesInv, Ticking, AssignmentStep
  <1>2. ASSUME StartWrite(p), UNCHANGED assignments
        PROVE  SignInv'
    <2>1. CASE SessionWrite(p)
      <3>1. CASE \/ \E u \in User, pw \in Password : Register(p, u, pw) \/ Login(p, u, pw)
                 \/ \E t \in Token : Refresh(p, t) \/ Logout(p, t)
                 \/ \E u \in User : ForgotPassword(p, u)
        <4>1. Looking(p)
            BY <1>1, <1>2, <3>1 DEF Looking, Register, Login, Refresh, Logout, ForgotPassword
        <4> QED  BY <3>1, <4>1, SignInLooks
      <3>2. CASE \E k \in Reset, pw \in Password : ConsumeReset(p, k, pw)
          BY <1>1, <1>2, <3>2, RedisWrites
      <3>3. CASE \/ UpdateCurrentUser(p)
                 \/ \E u \in User, role \in Role, pw \in Password : CreateUser(p, u, role, pw)
                 \/ \E c \in User : Suspend(p, c)
        <4>1. Looking(p)
            BY <1>1, <1>2, <3>3 DEF Looking, UpdateCurrentUser, CreateUser, Suspend
        <4> QED  BY <3>3, <4>1, HandlerLooks
      <3> QED  BY <2>1, <3>1, <3>2, <3>3 DEF SessionWrite
    <2>2. CASE AccountWrite(p)
      <3>1. Looking(p)
          BY <1>1, <1>2, <2>2 DEF Looking, AccountWrite, UpdateUser, Reactivate
      <3> QED  BY <2>2, <3>1, HandlerLooks DEF AccountWrite
    <2>3. CASE AssignmentWrite(p)
      <3>1. Looking(p)
          BY <1>1, <1>2, <2>3 DEF Looking, AssignmentWrite, Approve, ReassignManager, Assign, Unassign
      <3> QED  BY <2>3, <3>1, AssignmentLooks DEF AssignmentWrite
    <2> QED  BY <1>2, <2>1, <2>2, <2>3 DEF StartWrite
  <1>3. ASSUME (\E t \in Token : Request(p, t)) \/ Refuse(p) \/ Serve(p) \/ Step(p), UNCHANGED assignments
        PROVE  SignInv'
    <2>1. CASE \E t \in Token : Request(p, t)
      <3>1. Looking(p)
          BY <1>1, <1>3, <2>1 DEF Looking, Request
      <3> QED  BY <2>1, <3>1, SignInLooks
    <2>2. CASE \/ Refuse(p) \/ Serve(p) \/ RefreshRow(p) \/ RefreshUser(p) \/ ResetUser(p)
               \/ LoadState(p) \/ CountAdmins(p)
      <3>1. Looking(p)
          BY <1>1, <1>3, <2>2 DEF Looking, Refuse, Serve, RefreshRow, RefreshUser, ResetUser, LoadState, CountAdmins
      <3> QED  BY <2>2, <3>1, StepLooks
    <2>3. CASE InsertUser(p) \/ SaveUser(p) \/ CutOff(p)
        BY <1>1, <1>3, <2>3, UserWrites
    <2>4. CASE (\E t \in Token : Mint(p, t)) \/ Revoke(p) \/ RevokeAll(p)
        BY <1>1, <1>3, <2>4, TokenWrites
    <2>5. CASE MirrorToken(p) \/ Unmirror(p)
        BY <1>1, <1>3, <2>5, MirrorWrites
    <2>6. CASE (\E k \in Reset : IssueReset(p, k)) \/ Uncache(p) \/ FillCache(p)
        BY <1>1, <1>3, <2>6, RedisWrites
    <2> QED  BY <1>3, <2>1, <2>2, <2>3, <2>4, <2>5, <2>6 DEF Step
  <1>4. ASSUME AssignmentStep(p)
        PROVE  SignInv'
    <2>1. CASE FindManager(p)
      <3>1. Looking(p)
          BY <1>1, <2>1 DEF Looking, FindManager
      <3> QED  BY <2>1, <3>1, AssignmentLooks
    <2> QED  BY <1>1, <1>4, <2>1, AssignmentWrites DEF AssignmentStep
  <1>5. ASSUME Abandon(p) \/ UncacheFails(p), UNCHANGED assignments
        PROVE  SignInv'
    <2>1. Looking(p)
        BY <1>1, <1>5 DEF Looking, Abandon, UncacheFails
    <2> QED  BY <1>5, <2>1, StepLooks
  <1> QED  BY <1>2, <1>3, <1>4, <1>5 DEF Serving, Faulty

LEMMA SignInvStep ==
    ASSUME SignInv, [CalmNext]_calmVars
    PROVE  SignInv'
  <1>1. CASE UNCHANGED calmVars
      BY <1>1 DEF calmVars, vars, SignInv, TablesInv, CallsInv, Backed
  <1> QED  BY <1>1, ServingKeeps, TimePasses DEF CalmNext

LEMMA SignInvInit ==
    ASSUME CalmInit
    PROVE  SignInv
  <1> USE AccountsAssumption
  <1>1. PICK pop \in Population : users = pop.users /\ manager = pop.manager
      BY DEF CalmInit, Init
  <1>2. users \in [User -> UserRow \cup {None}] /\ manager \in [User -> User \cup {None}]
      BY <1>1
  <1>3. tokens \in [Token -> TokenRow \cup {None}]
      BY DEF CalmInit, Init, TokenRow
  <1>4. log \in [User -> Seq(LogRow)]
    <2>1. log = [c \in User |-> IF manager[c] = None THEN <<>> ELSE <<[from |-> None, to |-> manager[c]]>>]
        BY DEF CalmInit, Init
    <2>2. ASSUME NEW c \in User PROVE log[c] \in Seq(LogRow)
      <3>1. CASE manager[c] = None
          BY <2>1, <3>1
      <3>2. CASE manager[c] # None
        <4>1. [from |-> None, to |-> manager[c]] \in LogRow
            BY <1>2, <3>2 DEF LogRow
        <4> QED  BY <2>1, <3>2, <4>1
      <3> QED  BY <3>1, <3>2
    <2> QED  BY <2>1, <2>2
  <1>5. /\ cache \in [User -> SessionState \cup {None}] /\ resets \in [Reset -> User \cup {None}]
        /\ clock \in 1..MaxTime /\ writes \in 0..MaxWrites /\ agents \subseteq User \X User
        /\ mirror \subseteq Token /\ issued \subseteq Token
      BY DEF CalmInit, Init
  <1>6. /\ \A t \in issued : tokens[t] # None
        /\ \A t \in Token : tokens[t] # None => users[tokens[t].user] # None
        /\ \A k \in Reset : resets[k] # None => users[resets[k]] # None
    <2>1. /\ issued = {t \in Token : SignedIn[t] # None} /\ resets = [k \in Reset |-> None]
          /\ tokens = [t \in Token |-> IF SignedIn[t] = None THEN None
                                 ELSE [user |-> SignedIn[t], iat |-> 1, revoked |-> FALSE, parent |-> None]]
        BY DEF CalmInit, Init
    <2>2. ASSUME NEW t \in Token, SignedIn[t] # None
          PROVE  tokens[t] \in TokenRow /\ tokens[t].user = SignedIn[t] /\ users[SignedIn[t]] # None
        BY <1>1, <2>1, <2>2 DEF TokenRow
    <2> QED  BY <2>1, <2>2
  <1>7. CallsInv
      BY DEF CalmInit, Init, CallsInv, Call, Idle, Backed, OfUser, OfToken
  <1> QED  BY <1>2, <1>3, <1>4, <1>5, <1>6, <1>7 DEF SignInv, TablesInv

\* The shape of the tables, of what Redis holds and of the calls in flight, whatever
\* overlaps and fails (auth.service.ts, admin-user.service.ts, assignment.service.ts).
THEOREM AccountsTypes == CalmSpec => []AccountsTypeOK
  <1>1. SignInv => AccountsTypeOK
      BY DEF SignInv, TablesInv, CallsInv, AccountsTypeOK
  <1> QED  BY <1>1, SignInvInit, SignInvStep, PTL DEF CalmSpec

-----------------------------------------------------------------------------
(* Signed out for good *)

\* Every step that does not write the mirror or the table of tokens.
LEMMA TokensUntouched ==
    ASSUME [CalmNext]_calmVars,
           ~ \E p \in Proc :
                \/ \E t \in Token : Mint(p, t)
                \/ MirrorToken(p) \/ Unmirror(p) \/ Revoke(p) \/ RevokeAll(p)
    PROVE  UNCHANGED <<tokens, mirror>>
  <1> USE DEF store
  <1>1. CASE UNCHANGED calmVars
      BY <1>1 DEF calmVars, vars
  <1>2. CASE Time
      BY <1>2 DEF Time, Tick, ExpireState, ExpireReset
  <1>3. ASSUME NEW p \in Proc, StartWrite(p)
        PROVE  UNCHANGED <<tokens, mirror>>
    <2>1. CASE SessionWrite(p)
        BY <2>1 DEF SessionWrite, Register, Login, Refresh, Logout, ForgotPassword, ConsumeReset,
              UpdateCurrentUser, CreateUser, Suspend
    <2>2. CASE AccountWrite(p)
        BY <2>2 DEF AccountWrite, UpdateUser, Reactivate
    <2>3. CASE AssignmentWrite(p)
        BY <2>3 DEF AssignmentWrite, Approve, ReassignManager, Assign, Unassign
    <2> QED  BY <1>3, <2>1, <2>2, <2>3 DEF StartWrite
  <1>4. ASSUME NEW p \in Proc, Faulty(p)
        PROVE  UNCHANGED <<tokens, mirror>>
      BY <1>4 DEF Faulty, Abandon, UncacheFails
  <1>5. ASSUME NEW p \in Proc, (\E t \in Token : Request(p, t)) \/ Refuse(p) \/ Serve(p) \/ Step(p)
        PROVE  UNCHANGED <<tokens, mirror>>
      BY <1>5 DEF Request, Refuse, Serve, Step, InsertUser, RefreshRow, RefreshUser, IssueReset,
            ResetUser, SaveUser, CutOff, Uncache, LoadState, FillCache, CountAdmins
  <1>6. ASSUME NEW p \in Proc, AssignmentStep(p)
        PROVE  UNCHANGED <<tokens, mirror>>
      BY <1>6 DEF AssignmentStep, FindManager, SetManager, SavePair, DeletePair
  <1>7. ASSUME NEW p \in Proc, Serving(p)
        PROVE  UNCHANGED <<tokens, mirror>>
      BY <1>3, <1>5, <1>6, <1>7 DEF Serving
  <1> QED  BY <1>1, <1>2, <1>4, <1>7 DEF CalmNext

LEMMA DeadStays ==
    ASSUME SignInv, [CalmNext]_calmVars, NEW t \in issued, Dead(t)
    PROVE  Dead(t)'
  <1>1. t \in Token /\ tokens[t] \in TokenRow /\ tokens[t] # None /\ tokens[t].revoked /\ t \notin mirror
      BY RowTypes DEF SignInv, TablesInv, Dead
  <1> USE DEF At
  <1>2. ASSUME NEW p \in Proc, NEW x \in Token, Mint(p, x)
        PROVE  Dead(t)'
      BY <1>1, <1>2 DEF Mint, Dead, SignInv, TablesInv
  <1>3. ASSUME NEW p \in Proc, MirrorToken(p)
        PROVE  Dead(t)'
    <2>1. call[p].token \notin issued
        BY <1>3, OwnRows DEF MirrorToken, Backed
    <2> QED  BY <1>1, <1>3, <2>1 DEF MirrorToken, Dead
  <1>4. ASSUME NEW p \in Proc, Unmirror(p)
        PROVE  Dead(t)'
      BY <1>1, <1>4 DEF Unmirror, Dead
  <1>5. ASSUME NEW p \in Proc, Revoke(p)
        PROVE  Dead(t)'
    <2>1. [tokens[t] EXCEPT !.revoked = TRUE] \in TokenRow /\ [tokens[t] EXCEPT !.revoked = TRUE].revoked
        BY <1>1 DEF TokenRow
    <2>2. tokens'[t] = tokens[t] \/ tokens'[t] = [tokens[t] EXCEPT !.revoked = TRUE]
        BY <1>1, <1>5 DEF Revoke, SignInv, TablesInv
    <2> QED  BY <1>1, <1>5, <2>1, <2>2, AccountsAssumption DEF Revoke, Dead
  <1>6. ASSUME NEW p \in Proc, RevokeAll(p)
        PROVE  Dead(t)'
    <2>1. [tokens[t] EXCEPT !.revoked = TRUE] \in TokenRow /\ [tokens[t] EXCEPT !.revoked = TRUE].revoked
        BY <1>1 DEF TokenRow
    <2>2. tokens'[t] = tokens[t] \/ tokens'[t] = [tokens[t] EXCEPT !.revoked = TRUE]
        BY <1>1, <1>6 DEF RevokeAll
    <2> QED  BY <1>1, <1>6, <2>1, <2>2, AccountsAssumption DEF RevokeAll, Dead
  <1>7. CASE UNCHANGED <<tokens, mirror>>
      BY <1>1, <1>7 DEF Dead
  <1> QED  BY <1>2, <1>3, <1>4, <1>5, <1>6, <1>7, TokensUntouched

LEMMA LogoutKills ==
    ASSUME SignInv, NEW p \in Proc, NEW t \in Token, Revoke(p), call[p].token = t
    PROVE  Dead(t)'
  <1>1. call[p].pc = "revoke" /\ tokens[t] \in TokenRow /\ t \notin mirror
      BY OwnRows DEF Revoke, At, OfToken, Backed
  <1>2. [tokens[t] EXCEPT !.revoked = TRUE] \in TokenRow /\ [tokens[t] EXCEPT !.revoked = TRUE].revoked
      BY <1>1 DEF TokenRow
  <1>3. tokens'[t] = [tokens[t] EXCEPT !.revoked = TRUE] /\ mirror' = mirror
      BY <1>1 DEF Revoke, SignInv, TablesInv
  <1> QED  BY <1>1, <1>2, <1>3, AccountsAssumption DEF Dead

\* A refresh token that left the mirror and is revoked stays dead, whatever is in flight for
\* it, and a logout that ran to its end left its token dead (revokeRefreshToken and
\* persistRefreshToken in auth.service.ts).
THEOREM SignedOutTheorem == CalmSpec => SignedOutForGood
  <1>1. ASSUME SignInv, [CalmNext]_calmVars
        PROVE  /\ \A t \in issued : Dead(t) => Dead(t)'
               /\ \A p \in Proc, t \in Token :
                     Revoke(p) /\ call[p].op = "logout" /\ call[p].token = t => Dead(t)'
    <2>1. ASSUME NEW t \in issued, Dead(t) PROVE Dead(t)'
        BY <1>1, <2>1, DeadStays
    <2>2. ASSUME NEW p \in Proc, NEW t \in Token, Revoke(p), call[p].token = t PROVE Dead(t)'
        BY <1>1, <2>2, LogoutKills
    <2> QED  BY <2>1, <2>2
  <1> QED  BY <1>1, SignInvInit, SignInvStep, PTL DEF CalmSpec, SignedOutForGood

-----------------------------------------------------------------------------
(* One call at a time *)

LEMMA CalmFades ==
    ASSUME calm \in BOOLEAN, calm => OneInFlight, [CalmNext]_calmVars
    PROVE  calm' \in BOOLEAN /\ (calm' => calm) /\ (calm' => OneInFlight')
  <1>1. CASE UNCHANGED calmVars
      BY <1>1 DEF calmVars, vars, OneInFlight
  <1>2. CASE calm' = (calm /\ OneInFlight')
      BY <1>2
  <1>3. CASE calm' = FALSE
      BY <1>3
  <1> QED  BY <1>1, <1>2, <1>3 DEF CalmNext

\* A call under way is the only one.
LEMMA Alone ==
    ASSUME calm => OneInFlight, NEW p \in Proc, call[p].pc # "idle", NEW q \in Proc, q # p, calm
    PROVE  call[q] = Idle
  BY DEF OneInFlight, Idle

-----------------------------------------------------------------------------
(* Who looks after whom *)

OnLog(rows, m) == \E i \in DOMAIN rows : rows[i].to = m

\* A call about to flip an account has assigned a manager; the manager a call read is on the
\* log, and while calls come one by one still the manager.
Managed(c, mgr, lg, still) ==
    /\ c.pc \in {"count_admins", "save_user"} /\ c.op = "approve" => mgr[c.on] # None
    /\ c.pc = "set_manager" => /\ c.found # None => OnLog(lg[c.on], c.found)
                               /\ still => c.found = mgr[c.on]

ManagersInv ==
    /\ SignInv
    /\ calm \in BOOLEAN
    /\ calm => OneInFlight
    /\ \A c \in User : /\ manager[c] # None => OnLog(log[c], manager[c])
                       /\ calm => Story(log[c], manager[c])
    /\ \A p \in Proc : Managed(call[p], manager, log, calm)

LEMMA LogGrows ==
    ASSUME NEW rows \in Seq(LogRow), NEW e \in LogRow
    PROVE  /\ OnLog(Append(rows, e), e.to)
           /\ \A m : OnLog(rows, m) => OnLog(Append(rows, e), m)
  <1>1. /\ Append(rows, e) \in Seq(LogRow) /\ DOMAIN Append(rows, e) = 1 .. Len(rows) + 1
        /\ Append(rows, e)[Len(rows) + 1] = e /\ Len(rows) \in Nat /\ DOMAIN rows = 1 .. Len(rows)
        /\ \A i \in DOMAIN rows : Append(rows, e)[i] = rows[i]
      BY AppendProperties, LenProperties
  <1>2. Len(rows) + 1 \in DOMAIN Append(rows, e) /\ DOMAIN rows \subseteq DOMAIN Append(rows, e)
      BY <1>1
  <1> QED  BY <1>1, <1>2 DEF OnLog

LEMMA StoryGoesOn ==
    ASSUME NEW rows \in Seq(LogRow), NEW e \in LogRow, NEW last, Story(rows, last),
           e.from = last, e.from # e.to
    PROVE  Story(Append(rows, e), e.to)
  <1> DEFINE more == Append(rows, e)
  <1>1. /\ more \in Seq(LogRow) /\ DOMAIN more = 1 .. Len(rows) + 1 /\ Len(more) = Len(rows) + 1
        /\ more[Len(rows) + 1] = e /\ Len(rows) \in Nat /\ DOMAIN rows = 1 .. Len(rows)
        /\ \A i \in DOMAIN rows : more[i] = rows[i]
      BY AppendProperties, LenProperties
  <1>2. (rows = <<>>) <=> (Len(rows) = 0)
      OBVIOUS
  <1> HIDE DEF more
  <1>3. ASSUME NEW i \in DOMAIN more
        PROVE  /\ more[i].from = IF i = 1 THEN None ELSE more[i - 1].to
               /\ more[i].from # more[i].to
    <2>1. CASE i \in DOMAIN rows
      <3>1. more[i] = rows[i] /\ (i # 1 => i - 1 \in DOMAIN rows /\ more[i - 1] = rows[i - 1])
          BY <1>1, <2>1
      <3> QED  BY <2>1, <3>1 DEF Story
    <2>2. CASE i = Len(rows) + 1
      <3>1. more[i] = e /\ (i = 1 <=> rows = <<>>) /\ (i # 1 => more[i - 1] = rows[Len(rows)])
          BY <1>1, <1>2, <2>2
      <3> QED  BY <2>2, <3>1 DEF Story
    <2> QED  BY <1>1, <2>1, <2>2
  <1>4. e.to = IF more = <<>> THEN None ELSE more[Len(more)].to
    <2>1. more # <<>>
        BY <1>1
    <2> QED  BY <1>1, <2>1
  <1>5. more = Append(rows, e)
      BY DEF more
  <1> QED  BY <1>3, <1>4, <1>5 DEF Story

\* What every step but those of setManager does to its caller: no manager changes, nothing is
\* read, and nobody new is flipped.
Unassigned(q) ==
    \/ call'[q] = call[q]
    \/ call'[q].pc # "set_manager" /\ ~(call'[q].pc \in {"count_admins", "save_user"} /\ call'[q].op = "approve")
    \/ /\ call[q].pc = "count_admins" /\ call'[q].pc = "save_user"
       /\ call'[q].op = call[q].op /\ call'[q].on = call[q].on

LEMMA OtherStepsAssignNobody ==
    ASSUME SignInv, [CalmNext]_calmVars, ~ \E p \in Proc : FindManager(p) \/ SetManager(p)
    PROVE  UNCHANGED <<manager, log>> /\ \A q \in Proc : Unassigned(q)
  <1> USE DEF At, Goto, Done, Saving, Idle, Unassigned
  <1>0. call \in [Proc -> Call]
      BY DEF SignInv, CallsInv
  <1>1. CASE UNCHANGED calmVars
      BY <1>1 DEF calmVars, vars
  <1>2. CASE Time
      BY <1>2 DEF Time, Tick, ExpireState, ExpireReset, assignments
  <1>3. ASSUME NEW p \in Proc, StartWrite(p)
        PROVE  \A q \in Proc : Unassigned(q)
    <2>1. CASE SessionWrite(p)
        BY <1>0, <2>1 DEF SessionWrite, Register, Login, Refresh, Logout, ForgotPassword, ConsumeReset,
              UpdateCurrentUser, CreateUser, Suspend
    <2>2. ASSUME NEW u \in User, NEW role, NEW active, UpdateUser(p, u, role, active)
          PROVE  \A q \in Proc : Unassigned(q)
        BY <1>0, <2>2 DEF UpdateUser
    <2>3. ASSUME NEW c, Reactivate(p, c)
          PROVE  \A q \in Proc : Unassigned(q)
        BY <1>0, <2>3 DEF Reactivate
    <2>4. CASE AssignmentWrite(p)
      <3>1. ASSUME NEW c, NEW m, Approve(p, c, m) \/ ReassignManager(p, c, m)
            PROVE  \A q \in Proc : Unassigned(q)
          BY <1>0, <3>1 DEF Approve, ReassignManager
      <3>2. ASSUME NEW c, NEW m, Assign(p, m, c)
            PROVE  \A q \in Proc : Unassigned(q)
          BY <1>0, <3>2 DEF Assign
      <3>3. ASSUME NEW pair, Unassign(p, pair)
            PROVE  \A q \in Proc : Unassigned(q)
          BY <1>0, <3>3 DEF Unassign
      <3> QED  BY <2>4, <3>1, <3>2, <3>3 DEF AssignmentWrite
    <2> QED  BY <1>3, <2>1, <2>2, <2>3, <2>4 DEF StartWrite, AccountWrite
  <1>4. ASSUME NEW p \in Proc, Faulty(p)
        PROVE  \A q \in Proc : Unassigned(q)
      BY <1>0, <1>4 DEF Faulty, Abandon, UncacheFails
  <1>5. ASSUME NEW p \in Proc, (\E t \in Token : Request(p, t)) \/ Refuse(p) \/ Serve(p)
        PROVE  \A q \in Proc : Unassigned(q)
      BY <1>0, <1>5 DEF Request, Refuse, Serve
  <1>6. ASSUME NEW p \in Proc, Step(p)
        PROVE  \A q \in Proc : Unassigned(q)
    <2>1. CASE \/ InsertUser(p) \/ (\E t \in Token : Mint(p, t)) \/ MirrorToken(p) \/ RefreshRow(p)
               \/ RefreshUser(p) \/ Unmirror(p) \/ Revoke(p) \/ (\E k \in Reset : IssueReset(p, k))
        BY <1>0, <2>1 DEF InsertUser, Mint, MirrorToken, RefreshRow, RefreshUser, Unmirror, Revoke, IssueReset
    <2>2. CASE \/ ResetUser(p) \/ SaveUser(p) \/ RevokeAll(p) \/ CutOff(p) \/ Uncache(p)
               \/ LoadState(p) \/ FillCache(p) \/ CountAdmins(p)
        BY <1>0, <2>2 DEF ResetUser, SaveUser, RevokeAll, CutOff, Uncache, LoadState, FillCache, CountAdmins
    <2> QED  BY <1>6, <2>1, <2>2 DEF Step
  <1>7. ASSUME NEW p \in Proc, SavePair(p) \/ DeletePair(p)
        PROVE  UNCHANGED <<manager, log>> /\ \A q \in Proc : Unassigned(q)
      BY <1>0, <1>7 DEF SavePair, DeletePair
  <1>8. ASSUME NEW p \in Proc, Serving(p) \/ Faulty(p)
        PROVE  UNCHANGED <<manager, log>> /\ \A q \in Proc : Unassigned(q)
      BY <1>3, <1>4, <1>5, <1>6, <1>7, <1>8 DEF Serving, Faulty, AssignmentStep, assignments
  <1> QED  BY <1>1, <1>2, <1>8 DEF CalmNext

LEMMA OthersManaged ==
    ASSUME ManagersInv, [CalmNext]_calmVars, ~ \E p \in Proc : FindManager(p) \/ SetManager(p)
    PROVE  ManagersInv'
  <1>1. calm' \in BOOLEAN /\ (calm' => calm) /\ (calm' => OneInFlight') /\ SignInv'
      BY CalmFades, SignInvStep DEF ManagersInv
  <1>2. UNCHANGED <<manager, log>> /\ \A q \in Proc : Unassigned(q)
      BY OtherStepsAssignNobody DEF ManagersInv
  <1>3. ASSUME NEW q \in Proc
        PROVE  Managed(call'[q], manager', log', calm')
      BY <1>1, <1>2 DEF ManagersInv, Managed, Unassigned
  <1> QED  BY <1>1, <1>2, <1>3 DEF ManagersInv

LEMMA FindManaged ==
    ASSUME ManagersInv, [CalmNext]_calmVars, NEW p \in Proc, FindManager(p)
    PROVE  ManagersInv'
  <1>1. calm' \in BOOLEAN /\ (calm' => calm) /\ (calm' => OneInFlight') /\ SignInv'
      BY CalmFades, SignInvStep DEF ManagersInv
  <1> DEFINE c == call[p]
             d == [pc |-> "set_manager", op |-> c.op, on |-> c.on, to |-> c.to, row |-> c.row,
                   found |-> manager[c.on]]
  <1>2. c.pc = "find_manager" /\ UNCHANGED <<manager, log>> /\ (Goto(p, d) \/ Done(p))
      BY DEF FindManager, At, assignments
  <1>3. c.on \in User
      BY <1>2, OwnRows DEF ManagersInv, OfUser
  <1>4. Managed(d, manager, log, calm')
      BY <1>3 DEF ManagersInv, Managed
  <1>5. Managed(Idle, manager, log, calm')
      BY DEF Managed, Idle
  <1> HIDE DEF d
  <1>6. ASSUME NEW q \in Proc
        PROVE  Managed(call'[q], manager', log', calm')
    <2>1. call'[q] \in {call[q], d, Idle}
        BY <1>2 DEF Goto, Done, ManagersInv, SignInv, CallsInv
    <2>2. Managed(call[q], manager, log, calm')
        BY <1>1 DEF ManagersInv, Managed
    <2> QED  BY <1>2, <1>4, <1>5, <2>1, <2>2
  <1> QED  BY <1>1, <1>2, <1>6 DEF ManagersInv

LEMMA SetManaged ==
    ASSUME ManagersInv, [CalmNext]_calmVars, NEW p \in Proc, SetManager(p)
    PROVE  ManagersInv'
  <1>1. calm' \in BOOLEAN /\ (calm' => calm) /\ (calm' => OneInFlight') /\ SignInv'
      BY CalmFades, SignInvStep DEF ManagersInv
  <1> DEFINE c == call[p]
             entry == [from |-> c.found, to |-> c.to]
             d == [pc |-> "save_user", op |-> "approve", on |-> c.on,
                   row |-> [c.row EXCEPT !.status = "approved"]]
  <1>2. c.pc = "set_manager" /\ (call' = [call EXCEPT ![p] = d] \/ call' = [call EXCEPT ![p] = Idle])
      BY DEF SetManager, At, Goto, Done, Saving
  <1>3. /\ c.on \in User /\ c.to \in User /\ c.to # None /\ c.found \in User \cup {None}
        /\ entry \in LogRow /\ log[c.on] \in Seq(LogRow)
        /\ manager \in [User -> User \cup {None}] /\ log \in [User -> Seq(LogRow)]
        /\ call \in [Proc -> Call]
      BY <1>2, OwnRows, CallFields, AccountsAssumption
         DEF ManagersInv, SignInv, TablesInv, CallsInv, OfUser, LogRow
  <1>4. Managed(c, manager, log, calm)
      BY DEF ManagersInv
  <1>5. CASE UNCHANGED <<manager, log>> /\ call' = [call EXCEPT ![p] = Idle]
    <2>1. ASSUME NEW q \in Proc
          PROVE  Managed(call'[q], manager', log', calm')
      <3>1. call'[q] \in {call[q], Idle} /\ Managed(Idle, manager, log, calm')
          BY <1>3, <1>5 DEF Managed, Idle
      <3> QED  BY <1>1, <1>5, <3>1 DEF ManagersInv, Managed
    <2> QED  BY <1>1, <1>5, <2>1 DEF ManagersInv
  <1>6. CASE /\ manager' = [manager EXCEPT ![c.on] = c.to]
             /\ log' = IF c.found = c.to THEN log ELSE [log EXCEPT ![c.on] = Append(log[c.on], entry)]
    <2>1. OnLog(log'[c.on], c.to) /\ \A m : OnLog(log[c.on], m) => OnLog(log'[c.on], m)
      <3>1. CASE c.found = c.to
          BY <1>2, <1>3, <1>4, <1>6, <3>1 DEF Managed
      <3>2. CASE c.found # c.to
        <4>1. log'[c.on] = Append(log[c.on], entry) /\ entry.to = c.to
            BY <1>3, <1>6, <3>2
        <4> HIDE DEF entry
        <4> QED  BY <1>3, <4>1, LogGrows
      <3> QED  BY <3>1, <3>2
    <2>2. manager'[c.on] = c.to /\ \A x \in User \ {c.on} : manager'[x] = manager[x] /\ log'[x] = log[x]
        BY <1>3, <1>6
    <2>3. ASSUME calm' PROVE Story(log'[c.on], manager'[c.on])
      <3>1. c.found = manager[c.on] /\ Story(log[c.on], manager[c.on])
          BY <1>1, <1>2, <1>3, <1>4, <2>3 DEF ManagersInv, Managed
      <3>2. CASE c.found = c.to
          BY <1>6, <2>2, <3>1, <3>2
      <3>3. CASE c.found # c.to
        <4>1. log'[c.on] = Append(log[c.on], entry) /\ entry.to = c.to /\ entry.from = c.found
            BY <1>3, <1>6, <3>3
        <4> HIDE DEF entry
        <4> QED  BY <1>3, <2>2, <3>1, <3>3, <4>1, StoryGoesOn
      <3> QED  BY <3>2, <3>3
    <2>4. ASSUME NEW q \in Proc
          PROVE  Managed(call'[q], manager', log', calm')
      <3>1. CASE q = p
        <4>1. call'[q] = d \/ call'[q] = Idle
            BY <1>2, <1>3, <3>1
        <4>2. manager'[d.on] # None
            BY <1>3, <2>2
        <4> QED  BY <4>1, <4>2 DEF Managed, Idle
      <3>2. CASE q # p
        <4>1. call'[q] = call[q] /\ call[q] \in Call /\ Managed(call[q], manager, log, calm)
            BY <1>2, <1>3, <3>2 DEF ManagersInv
        <4>2. calm' => call[q] = Idle
            BY <1>1, <1>2, <3>2, Alone DEF ManagersInv
        <4>3. call[q].pc \in OfUser => call[q].on \in User
            BY <4>1, CallFields
        <4>4. \A x \in User : manager[x] # None => manager'[x] # None
            BY <1>3, <2>2
        <4>5. \A x \in User : \A m : OnLog(log[x], m) => OnLog(log'[x], m)
            BY <2>1, <2>2
        <4> QED  BY <4>1, <4>2, <4>3, <4>4, <4>5 DEF Managed, OfUser, Idle
      <3> QED  BY <3>1, <3>2
    <2>5. ASSUME NEW x \in User
          PROVE  /\ manager'[x] # None => OnLog(log'[x], manager'[x])
                 /\ calm' => Story(log'[x], manager'[x])
      <3>1. CASE x = c.on
          BY <2>1, <2>2, <2>3, <3>1
      <3>2. CASE x # c.on
          BY <1>1, <2>2, <3>2 DEF ManagersInv
      <3> QED  BY <3>1, <3>2
    <2> QED  BY <1>1, <2>4, <2>5 DEF ManagersInv
  <1>7. \/ UNCHANGED <<manager, log>> /\ call' = [call EXCEPT ![p] = Idle]
        \/ /\ manager' = [manager EXCEPT ![c.on] = c.to]
           /\ log' = IF c.found = c.to THEN log ELSE [log EXCEPT ![c.on] = Append(log[c.on], entry)]
      BY DEF SetManager, Done, Goto
  <1> QED  BY <1>5, <1>6, <1>7

LEMMA ManagersKept ==
    ASSUME ManagersInv, [CalmNext]_calmVars
    PROVE  ManagersInv'
  BY OthersManaged, FindManaged, SetManaged

LEMMA ManagersInit ==
    ASSUME CalmInit
    PROVE  ManagersInv
  <1>1. SignInv
      BY SignInvInit
  <1>2. /\ log = [c \in User |-> IF manager[c] = None THEN <<>> ELSE <<[from |-> None, to |-> manager[c]]>>]
        /\ call = [p \in Proc |-> Idle] /\ calm = TRUE
      BY DEF CalmInit, Init
  <1>3. ASSUME NEW c \in User
        PROVE  (manager[c] # None => OnLog(log[c], manager[c])) /\ Story(log[c], manager[c])
    <2>1. CASE manager[c] = None
        BY <1>2, <2>1 DEF Story
    <2>2. CASE manager[c] # None
      <3>1. log[c] = <<[from |-> None, to |-> manager[c]]>>
          BY <1>2, <2>2
      <3>2. DOMAIN log[c] = {1} /\ Len(log[c]) = 1 /\ log[c] # <<>> /\ log[c][1] = [from |-> None, to |-> manager[c]]
          BY <3>1
      <3> QED  BY <2>2, <3>2 DEF OnLog, Story
    <2> QED  BY <2>1, <2>2
  <1>4. \A p \in Proc : Managed(call[p], manager, log, calm)
      BY <1>2 DEF Managed, Idle
  <1>5. OneInFlight
      BY <1>2 DEF OneInFlight
  <1> QED  BY <1>1, <1>2, <1>3, <1>4, <1>5 DEF ManagersInv

\* approve assigns before it flips: whoever dies half-way or reassigns meanwhile, the customer
\* it flips has a manager (approve in admin-customer.service.ts).
THEOREM ApprovedTheorem == CalmSpec => ApprovedHasManager
  <1>1. ASSUME ManagersInv, NEW p \in Proc, SaveUser(p), call[p].op = "approve"
        PROVE  manager[call[p].on] # None
      BY <1>1 DEF ManagersInv, Managed, SaveUser, At
  <1>2. ManagersInv /\ [CalmNext]_calmVars =>
          [\A p \in Proc : SaveUser(p) /\ call[p].op = "approve" => manager[call[p].on] # None]_vars
      BY <1>1
  <1> QED  BY <1>2, ManagersInit, ManagersKept, PTL DEF CalmSpec, ApprovedHasManager

\* A manager there is was recorded, however assignments overlap; calls that come one by one
\* leave a log without a gap (setManager in assignment.service.ts).
THEOREM ManagersTheorem == CalmSpec => []ManagerLogged
  <1>1. ManagersInv => ManagerLogged
      BY DEF ManagersInv, ManagerLogged, OnLog
  <1> QED  BY <1>1, ManagersInit, ManagersKept, PTL DEF CalmSpec

-----------------------------------------------------------------------------
(* Cut-offs and cached states, while calls come one by one *)

Rewriting == {"save_user", "count_admins", "find_manager", "set_manager"}

\* What a call holds is as the tables have it: the cut-off of the row it will save, the state
\* it will cache; what it is about to cut off is revoked.
Current(c, usrs, toks) ==
    /\ c.pc = "insert_user" => c.row.validFrom = 0
    /\ c.pc \in Rewriting => c.row.validFrom = usrs[c.on].validFrom
    /\ c.pc = "cut_off" => \A t \in Token : toks[t] # None /\ toks[t].user = c.on => toks[t].revoked
    /\ c.pc = "fill" => c.state = State(usrs[toks[c.token].user])

\* A call that changed the row of a user and has still to drop the cached state.
Dropping(c, u) == c.pc \in {"revoke_all", "cut_off", "uncache"} /\ c.on = u

CutOffsPast == \A u \in User : users[u] # None => users[u].validFrom <= clock
StaleRevoked ==
    \A t \in Token : tokens[t] # None /\ Stale(t, users[tokens[t].user]) => tokens[t].revoked
CacheFollows ==
    \A u \in User : cache[u] # None =>
        users[u] # None /\ (cache[u] = State(users[u]) \/ \E p \in Proc : Dropping(call[p], u))
CallsCurrent == \A p \in Proc : Current(call[p], users, tokens)

InStep == CutOffsPast /\ StaleRevoked /\ CacheFollows /\ CallsCurrent

InStepInv ==
    /\ SignInv
    /\ calm \in BOOLEAN
    /\ calm => OneInFlight
    /\ calm => InStep

LEMMA LooksInStep ==
    ASSUME SignInv, InStep, NEW p \in Proc, NEW d, Goto(p, d), Current(d, users, tokens),
           call[p].pc \notin {"revoke_all", "cut_off", "uncache"},
           UNCHANGED <<users, tokens, cache, clock>>
    PROVE  InStep'
  <1>1. call \in [Proc -> Call]
      BY DEF SignInv, CallsInv
  <1>2. \A q \in Proc : call'[q] = call[q] \/ call'[q] = d
      BY <1>1 DEF Goto
  <1>3. \A q \in Proc, u \in User : Dropping(call[q], u) => Dropping(call'[q], u)
      BY <1>1 DEF Goto, Dropping
  <1>4. CallsCurrent'
      BY <1>2 DEF InStep, CallsCurrent
  <1>5. CacheFollows'
      BY <1>3 DEF InStep, CacheFollows
  <1>6. CutOffsPast' /\ StaleRevoked'
      BY DEF InStep, CutOffsPast, StaleRevoked, Stale
  <1> QED  BY <1>4, <1>5, <1>6 DEF InStep

\* Calls whose records say nothing of rows.
LEMMA PlainCurrent ==
    ASSUME NEW d, d.pc \notin Rewriting \cup {"insert_user", "cut_off", "fill"}
    PROVE  Current(d, users, tokens)
  BY DEF Current

\* The steps that look, or write what the cut-offs and the cached states do not depend on.
LEMMA SignInInStep ==
    ASSUME SignInv, InStep, NEW p \in Proc, UNCHANGED clock,
           \/ \E u \in User, pw \in Password : Register(p, u, pw) \/ Login(p, u, pw)
           \/ \E t \in Token : Refresh(p, t) \/ Logout(p, t) \/ Request(p, t)
           \/ \E u \in User : ForgotPassword(p, u)
           \/ \E k \in Reset : IssueReset(p, k)
           \/ \E k \in Reset, pw \in Password : ConsumeReset(p, k, pw)
           \/ MirrorToken(p) \/ Unmirror(p) \/ RefreshRow(p) \/ RefreshUser(p)
           \/ Refuse(p) \/ Serve(p) \/ SavePair(p) \/ DeletePair(p)
    PROVE  InStep'
  <1> USE DEF At, Admitted, store
  <1>1. ASSUME NEW d, Goto(p, d), d.pc \notin Rewriting \cup {"insert_user", "cut_off", "fill"},
               call[p].pc \notin {"revoke_all", "cut_off", "uncache"},
               UNCHANGED <<users, tokens, cache, clock>>
        PROVE  InStep'
      BY <1>1, PlainCurrent, LooksInStep
  <1>2. ASSUME Done(p), call[p].pc \notin {"revoke_all", "cut_off", "uncache"},
               UNCHANGED <<users, tokens, cache, clock>>
        PROVE  InStep'
      BY <1>1, <1>2 DEF Done, Idle, Rewriting
  <1>3. ASSUME NEW u \in User, NEW pw \in Password, Register(p, u, pw)
        PROVE  InStep'
    <2> DEFINE d == [pc |-> "insert_user", op |-> "register", on |-> u,
                     row |-> [role |-> "customer", isActive |-> TRUE, status |-> "pending_approval",
                              validFrom |-> 0, password |-> pw]]
    <2>1. Current(d, users, tokens)
        BY DEF Current, Rewriting
    <2>2. Goto(p, d) /\ UNCHANGED <<users, tokens, cache, clock>> /\ call[p].pc = "idle"
        BY <1>3 DEF Register
    <2> HIDE DEF d
    <2> QED  BY <2>1, <2>2, LooksInStep
  <1>4. ASSUME NEW u \in User, NEW pw \in Password, Login(p, u, pw)
        PROVE  InStep'
      BY <1>1, <1>4 DEF Login, Rewriting
  <1>5. ASSUME NEW t \in Token, Refresh(p, t)
        PROVE  InStep'
      BY <1>1, <1>5 DEF Refresh, Rewriting
  <1>6. ASSUME NEW t \in Token, Logout(p, t)
        PROVE  InStep'
      BY <1>1, <1>6 DEF Logout, Rewriting
  <1>7. ASSUME NEW t \in Token, Request(p, t)
        PROVE  InStep'
    <2> DEFINE s == cache[tokens[t].user]
               d == IF s # None THEN [pc |-> "decide", token |-> t, state |-> s]
                                ELSE [pc |-> "load", token |-> t]
    <2>1. Goto(p, d) /\ UNCHANGED <<users, tokens, cache, clock>> /\ call[p].pc = "idle"
        BY <1>7 DEF Request
    <2>2. d.pc \in {"decide", "load"}
        OBVIOUS
    <2> HIDE DEF d
    <2> QED  BY <1>1, <2>1, <2>2 DEF Rewriting
  <1>8. ASSUME NEW u \in User, ForgotPassword(p, u)
        PROVE  InStep'
      BY <1>1, <1>8 DEF ForgotPassword, Rewriting
  <1>9. ASSUME NEW k \in Reset, NEW pw \in Password, ConsumeReset(p, k, pw)
        PROVE  InStep'
      BY <1>1, <1>9 DEF ConsumeReset, Rewriting
  <1>10. CASE Unmirror(p)
      BY <1>1, <1>10 DEF Unmirror, Rewriting
  <1>11. CASE RefreshRow(p)
      BY <1>1, <1>2, <1>11 DEF RefreshRow, Rewriting
  <1>12. CASE RefreshUser(p)
      BY <1>1, <1>2, <1>12 DEF RefreshUser, Rewriting
  <1>13. CASE \/ \E k \in Reset : IssueReset(p, k)
              \/ MirrorToken(p) \/ Refuse(p) \/ Serve(p) \/ SavePair(p) \/ DeletePair(p)
      BY <1>2, <1>13 DEF IssueReset, MirrorToken, Refuse, Serve, SavePair, DeletePair
  <1> QED  BY <1>3, <1>4, <1>5, <1>6, <1>7, <1>8, <1>9, <1>10, <1>11, <1>12, <1>13

\* A handler reads a row and keeps its cut-off.
LEMMA RowsInStep ==
    ASSUME SignInv, InStep, NEW p \in Proc, UNCHANGED clock,
           \/ UpdateCurrentUser(p)
           \/ \E u \in User, role \in Role, pw \in Password : CreateUser(p, u, role, pw)
           \/ \E u \in User, role \in Role \cup {None}, active \in BOOLEAN \cup {None} :
                 UpdateUser(p, u, role, active)
           \/ \E c \in User : Suspend(p, c) \/ Reactivate(p, c)
           \/ \E c, m \in User : Approve(p, c, m) \/ ReassignManager(p, c, m) \/ Assign(p, m, c)
           \/ \E pair \in agents : Unassign(p, pair)
    PROVE  InStep'
  <1> USE DEF At, Admitted, store
  <1>1. ASSUME NEW d, Goto(p, d), d.pc \in Rewriting, d.row.validFrom = users[d.on].validFrom,
               call[p].pc = "decide", UNCHANGED <<users, tokens, cache, clock>>
        PROVE  InStep'
    <2>1. Current(d, users, tokens)
        BY <1>1 DEF Current, Rewriting
    <2> QED  BY <1>1, <2>1, LooksInStep
  <1>2. CASE UpdateCurrentUser(p)
      BY <1>1, <1>2 DEF UpdateCurrentUser, Saving, Rewriting
  <1>3. ASSUME NEW u \in User, NEW role \in Role, NEW pw \in Password, CreateUser(p, u, role, pw)
        PROVE  InStep'
    <2> DEFINE d == [pc |-> "insert_user", op |-> "create", on |-> u,
                     row |-> [role |-> role, isActive |-> TRUE, status |-> "approved",
                              validFrom |-> 0, password |-> pw]]
    <2>1. Current(d, users, tokens)
        BY DEF Current, Rewriting
    <2>2. Goto(p, d) /\ UNCHANGED <<users, tokens, cache, clock>> /\ call[p].pc = "decide"
        BY <1>3 DEF CreateUser
    <2> HIDE DEF d
    <2> QED  BY <2>1, <2>2, LooksInStep
  <1>4. ASSUME NEW u \in User, NEW role \in Role \cup {None}, NEW active \in BOOLEAN \cup {None},
               UpdateUser(p, u, role, active)
        PROVE  InStep'
    <2> DEFINE new == [users[u] EXCEPT !.role = IF role = None THEN @ ELSE role,
                                       !.isActive = IF active = None THEN @ ELSE active]
               losing == users[u].role = "admin" /\ (new.role # "admin" \/ (users[u].isActive /\ ~new.isActive))
               label == IF losing THEN "count_admins" ELSE "save_user"
               op == IF new # users[u] THEN "update_access" ELSE "update"
               d == [pc |-> label, op |-> op, on |-> u, row |-> new]
    <2>1. users[u] \in UserRow
        BY <1>4, RowTypes DEF UpdateUser
    <2>2. new.validFrom = users[u].validFrom
        BY <2>1 DEF UserRow
    <2>3. Goto(p, d) /\ UNCHANGED <<users, tokens, cache, clock>> /\ call[p].pc = "decide"
        BY <1>4 DEF UpdateUser
    <2>4. label \in Rewriting
        BY DEF Rewriting
    <2> HIDE DEF new, label, op
    <2> QED  BY <1>1, <2>2, <2>3, <2>4
  <1>5. ASSUME NEW c \in User, Suspend(p, c) \/ Reactivate(p, c)
        PROVE  InStep'
    <2>1. PICK s, op : Goto(p, Saving(op, c, [users[c] EXCEPT !.status = s]))
        BY <1>5 DEF Suspend, Reactivate
    <2>2. users[c] \in UserRow /\ UNCHANGED <<users, tokens, cache, clock>> /\ call[p].pc = "decide"
        BY <1>5, RowTypes DEF Suspend, Reactivate, HasRole
    <2>3. [users[c] EXCEPT !.status = s].validFrom = users[c].validFrom
        BY <2>2 DEF UserRow
    <2> QED  BY <1>1, <2>1, <2>2, <2>3 DEF Saving, Rewriting
  <1>6. ASSUME NEW c \in User, NEW m \in User, Approve(p, c, m) \/ ReassignManager(p, c, m)
        PROVE  InStep'
    <2>1. PICK op : Goto(p, [pc |-> "find_manager", op |-> op, on |-> c, to |-> m, row |-> users[c]])
        BY <1>6 DEF Approve, ReassignManager
    <2>2. UNCHANGED <<users, tokens, cache, clock>> /\ call[p].pc = "decide"
        BY <1>6 DEF Approve, ReassignManager
    <2> QED  BY <1>1, <2>1, <2>2 DEF Rewriting
  <1>7. ASSUME NEW d, Goto(p, d), d.pc \in {"save_pair", "delete_pair"},
               call[p].pc = "decide", UNCHANGED <<users, tokens, cache, clock>>
        PROVE  InStep'
      BY <1>7, PlainCurrent, LooksInStep DEF Rewriting
  <1>8. ASSUME NEW c \in User, NEW m \in User, Assign(p, m, c)
        PROVE  InStep'
      BY <1>7, <1>8 DEF Assign
  <1>9. ASSUME NEW pair \in agents, Unassign(p, pair)
        PROVE  InStep'
      BY <1>7, <1>9 DEF Unassign
  <1> QED  BY <1>2, <1>3, <1>4, <1>5, <1>6, <1>8, <1>9

LEMMA StepsInStep ==
    ASSUME SignInv, InStep, NEW p \in Proc, UNCHANGED clock,
           ResetUser(p) \/ LoadState(p) \/ CountAdmins(p) \/ FindManager(p) \/ SetManager(p)
    PROVE  InStep'
  <1> USE DEF At, store
  <1> DEFINE c == call[p]
  <1>1. c \in Call /\ Current(c, users, tokens)
      BY OwnRows DEF InStep, CallsCurrent
  <1>2. Current(Idle, users, tokens)
      BY DEF Current, Idle, Rewriting
  <1>3. CASE ResetUser(p)
    <2> DEFINE row == [users[c.on] EXCEPT !.password = c.password]
               d == [pc |-> "save_user", op |-> "reset", on |-> c.on, reset |-> c.reset, row |-> row]
    <2>1. /\ c.pc = "reset_user" /\ (Goto(p, d) \/ Goto(p, Idle)) /\ UNCHANGED <<users, tokens, cache, clock>>
        BY <1>3 DEF ResetUser, Done
    <2>2. row.validFrom = users[c.on].validFrom
        BY <2>1, OwnRows DEF OfUser, UserRow
    <2>3. Current(d, users, tokens)
        BY <2>2 DEF Current, Rewriting
    <2> HIDE DEF d
    <2> QED  BY <1>2, <2>1, <2>3, LooksInStep
  <1>4. CASE LoadState(p)
    <2> DEFINE d == [pc |-> "fill", token |-> c.token, state |-> State(users[tokens[c.token].user])]
    <2>1. c.pc = "load" /\ Goto(p, d) /\ UNCHANGED <<users, tokens, cache, clock>>
        BY <1>4 DEF LoadState
    <2>2. Current(d, users, tokens)
        BY DEF Current, Rewriting
    <2> HIDE DEF d
    <2> QED  BY <2>1, <2>2, LooksInStep
  <1>5. CASE CountAdmins(p)
    <2> DEFINE d == [pc |-> "save_user", op |-> c.op, on |-> c.on, row |-> c.row]
    <2>1. /\ c.pc = "count_admins" /\ (Goto(p, d) \/ Goto(p, Idle)) /\ UNCHANGED <<users, tokens, cache, clock>>
        BY <1>5 DEF CountAdmins, Done, Saving
    <2>2. Current(d, users, tokens)
        BY <1>1, <2>1 DEF Current, Rewriting
    <2> HIDE DEF d
    <2> QED  BY <1>2, <2>1, <2>2, LooksInStep
  <1>6. CASE FindManager(p)
    <2> DEFINE d == [pc |-> "set_manager", op |-> c.op, on |-> c.on, to |-> c.to, row |-> c.row,
                     found |-> manager[c.on]]
    <2>1. /\ c.pc = "find_manager" /\ (Goto(p, d) \/ Goto(p, Idle)) /\ UNCHANGED <<users, tokens, cache, clock>>
        BY <1>6 DEF FindManager, Done
    <2>2. Current(d, users, tokens)
        BY <1>1, <2>1 DEF Current, Rewriting
    <2> HIDE DEF d
    <2> QED  BY <1>2, <2>1, <2>2, LooksInStep
  <1>7. CASE SetManager(p)
    <2> DEFINE row == [c.row EXCEPT !.status = "approved"]
               d == [pc |-> "save_user", op |-> "approve", on |-> c.on, row |-> row]
    <2>1. /\ c.pc = "set_manager" /\ (Goto(p, d) \/ Goto(p, Idle)) /\ UNCHANGED <<users, tokens, cache, clock>>
        BY <1>7 DEF SetManager, Done, Saving
    <2>2. row.validFrom = c.row.validFrom
        BY <1>1, <2>1, CallFields DEF WithRow, UserRow
    <2>3. Current(d, users, tokens)
        BY <1>1, <2>1, <2>2 DEF Current, Rewriting
    <2> HIDE DEF d
    <2> QED  BY <1>2, <2>1, <2>3, LooksInStep
  <1> QED  BY <1>3, <1>4, <1>5, <1>6, <1>7

\* The call of a step that writes is the only one under way.
LEMMA OnlyCall ==
    ASSUME SignInv, calm, calm => OneInFlight, NEW p \in Proc, call[p].pc # "idle",
           NEW d, Goto(p, d), Current(d, users', tokens')
    PROVE  /\ \A q \in Proc : Current(call'[q], users', tokens')
           /\ \A q \in Proc, u \in User : Dropping(call[q], u) => q = p
           /\ call'[p] = d
  <1>1. call' = [call EXCEPT ![p] = d] /\ call \in [Proc -> Call]
      BY DEF Goto, SignInv, CallsInv
  <1>2. \A q \in Proc : q # p => call[q] = Idle /\ call'[q] = Idle
      BY <1>1, Alone
  <1>3. Current(Idle, users', tokens')
      BY DEF Current, Idle, Rewriting
  <1> QED  BY <1>1, <1>2, <1>3 DEF Dropping, Idle

LEMMA UsersInStep ==
    ASSUME SignInv, InStep, calm, calm => OneInFlight, NEW p \in Proc, UNCHANGED clock,
           InsertUser(p) \/ SaveUser(p) \/ CutOff(p)
    PROVE  InStep'
  <1> DEFINE c == call[p]
  <1> USE DEF At
  <1>1. /\ c \in Call /\ Current(c, users, tokens) /\ users \in [User -> UserRow \cup {None}]
        /\ clock \in 1..MaxTime /\ tokens \in [Token -> TokenRow \cup {None}]
      BY OwnRows DEF InStep, CallsCurrent, SignInv, TablesInv
  <1>2. \A t \in Token : tokens[t] # None => tokens[t].user \in User /\ tokens[t].iat \in Nat
      BY RowTypes DEF TokenRow
  <1>3. CASE InsertUser(p) /\ users[c.on] # None
    <2>1. c.pc = "insert_user" /\ Goto(p, Idle) /\ UNCHANGED <<users, tokens, cache, clock>>
        BY <1>3 DEF InsertUser, Done
    <2>2. Current(Idle, users, tokens)
        BY DEF Current, Idle, Rewriting
    <2> QED  BY <2>1, <2>2, LooksInStep
  <1>4. CASE InsertUser(p) /\ users[c.on] = None
    <2> DEFINE d == IF c.op = "register" THEN [pc |-> "mint", user |-> c.on, parent |-> None] ELSE Idle
    <2>1. /\ c.pc = "insert_user" /\ users' = [users EXCEPT ![c.on] = c.row] /\ Goto(p, d)
          /\ UNCHANGED <<tokens, cache>>
        BY <1>4 DEF InsertUser, Done
    <2>2. c.on \in User /\ c.row \in UserRow /\ c.row.validFrom = 0
        BY <1>1, <2>1, CallFields DEF WithRow, Current
    <2>3. Current(d, users', tokens')
        BY DEF Current, Idle, Rewriting
    <2>4. \A q \in Proc : Current(call'[q], users', tokens')
        BY <2>1, <2>3, OnlyCall
    <2>5. \A q \in Proc, u \in User : ~Dropping(call[q], u)
        BY <2>1, <2>3, OnlyCall DEF Dropping
    <2>6. users'[c.on] = c.row /\ \A u \in User \ {c.on} : users'[u] = users[u]
        BY <1>1, <2>1, <2>2
    <2>7. cache[c.on] = None /\ \A t \in Token : tokens[t] # None => tokens[t].user # c.on
        BY <1>4, <2>2, RowTypes DEF InStep, CacheFollows
    <2>8. CutOffsPast'
        BY <1>1, <2>2, <2>6, AccountsAssumption DEF InStep, CutOffsPast
    <2>9. StaleRevoked'
        BY <1>2, <2>1, <2>6, <2>7 DEF InStep, StaleRevoked, Stale
    <2>10. CacheFollows'
        BY <2>1, <2>5, <2>6, <2>7 DEF InStep, CacheFollows
    <2> QED  BY <2>4, <2>8, <2>9, <2>10 DEF InStep, CallsCurrent
  <1>5. CASE SaveUser(p)
    <2> DEFINE label == IF c.op \in EndsSessions THEN "revoke_all" ELSE "uncache"
               d == [pc |-> label, on |-> c.on]
    <2>1. /\ c.pc = "save_user" /\ users' = [users EXCEPT ![c.on] = c.row] /\ Goto(p, d)
          /\ UNCHANGED <<tokens, cache>>
        BY <1>5 DEF SaveUser
    <2>2. /\ c.on \in User /\ c.row \in UserRow /\ c.row # None /\ users[c.on] # None
          /\ c.row.validFrom = users[c.on].validFrom
        BY <1>1, <2>1, OwnRows, CallFields, AccountsAssumption DEF WithRow, OfUser, Current, Rewriting
    <2>3. label \in {"revoke_all", "uncache"}
        OBVIOUS
    <2> HIDE DEF label
    <2>4. Current(d, users', tokens') /\ d.pc \in {"revoke_all", "uncache"} /\ d.on = c.on
        BY <2>3 DEF Current, Rewriting
    <2> HIDE DEF d
    <2>5. call'[p] = d /\ \A q \in Proc : Current(call'[q], users', tokens')
        BY <2>1, <2>4, OnlyCall
    <2>6. \A q \in Proc, u \in User : ~Dropping(call[q], u)
        BY <2>1, <2>4, OnlyCall DEF Dropping
    <2>7. users'[c.on] = c.row /\ \A u \in User \ {c.on} : users'[u] = users[u]
        BY <1>1, <2>1, <2>2
    <2>8. Dropping(call'[p], c.on)
        BY <2>4, <2>5 DEF Dropping
    <2>9. CutOffsPast'
        BY <2>2, <2>7 DEF InStep, CutOffsPast
    <2>10. StaleRevoked'
        BY <1>2, <2>1, <2>2, <2>7 DEF InStep, StaleRevoked, Stale
    <2>11. CacheFollows'
        BY <2>1, <2>2, <2>6, <2>7, <2>8 DEF InStep, CacheFollows
    <2> QED  BY <2>5, <2>9, <2>10, <2>11 DEF InStep, CallsCurrent
  <1>6. CASE CutOff(p)
    <2> DEFINE row == [users[c.on] EXCEPT !.validFrom = clock]
               d == [pc |-> "uncache", on |-> c.on]
    <2>1. c.pc = "cut_off" /\ Goto(p, d) /\ UNCHANGED <<tokens, cache>>
        BY <1>6 DEF CutOff
    <2>2. c.on \in User /\ users[c.on] \in UserRow /\ users[c.on] # None
        BY <2>1, OwnRows, AccountsAssumption DEF OfUser
    <2>3. /\ row.validFrom = clock
          /\ users'[c.on] = row /\ \A u \in User \ {c.on} : users'[u] = users[u]
        BY <1>1, <1>6, <2>2 DEF CutOff, UserRow
    <2> HIDE DEF row
    <2>4. Current(d, users', tokens')
        BY DEF Current, Rewriting
    <2>5. call'[p] = d /\ \A q \in Proc : Current(call'[q], users', tokens')
        BY <2>1, <2>4, OnlyCall
    <2>6. \A q \in Proc, u \in User : Dropping(call[q], u) => u = c.on
        BY <2>1, <2>4, OnlyCall DEF Dropping
    <2>7. Dropping(call'[p], c.on)
        BY <2>5 DEF Dropping
    <2>8. \A t \in Token : tokens[t] # None /\ tokens[t].user = c.on => tokens[t].revoked
        BY <1>1, <2>1 DEF Current
    <2>9. CutOffsPast'
        BY <1>1, <2>3 DEF InStep, CutOffsPast
    <2>10. StaleRevoked'
        BY <1>2, <2>1, <2>3, <2>8 DEF InStep, StaleRevoked, Stale
    <2>11. row # None
        BY <1>1, <2>2, RowTypes, AccountsAssumption DEF row
    <2>12. CacheFollows'
        BY <2>1, <2>3, <2>6, <2>7, <2>11 DEF InStep, CacheFollows
    <2> QED  BY <2>5, <2>9, <2>10, <2>12 DEF InStep, CallsCurrent
  <1> QED  BY <1>3, <1>4, <1>5, <1>6

LEMMA TokensInStep ==
    ASSUME SignInv, InStep, calm, calm => OneInFlight, NEW p \in Proc, UNCHANGED clock,
           (\E t \in Token : Mint(p, t)) \/ Revoke(p) \/ RevokeAll(p)
    PROVE  InStep'
  <1> DEFINE c == call[p]
  <1> USE DEF At
  <1>1. /\ c \in Call /\ Current(c, users, tokens) /\ users \in [User -> UserRow \cup {None}]
        /\ clock \in 1..MaxTime /\ tokens \in [Token -> TokenRow \cup {None}]
      BY OwnRows DEF InStep, CallsCurrent, SignInv, TablesInv
  <1>2. ASSUME NEW t \in Token, Mint(p, t)
        PROVE  InStep'
    <2> DEFINE row == [user |-> c.user, iat |-> clock, revoked |-> FALSE, parent |-> c.parent]
               d == [pc |-> "mirror", token |-> t]
    <2>1. /\ c.pc = "mint" /\ tokens' = [tokens EXCEPT ![t] = row] /\ Goto(p, d)
          /\ UNCHANGED <<users, cache>>
        BY <1>2 DEF Mint
    <2>2. c.user \in User /\ users[c.user] # None /\ users[c.user] \in UserRow
        BY <2>1, OwnRows, CallFields, RowTypes DEF Backed
    <2>3. tokens'[t] = row /\ \A x \in Token \ {t} : tokens'[x] = tokens[x]
        BY <1>1, <2>1
    <2>4. Current(d, users', tokens')
        BY DEF Current, Rewriting
    <2>5. \A q \in Proc : Current(call'[q], users', tokens')
        BY <2>1, <2>4, OnlyCall
    <2>6. \A q \in Proc, u \in User : ~Dropping(call[q], u)
        BY <2>1, <2>4, OnlyCall DEF Dropping
    <2>7. users[c.user].validFrom \in Nat /\ users[c.user].validFrom <= clock /\ clock \in Nat
        BY <1>1, <2>2 DEF InStep, CutOffsPast, UserRow
    <2>8. StaleRevoked'
        BY <2>1, <2>3, <2>7 DEF InStep, StaleRevoked, Stale
    <2>9. CacheFollows'
        BY <2>1, <2>6 DEF InStep, CacheFollows
    <2>10. CutOffsPast'
        BY <2>1 DEF InStep, CutOffsPast
    <2> QED  BY <2>5, <2>8, <2>9, <2>10 DEF InStep, CallsCurrent
  <1>3. ASSUME NEW d, Goto(p, d), Current(d, users', tokens'), c.pc # "idle",
               UNCHANGED <<users, cache>>,
               \A t \in Token : \/ tokens'[t] = tokens[t]
                                \/ tokens[t] # None /\ tokens'[t] = [tokens[t] EXCEPT !.revoked = TRUE],
               \A u \in User : Dropping(c, u) => Dropping(d, u)
        PROVE  InStep'
    <2>1. call'[p] = d /\ \A q \in Proc : Current(call'[q], users', tokens')
        BY <1>3, OnlyCall
    <2>2. \A q \in Proc, u \in User : Dropping(call[q], u) => Dropping(call'[p], u)
        BY <1>3, <2>1, OnlyCall
    <2>3. CacheFollows'
        BY <1>3, <2>2 DEF InStep, CacheFollows
    <2>4. ASSUME NEW t \in Token, tokens'[t] # None, users'[tokens'[t].user].validFrom # 0,
                 tokens'[t].iat < users'[tokens'[t].user].validFrom
          PROVE  tokens'[t].revoked
      <3>1. CASE tokens'[t] = tokens[t]
          BY <1>3, <2>4, <3>1 DEF InStep, StaleRevoked, Stale
      <3>2. CASE tokens[t] # None /\ tokens'[t] = [tokens[t] EXCEPT !.revoked = TRUE]
        <4>1. tokens[t] \in TokenRow
            BY <3>2, RowTypes
        <4> QED  BY <3>2, <4>1 DEF TokenRow
      <3> QED  BY <1>3, <3>1, <3>2
    <2>5. StaleRevoked'
        BY <1>3, <2>4 DEF StaleRevoked, Stale
    <2>6. CutOffsPast'
        BY <1>3 DEF InStep, CutOffsPast
    <2> QED  BY <2>1, <2>3, <2>5, <2>6 DEF InStep, CallsCurrent
  <1>4. CASE Revoke(p)
    <2> DEFINE d == IF c.op = "refresh" THEN [pc |-> "mint", user |-> tokens[c.token].user, parent |-> c.token]
                                        ELSE Idle
    <2>1. /\ c.pc = "revoke" /\ tokens' = [tokens EXCEPT ![c.token].revoked = TRUE] /\ Goto(p, d)
          /\ UNCHANGED <<users, cache>>
        BY <1>4 DEF Revoke, Done
    <2>2. tokens[c.token] # None /\ c.token \in Token
        BY <2>1, OwnRows, AccountsAssumption DEF OfToken
    <2>3. \A t \in Token : \/ tokens'[t] = tokens[t]
                           \/ tokens[t] # None /\ tokens'[t] = [tokens[t] EXCEPT !.revoked = TRUE]
        BY <1>1, <2>1, <2>2
    <2>4. Current(d, users', tokens') /\ \A u \in User : ~Dropping(c, u)
        BY <2>1 DEF Current, Idle, Rewriting, Dropping
    <2> HIDE DEF d
    <2> QED  BY <1>3, <2>1, <2>3, <2>4
  <1>5. CASE RevokeAll(p)
    <2> DEFINE d == [pc |-> "cut_off", on |-> c.on]
    <2>1. /\ c.pc = "revoke_all" /\ Goto(p, d) /\ UNCHANGED <<users, cache>>
          /\ tokens' = [t \in Token |-> IF tokens[t] # None /\ tokens[t].user = c.on
                                        THEN [tokens[t] EXCEPT !.revoked = TRUE] ELSE tokens[t]]
        BY <1>5 DEF RevokeAll
    <2>2. \A t \in Token : \/ tokens'[t] = tokens[t]
                           \/ tokens[t] # None /\ tokens'[t] = [tokens[t] EXCEPT !.revoked = TRUE]
        BY <2>1
    <2>3. ASSUME NEW t \in Token, tokens'[t] # None, tokens'[t].user = c.on
          PROVE  tokens'[t].revoked
      <3>1. tokens[t] # None
          BY <2>1, <2>3
      <3>2. tokens[t] \in TokenRow
          BY <3>1, RowTypes
      <3> QED  BY <2>1, <2>3, <3>1, <3>2 DEF TokenRow
    <2>4. Current(d, users', tokens') /\ \A u \in User : Dropping(c, u) => Dropping(d, u)
        BY <2>1, <2>3 DEF Current, Rewriting, Dropping
    <2> HIDE DEF d
    <2> QED  BY <1>3, <2>1, <2>2, <2>4
  <1> QED  BY <1>2, <1>4, <1>5

LEMMA CacheInStep ==
    ASSUME SignInv, InStep, calm, calm => OneInFlight, NEW p \in Proc, UNCHANGED clock,
           Uncache(p) \/ FillCache(p)
    PROVE  InStep'
  <1> DEFINE c == call[p]
  <1> USE DEF At
  <1>1. /\ c \in Call /\ Current(c, users, tokens) /\ cache \in [User -> SessionState \cup {None}]
      BY OwnRows DEF InStep, CallsCurrent, SignInv, TablesInv
  <1>2. UNCHANGED <<users, tokens>>
      BY DEF Uncache, FillCache
  <1>3. CutOffsPast' /\ StaleRevoked'
      BY <1>2 DEF InStep, CutOffsPast, StaleRevoked, Stale
  <1>4. CASE Uncache(p)
    <2>1. c.pc = "uncache" /\ cache' = [cache EXCEPT ![c.on] = None] /\ Goto(p, Idle)
        BY <1>4 DEF Uncache, Done
    <2>2. Current(Idle, users', tokens')
        BY DEF Current, Idle, Rewriting
    <2>3. \A q \in Proc : Current(call'[q], users', tokens')
        BY <2>1, <2>2, OnlyCall
    <2>4. \A q \in Proc, u \in User : Dropping(call[q], u) => u = c.on
        BY <2>1, <2>2, OnlyCall DEF Dropping
    <2>5. \A u \in User : cache'[u] # None => u # c.on /\ cache'[u] = cache[u]
        BY <1>1, <2>1
    <2>6. CacheFollows'
        BY <1>2, <2>4, <2>5 DEF InStep, CacheFollows
    <2> QED  BY <1>3, <2>3, <2>6 DEF InStep, CallsCurrent
  <1>5. CASE FillCache(p)
    <2> DEFINE d == [pc |-> "decide", token |-> c.token, state |-> c.state]
               u == tokens[c.token].user
    <2>1. c.pc = "fill" /\ cache' \in {cache, [cache EXCEPT ![u] = c.state]} /\ Goto(p, d)
        BY <1>5 DEF FillCache
    <2>2. Current(d, users', tokens')
        BY DEF Current, Rewriting
    <2>3. \A q \in Proc : Current(call'[q], users', tokens')
        BY <2>1, <2>2, OnlyCall
    <2>4. \A q \in Proc, v \in User : ~Dropping(call[q], v)
        BY <2>1, <2>2, OnlyCall DEF Dropping
    <2>5. users[u] # None /\ c.state = State(users[u])
        BY <1>1, <2>1, OwnRows, AccountsAssumption DEF Current, OfToken
    <2>6. \A v \in User : cache'[v] # cache[v] => v = u /\ cache'[v] = c.state
        BY <1>1, <2>1
    <2>7. CacheFollows'
        BY <1>2, <2>4, <2>5, <2>6 DEF InStep, CacheFollows
    <2> QED  BY <1>3, <2>3, <2>7 DEF InStep, CallsCurrent
  <1> QED  BY <1>4, <1>5

LEMMA TimeInStep ==
    ASSUME SignInv, InStep, Time
    PROVE  InStep'
  <1>1. UNCHANGED <<users, tokens, call>>
      BY DEF Time, Tick, ExpireState, ExpireReset, store
  <1>2. clock \in Nat /\ clock <= clock' /\ clock' \in Nat
      BY DEF Time, Tick, ExpireState, ExpireReset, store, SignInv, TablesInv
  <1>3. \A u \in User : cache'[u] = cache[u] \/ cache'[u] = None
      BY DEF Time, Tick, ExpireState, ExpireReset, store, SignInv, TablesInv
  <1>4. \A u \in User : users[u] # None => users[u].validFrom \in Nat
      BY RowTypes DEF UserRow
  <1>5. CutOffsPast'
      BY <1>1, <1>2, <1>4 DEF InStep, CutOffsPast
  <1>6. StaleRevoked' /\ CallsCurrent'
      BY <1>1 DEF InStep, StaleRevoked, Stale, CallsCurrent
  <1>7. CacheFollows'
      BY <1>1, <1>3 DEF InStep, CacheFollows
  <1> QED  BY <1>5, <1>6, <1>7 DEF InStep

LEMMA ServingInStep ==
    ASSUME SignInv, InStep, calm, calm => OneInFlight, NEW p \in Proc, Serving(p), UNCHANGED clock
    PROVE  InStep'
  <1>1. CASE StartWrite(p)
      BY <1>1, SignInInStep, RowsInStep DEF StartWrite, SessionWrite, AccountWrite, AssignmentWrite
  <1>2. CASE (\E t \in Token : Request(p, t)) \/ Refuse(p) \/ Serve(p)
      BY <1>2, SignInInStep
  <1>3. CASE Step(p)
      BY <1>3, SignInInStep, StepsInStep, UsersInStep, TokensInStep, CacheInStep DEF Step
  <1>4. CASE AssignmentStep(p)
      BY <1>4, SignInInStep, StepsInStep DEF AssignmentStep
  <1> QED  BY <1>1, <1>2, <1>3, <1>4 DEF Serving

LEMMA InStepKept ==
    ASSUME InStepInv, [CalmNext]_calmVars
    PROVE  InStepInv'
  <1>1. calm' \in BOOLEAN /\ (calm' => calm) /\ (calm' => OneInFlight') /\ SignInv'
      BY CalmFades, SignInvStep DEF InStepInv
  <1>2. ASSUME calm'
        PROVE  InStep'
    <2>1. calm /\ InStep /\ SignInv /\ OneInFlight
        BY <1>1, <1>2 DEF InStepInv
    <2>2. CASE UNCHANGED calmVars
        BY <2>1, <2>2 DEF calmVars, vars, InStep, CutOffsPast, StaleRevoked, Stale, CacheFollows, CallsCurrent
    <2>3. CASE \E p \in Proc : Serving(p) /\ UNCHANGED clock
        BY <2>1, <2>3, ServingInStep
    <2>4. CASE Time
        BY <2>1, <2>4, TimeInStep
    <2> QED  BY <1>2, <2>2, <2>3, <2>4 DEF CalmNext
  <1> QED  BY <1>1, <1>2 DEF InStepInv

LEMMA InStepInit ==
    ASSUME CalmInit
    PROVE  InStepInv
  <1> USE AccountsAssumption
  <1>1. SignInv
      BY SignInvInit
  <1>2. PICK pop \in Population : users = pop.users
      BY DEF CalmInit, Init
  <1>3. /\ call = [p \in Proc |-> Idle] /\ calm = TRUE /\ clock = 1 /\ cache = [u \in User |-> None]
        /\ tokens = [t \in Token |-> IF SignedIn[t] = None THEN None
                              ELSE [user |-> SignedIn[t], iat |-> 1, revoked |-> FALSE, parent |-> None]]
      BY DEF CalmInit, Init
  <1>4. CutOffsPast
      BY <1>2, <1>3 DEF CutOffsPast
  <1>5. StaleRevoked
    <2> SUFFICES ASSUME NEW t \in Token, tokens[t] # None, Stale(t, users[tokens[t].user])
                 PROVE  FALSE
        BY DEF StaleRevoked
    <2>1. tokens[t].iat = 1 /\ tokens[t].user \in User /\ users[tokens[t].user] # None
        BY <1>2, <1>3
    <2>2. users[tokens[t].user].validFrom <= 1 /\ users[tokens[t].user] \in UserRow
        BY <1>1, <1>3, <1>4, <2>1, RowTypes DEF CutOffsPast
    <2> QED  BY <2>1, <2>2 DEF Stale, UserRow
  <1>6. CacheFollows /\ CallsCurrent
      BY <1>3 DEF CacheFollows, CallsCurrent, Current, Idle, Rewriting
  <1>7. OneInFlight
      BY <1>3 DEF OneInFlight
  <1> QED  BY <1>1, <1>3, <1>4, <1>5, <1>6, <1>7 DEF InStepInv, InStep

\* While calls come one by one and none fails, what a cut-off refuses is revoked in the table
\* as well (invalidateAllSessions in session.ts).
THEOREM CutOffTheorem == CalmSpec => []CutOffRevokes
  <1>1. InStepInv => CutOffRevokes
      BY DEF InStepInv, InStep, StaleRevoked, CutOffRevokes
  <1> QED  BY <1>1, InStepInit, InStepKept, PTL DEF CalmSpec

\* While calls come one by one and none fails, the cached state of a user is between calls
\* what the row says (invalidateSessionCache in session.ts).
THEOREM CacheTheorem == CalmSpec => []CacheTruthful
  <1>1. ASSUME InStepInv, calm, Quiet, NEW u \in User, cache[u] # None
        PROVE  users[u] # None /\ cache[u] = State(users[u])
    <2>1. \A p \in Proc : ~Dropping(call[p], u)
        BY <1>1 DEF Quiet, Dropping, Idle
    <2> QED  BY <1>1, <2>1 DEF InStepInv, InStep, CacheFollows
  <1>2. InStepInv => CacheTruthful
      BY <1>1 DEF CacheTruthful
  <1> QED  BY <1>2, InStepInit, InStepKept, PTL DEF CalmSpec
=============================================================================
