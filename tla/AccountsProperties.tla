------------------------- MODULE AccountsProperties -------------------------
(***************************************************************************)
(* What Accounts is checked for: what holds however calls overlap and      *)
(* fail, then what holds as long as they are served one after the other    *)
(* and none fails (calm).                                                  *)
(***************************************************************************)
EXTENDS Accounts

Call ==
    {Idle}
    \cup [pc: {"insert_user"}, op: {"register", "create"}, on: User, row: UserRow]
    \cup [pc: {"mint"}, user: User, parent: Token \cup {None}]
    \cup [pc: {"mirror", "refresh_row", "refresh_user", "load"}, token: Token]
    \cup [pc: {"unmirror", "revoke"}, op: {"refresh", "logout"}, token: Token]
    \cup [pc: {"issue_reset", "revoke_all", "cut_off", "uncache"}, on: User]
    \cup [pc: {"reset_user"}, on: User, reset: Reset, password: Password]
    \cup [pc: {"save_user"}, op: {"reset"}, on: User, reset: Reset, row: UserRow]
    \cup [pc: {"save_user", "count_admins"}, on: User, row: UserRow,
          op: {"profile", "update", "update_access", "approve", "suspend", "reactivate"}]
    \cup [pc: {"fill", "decide"}, token: Token, state: SessionState]
    \cup [pc: {"find_manager"}, op: {"approve", "reassign"}, on: User, to: User, row: UserRow]
    \cup [pc: {"set_manager"}, op: {"approve", "reassign"}, on: User, to: User, row: UserRow,
          found: User \cup {None}]
    \cup [pc: {"save_pair"}, pair: User \X User, found: BOOLEAN]
    \cup [pc: {"delete_pair"}, pair: User \X User]

\* The shape of the tables, of what Redis holds and of the calls in flight.
AccountsTypeOK ==
    /\ users \in [User -> UserRow \cup {None}]
    /\ tokens \in [Token -> TokenRow \cup {None}]
    /\ mirror \subseteq Token
    /\ issued \subseteq Token
    /\ cache \in [User -> SessionState \cup {None}]
    /\ resets \in [Reset -> User \cup {None}]
    /\ clock \in 1..MaxTime
    /\ call \in [Proc -> Call]
    /\ manager \in [User -> User \cup {None}]
    /\ log \in [User -> Seq(LogRow)]
    /\ agents \subseteq User \X User
    /\ writes \in 0..MaxWrites

-----------------------------------------------------------------------------
(* However calls overlap and fail *)

\* Neither half of refresh's check accepts the token.
Dead(t) == tokens[t] # None /\ tokens[t].revoked /\ t \notin mirror

\* A refresh token a user holds, once revoked and out of the mirror, never comes
\* back, whatever is still in flight for it; and a logout that ran to its end left
\* its token so.
SignedOutForGood ==
    [][/\ \A t \in issued : Dead(t) => Dead(t)'
       /\ \A p \in Proc, t \in Token : Revoke(p) /\ call[p].op = "logout" /\ call[p].token = t => Dead(t)']_vars

\* approve assigns first: when it flips a customer to approved a manager is there,
\* also when the call dies half-way or another reassigns meanwhile.
ApprovedHasManager ==
    [][\A p \in Proc : SaveUser(p) /\ call[p].op = "approve" => manager[call[p].on] # None]_vars

-----------------------------------------------------------------------------
(* As long as calls are served one by one and none fails *)

VARIABLE calm

CalmInit == Init /\ calm = TRUE

OneInFlight == \A p, q \in Proc : Idle \notin {call[p], call[q]} => p = q

CalmNext ==
    \/ /\ \/ \E p \in Proc : Serving(p) /\ UNCHANGED clock
          \/ Time
       /\ calm' = (calm /\ OneInFlight')
    \/ /\ \E p \in Proc : Faulty(p) /\ UNCHANGED clock
       /\ calm' = FALSE

calmVars == <<vars, calm>>

CalmSpec == CalmInit /\ [][CalmNext]_calmVars

Quiet == \A p \in Proc : call[p] = Idle

\* Between calls the cached state of a user is what the row says: every operation
\* that changes the row drops it.
CacheTruthful ==
    calm /\ Quiet => \A u \in User : cache[u] # None => users[u] # None /\ cache[u] = State(users[u])

\* What a cut-off refuses is revoked in the table as well, also when the account was
\* cut off twice or signed in again in between.
CutOffRevokes ==
    calm /\ Quiet =>
        \A t \in Token : tokens[t] # None /\ Stale(t, users[tokens[t].user]) => tokens[t].revoked

\* A log tells the whole story: each row starts from the manager the one before left,
\* no row repeats, and the last is the manager there is.
Story(rows, last) ==
    /\ \A i \in DOMAIN rows : /\ rows[i].from = IF i = 1 THEN None ELSE rows[i - 1].to
                              /\ rows[i].from # rows[i].to
    /\ last = IF rows = <<>> THEN None ELSE rows[Len(rows)].to

\* The manager of a customer is on the customer's log: overlapping calls can bring
\* back an earlier manager, never one who was not recorded; and served one by one the
\* log tells the whole story.
ManagerLogged ==
    \A c \in User :
        /\ manager[c] # None => \E i \in DOMAIN log[c] : log[c][i].to = manager[c]
        /\ calm => Story(log[c], manager[c])
=============================================================================
