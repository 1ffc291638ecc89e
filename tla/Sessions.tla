------------------------------ MODULE Sessions ------------------------------
(***************************************************************************)
(* Users, their tokens and the session state each request is checked       *)
(* against (modules/auth/auth.service.ts, session.ts, token.ts and         *)
(* middleware/authenticate.ts).                                            *)
(*                                                                         *)
(* A Token stands for one sign-in: the refresh token, its row and the      *)
(* access token signed with it in the same instant. An await of a handler  *)
(* ends a step; what a step read before is kept in the call.               *)
(***************************************************************************)
EXTENDS Access, Naturals, FiniteSets

CONSTANTS
    User, Token, Reset, Password, Proc,
    None,                   \* a null column, a missing row or key
    AccessTTL, RefreshTTL,  \* lifetimes of the two halves of a token, in seconds
    MaxTime                 \* bound: the clock

VARIABLES
    users,   \* users: id -> row or None
    tokens,  \* refresh_tokens: token -> row or None
    mirror,  \* Redis refresh-token:*, the tokens it holds
    issued,  \* the tokens that reached their user
    cache,   \* Redis session:*, user -> session state or None
    resets,  \* Redis password-reset:*, token -> user or None
    clock,   \* seconds
    call     \* the requests in flight

store == <<users, tokens, mirror, issued, cache, resets>>

-----------------------------------------------------------------------------

\* The columns that decide about access; 0 is a tokens_valid_from never set.
UserRow == [role: Role, isActive: BOOLEAN, status: AccountStatus, validFrom: 0..MaxTime, password: Password]

TokenRow == [user: User, iat: 1..MaxTime, revoked: BOOLEAN, parent: Token \cup {None}]

SessionState == [role: Role, isActive: BOOLEAN, status: AccountStatus, validFrom: 0..MaxTime]

\* What loadSessionState keeps of a row.
State(row) == [role |-> row.role, isActive |-> row.isActive, status |-> row.status, validFrom |-> row.validFrom]

\* isTokenStale, and the same check in refresh.
Stale(t, state) == state.validFrom # 0 /\ tokens[t].iat < state.validFrom

AccessLive(t)  == clock < tokens[t].iat + AccessTTL
RefreshLive(t) == clock < tokens[t].iat + RefreshTTL

Idle == [pc |-> "idle"]

At(p, label) == call[p].pc = label

Goto(p, c) == call' = [call EXCEPT ![p] = c]

\* Ends the call, whatever it answers.
Done(p) == Goto(p, Idle)

-----------------------------------------------------------------------------
(* register, login *)

\* register finds the address free, hashes the password ...
Register(p, u, pw) ==
    /\ At(p, "idle")
    /\ users[u] = None
    /\ Goto(p, [pc |-> "insert_user", op |-> "register", on |-> u,
                row |-> [role |-> "customer", isActive |-> TRUE, status |-> "pending_approval",
                         validFrom |-> 0, password |-> pw]])
    /\ UNCHANGED store

\* ... and inserts the row: the unique index on email lets one of two through.
\* createUser ends here, register signs in.
InsertUser(p) ==
    /\ At(p, "insert_user")
    /\ LET c == call[p]
       IN  IF users[c.on] # None THEN Done(p) /\ UNCHANGED users
           ELSE /\ users' = [users EXCEPT ![c.on] = c.row]
                /\ IF c.op = "register" THEN Goto(p, [pc |-> "mint", user |-> c.on, parent |-> None])
                                        ELSE Done(p)
    /\ UNCHANGED <<tokens, mirror, issued, cache, resets>>

\* login compares the password with the row it read.
Login(p, u, pw) ==
    /\ At(p, "idle")
    /\ users[u] # None
    /\ users[u].isActive
    /\ users[u].password = pw
    /\ Goto(p, [pc |-> "mint", user |-> u, parent |-> None])
    /\ UNCHANGED store

\* buildAuthResponse signs the pair and persistRefreshToken saves its row ...
Mint(p, t) ==
    /\ At(p, "mint")
    /\ tokens[t] = None
    /\ tokens' = [tokens EXCEPT ![t] = [user |-> call[p].user, iat |-> clock, revoked |-> FALSE,
                                        parent |-> call[p].parent]]
    /\ Goto(p, [pc |-> "mirror", token |-> t])
    /\ UNCHANGED <<users, mirror, issued, cache, resets>>

\* ... mirrors it in Redis, and the response leaves.
MirrorToken(p) ==
    /\ At(p, "mirror")
    /\ mirror' = mirror \cup {call[p].token}
    /\ issued' = issued \cup {call[p].token}
    /\ Done(p)
    /\ UNCHANGED <<users, tokens, cache, resets>>

-----------------------------------------------------------------------------
(* refresh, logout *)

\* The mirror is asked first; a token it does not hold is looked up in the table.
Refresh(p, t) ==
    /\ At(p, "idle")
    /\ t \in issued
    /\ RefreshLive(t)
    /\ Goto(p, [pc |-> IF t \in mirror THEN "refresh_user" ELSE "refresh_row", token |-> t])
    /\ UNCHANGED store

RefreshRow(p) ==
    /\ At(p, "refresh_row")
    /\ IF tokens[call[p].token].revoked THEN Done(p)
       ELSE Goto(p, [pc |-> "refresh_user", token |-> call[p].token])
    /\ UNCHANGED store

\* The account's own cut-off, whichever branch was taken.
RefreshUser_ReadThrough(p) ==  \* mutant
    /\ At(p, "refresh_user")
    /\ LET t == call[p].token
           row == users[tokens[t].user]
       IN  IF row.isActive /\ ~Stale(t, row)
           THEN Goto(p, [pc |-> "unmirror", op |-> "refresh", token |-> t])
           ELSE Done(p)
    /\ mirror' = mirror \cup {call[p].token}
    /\ UNCHANGED <<users, tokens, issued, cache, resets>>
RefreshUser(p) ==
    /\ At(p, "refresh_user")
    /\ LET t == call[p].token
           row == users[tokens[t].user]
       IN  IF row.isActive /\ ~Stale(t, row)
           THEN Goto(p, [pc |-> "unmirror", op |-> "refresh", token |-> t])
           ELSE Done(p)
    /\ UNCHANGED store

Logout(p, t) ==
    /\ At(p, "idle")
    /\ t \in issued
    /\ RefreshLive(t)
    /\ Goto(p, [pc |-> "unmirror", op |-> "logout", token |-> t])
    /\ UNCHANGED store

\* revokeRefreshToken: the mirror ...
Unmirror(p) ==
    /\ At(p, "unmirror")
    /\ mirror' = mirror \ {call[p].token}
    /\ Goto(p, [pc |-> "revoke", op |-> call[p].op, token |-> call[p].token])
    /\ UNCHANGED <<users, tokens, issued, cache, resets>>

\* ... then the row; refresh goes on to mint the next pair.
Revoke(p) ==
    /\ At(p, "revoke")
    /\ LET c == call[p]
       IN  /\ tokens' = [tokens EXCEPT ![c.token].revoked = TRUE]
           /\ IF c.op = "refresh" THEN Goto(p, [pc |-> "mint", user |-> tokens[c.token].user, parent |-> c.token])
                                  ELSE Done(p)
    /\ UNCHANGED <<users, mirror, issued, cache, resets>>

-----------------------------------------------------------------------------
(* forgotPassword, resetPassword *)

\* An unknown or disabled account gets the same answer and no token.
ForgotPassword(p, u) ==
    /\ At(p, "idle")
    /\ users[u] # None
    /\ users[u].isActive
    /\ Goto(p, [pc |-> "issue_reset", on |-> u])
    /\ UNCHANGED store

\* issuePasswordResetToken
IssueReset(p, k) ==
    /\ At(p, "issue_reset")
    /\ resets[k] = None
    /\ resets' = [resets EXCEPT ![k] = call[p].on]
    /\ Done(p)
    /\ UNCHANGED <<users, tokens, mirror, issued, cache>>

\* Its TTL passes.
ExpireReset(k) ==
    /\ resets[k] # None
    /\ resets' = [resets EXCEPT ![k] = None]
    /\ UNCHANGED <<users, tokens, mirror, issued, cache, clock, call>>

\* consumePasswordResetToken: read and delete in one MULTI.
ConsumeReset(p, k, pw) ==
    /\ At(p, "idle")
    /\ resets[k] # None
    /\ resets' = [resets EXCEPT ![k] = None]
    /\ Goto(p, [pc |-> "reset_user", on |-> resets[k], reset |-> k, password |-> pw])
    /\ UNCHANGED <<users, tokens, mirror, issued, cache>>

\* The row is read, the password hashed ...
ResetUser(p) ==
    /\ At(p, "reset_user")
    /\ LET c == call[p]
           row == users[c.on]
       IN  IF row.isActive
           THEN Goto(p, [pc |-> "save_user", op |-> "reset", on |-> c.on, reset |-> c.reset,
                         row |-> [row EXCEPT !.password = c.password]])
           ELSE Done(p)
    /\ UNCHANGED store

-----------------------------------------------------------------------------
(* save(user) writes the whole row read before; what follows ends sessions *)
(* or only refreshes the cached state.                                     *)

EndsSessions == {"reset", "suspend", "update_access"}

SaveUser(p) ==
    /\ At(p, "save_user")
    /\ LET c == call[p]
       IN  /\ users' = [users EXCEPT ![c.on] = c.row]
           /\ Goto(p, [pc |-> IF c.op \in EndsSessions THEN "revoke_all" ELSE "uncache", on |-> c.on])
    /\ UNCHANGED <<tokens, mirror, issued, cache, resets>>

\* invalidateAllSessions: the stored tokens ...
RevokeAll_Skipped(p) ==  \* mutant
    /\ At(p, "revoke_all")
    /\ Goto(p, [pc |-> "cut_off", on |-> call[p].on])
    /\ UNCHANGED store
RevokeAll(p) ==
    /\ At(p, "revoke_all")
    /\ tokens' = [t \in Token |-> IF tokens[t] # None /\ tokens[t].user = call[p].on
                                  THEN [tokens[t] EXCEPT !.revoked = TRUE] ELSE tokens[t]]
    /\ Goto(p, [pc |-> "cut_off", on |-> call[p].on])
    /\ UNCHANGED <<users, mirror, issued, cache, resets>>

\* ... the cut-off ...
CutOff_Up(p) ==  \* mutant
    /\ At(p, "cut_off")
    /\ users' = [users EXCEPT ![call[p].on].validFrom = clock + 1]
    /\ Goto(p, [pc |-> "uncache", on |-> call[p].on])
    /\ UNCHANGED <<tokens, mirror, issued, cache, resets>>
CutOff(p) ==
    /\ At(p, "cut_off")
    /\ users' = [users EXCEPT ![call[p].on].validFrom = clock]
    /\ Goto(p, [pc |-> "uncache", on |-> call[p].on])
    /\ UNCHANGED <<tokens, mirror, issued, cache, resets>>

\* ... and the cached state (invalidateSessionCache, which swallows an error).
Uncache_Skipped(p) ==  \* mutant
    /\ At(p, "uncache")
    /\ Done(p)
    /\ UNCHANGED store
Uncache(p) ==
    /\ At(p, "uncache")
    /\ cache' = [cache EXCEPT ![call[p].on] = None]
    /\ Done(p)
    /\ UNCHANGED <<users, tokens, mirror, issued, resets>>

UncacheFails(p) ==
    /\ At(p, "uncache")
    /\ Done(p)
    /\ UNCHANGED store

-----------------------------------------------------------------------------
(* authenticate, for every route behind it *)

\* loadSessionState: a cached state answers at once ...
Request(p, t) ==
    /\ At(p, "idle")
    /\ t \in issued
    /\ AccessLive(t)
    /\ LET s == cache[tokens[t].user]
       IN  Goto(p, IF s # None THEN [pc |-> "decide", token |-> t, state |-> s]
                               ELSE [pc |-> "load", token |-> t])
    /\ UNCHANGED store

\* ... otherwise the row is read ...
LoadState(p) ==
    /\ At(p, "load")
    /\ LET t == call[p].token
       IN  Goto(p, [pc |-> "fill", token |-> t, state |-> State(users[tokens[t].user])])
    /\ UNCHANGED store

\* ... and cached for a while, unless the write is lost.
FillCache(p) ==
    /\ At(p, "fill")
    /\ LET c == call[p]
       IN  /\ cache' \in {cache, [cache EXCEPT ![tokens[c.token].user] = c.state]}
           /\ Goto(p, [pc |-> "decide", token |-> c.token, state |-> c.state])
    /\ UNCHANGED <<users, tokens, mirror, issued, resets>>

\* SESSION_CACHE_TTL_MS passes.
ExpireState(u) ==
    /\ cache[u] # None
    /\ cache' = [cache EXCEPT ![u] = None]
    /\ UNCHANGED <<users, tokens, mirror, issued, resets, clock, call>>

\* The state refuses the request, or lets it on to the gates of the routes.
Refused(c) == ~c.state.isActive \/ Stale(c.token, c.state)

Reachable(c) == IF Refused(c) THEN {} ELSE Admits[c.state.role, c.state.status]

Refuse(p) ==
    /\ At(p, "decide")
    /\ Route \ Reachable(call[p]) # {}
    /\ Done(p)
    /\ UNCHANGED store

\* A request the gates let go on to the route.
Admitted(p, route) == At(p, "decide") /\ route \in Reachable(call[p])

\* The user behind it.
Caller(p) == tokens[call[p].token].user

\* The routes whose handlers are actions of Accounts; the others change nothing modelled here.
Acting == {<<"users", "updateCurrentUser">>, <<"manager", "assign">>, <<"manager", "removeAssignment">>}
          \cup {"admin"} \X {"createUser", "updateUser", "setUserStatus", "approve", "suspend", "reactivate",
                             "reassignManager"}

Serve(p) ==
    /\ At(p, "decide")
    /\ Reachable(call[p]) \ Acting # {}
    /\ Done(p)
    /\ UNCHANGED store

Tick ==
    /\ clock < MaxTime
    /\ clock' = clock + 1
    /\ UNCHANGED <<store, call>>
=============================================================================
