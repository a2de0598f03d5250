---------------------------- MODULE AuthSessions ----------------------------
(***************************************************************************)
(* The credentials of one account: login, refresh-token rotation, logout,  *)
(* and the three requests that revoke everything (logout-all, change of    *)
(* the password, deactivation), as concurrent handlers over the users and  *)
(* refresh_tokens tables.  Accounts share no row, so one account is        *)
(* enough.  A refresh-token session is a row of refresh_tokens that keeps  *)
(* its id while rotation replaces its token; tokens are numbered in the    *)
(* order of their commits, and a session has the number of its first one.  *)
(* An access token is valid until its user row says otherwise: behaviours  *)
(* are shorter than its lifetime.                                          *)
(***************************************************************************)
EXTENDS Integers, Sequences, FiniteSets

CONSTANTS Requests,    \* handlers that run at the same time
          MaxTime,     \* bound: last instant of the clock
          MaxTokens,   \* bound: refresh tokens ever issued
          MaxRevokes,  \* bound: revoke-all requests ever started
          MaxFaults,   \* bound: requests that die
          Lifetime,    \* lifetime of a refresh token and of its session row
          None         \* a free row lock

ASSUME AuthAssumption ==
  /\ MaxTime \in Nat /\ MaxTokens \in Nat /\ MaxRevokes \in Nat
  /\ MaxFaults \in Nat /\ Lifetime \in Nat \ {0}
  /\ IsFiniteSet(Requests) /\ None \notin Requests

VARIABLES now,
          user,      \* the users row: [active, validAfter], 0 for "never revoked"
          session,   \* the refresh_tokens table: session id -> [token, expires]
          issued,    \* the refresh tokens, in the order of their commits
          access,    \* the access tokens handed out
          wallet,    \* the numbers of the refresh tokens handed out
          rowLock,   \* the request that holds the row lock of a session
          pc, txn,   \* where each request is and what it holds in memory
          epoch,     \* history: revoke-all requests that have committed
          exchanged, \* history: how often each refresh token was exchanged
          ended,     \* history: sessions that a committed revoke-all saw
          faults
tables  == <<user, session, issued, rowLock>>
history == <<epoch, exchanged, ended>>
vars == <<now, user, session, issued, access, wallet, rowLock, pc, txn, epoch,
          exchanged, ended, faults>>

Time     == 0 .. MaxTime
Tokens   == 1 .. MaxTokens
RevokeAll == {"logout_all", "change_password", "deactivate"}

NoTxn == [op |-> "none", token |-> 0, iat |-> 0, epoch |-> 0, active |-> FALSE,
          seen |-> {}, todo |-> {}, done |-> {}]
Txn == [op : {"none", "login", "refresh", "logout"} \cup RevokeAll,
        token : 0 .. MaxTokens, iat : Time, epoch : 0 .. MaxRevokes,
        active : BOOLEAN, seen : SUBSET Tokens, todo : SUBSET Tokens,
        done : SUBSET Tokens]

TypeOK ==
  /\ now \in Time
  /\ user \in [active : BOOLEAN, validAfter : Time]
  /\ DOMAIN session \subseteq Tokens
  /\ \A r \in DOMAIN session : session[r].token \in 1 .. Len(issued)
  /\ issued \in Seq([iat : Time, epoch : 0 .. MaxRevokes, session : Tokens])
  /\ Len(issued) <= MaxTokens
  /\ access \subseteq [iat : Time, epoch : 0 .. MaxRevokes]
  /\ wallet \subseteq 1 .. Len(issued)
  /\ rowLock \in [Tokens -> Requests \cup {None}]
  /\ pc \in [Requests -> {"idle", "insert", "lock_session", "rotate", "respond",
                          "scan", "delete"}]
  /\ txn \in [Requests -> Txn]
  /\ exchanged \in [Tokens -> Nat]
  /\ ended \subseteq Tokens

Init ==
  /\ now = 0
  /\ user = [active |-> TRUE, validAfter |-> 0]
  /\ session = [r \in {} |-> {}]
  /\ issued = <<>> /\ access = {} /\ wallet = {}
  /\ rowLock = [r \in Tokens |-> None]
  /\ pc = [q \in Requests |-> "idle"] /\ txn = [q \in Requests |-> NoTxn]
  /\ epoch = 0 /\ exchanged = [k \in Tokens |-> 0] /\ ended = {}
  /\ faults = 0

Tick == /\ now < MaxTime /\ now' = now + 1
        /\ UNCHANGED <<tables, access, wallet, pc, txn, history, faults>>

Begin(q, first, request) ==
  /\ pc[q] = "idle"
  /\ pc' = [pc EXCEPT ![q] = first]
  /\ txn' = [txn EXCEPT ![q] = request]
  /\ UNCHANGED <<now, tables, access, wallet, history, faults>>

\* The handler of request q returns; its transaction, if open, has ended.
End(q) == /\ pc' = [pc EXCEPT ![q] = "idle"]
          /\ txn' = [txn EXCEPT ![q] = NoTxn]

Unlocked(q) == [r \in Tokens |-> IF rowLock[r] = q THEN None ELSE rowLock[r]]

Active(ops) == {q \in Requests : pc[q] # "idle" /\ txn[q].op \in ops}

\* Bound: a request that issues a token starts only while a number is left.
TokensRemain == Len(issued) + Cardinality({q \in Active({"login", "refresh"}) :
                                             pc[q] # "respond"}) < MaxTokens
RevokesRemain == epoch + Cardinality(Active(RevokeAll)) < MaxRevokes
-----------------------------------------------------------------------------
\* Fault: a token issued at the very instant of the revocation is refused.
InvalidatedAtOnce(iat) == user.validAfter # 0 /\ iat <= user.validAfter

\* is_token_invalidated, on the user row as it is now.
Invalidated(iat) == user.validAfter # 0 /\ iat < user.validAfter

\* get_current_user accepts the access token a.
Accepted(a) == user.active /\ ~Invalidated(a.iat)

\* POST /auth/login: the password is verified against the row that was read, and
\* both tokens are stamped, without an await in between.
StartLogin(q) ==
  /\ TokensRemain
  /\ user.active
  /\ Begin(q, "insert", [NoTxn EXCEPT !.op = "login", !.iat = now, !.epoch = epoch])

\* RefreshTokenService.create: the session row is committed and the tokens are
\* handed out.
InsertSession(q) ==
  LET k == Len(issued) + 1 IN
  /\ pc[q] = "insert"
  /\ session' = [r \in DOMAIN session \cup {k} |->
                   IF r = k THEN [token |-> k, expires |-> txn[q].iat + Lifetime]
                            ELSE session[r]]
  /\ issued' = Append(issued, [iat |-> txn[q].iat, epoch |-> txn[q].epoch, session |-> k])
  /\ access' = access \cup {[iat |-> txn[q].iat, epoch |-> txn[q].epoch]}
  /\ wallet' = wallet \cup {k}
  /\ End(q)
  /\ UNCHANGED <<now, user, rowLock, history, faults>>
-----------------------------------------------------------------------------
\* The JWT of refresh token k has not expired.
Unexpired(k) == now < issued[k].iat + Lifetime

\* POST /auth/refresh: the user row is read, without a lock, and judged.
StartRefresh(q, k) ==
  /\ TokensRemain
  /\ Unexpired(k) /\ user.active /\ ~Invalidated(issued[k].iat)
  /\ Begin(q, "lock_session", [NoTxn EXCEPT !.op = "refresh", !.token = k])

\* The row whose token_hash is that of token k, if there is one.
HasRow(k) == LET r == issued[k].session
             IN r \in DOMAIN session /\ session[r].token = k

\* Fault: the session row is read without FOR UPDATE.
NotWaiting(k) == TRUE

\* The row lock that a statement looking for token k must wait for is free.
RowFree(k) == rowLock[issued[k].session] = None

\* rotate: SELECT ... FOR UPDATE by token_hash.  No row, or an expired one, is an
\* InvalidRefreshTokenError; otherwise the next token is stamped.
LockSession(q) ==
  LET k == txn[q].token
      r == issued[k].session IN
  /\ pc[q] = "lock_session"
  /\ HasRow(k) => RowFree(k)
  /\ IF HasRow(k) /\ session[r].expires > now
     THEN /\ rowLock' = [rowLock EXCEPT ![r] = q]
          /\ pc' = [pc EXCEPT ![q] = "rotate"]
          /\ txn' = [txn EXCEPT ![q].iat = now]
     ELSE End(q) /\ UNCHANGED rowLock
  /\ UNCHANGED <<now, user, session, issued, access, wallet, history, faults>>

\* rotate commits: the row gets the new hash and a new expiry, in place.
CommitRotate(q) ==
  LET k == txn[q].token
      r == issued[k].session IN
  /\ pc[q] = "rotate"
  /\ session' = [session EXCEPT ![r] = [token |-> Len(issued) + 1,
                                        expires |-> txn[q].iat + Lifetime]]
  /\ issued' = Append(issued, [iat |-> txn[q].iat, epoch |-> issued[k].epoch,
                               session |-> r])
  /\ exchanged' = [exchanged EXCEPT ![k] = @ + 1]
  /\ rowLock' = Unlocked(q)
  /\ pc' = [pc EXCEPT ![q] = "respond"]
  /\ txn' = [txn EXCEPT ![q].token = Len(issued) + 1]
  /\ UNCHANGED <<now, user, access, wallet, epoch, ended, faults>>

\* After the commit the access token is stamped and both are handed out.
RespondRefresh(q) ==
  LET k == txn[q].token IN
  /\ pc[q] = "respond"
  /\ access' = access \cup {[iat |-> now, epoch |-> issued[k].epoch]}
  /\ wallet' = wallet \cup {k}
  /\ End(q)
  /\ UNCHANGED <<now, tables, history, faults>>
-----------------------------------------------------------------------------
\* POST /auth/logout: the DELETE ... WHERE token_hash = ... finds its row.
StartLogout(q, k) ==
  LET found == IF HasRow(k) THEN {issued[k].session} ELSE {} IN
  /\ Unexpired(k)
  /\ Begin(q, "delete", [NoTxn EXCEPT !.op = "logout", !.token = k,
                                      !.seen = found, !.todo = found])

\* logout-all and change_password, with an access token that is accepted, and
\* deactivate, by an administrator: tokens_valid_after is set in memory.
StartRevokeAll(q, op) ==
  /\ RevokesRemain
  /\ op # "deactivate" => \E a \in access : Accepted(a)
  /\ Begin(q, "scan", [NoTxn EXCEPT !.op = op, !.iat = now, !.active = user.active])

\* revoke_all: the DELETE ... WHERE user_id = ... finds its rows.
ScanSessions(q) ==
  /\ pc[q] = "scan"
  /\ pc' = [pc EXCEPT ![q] = "delete"]
  /\ txn' = [txn EXCEPT ![q].seen = DOMAIN session, ![q].todo = DOMAIN session]
  /\ UNCHANGED <<now, tables, access, wallet, history, faults>>

\* Fault: revoke_all looks a session up by the token it had when the statement began.
StillSameToken(q, r) == r \in DOMAIN session /\ session[r].token = r

\* The WHERE clause, evaluated on the row once its lock is granted.
StillMatches(q, r) ==
  /\ r \in DOMAIN session
  /\ txn[q].op = "logout" => session[r].token = txn[q].token

\* A DELETE locks its rows one by one, in any order: rotated rows have moved in
\* the heap.
ClaimSession(q, r) ==
  /\ pc[q] = "delete"
  /\ r \in txn[q].todo
  /\ rowLock[r] = None
  /\ IF StillMatches(q, r)
     THEN /\ rowLock' = [rowLock EXCEPT ![r] = q]
          /\ txn' = [txn EXCEPT ![q].todo = @ \ {r}, ![q].done = @ \cup {r}]
     ELSE /\ txn' = [txn EXCEPT ![q].todo = @ \ {r}]
          /\ UNCHANGED rowLock
  /\ UNCHANGED <<now, user, session, issued, access, wallet, pc, history, faults>>

\* Fault: tokens_valid_after is rounded up to the next unit of time.
RevokedRoundedUp(t) == [active |-> user.active /\ t.op # "deactivate",
                        validAfter |-> t.iat + 1]

\* The users row that the flush of a revoke-all writes: is_active only if the
\* handler changed the value it had read.
Revoked(t) == [active |-> user.active /\ ~(t.op = "deactivate" /\ t.active),
               validAfter |-> t.iat]

\* The commit: the rows are gone, and for a revoke-all the users row is written.
CommitDelete(q) ==
  LET all == txn[q].op \in RevokeAll IN
  /\ pc[q] = "delete" /\ txn[q].todo = {}
  /\ session' = [r \in DOMAIN session \ txn[q].done |-> session[r]]
  /\ rowLock' = Unlocked(q)
  /\ user' = IF all THEN Revoked(txn[q]) ELSE user
  /\ epoch' = IF all THEN epoch + 1 ELSE epoch
  /\ ended' = IF all THEN ended \cup txn[q].seen ELSE ended
  /\ End(q)
  /\ UNCHANGED <<now, issued, access, wallet, exchanged, faults>>

\* PATCH /users/activate/{id}: one UPDATE.
Activate ==
  /\ ~user.active
  /\ user' = [user EXCEPT !.active = TRUE]
  /\ UNCHANGED <<now, session, issued, access, wallet, rowLock, pc, txn, history, faults>>

\* Revocations that wait for each other in a cycle (next permutes W): PostgreSQL
\* aborts one of them.
DeadlockVictim(q) ==
  /\ \E W \in SUBSET Requests : \E next \in [W -> W] :
       /\ q \in W /\ W = {next[p] : p \in W}
       /\ \A p \in W : \E r \in txn[p].todo : rowLock[r] = next[p]
  /\ rowLock' = Unlocked(q)
  /\ End(q)
  /\ UNCHANGED <<now, user, session, issued, access, wallet, history, faults>>

\* The request dies: rolled back before its commit, unanswered after it.
Crash(q) ==
  /\ pc[q] # "idle" /\ faults < MaxFaults
  /\ faults' = faults + 1
  /\ rowLock' = Unlocked(q)
  /\ End(q)
  /\ UNCHANGED <<now, user, session, issued, access, wallet, history>>

Next ==
  \/ Tick \/ Activate
  \/ \E q \in Requests :
       \/ StartLogin(q) \/ InsertSession(q)
       \/ \E k \in wallet : StartRefresh(q, k) \/ StartLogout(q, k)
       \/ LockSession(q) \/ CommitRotate(q) \/ RespondRefresh(q)
       \/ \E op \in RevokeAll : StartRevokeAll(q, op)
       \/ ScanSessions(q) \/ CommitDelete(q) \/ DeadlockVictim(q) \/ Crash(q)
       \/ \E r \in Tokens : ClaimSession(q, r)

Spec == Init /\ [][Next]_vars
-----------------------------------------------------------------------------
\* "Rotation locks the session row, preventing concurrent token reuse": a refresh
\* token buys new tokens at most once, and the token a session holds has bought
\* none yet.
ExchangedOnce ==
  /\ \A k \in Tokens : exchanged[k] <= 1
  /\ \A r \in DOMAIN session : exchanged[session[r].token] = 0

\* A session that a committed logout-all, password change or deactivation saw is
\* gone for good, although a refresh may have been rotating its token meanwhile.
RevokedSessionsEnd == ended \cap DOMAIN session = {}

\* Whoever logs in after the last revocation is not caught by it: neither the
\* access token nor the session's token is older than tokens_valid_after.
NewLoginsSurvive ==
  /\ \A a \in access : a.epoch = epoch => ~Invalidated(a.iat)
  /\ \A r \in DOMAIN session : LET t == issued[session[r].token]
                               IN t.epoch = epoch => ~Invalidated(t.iat)

\* "Password changes and account deactivation invalidate existing credentials":
\* an access token whose login was judged before the last revocation committed
\* is refused.  (Tokens stamped at the very instant of the cutoff are left out:
\* the clock of the program has microseconds, that of the model has not.)
OldCredentialsRefused ==
  \A a \in access : a.epoch < epoch /\ a.iat # user.validAfter => ~Accepted(a)

\* "Logout supports revoking one session": when a logout returns, the session
\* whose current token it was given at its start is gone.
LogoutEndsSession ==
  [][\A q \in Requests :
       txn[q].op = "logout" /\ pc'[q] = "idle" /\ faults' = faults
         => txn[q].seen \cap DOMAIN session' = {}]_vars
=============================================================================
