------------------------------ MODULE Accounts ------------------------------
(***************************************************************************)
(* The users table under concurrent handlers: registration, login and      *)
(* booking, which add rows that refer to an account; change_role,          *)
(* deactivate, activate and delete_user, which read the account without a  *)
(* lock, judge it, and write in a later statement; and the requests that   *)
(* revoke all sessions, which lock rows of refresh_tokens before the users *)
(* row, where delete_user locks the users row first.  PostgreSQL gets      *)
(* waiting cycles out of the way by aborting a request.  Requests of       *)
(* administrators are made while there is one.                             *)
(***************************************************************************)
EXTENDS Integers, FiniteSets

CONSTANTS Requests,     \* handlers that run at the same time
          KeySets,      \* what may be registered: sets {username, email}
          MaxUsers,     \* bound: accounts ever created
          MaxSessions,  \* bound: refresh_tokens rows ever created
          None          \* a free row lock

ASSUME AccountsAssumption ==
  /\ IsFiniteSet(Requests)
  /\ MaxUsers \in Nat \ {0} /\ MaxSessions \in Nat
  /\ None \notin Requests

VARIABLES user,     \* the users table: id -> [keys, role, active]
          session,  \* the refresh_tokens table: id -> id of its user
          booked,   \* the users that bookings refer to
          lastUser, lastSession,  \* the id sequences
          userLock, \* the request that holds the row lock of an account
          rowLock,  \* the request that holds the row lock of a session
          pc, txn,  \* where each request is and what it holds in memory
          answer,   \* history: the answer that the last step gave, or "none"
          reactivated \* history: the requests during which their account was activated
tables == <<user, session, booked, lastUser, lastSession>>
vars == <<tables, userLock, rowLock, pc, txn, answer, reactivated>>

UserIds    == 1 .. MaxUsers
SessionIds == 1 .. MaxSessions
Role       == {"user", "admin"}   \* a manager is treated like a user here
Account    == [keys : SUBSET UNION KeySets, role : Role, active : BOOLEAN]

Inserts == {"register", "login", "book"}
Revokes == {"logout_all", "deactivate"}
Updates == {"change_role", "activate"}
NoTxn == [op |-> "none", user |-> 0, keys |-> {}, role |-> "user", active |-> FALSE,
          todo |-> {}, done |-> {}]
Txn == [op : {"none", "delete"} \cup Inserts \cup Revokes \cup Updates,
        user : 0 .. MaxUsers, keys : SUBSET UNION KeySets, role : Role,
        active : BOOLEAN, todo : SUBSET SessionIds, done : SUBSET SessionIds]

TypeOK ==
  /\ DOMAIN user \subseteq 1 .. lastUser
  /\ \A u \in DOMAIN user : user[u] \in Account
  /\ DOMAIN session \subseteq 1 .. lastSession
  /\ lastUser \in UserIds /\ lastSession \in 0 .. MaxSessions
  /\ userLock \in [UserIds -> Requests \cup {None}]
  /\ rowLock \in [SessionIds -> Requests \cup {None}]
  /\ pc \in [Requests -> {"idle", "insert", "update", "lock", "history", "scan", "delete"}]
  /\ txn \in [Requests -> Txn]
  /\ \A q \in Requests : pc[q] = "idle" <=> txn[q] = NoTxn
  /\ answer \in {"none", "ok", "refused", "error"}
  /\ reactivated \subseteq Requests

\* One account, of an administrator with bookings.
Init ==
  /\ user = [u \in {1} |-> [keys |-> {}, role |-> "admin", active |-> TRUE]]
  /\ session = [r \in {} |-> 0] /\ booked = {1}
  /\ lastUser = 1 /\ lastSession = 0
  /\ userLock = [u \in UserIds |-> None] /\ rowLock = [r \in SessionIds |-> None]
  /\ pc = [q \in Requests |-> "idle"] /\ txn = [q \in Requests |-> NoTxn]
  /\ answer = "none" /\ reactivated = {}

Exists(u) == u \in DOMAIN user

Begin(q, first, request) ==
  /\ pc[q] = "idle"
  /\ pc' = [pc EXCEPT ![q] = first]
  /\ txn' = [txn EXCEPT ![q] = request]
  /\ answer' = "none"
  /\ UNCHANGED <<tables, userLock, rowLock, reactivated>>

Freed(lock, q) == [x \in DOMAIN lock |-> IF lock[x] = q THEN None ELSE lock[x]]

\* Fault: the database session of a request is not closed.
Leaked(q) == UNCHANGED <<userLock, rowLock>>

\* get_db closes the session: the transaction of q has ended, or is rolled back.
Closed(q) == userLock' = Freed(userLock, q) /\ rowLock' = Freed(rowLock, q)

\* Fault: what a request held in memory is there for the next one.
EndKeeping(q, a, activated) ==
  /\ pc' = [pc EXCEPT ![q] = "idle"]
  /\ answer' = a
  /\ Closed(q)
  /\ reactivated' = (reactivated \cup activated) \ {q}
  /\ UNCHANGED txn

\* The request of q ends with an answer.  activated are the requests whose
\* account it has activated.
EndActivating(q, a, activated) ==
  /\ pc' = [pc EXCEPT ![q] = "idle"]
  /\ txn' = [txn EXCEPT ![q] = NoTxn]
  /\ answer' = a
  /\ Closed(q)
  /\ reactivated' = (reactivated \cup activated) \ {q}

End(q, a) == EndActivating(q, a, {})

Stay(q, next, t) == /\ pc' = [pc EXCEPT ![q] = next]
                    /\ txn' = [txn EXCEPT ![q] = t]
                    /\ answer' = "none"
                    /\ UNCHANGED reactivated

Running(op) == {q \in Requests : txn[q].op = op}
-----------------------------------------------------------------------------
Taken(keys) == \E u \in DOMAIN user : user[u].keys \cap keys # {}

\* POST /auth/register: the SELECT finds neither the username nor the e-mail.
StartRegister(q, keys) ==
  /\ lastUser + Cardinality(Running("register")) < MaxUsers
  /\ ~Taken(keys)
  /\ Begin(q, "insert", [NoTxn EXCEPT !.op = "register", !.keys = keys])

\* Fault: the columns are not UNIQUE.
NotUnique(keys) == FALSE

\* The unique constraints.
Duplicate(keys) == Taken(keys)

\* INSERT INTO users and COMMIT.  The INSERT waits for a deletion of an account
\* with the same name; the unique constraints have the last word.
InsertUser(q) ==
  LET keys == txn[q].keys
      u    == lastUser + 1 IN
  /\ pc[q] = "insert" /\ txn[q].op = "register"
  /\ \A v \in DOMAIN user : user[v].keys \cap keys # {} => userLock[v] = None
  /\ IF Duplicate(keys)
     THEN End(q, "refused") /\ UNCHANGED <<user, lastUser>>
     ELSE /\ user' = [v \in DOMAIN user \cup {u} |->
                        IF v = u THEN [keys |-> keys, role |-> "user", active |-> TRUE]
                                 ELSE user[v]]
          /\ lastUser' = u
          /\ End(q, "ok")
  /\ UNCHANGED <<session, booked, lastSession>>

\* login verifies the password, book_room the access token, of an active account.
StartLogin(q, u) ==
  /\ lastSession + Cardinality(Running("login")) < MaxSessions
  /\ user[u].active
  /\ Begin(q, "insert", [NoTxn EXCEPT !.op = "login", !.user = u])

StartBook(q, u) ==
  /\ user[u].active
  /\ Begin(q, "insert", [NoTxn EXCEPT !.op = "book", !.user = u])

\* Fault: the INSERT does not wait for a deletion of the account.
Unshared(u) == TRUE

\* The foreign key's share lock of the account can be granted: an UPDATE of the
\* account does not exclude it, a DELETE does.
ShareLockFree(u) == userLock[u] = None

\* INSERT INTO refresh_tokens and COMMIT.  Nobody catches the error of a
\* violated foreign key.
InsertSession(q) ==
  LET u == txn[q].user
      r == lastSession + 1 IN
  /\ pc[q] = "insert" /\ txn[q].op = "login"
  /\ ShareLockFree(u)
  /\ IF Exists(u)
     THEN /\ session' = [x \in DOMAIN session \cup {r} |->
                           IF x = r THEN u ELSE session[x]]
          /\ lastSession' = r
          /\ End(q, "ok")
     ELSE End(q, "error") /\ UNCHANGED <<session, lastSession>>
  /\ UNCHANGED <<user, booked, lastUser>>

\* INSERT INTO bookings and COMMIT.
InsertBooking(q) ==
  LET u == txn[q].user IN
  /\ pc[q] = "insert" /\ txn[q].op = "book"
  /\ ShareLockFree(u)
  /\ IF Exists(u)
     THEN booked' = booked \cup {u} /\ End(q, "ok")
     ELSE End(q, "error") /\ UNCHANGED booked
  /\ UNCHANGED <<user, session, lastUser, lastSession>>
-----------------------------------------------------------------------------
\* What change_role, delete_user, deactivate_user and activate_user refuse.
Unprotected(u) == user[u].role # "admin"

\* An administrator asks for it, and the row is read: 404, 403 or go on.
StartAdmin(q, op, first, u, role) ==
  /\ \E a \in DOMAIN user : user[a].role = "admin" /\ user[a].active
  /\ Unprotected(u)
  /\ Begin(q, first, [NoTxn EXCEPT !.op = op, !.user = u, !.role = role,
                                   !.active = user[u].active])

StartChangeRole(q, u, role) == StartAdmin(q, "change_role", "update", u, role)
StartActivate(q, u)   == StartAdmin(q, "activate", "update", u, "user")
StartDelete(q, u)     == StartAdmin(q, "delete", "lock", u, "user")
StartDeactivate(q, u) == StartAdmin(q, "deactivate", "scan", u, "user")

\* logout-all and change_password, of the account itself.
StartLogoutAll(q, u) ==
  /\ user[u].active
  /\ Begin(q, "scan", [NoTxn EXCEPT !.op = "logout_all", !.user = u])

\* UPDATE users SET role and COMMIT; the number of rows is not looked at.
ChangeRole(q) ==
  LET u == txn[q].user IN
  /\ pc[q] = "update" /\ txn[q].op = "change_role"
  /\ userLock[u] = None
  /\ user' = IF Exists(u) THEN [user EXCEPT ![u].role = txn[q].role] ELSE user
  /\ End(q, "ok")
  /\ UNCHANGED <<session, booked, lastUser, lastSession>>

\* Fault: activate_user does not look at what the UPDATE returns.
AnsweredBlindly(u) == "ok"

\* UPDATE ... RETURNING: 404 if the account is gone by now.
ActivateAnswer(u) == IF Exists(u) THEN "ok" ELSE "refused"

Activate(q) ==
  LET u == txn[q].user IN
  /\ pc[q] = "update" /\ txn[q].op = "activate"
  /\ userLock[u] = None
  /\ user' = IF Exists(u) THEN [user EXCEPT ![u].active = TRUE] ELSE user
  /\ EndActivating(q, ActivateAnswer(u),
                   {p \in Requests : Exists(u) /\ txn[p].user = u})
  /\ UNCHANGED <<session, booked, lastUser, lastSession>>
-----------------------------------------------------------------------------
SessionsOf(u) == {r \in DOMAIN session : session[r] = u}

\* The foreign key of bookings, which is checked at the end of the DELETE.
HasHistory(u) == u \in booked

\* DELETE FROM users locks the account.  The foreign key of bookings looks for its
\* history; that of refresh_tokens then deletes the sessions it finds.
LockUser(q) ==
  LET u == txn[q].user IN
  /\ pc[q] = "lock"
  /\ userLock[u] = None
  /\ IF Exists(u)
     THEN /\ userLock' = [userLock EXCEPT ![u] = q]
          /\ IF HasHistory(u) THEN Stay(q, "history", txn[q])
                              ELSE Stay(q, "delete", [txn[q] EXCEPT !.todo = SessionsOf(u)])
          /\ UNCHANGED rowLock
     ELSE End(q, "ok")
  /\ UNCHANGED tables

\* The foreign key has waited for a booking of the account that was being updated or
\* cancelled (BookingService); its IntegrityError becomes a 409.
RefuseDelete(q) ==
  /\ pc[q] = "history"
  /\ End(q, "refused")
  /\ UNCHANGED tables

\* revoke_all: DELETE FROM refresh_tokens finds its rows.
Scan(q) ==
  /\ pc[q] = "scan"
  /\ Stay(q, "delete", [txn[q] EXCEPT !.todo = SessionsOf(txn[q].user)])
  /\ UNCHANGED <<tables, userLock, rowLock>>

\* ... and locks them, in any order: rotated rows have moved in the heap.  A row
\* that is gone by then is passed over.
Claim(q, r) ==
  /\ pc[q] = "delete" /\ r \in txn[q].todo
  /\ rowLock[r] = None
  /\ IF r \in DOMAIN session
     THEN /\ rowLock' = [rowLock EXCEPT ![r] = q]
          /\ Stay(q, "delete", [txn[q] EXCEPT !.todo = @ \ {r}, !.done = @ \cup {r}])
     ELSE /\ Stay(q, "delete", [txn[q] EXCEPT !.todo = @ \ {r}])
          /\ UNCHANGED rowLock
  /\ UNCHANGED <<tables, userLock>>

WithoutSessions(rs) == [r \in DOMAIN session \ rs |-> session[r]]

\* delete_user commits.
CommitDelete(q) ==
  /\ pc[q] = "delete" /\ txn[q].op = "delete" /\ txn[q].todo = {}
  /\ user' = [v \in DOMAIN user \ {txn[q].user} |-> user[v]]
  /\ session' = WithoutSessions(txn[q].done)
  /\ End(q, "ok")
  /\ UNCHANGED <<booked, lastUser, lastSession>>

\* is_active as the flush leaves it: written only if the handler changed the
\* value it had read.
ActiveAfter(t) == user[t.user].active /\ ~(t.op = "deactivate" /\ t.active)

\* The commit of a revoke-all flushes the users row: no row is a StaleDataError,
\* and everything is rolled back.
CommitRevoke(q) ==
  LET u == txn[q].user IN
  /\ pc[q] = "delete" /\ txn[q].op \in Revokes /\ txn[q].todo = {}
  /\ userLock[u] = None
  /\ IF Exists(u)
     THEN /\ user' = [user EXCEPT ![u].active = ActiveAfter(txn[q])]
          /\ session' = WithoutSessions(txn[q].done)
          /\ End(q, "ok")
     ELSE End(q, "error") /\ UNCHANGED <<user, session>>
  /\ UNCHANGED <<booked, lastUser, lastSession>>
-----------------------------------------------------------------------------
\* The requests that q may be waiting for.  (One that inserts is on no cycle of this
\* table's rows: a booking holds its room, but nobody here waits for rooms.)
WaitsFor(q) ==
  CASE pc[q] = "delete" /\ txn[q].todo # {} -> {rowLock[r] : r \in txn[q].todo} \ {None}
    [] pc[q] = "delete" /\ txn[q].op = "delete" -> {}
    [] pc[q] \in {"lock", "update", "delete"} -> {userLock[txn[q].user]} \ {None}
    [] OTHER -> {}

\* Request q is on a cycle of waiting requests: next permutes W.
Deadlocked(q) ==
  \E W \in SUBSET Requests : \E next \in [W -> W] :
    /\ q \in W /\ W = {next[p] : p \in W}
    /\ \A p \in W : next[p] \in WaitsFor(p)

\* PostgreSQL aborts a request that is on a cycle; nobody catches the error.
DeadlockVictim(q) ==
  /\ Deadlocked(q)
  /\ End(q, "error")
  /\ UNCHANGED tables

\* With the rows of rooms and bookings there is one more cycle (BookingService): a
\* booking that waits, its room locked, for a deletion which waits for another booking
\* of the account, whose update or cancel waits for the room.  Either is aborted.
RoomDeadlockVictim(q) ==
  /\ \E d, p \in Requests : /\ pc[d] = "history" /\ txn[p].op = "book"
                            /\ txn[p].user = txn[d].user /\ q \in {d, p}
  /\ End(q, "error")
  /\ UNCHANGED tables

\* The request dies, and is rolled back.
Crash(q) ==
  /\ pc[q] # "idle"
  /\ End(q, "none")
  /\ UNCHANGED tables

\* The handler of q goes on.
Step(q) ==
  \/ InsertUser(q) \/ InsertSession(q) \/ InsertBooking(q)
  \/ ChangeRole(q) \/ Activate(q)
  \/ LockUser(q) \/ RefuseDelete(q) \/ Scan(q) \/ (\E r \in SessionIds : Claim(q, r))
  \/ CommitDelete(q) \/ CommitRevoke(q)

Next ==
  \E q \in Requests :
    \/ \E keys \in KeySets : StartRegister(q, keys)
    \/ \E u \in DOMAIN user :
         \/ StartLogin(q, u) \/ StartBook(q, u)
         \/ \E role \in Role : StartChangeRole(q, u, role)
         \/ StartActivate(q, u) \/ StartDelete(q, u)
         \/ StartDeactivate(q, u) \/ StartLogoutAll(q, u)
    \/ Step(q) \/ DeadlockVictim(q) \/ RoomDeadlockVictim(q) \/ Crash(q)

Spec == Init /\ [][Next]_vars

\* The event loop and PostgreSQL go on: lock queues are served in order, and the
\* deadlock detector runs.
Fairness == \A q \in Requests : SF_vars(Step(q)) /\ WF_vars(DeadlockVictim(q))

FairSpec == Spec /\ Fairness
-----------------------------------------------------------------------------
\* A name or an e-mail address belongs to one account, although two registrations
\* of it may both have found it free.
UniqueNames ==
  \A u, v \in DOMAIN user : user[u].keys \cap user[v].keys # {} => u = v

\* Bookings and sessions belong to accounts that exist: an account with a booking
\* history is never deleted, and no login or booking slips in beside a deletion.
NothingOrphaned ==
  /\ booked \subseteq DOMAIN user
  /\ \A r \in DOMAIN session : Exists(session[r])

\* A 2xx means what it says, whatever else was committed while the request ran: a
\* deleted account is gone, an activated one exists and is active, and a
\* deactivated one is inactive unless it was activated meanwhile.
AnswersAreTrue ==
  [][\A q \in Requests :
       pc[q] # "idle" /\ pc'[q] = "idle" /\ answer' = "ok" =>
         LET u == txn[q].user IN
         CASE txn[q].op = "delete"     -> u \notin DOMAIN user'
           [] txn[q].op = "activate"   -> u \in DOMAIN user' /\ user'[u].active
           [] txn[q].op = "deactivate" -> u \in DOMAIN user' /\ (user'[u].active => q \in reactivated)
           [] OTHER -> TRUE]_vars

\* Every request gets an answer: requests that wait for each other do not wait
\* for ever.
EveryRequestAnswered == \A q \in Requests : pc[q] # "idle" ~> pc[q] = "idle"
=============================================================================
