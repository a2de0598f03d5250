--------------------------- MODULE AccountsProofs ---------------------------
(***************************************************************************)
(* Proofs about the accounts: what the handlers keep true of the users     *)
(* table and of the rows that refer to it, and that their answers are true,*)
(* for any number of handlers, accounts and sessions.                      *)
(***************************************************************************)
EXTENDS Accounts, FiniteSetTheorems, TLAPS

AdminOps == {"delete", "deactivate"} \cup Updates

\* What a request is doing fits where it is, and names an account of its time.
StageFits ==
  \A q \in Requests :
    /\ pc[q] # "idle" => txn[q].op # "none" /\ txn[q].user \in 0 .. lastUser
    /\ pc[q] = "insert" => txn[q].op \in Inserts
    /\ pc[q] = "scan" => txn[q].op \in Revokes
    /\ pc[q] \in {"lock", "history"} => txn[q].op = "delete"
    /\ pc[q] = "update" => txn[q].op \in Updates
    /\ pc[q] = "delete" => txn[q].op \in {"delete"} \cup Revokes

\* The ids suffice for the requests that will draw one.
IdsSuffice ==
  /\ lastUser + Cardinality(Running("register")) <= MaxUsers
  /\ lastSession + Cardinality(Running("login")) <= MaxSessions

\* A deletion holds the row of its account, which has no booking and no session
\* but those that the deletion has found.
DeletionComplete ==
  \A q \in Requests :
    pc[q] = "delete" /\ txn[q].op = "delete" =>
      LET u == txn[q].user IN
      /\ Exists(u) /\ u \notin booked
      /\ userLock[u] = q
      /\ SessionsOf(u) \subseteq txn[q].todo \cup txn[q].done

\* A deactivation that read its account as inactive finds it so, or activated.
ReactivationKnown ==
  \A q \in Requests :
    txn[q].op = "deactivate" /\ ~txn[q].active /\ Exists(txn[q].user)
      /\ user[txn[q].user].active => q \in reactivated

IInv == /\ TypeOK /\ StageFits /\ IdsSuffice
        /\ UniqueNames /\ NothingOrphaned
        /\ DeletionComplete /\ ReactivationKnown
-----------------------------------------------------------------------------
Starts(q) ==
  \/ \E keys \in KeySets : StartRegister(q, keys)
  \/ \E u \in DOMAIN user :
       \/ StartLogin(q, u) \/ StartBook(q, u)
       \/ \E role \in Role : StartChangeRole(q, u, role)
       \/ StartActivate(q, u) \/ StartDelete(q, u)
       \/ StartDeactivate(q, u) \/ StartLogoutAll(q, u)

\* What all requests have in common when they start.
Started(q, first, t) ==
  /\ pc[q] = "idle" /\ first # "idle" /\ t # NoTxn
  /\ pc' = [pc EXCEPT ![q] = first] /\ txn' = [txn EXCEPT ![q] = t]
  /\ answer' = "none"
  /\ UNCHANGED <<user, session, booked, lastUser, lastSession>>
  /\ UNCHANGED <<userLock, rowLock, reactivated>>
  /\ t.op # "none" /\ t.user \in 0 .. lastUser
  /\ first = "insert" => t.op \in Inserts
  /\ first = "scan" => t.op \in Revokes
  /\ first = "lock" => t.op = "delete"
  /\ first = "update" => t.op \in Updates
  /\ first \notin {"history", "delete"}
  /\ t.op = "register" => lastUser + Cardinality(Running("register")) < MaxUsers
  /\ t.op = "login" => lastSession + Cardinality(Running("login")) < MaxSessions
  /\ t.op \in AdminOps => /\ t.user \in DOMAIN user /\ user[t.user].role # "admin"
                          /\ t.active = user[t.user].active

\* ... and when they end.
Ended(q, activated) ==
  /\ pc' = [pc EXCEPT ![q] = "idle"] /\ txn' = [txn EXCEPT ![q] = NoTxn]
  /\ userLock' = Freed(userLock, q) /\ rowLock' = Freed(rowLock, q)
  /\ reactivated' = (reactivated \cup activated) \ {q}

Stages == {"idle", "insert", "update", "lock", "history", "scan", "delete"}

\* NoTxn is the request of nobody.
LEMMA NoTxnType == NoTxn \in Txn /\ NoTxn.op = "none" /\ NoTxn.user = 0
BY AccountsAssumption DEF NoTxn, Txn, Role

\* A started request is one of the nine.
LEMMA StartEffect ==
  ASSUME TypeOK, NEW q \in Requests, Starts(q)
  PROVE  \E first \in Stages, t \in Txn : Started(q, first, t)
<1> USE AccountsAssumption DEF Role, Txn, Inserts, Revokes, Updates
<1>1. CASE \E keys \in KeySets : StartRegister(q, keys)
  <2>1. PICK keys \in KeySets : StartRegister(q, keys)
    BY <1>1
  <2> DEFINE t == [NoTxn EXCEPT !.op = "register", !.keys = keys]
  <2>2. t \in Txn
    <3>1. keys \in SUBSET UNION KeySets /\ 0 \in 0 .. MaxUsers
      OBVIOUS
    <3> DEFINE K == SUBSET UNION KeySets
               R == SUBSET SessionIds
    <3>2. {} \in R
      OBVIOUS
    <3>3. keys \in K
      BY <3>1
    <3> HIDE DEF K, R
    <3>4. t \in [op : {"none", "delete"} \cup Inserts \cup Revokes \cup Updates,
                 user : 0 .. MaxUsers, keys : K, role : Role, active : BOOLEAN,
                 todo : R, done : R]
      BY <3>1, <3>2, <3>3 DEF NoTxn
    <3> QED BY <3>4 DEF K, R
  <2>3. t.op = "register" /\ t.user = 0
    BY DEF NoTxn
  <2>4. Started(q, "insert", t)
    <3>1. 0 \in 0 .. lastUser
      BY DEF TypeOK, UserIds
    <3>2. t # NoTxn
      BY <2>3, NoTxnType
    <3> HIDE DEF t
    <3> QED BY <2>1, <2>3, <3>1, <3>2 DEF StartRegister, Begin, Started, tables, AdminOps, t
  <2> QED BY <2>2, <2>4 DEF Stages
<1>2. ASSUME NEW u \in DOMAIN user, StartLogin(q, u) \/ StartBook(q, u) \/ StartLogoutAll(q, u)
      PROVE  \E first \in Stages, t \in Txn : Started(q, first, t)
  <2> DEFINE t(op) == [NoTxn EXCEPT !.op = op, !.user = u]
  <2>1. u \in 0 .. lastUser /\ u \in 0 .. MaxUsers
    BY DEF TypeOK, UserIds
  <2>2. \A op \in {"login", "book", "logout_all"} :
          t(op) \in Txn /\ t(op).op = op /\ t(op).user = u
    BY <2>1 DEF NoTxn
  <2>3. CASE StartLogin(q, u)
    <3>1. Started(q, "insert", t("login"))
      BY <2>1, <2>2, <2>3, NoTxnType DEF StartLogin, Begin, Started, tables, AdminOps
    <3> QED BY <2>2, <3>1 DEF Stages
  <2>4. CASE StartBook(q, u)
    <3>1. Started(q, "insert", t("book"))
      BY <2>1, <2>2, <2>4, NoTxnType DEF StartBook, Begin, Started, tables, AdminOps
    <3> QED BY <2>2, <3>1 DEF Stages
  <2>5. CASE StartLogoutAll(q, u)
    <3>1. Started(q, "scan", t("logout_all"))
      BY <2>1, <2>2, <2>5, NoTxnType DEF StartLogoutAll, Begin, Started, tables, AdminOps
    <3> QED BY <2>2, <3>1 DEF Stages
  <2> QED BY <1>2, <2>3, <2>4, <2>5
<1>3. ASSUME NEW u \in DOMAIN user, NEW op \in AdminOps, NEW first \in Stages, NEW role \in Role,
             StartAdmin(q, op, first, u, role),
             \/ op \in Updates /\ first = "update"
             \/ op = "delete" /\ first = "lock"
             \/ op = "deactivate" /\ first = "scan"
      PROVE  \E t \in Txn : Started(q, first, t)
  <2> DEFINE t == [NoTxn EXCEPT !.op = op, !.user = u, !.role = role, !.active = user[u].active]
  <2>1. u \in 0 .. lastUser /\ u \in 0 .. MaxUsers /\ user[u].active \in BOOLEAN
    BY DEF TypeOK, UserIds, Account
  <2>2. t \in Txn /\ t.op = op /\ t.user = u /\ t.active = user[u].active
    BY <2>1 DEF NoTxn, AdminOps
  <2>3. Started(q, first, t)
    BY <1>3, <2>1, <2>2, NoTxnType DEF StartAdmin, Unprotected, Begin, Started, tables, AdminOps
  <2> QED BY <2>2, <2>3
<1>4. ASSUME NEW u \in DOMAIN user,
             \/ \E role \in Role : StartChangeRole(q, u, role)
             \/ StartActivate(q, u) \/ StartDelete(q, u) \/ StartDeactivate(q, u)
      PROVE  \E first \in Stages, t \in Txn : Started(q, first, t)
  BY <1>3, <1>4 DEF StartChangeRole, StartActivate, StartDelete, StartDeactivate, AdminOps, Stages
<1> QED BY <1>1, <1>2, <1>4 DEF Starts

Count(f, op) == Cardinality({p \in Requests : f[p].op = op})

\* How many requests of a kind there are after a step of q.
LEMMA RequestsCounted ==
  ASSUME NEW f, NEW g, NEW op, NEW q \in Requests,
         \A p \in Requests \ {q} : g[p].op = f[p].op
  PROVE  /\ Count(f, op) \in Nat /\ Count(g, op) \in Nat
         /\ f[q].op = op /\ g[q].op # op => Count(g, op) = Count(f, op) - 1
         /\ f[q].op # op /\ g[q].op = op => Count(g, op) = Count(f, op) + 1
         /\ (f[q].op = op <=> g[q].op = op) => Count(g, op) = Count(f, op)
<1> DEFINE B == {p \in Requests : f[p].op = op}
           C == {p \in Requests : g[p].op = op}
<1>1. IsFiniteSet(B) /\ IsFiniteSet(C) /\ Cardinality(B) \in Nat /\ Cardinality(C) \in Nat
  BY FS_Subset, FS_CardinalityType, AccountsAssumption
<1>2. ASSUME f[q].op = op, g[q].op # op
      PROVE  Cardinality(C) = Cardinality(B) - 1
  <2>1. C = B \ {q} /\ q \in B
    BY <1>2
  <2> QED BY <1>1, <2>1, FS_RemoveElement
<1>3. ASSUME f[q].op # op, g[q].op = op
      PROVE  Cardinality(C) = Cardinality(B) + 1
  <2>1. C = B \cup {q} /\ q \notin B
    BY <1>3
  <2> QED BY <1>1, <2>1, FS_AddElement
<1>4. ASSUME f[q].op = op <=> g[q].op = op
      PROVE  C = B
  BY <1>4
<1> QED BY <1>1, <1>2, <1>3, <1>4 DEF Count

-----------------------------------------------------------------------------
\* A request starts.
LEMMA StartStep ==
  ASSUME IInv, NEW q \in Requests, Starts(q)
  PROVE  IInv'
<1> USE DEF IInv
<1>1. PICK first \in Stages, t \in Txn : Started(q, first, t)
  BY StartEffect
<1>2. /\ pc' = [pc EXCEPT ![q] = first] /\ txn' = [txn EXCEPT ![q] = t]
      /\ pc[q] = "idle" /\ first # "idle" /\ t # NoTxn /\ answer' = "none"
      /\ UNCHANGED <<user, session, booked, lastUser, lastSession>>
      /\ UNCHANGED <<userLock, rowLock, reactivated>>
  BY <1>1 DEF Started
<1>3. TypeOK'
  BY <1>2 DEF TypeOK, Stages
<1>4. StageFits'
  BY <1>1, <1>2 DEF TypeOK, StageFits, Started
<1>5. IdsSuffice'
  <2>1. txn[q].op = "none"
    BY <1>2, NoTxnType DEF TypeOK
  <2>2. txn'[q].op = t.op /\ \A p \in Requests \ {q} : txn'[p].op = txn[p].op
    BY <1>2 DEF TypeOK
  <2> DEFINE f == txn
             g == txn'
  <2>3. ASSUME NEW op
        PROVE  /\ Count(f, op) \in Nat
               /\ t.op # op => Count(g, op) = Count(f, op) \/ op = "none"
               /\ t.op = op /\ op # "none" => Count(g, op) = Count(f, op) + 1
    <3>1. f[q].op = "none" /\ g[q].op = t.op /\ \A p \in Requests \ {q} : g[p].op = f[p].op
      BY <2>1, <2>2
    <3> HIDE DEF f, g
    <3>2. /\ Count(f, op) \in Nat
          /\ f[q].op # op /\ g[q].op = op => Count(g, op) = Count(f, op) + 1
          /\ (f[q].op = op <=> g[q].op = op) => Count(g, op) = Count(f, op)
      <4>1. q \in Requests /\ \A p \in Requests \ {q} : g[p].op = f[p].op
        BY <3>1
      <4> QED BY ONLY <4>1, RequestsCounted
    <3> QED BY <3>1, <3>2
  <2>4. /\ t.op = "register" => lastUser + Count(txn, "register") < MaxUsers
        /\ t.op = "login" => lastSession + Count(txn, "login") < MaxSessions
    BY <1>1 DEF Started, Running, Count
  <2>5. /\ lastUser \in Nat /\ lastSession \in Nat /\ MaxUsers \in Nat /\ MaxSessions \in Nat
        /\ lastUser' = lastUser /\ lastSession' = lastSession
    BY <1>2, AccountsAssumption DEF TypeOK, UserIds
  <2>6. /\ lastUser + Count(g, "register") <= MaxUsers
        /\ lastSession + Count(g, "login") <= MaxSessions
    <3>1. /\ lastUser + Count(f, "register") <= MaxUsers
          /\ lastSession + Count(f, "login") <= MaxSessions
      BY DEF IdsSuffice, Running, Count
    <3>2. /\ Count(f, "register") \in Nat /\ Count(f, "login") \in Nat
          /\ IF t.op = "register" THEN Count(g, "register") = Count(f, "register") + 1
                                  ELSE Count(g, "register") = Count(f, "register")
          /\ IF t.op = "login" THEN Count(g, "login") = Count(f, "login") + 1
                               ELSE Count(g, "login") = Count(f, "login")
      BY <2>3
    <3>3. /\ t.op = "register" => lastUser + Count(f, "register") < MaxUsers
          /\ t.op = "login" => lastSession + Count(f, "login") < MaxSessions
      BY <2>4
    <3> HIDE DEF f, g
    <3> QED BY <3>1, <3>2, <3>3, <2>5
  <2>7. IdsSuffice' <=> /\ lastUser' + Count(g, "register") <= MaxUsers
                        /\ lastSession' + Count(g, "login") <= MaxSessions
    BY Zenon DEF IdsSuffice, Running, Count
  <2> QED BY <2>5, <2>6, <2>7
<1>6. UniqueNames' /\ NothingOrphaned'
  BY <1>2 DEF UniqueNames, NothingOrphaned, Exists
<1>7. DeletionComplete'
  BY <1>1, <1>2 DEF DeletionComplete, Started, TypeOK, Exists, SessionsOf
<1>8. ReactivationKnown'
  BY <1>1, <1>2 DEF ReactivationKnown, Started, TypeOK, Exists, AdminOps
<1> QED BY <1>3, <1>4, <1>5, <1>6, <1>7, <1>8

\* A deletion or a revocation goes on: a deletion with its history to wait for, ...
LEMMA StayStep ==
  ASSUME IInv, NEW q \in Requests, NEW t \in Txn, NEW stage \in {"history", "delete"},
         pc' = [pc EXCEPT ![q] = stage], txn' = [txn EXCEPT ![q] = t],
         pc[q] # "idle", t.op = txn[q].op, t.user = txn[q].user, t.active = txn[q].active,
         t.op \in {"delete"} \cup Revokes, stage = "history" => t.op = "delete",
         answer' = "none", UNCHANGED <<user, session, booked, lastUser, lastSession, reactivated>>,
         userLock' \in [UserIds -> Requests \cup {None}],
         rowLock' \in [SessionIds -> Requests \cup {None}],
         \A p \in Requests, u \in UserIds : userLock[u] = p => userLock'[u] = p,
         stage = "delete" /\ t.op = "delete" =>
           /\ Exists(t.user) /\ t.user \notin booked
           /\ userLock'[t.user] = q
           /\ SessionsOf(t.user) \subseteq t.todo \cup t.done
  PROVE  IInv'
<1> USE DEF IInv
<1>1. TypeOK'
  BY NoTxnType DEF TypeOK, Stages, Revokes
<1>2. StageFits'
  BY DEF TypeOK, StageFits
<1>3. IdsSuffice'
  <2>1. Running("register")' = Running("register") /\ Running("login")' = Running("login")
    BY DEF TypeOK, Running
  <2> QED BY <2>1 DEF IdsSuffice
<1>4. UniqueNames' /\ NothingOrphaned'
  BY DEF UniqueNames, NothingOrphaned, Exists
<1>5. DeletionComplete'
  <2> SUFFICES ASSUME NEW p \in Requests, pc'[p] = "delete", txn'[p].op = "delete"
               PROVE  LET u == txn'[p].user IN
                      /\ u \in DOMAIN user /\ u \notin booked /\ userLock'[u] = p
                      /\ {r \in DOMAIN session : session[r] = u} \subseteq txn'[p].todo \cup txn'[p].done
    BY DEF DeletionComplete, Exists, SessionsOf
  <2>1. CASE p = q
    BY <2>1 DEF TypeOK, Exists, SessionsOf
  <2>2. CASE p # q
    <3>1. pc[p] = "delete" /\ txn'[p] = txn[p] /\ txn[p].op = "delete"
      BY <2>2 DEF TypeOK
    <3>2. /\ txn[p].user \in DOMAIN user /\ txn[p].user \notin booked
          /\ userLock[txn[p].user] = p
          /\ {r \in DOMAIN session : session[r] = txn[p].user} \subseteq txn[p].todo \cup txn[p].done
      BY <3>1, Zenon DEF DeletionComplete, Exists, SessionsOf
    <3>3. txn[p].user \in UserIds
      BY <3>2, AccountsAssumption DEF TypeOK, UserIds
    <3> QED BY <3>1, <3>2, <3>3
  <2> QED BY <2>1, <2>2
<1>6. ReactivationKnown'
  BY DEF ReactivationKnown, TypeOK, Exists
<1> QED BY <1>1, <1>2, <1>3, <1>4, <1>5, <1>6
\* What the end of a request means for the requests and for the locks.
LEMMA EndEffect ==
  ASSUME IInv, NEW q \in Requests, NEW S \in SUBSET Requests, Ended(q, S)
  PROVE  /\ pc' \in [Requests -> Stages] /\ txn' \in [Requests -> Txn]
         /\ pc'[q] = "idle" /\ txn'[q] = NoTxn
         /\ \A p \in Requests \ {q} : pc'[p] = pc[p] /\ txn'[p] = txn[p]
         /\ \A p \in Requests : pc'[p] = "idle" <=> txn'[p] = NoTxn
         /\ userLock' \in [UserIds -> Requests \cup {None}]
         /\ rowLock' \in [SessionIds -> Requests \cup {None}]
         /\ \A p \in Requests \ {q}, u \in UserIds : userLock[u] = p => userLock'[u] = p
         /\ reactivated' \subseteq Requests
         /\ \A p \in (reactivated \cup S) \ {q} : p \in reactivated'
<1> USE NoTxnType DEF IInv, TypeOK, Ended, Stages
<1>1. pc' \in [Requests -> Stages] /\ txn' \in [Requests -> Txn]
  OBVIOUS
<1>2. /\ pc'[q] = "idle" /\ txn'[q] = NoTxn
      /\ \A p \in Requests \ {q} : pc'[p] = pc[p] /\ txn'[p] = txn[p]
  OBVIOUS
<1>3. userLock' \in [UserIds -> Requests \cup {None}]
  BY DEF Freed
<1>4. rowLock' \in [SessionIds -> Requests \cup {None}]
  BY DEF Freed
<1>5. \A p \in Requests \ {q}, u \in UserIds : userLock[u] = p => userLock'[u] = p
  BY DEF Freed
<1>6. reactivated' \subseteq Requests /\ \A p \in (reactivated \cup S) \ {q} : p \in reactivated'
  OBVIOUS
<1>7. \A p \in Requests : pc'[p] = "idle" <=> txn'[p] = NoTxn
  BY <1>2
<1> QED BY <1>1, <1>2, <1>3, <1>4, <1>5, <1>6, <1>7

\* A request that ends gives back the id it had not drawn.
LEMMA EndCount ==
  ASSUME IInv, NEW q \in Requests, NEW S \in SUBSET Requests, Ended(q, S),
         \/ lastUser' = lastUser
         \/ lastUser' = lastUser + 1 /\ txn[q].op = "register",
         \/ lastSession' = lastSession
         \/ lastSession' = lastSession + 1 /\ txn[q].op = "login"
  PROVE  IdsSuffice'
<1> DEFINE f == txn
           g == txn'
<1>1. /\ g[q].op = "none" /\ \A p \in Requests \ {q} : g[p].op = f[p].op
  BY EndEffect, NoTxnType
<1>2. /\ lastUser + Count(f, "register") <= MaxUsers
      /\ lastSession + Count(f, "login") <= MaxSessions
  BY DEF IInv, IdsSuffice, Running, Count
<1>3. /\ lastUser \in Nat /\ lastSession \in Nat /\ MaxUsers \in Nat /\ MaxSessions \in Nat
  BY AccountsAssumption DEF IInv, TypeOK, UserIds
<1>4. IdsSuffice' <=> /\ lastUser' + Count(g, "register") <= MaxUsers
                      /\ lastSession' + Count(g, "login") <= MaxSessions
  BY Zenon DEF IdsSuffice, Running, Count
<1>5. /\ \/ lastUser' = lastUser
         \/ lastUser' = lastUser + 1 /\ f[q].op = "register"
      /\ \/ lastSession' = lastSession
         \/ lastSession' = lastSession + 1 /\ f[q].op = "login"
  OBVIOUS
<1> HIDE DEF f, g
<1>6. ASSUME NEW op, op # "none"
      PROVE  /\ Count(f, op) \in Nat /\ Count(g, op) \in Nat
             /\ f[q].op = op => Count(g, op) = Count(f, op) - 1
             /\ f[q].op # op => Count(g, op) = Count(f, op)
  <2>1. /\ Count(f, op) \in Nat /\ Count(g, op) \in Nat
        /\ f[q].op = op /\ g[q].op # op => Count(g, op) = Count(f, op) - 1
        /\ (f[q].op = op <=> g[q].op = op) => Count(g, op) = Count(f, op)
    BY <1>1, RequestsCounted
  <2> QED BY <1>1, <1>6, <2>1
<1>7. /\ lastUser' + Count(g, "register") <= MaxUsers
      /\ lastSession' + Count(g, "login") <= MaxSessions
  <2>1. /\ Count(f, "register") \in Nat /\ Count(g, "register") \in Nat
        /\ Count(f, "login") \in Nat /\ Count(g, "login") \in Nat
        /\ f[q].op = "register" => Count(g, "register") = Count(f, "register") - 1
        /\ f[q].op # "register" => Count(g, "register") = Count(f, "register")
        /\ f[q].op = "login" => Count(g, "login") = Count(f, "login") - 1
        /\ f[q].op # "login" => Count(g, "login") = Count(f, "login")
    BY <1>6
  <2> QED BY <1>2, <1>3, <1>5, <2>1
<1> QED BY <1>4, <1>7

\* The other requests are where they were.
LEMMA EndFits ==
  ASSUME IInv, NEW q \in Requests, NEW S \in SUBSET Requests, Ended(q, S),
         lastUser' \in {lastUser, lastUser + 1}
  PROVE  StageFits'
<1>1. lastUser \in Nat
  BY AccountsAssumption DEF IInv, TypeOK, UserIds
<1> SUFFICES ASSUME NEW p \in Requests
             PROVE  /\ pc'[p] # "idle" => txn'[p].op # "none" /\ txn'[p].user \in 0 .. lastUser'
                    /\ pc'[p] = "insert" => txn'[p].op \in Inserts
                    /\ pc'[p] = "scan" => txn'[p].op \in Revokes
                    /\ pc'[p] \in {"lock", "history"} => txn'[p].op = "delete"
                    /\ pc'[p] = "update" => txn'[p].op \in Updates
                    /\ pc'[p] = "delete" => txn'[p].op \in {"delete"} \cup Revokes
  BY DEF StageFits
<1> QED BY <1>1, EndEffect DEF IInv, StageFits

\* A deletion that another request's end leaves at work still holds its account.
LEMMA DeletionKept ==
  ASSUME IInv, NEW q \in Requests, NEW S \in SUBSET Requests, Ended(q, S),
         NEW p \in Requests, pc'[p] = "delete", txn'[p].op = "delete"
  PROVE  /\ p # q /\ pc[p] = "delete" /\ txn'[p] = txn[p] /\ txn[p].op = "delete"
         /\ txn[p].user \in DOMAIN user /\ txn[p].user \notin booked
         /\ userLock[txn[p].user] = p /\ userLock'[txn[p].user] = p
         /\ {r \in DOMAIN session : session[r] = txn[p].user} \subseteq txn[p].todo \cup txn[p].done
<1>1. p # q /\ pc[p] = "delete" /\ txn'[p] = txn[p] /\ txn[p].op = "delete"
  BY EndEffect, NoTxnType
<1>2. /\ txn[p].user \in DOMAIN user /\ txn[p].user \notin booked
      /\ userLock[txn[p].user] = p
      /\ {r \in DOMAIN session : session[r] = txn[p].user} \subseteq txn[p].todo \cup txn[p].done
  BY <1>1, Zenon DEF IInv, DeletionComplete, Exists, SessionsOf
<1>3. txn[p].user \in UserIds
  BY <1>2, AccountsAssumption DEF IInv, TypeOK, UserIds
<1>4. userLock'[txn[p].user] = p
  BY <1>1, <1>2, <1>3, EndEffect
<1> QED BY <1>1, <1>2, <1>4

\* A request that ends and leaves the accounts' ids, the sequences and the
\* bookings as they are: it may edit accounts and delete sessions.
LEMMA EditStep ==
  ASSUME IInv, NEW q \in Requests, NEW S \in SUBSET Requests, Ended(q, S),
         UNCHANGED <<booked, lastUser, lastSession>>,
         answer' \in {"none", "ok", "refused", "error"},
         DOMAIN user' = DOMAIN user,
         \A u \in DOMAIN user : user'[u] \in Account /\ user'[u].keys = user[u].keys,
         \A u \in DOMAIN user, p \in Requests :
           user'[u].active /\ ~user[u].active /\ txn[p].user = u => p \in S,
         DOMAIN session' \subseteq DOMAIN session,
         \A r \in DOMAIN session' : session'[r] = session[r]
  PROVE  IInv'
<1>1. TypeOK'
  BY EndEffect DEF IInv, TypeOK, Stages
<1>2. StageFits'
  BY EndFits
<1>3. IdsSuffice'
  BY EndCount
<1>4. UniqueNames' /\ NothingOrphaned'
  BY DEF IInv, UniqueNames, NothingOrphaned, Exists
<1>5. DeletionComplete'
  <2> SUFFICES ASSUME NEW p \in Requests, pc'[p] = "delete", txn'[p].op = "delete"
               PROVE  LET u == txn'[p].user IN
                      /\ u \in DOMAIN user' /\ u \notin booked' /\ userLock'[u] = p
                      /\ {r \in DOMAIN session' : session'[r] = u} \subseteq txn'[p].todo \cup txn'[p].done
    BY DEF DeletionComplete, Exists, SessionsOf
  <2> QED BY DeletionKept
<1>6. ReactivationKnown'
  <2> SUFFICES ASSUME NEW p \in Requests, txn'[p].op = "deactivate", ~txn'[p].active,
                      txn'[p].user \in DOMAIN user', user'[txn'[p].user].active
               PROVE  p \in reactivated'
    BY DEF ReactivationKnown, Exists
  <2>1. p # q /\ txn'[p] = txn[p]
    BY EndEffect, NoTxnType
  <2>2. p \in reactivated \/ p \in S
    BY <2>1 DEF IInv, ReactivationKnown, Exists
  <2> QED BY <2>1, <2>2, EndEffect
<1> QED BY <1>1, <1>2, <1>3, <1>4, <1>5, <1>6 DEF IInv

\* A registration draws an id and a free name.
LEMMA RegisterStep ==
  ASSUME IInv, NEW q \in Requests, Ended(q, {}), txn[q].op = "register",
         ~Taken(txn[q].keys), answer' = "ok",
         lastUser' = lastUser + 1, UNCHANGED <<session, booked, lastSession>>,
         user' = [v \in DOMAIN user \cup {lastUser + 1} |->
                    IF v = lastUser + 1
                    THEN [keys |-> txn[q].keys, role |-> "user", active |-> TRUE]
                    ELSE user[v]]
  PROVE  IInv'
<1>1. /\ lastUser \in Nat /\ DOMAIN user \subseteq 1 .. lastUser
      /\ lastUser + 1 \notin DOMAIN user /\ 1 # lastUser + 1
  BY AccountsAssumption DEF IInv, TypeOK, UserIds
<1>2. /\ DOMAIN user' = DOMAIN user \cup {lastUser + 1}
      /\ user'[lastUser + 1] = [keys |-> txn[q].keys, role |-> "user", active |-> TRUE]
      /\ \A v \in DOMAIN user : user'[v] = user[v]
  BY <1>1
<1>3. IdsSuffice'
  BY EndCount
<1>4. lastUser' \in UserIds
  <2>1. Cardinality(Running("register")') \in Nat
    BY FS_Subset, FS_CardinalityType, AccountsAssumption DEF Running
  <2> QED BY <1>1, <1>3, <2>1, AccountsAssumption DEF IdsSuffice, UserIds
<1>5. TypeOK'
  <2>1. DOMAIN user' \subseteq 1 .. lastUser'
    BY <1>1, <1>2
  <2>2. \A v \in DOMAIN user' : user'[v] \in Account
    BY <1>2 DEF IInv, TypeOK, Account, Role, Txn
  <2>3. /\ pc' \in [Requests -> Stages] /\ txn' \in [Requests -> Txn]
        /\ userLock' \in [UserIds -> Requests \cup {None}]
        /\ rowLock' \in [SessionIds -> Requests \cup {None}]
        /\ \A p \in Requests : pc'[p] = "idle" <=> txn'[p] = NoTxn
        /\ reactivated' \subseteq Requests
    BY EndEffect
  <2>4. DOMAIN session' \subseteq 1 .. lastSession' /\ lastSession' \in 0 .. MaxSessions
    BY DEF IInv, TypeOK
  <2> QED BY <1>4, <2>1, <2>2, <2>3, <2>4 DEF TypeOK, Stages
<1>6. StageFits'
  BY EndFits
<1>7. UniqueNames'
  BY <1>2 DEF IInv, UniqueNames, Taken
<1>8. NothingOrphaned'
  BY <1>2 DEF IInv, NothingOrphaned, Exists
<1>9. DeletionComplete'
  <2> SUFFICES ASSUME NEW p \in Requests, pc'[p] = "delete", txn'[p].op = "delete"
               PROVE  LET u == txn'[p].user IN
                      /\ u \in DOMAIN user' /\ u \notin booked' /\ userLock'[u] = p
                      /\ {r \in DOMAIN session' : session'[r] = u} \subseteq txn'[p].todo \cup txn'[p].done
    BY DEF DeletionComplete, Exists, SessionsOf
  <2> QED BY <1>2, DeletionKept
<1>10. ReactivationKnown'
  <2> SUFFICES ASSUME NEW p \in Requests, txn'[p].op = "deactivate", ~txn'[p].active,
                      txn'[p].user \in DOMAIN user', user'[txn'[p].user].active
               PROVE  p \in reactivated'
    BY DEF ReactivationKnown, Exists
  <2>1. p # q /\ txn'[p] = txn[p]
    BY EndEffect, NoTxnType
  <2>2. txn[p].user \in 0 .. lastUser
    BY <2>1, NoTxnType DEF IInv, StageFits, TypeOK
  <2>3. txn[p].user \in DOMAIN user /\ user'[txn[p].user] = user[txn[p].user]
    BY <1>1, <1>2, <2>1, <2>2
  <2>4. p \in reactivated
    BY <2>1, <2>3 DEF IInv, ReactivationKnown, Exists
  <2> QED BY <2>1, <2>4, EndEffect
<1> QED BY <1>3, <1>5, <1>6, <1>7, <1>8, <1>9, <1>10 DEF IInv

\* A login or a booking refers to an account that nobody is deleting.
LEMMA ReferStep ==
  ASSUME IInv, NEW q \in Requests, Ended(q, {}), answer' = "ok",
         Exists(txn[q].user), userLock[txn[q].user] = None,
         UNCHANGED <<user, lastUser>>,
         \/ /\ booked' = booked \cup {txn[q].user}
            /\ UNCHANGED <<session, lastSession>>
         \/ /\ txn[q].op = "login"
            /\ session' = [x \in DOMAIN session \cup {lastSession + 1} |->
                             IF x = lastSession + 1 THEN txn[q].user ELSE session[x]]
            /\ lastSession' = lastSession + 1
            /\ UNCHANGED booked
  PROVE  IInv'
<1> DEFINE u == txn[q].user
<1>1. /\ lastSession \in Nat /\ DOMAIN session \subseteq 1 .. lastSession
      /\ lastSession + 1 \notin DOMAIN session /\ u \in DOMAIN user
  BY AccountsAssumption DEF IInv, TypeOK, Exists
<1>2. /\ \A r \in DOMAIN session' : \/ r \in DOMAIN session /\ session'[r] = session[r]
                                    \/ session'[r] = u
      /\ booked' \subseteq booked \cup {u}
      /\ DOMAIN session' \subseteq 1 .. lastSession'
  BY <1>1
<1>3. StageFits'
  BY EndFits
<1>4. IdsSuffice'
  BY EndCount
<1>5. lastSession' \in 0 .. MaxSessions
  <2>1. Cardinality(Running("login")') \in Nat
    BY FS_Subset, FS_CardinalityType, AccountsAssumption DEF Running
  <2> QED BY <1>1, <1>4, <2>1, AccountsAssumption DEF IdsSuffice
<1>6. TypeOK'
  <2>1. /\ pc' \in [Requests -> Stages] /\ txn' \in [Requests -> Txn]
        /\ userLock' \in [UserIds -> Requests \cup {None}]
        /\ rowLock' \in [SessionIds -> Requests \cup {None}]
        /\ \A p \in Requests : pc'[p] = "idle" <=> txn'[p] = NoTxn
        /\ reactivated' \subseteq Requests
    BY EndEffect
  <2>2. /\ DOMAIN user' \subseteq 1 .. lastUser' /\ lastUser' \in UserIds
        /\ \A v \in DOMAIN user' : user'[v] \in Account
    BY DEF IInv, TypeOK
  <2> QED BY <1>2, <1>5, <2>1, <2>2 DEF TypeOK, Stages
<1>7. UniqueNames'
  BY DEF IInv, UniqueNames
<1>8. NothingOrphaned'
  BY <1>1, <1>2 DEF IInv, NothingOrphaned, Exists
<1>9. DeletionComplete'
  <2> SUFFICES ASSUME NEW p \in Requests, pc'[p] = "delete", txn'[p].op = "delete"
               PROVE  LET v == txn'[p].user IN
                      /\ v \in DOMAIN user' /\ v \notin booked' /\ userLock'[v] = p
                      /\ {r \in DOMAIN session' : session'[r] = v} \subseteq txn'[p].todo \cup txn'[p].done
    BY DEF DeletionComplete, Exists, SessionsOf
  <2>1. /\ txn'[p] = txn[p] /\ txn[p].user \in DOMAIN user /\ txn[p].user \notin booked
        /\ userLock[txn[p].user] = p /\ userLock'[txn[p].user] = p
        /\ {r \in DOMAIN session : session[r] = txn[p].user} \subseteq txn[p].todo \cup txn[p].done
    BY DeletionKept
  <2>2. txn[p].user # u
    BY <2>1, AccountsAssumption
  <2> QED BY <1>2, <2>1, <2>2
<1>10. ReactivationKnown'
  <2> SUFFICES ASSUME NEW p \in Requests, txn'[p].op = "deactivate", ~txn'[p].active,
                      txn'[p].user \in DOMAIN user, user[txn'[p].user].active
               PROVE  p \in reactivated'
    BY DEF ReactivationKnown, Exists
  <2>1. p # q /\ txn'[p] = txn[p]
    BY EndEffect, NoTxnType
  <2> QED BY <2>1, EndEffect DEF IInv, ReactivationKnown, Exists
<1> QED BY <1>3, <1>4, <1>6, <1>7, <1>8, <1>9, <1>10 DEF IInv

\* A deletion leaves no session behind, and no deletion touches another's account.
LEMMA DeleteStep ==
  ASSUME IInv, NEW q \in Requests, CommitDelete(q)
  PROVE  IInv'
<1> DEFINE u == txn[q].user
<1>1. /\ pc[q] = "delete" /\ txn[q].op = "delete" /\ txn[q].todo = {}
      /\ user' = [v \in DOMAIN user \ {u} |-> user[v]]
      /\ session' = [r \in DOMAIN session \ txn[q].done |-> session[r]]
      /\ Ended(q, {}) /\ answer' = "ok" /\ UNCHANGED <<booked, lastUser, lastSession>>
  BY DEF CommitDelete, End, EndActivating, Closed, Ended, WithoutSessions
<1>2. /\ u \notin booked /\ userLock[u] = q
      /\ {r \in DOMAIN session : session[r] = u} \subseteq txn[q].done
  BY <1>1, Zenon DEF IInv, DeletionComplete, SessionsOf
<1>3. /\ DOMAIN user' = DOMAIN user \ {u} /\ \A v \in DOMAIN user' : user'[v] = user[v]
      /\ \A r \in DOMAIN session' :
           r \in DOMAIN session /\ session'[r] = session[r] /\ session[r] # u
  BY <1>1, <1>2
<1>4. StageFits'
  BY <1>1, EndFits
<1>5. IdsSuffice'
  BY <1>1, EndCount
<1>6. TypeOK'
  <2>1. /\ pc' \in [Requests -> Stages] /\ txn' \in [Requests -> Txn]
        /\ userLock' \in [UserIds -> Requests \cup {None}]
        /\ rowLock' \in [SessionIds -> Requests \cup {None}]
        /\ \A p \in Requests : pc'[p] = "idle" <=> txn'[p] = NoTxn
        /\ reactivated' \subseteq Requests
    BY <1>1, EndEffect
  <2>2. /\ DOMAIN user' \subseteq 1 .. lastUser' /\ lastUser' \in UserIds
        /\ \A v \in DOMAIN user' : user'[v] \in Account
        /\ DOMAIN session' \subseteq 1 .. lastSession' /\ lastSession' \in 0 .. MaxSessions
    BY <1>1, <1>3 DEF IInv, TypeOK
  <2> QED BY <1>1, <2>1, <2>2 DEF TypeOK, Stages
<1>7. UniqueNames'
  BY <1>3 DEF IInv, UniqueNames
<1>8. NothingOrphaned'
  BY <1>1, <1>2, <1>3 DEF IInv, NothingOrphaned, Exists
<1>9. DeletionComplete'
  <2> SUFFICES ASSUME NEW p \in Requests, pc'[p] = "delete", txn'[p].op = "delete"
               PROVE  LET v == txn'[p].user IN
                      /\ v \in DOMAIN user' /\ v \notin booked' /\ userLock'[v] = p
                      /\ {r \in DOMAIN session' : session'[r] = v} \subseteq txn'[p].todo \cup txn'[p].done
    BY DEF DeletionComplete, Exists, SessionsOf
  <2>1. /\ p # q /\ txn'[p] = txn[p] /\ txn[p].user \in DOMAIN user /\ txn[p].user \notin booked
        /\ userLock[txn[p].user] = p /\ userLock'[txn[p].user] = p
        /\ {r \in DOMAIN session : session[r] = txn[p].user} \subseteq txn[p].todo \cup txn[p].done
    BY <1>1, DeletionKept
  <2>2. txn[p].user # u
    BY <1>2, <2>1
  <2> QED BY <1>1, <1>3, <2>1, <2>2
<1>10. ReactivationKnown'
  <2> SUFFICES ASSUME NEW p \in Requests, txn'[p].op = "deactivate", ~txn'[p].active,
                      txn'[p].user \in DOMAIN user', user'[txn'[p].user].active
               PROVE  p \in reactivated'
    BY DEF ReactivationKnown, Exists
  <2>1. p # q /\ txn'[p] = txn[p]
    BY <1>1, EndEffect, NoTxnType
  <2> QED BY <1>1, <1>3, <2>1, EndEffect DEF IInv, ReactivationKnown, Exists
<1> QED BY <1>4, <1>5, <1>6, <1>7, <1>8, <1>9, <1>10 DEF IInv

\* A request that ends and leaves the tables alone.
LEMMA QuietEnd ==
  ASSUME IInv, NEW q \in Requests, NEW a \in {"none", "ok", "refused", "error"},
         End(q, a), UNCHANGED tables
  PROVE  IInv'
<1>1. Ended(q, {}) /\ answer' = a /\ UNCHANGED <<user, session, booked, lastUser, lastSession>>
  BY DEF End, EndActivating, Closed, Ended, tables
<1>2. \A u \in DOMAIN user : user[u] \in Account
  BY DEF IInv, TypeOK
<1> QED BY <1>1, <1>2, EditStep

\* Requests that insert.
LEMMA InsertStep ==
  ASSUME IInv, NEW q \in Requests, InsertUser(q) \/ InsertSession(q) \/ InsertBooking(q)
  PROVE  IInv'
<1>1. CASE InsertUser(q)
  <2>1. CASE Duplicate(txn[q].keys)
    <3>1. End(q, "refused") /\ UNCHANGED tables
      BY <1>1, <2>1 DEF InsertUser, tables
    <3> QED BY <3>1, QuietEnd
  <2>2. CASE ~Duplicate(txn[q].keys)
    BY <1>1, <2>2, RegisterStep
       DEF InsertUser, Duplicate, End, EndActivating, Closed, Ended
  <2> QED BY <2>1, <2>2
<1>2. CASE InsertSession(q)
  <2>1. CASE Exists(txn[q].user)
    BY <1>2, <2>1, ReferStep
       DEF InsertSession, ShareLockFree, End, EndActivating, Closed, Ended
  <2>2. CASE ~Exists(txn[q].user)
    <3>1. End(q, "error") /\ UNCHANGED tables
      BY <1>2, <2>2 DEF InsertSession, tables
    <3> QED BY <3>1, QuietEnd
  <2> QED BY <2>1, <2>2
<1>3. CASE InsertBooking(q)
  <2>1. CASE Exists(txn[q].user)
    BY <1>3, <2>1, ReferStep
       DEF InsertBooking, ShareLockFree, End, EndActivating, Closed, Ended
  <2>2. CASE ~Exists(txn[q].user)
    <3>1. End(q, "error") /\ UNCHANGED tables
      BY <1>3, <2>2 DEF InsertBooking, tables
    <3> QED BY <3>1, QuietEnd
  <2> QED BY <2>1, <2>2
<1> QED BY <1>1, <1>2, <1>3

\* Requests that change one account.
LEMMA UpdateStep ==
  ASSUME IInv, NEW q \in Requests, ChangeRole(q) \/ Activate(q) \/ CommitRevoke(q)
  PROVE  IInv'
<1> DEFINE u == txn[q].user
<1>1. /\ \A v \in DOMAIN user : user[v] \in Account
      /\ txn[q].role \in Role
  BY DEF IInv, TypeOK, Txn
<1>2. CASE ChangeRole(q)
  <2>1. /\ Ended(q, {}) /\ answer' = "ok" /\ txn[q].op = "change_role"
        /\ user' = IF u \in DOMAIN user THEN [user EXCEPT ![u].role = txn[q].role] ELSE user
        /\ UNCHANGED <<session, booked, lastUser, lastSession>>
    BY <1>2 DEF ChangeRole, End, EndActivating, Closed, Ended, Exists
  <2>2. /\ DOMAIN user' = DOMAIN user
        /\ \A v \in DOMAIN user : /\ user'[v] \in Account /\ user'[v].keys = user[v].keys
                                  /\ user'[v].active = user[v].active
                                  /\ v # u => user'[v] = user[v]
    BY <1>1, <2>1 DEF Account
  <2> QED BY <2>1, <2>2, EditStep
<1>3. CASE Activate(q)
  <2> DEFINE S == {p \in Requests : u \in DOMAIN user /\ txn[p].user = u}
  <2>1. /\ Ended(q, S) /\ answer' \in {"ok", "refused"} /\ txn[q].op = "activate"
        /\ user' = IF u \in DOMAIN user THEN [user EXCEPT ![u].active = TRUE] ELSE user
        /\ UNCHANGED <<session, booked, lastUser, lastSession>>
    BY <1>3 DEF Activate, ActivateAnswer, EndActivating, Closed, Ended, Exists
  <2>2. /\ DOMAIN user' = DOMAIN user
        /\ \A v \in DOMAIN user : /\ user'[v] \in Account /\ user'[v].keys = user[v].keys
                                  /\ v # u => user'[v] = user[v]
    BY <1>1, <2>1 DEF Account
  <2>3. \A v \in DOMAIN user, p \in Requests :
          user'[v].active /\ ~user[v].active /\ txn[p].user = v => p \in S
    BY <2>2
  <2>4. S \in SUBSET Requests
    OBVIOUS
  <2> HIDE DEF S
  <2> QED BY <2>1, <2>2, <2>3, <2>4, EditStep
<1>4. CASE CommitRevoke(q) /\ Exists(u)
  <2>1. /\ Ended(q, {}) /\ answer' = "ok" /\ txn[q].op \in Revokes /\ u \in DOMAIN user
        /\ user' = [user EXCEPT ![u].active = ActiveAfter(txn[q])]
        /\ session' = [r \in DOMAIN session \ txn[q].done |-> session[r]]
        /\ UNCHANGED <<booked, lastUser, lastSession>>
    BY <1>4 DEF CommitRevoke, End, EndActivating, Closed, Ended, Exists, WithoutSessions
  <2>2. /\ ActiveAfter(txn[q]) \in BOOLEAN
        /\ ActiveAfter(txn[q]) => user[u].active
        /\ user[u].active /\ txn[q].op # "deactivate" => ActiveAfter(txn[q])
    BY DEF ActiveAfter
  <2> HIDE DEF u
  <2>3. /\ DOMAIN user' = DOMAIN user
        /\ \A v \in DOMAIN user : /\ user'[v] \in Account /\ user'[v].keys = user[v].keys
                                  /\ user'[v].role = user[v].role
                                  /\ v # u => user'[v] = user[v]
        /\ user'[u].active = ActiveAfter(txn[q])
    BY <1>1, <2>1, <2>2 DEF Account
  <2>4. /\ DOMAIN session' \subseteq DOMAIN session
        /\ \A r \in DOMAIN session' : session'[r] = session[r]
    BY <2>1
  <2>5. \A v \in DOMAIN user : user'[v].active => user[v].active
    BY <2>2, <2>3
  <2> QED BY <2>1, <2>3, <2>4, <2>5, EditStep
<1>5. CASE CommitRevoke(q) /\ ~Exists(u)
  <2>1. End(q, "error") /\ UNCHANGED tables
    BY <1>5 DEF CommitRevoke, tables
  <2> QED BY <2>1, QuietEnd
<1> QED BY <1>2, <1>3, <1>4, <1>5

\* Deletions and revocations, up to their commit.
LEMMA LockStep ==
  ASSUME IInv, NEW q \in Requests,
         LockUser(q) \/ Scan(q) \/ \E r \in SessionIds : Claim(q, r)
  PROVE  IInv'
<1> DEFINE u == txn[q].user
<1>1. /\ txn[q] \in Txn /\ SessionsOf(u) \in SUBSET SessionIds
      /\ userLock \in [UserIds -> Requests \cup {None}]
      /\ rowLock \in [SessionIds -> Requests \cup {None}]
  BY AccountsAssumption DEF IInv, TypeOK, SessionIds, SessionsOf
<1>2. CASE LockUser(q) /\ Exists(u) /\ ~HasHistory(u)
  <2> DEFINE t == [txn[q] EXCEPT !.todo = SessionsOf(u)]
  <2>1. /\ pc[q] = "lock" /\ userLock[u] = None
        /\ userLock' = [userLock EXCEPT ![u] = q] /\ rowLock' = rowLock
        /\ pc' = [pc EXCEPT ![q] = "delete"] /\ txn' = [txn EXCEPT ![q] = t]
        /\ answer' = "none"
        /\ UNCHANGED <<user, session, booked, lastUser, lastSession, reactivated>>
    BY <1>2 DEF LockUser, Stay, tables
  <2>2. txn[q].op = "delete"
    BY <2>1 DEF IInv, StageFits
  <2>3. t \in Txn
    BY <1>1 DEF Txn
  <2>4. /\ t.op = "delete" /\ t.user = u /\ t.active = txn[q].active
        /\ SessionsOf(u) \subseteq t.todo
    BY <1>1, <2>2 DEF Txn
  <2>5. u \in UserIds
    BY <1>2, AccountsAssumption DEF IInv, TypeOK, UserIds, Exists
  <2>6. /\ userLock' \in [UserIds -> Requests \cup {None}] /\ userLock'[u] = q
        /\ \A p \in Requests, v \in UserIds : userLock[v] = p => userLock'[v] = p
    BY <1>1, <2>1, <2>5, AccountsAssumption
  <2> HIDE DEF t
  <2> QED BY <1>1, <1>2, <2>1, <2>2, <2>3, <2>4, <2>6, StayStep DEF HasHistory
<1>3. CASE LockUser(q) /\ Exists(u) /\ HasHistory(u)
  <2>1. /\ pc[q] = "lock" /\ userLock[u] = None
        /\ userLock' = [userLock EXCEPT ![u] = q] /\ rowLock' = rowLock
        /\ pc' = [pc EXCEPT ![q] = "history"] /\ txn' = [txn EXCEPT ![q] = txn[q]]
        /\ answer' = "none"
        /\ UNCHANGED <<user, session, booked, lastUser, lastSession, reactivated>>
    BY <1>3 DEF LockUser, Stay, tables
  <2>2. txn[q].op = "delete"
    BY <2>1 DEF IInv, StageFits
  <2>3. /\ userLock' \in [UserIds -> Requests \cup {None}]
        /\ \A p \in Requests, v \in UserIds : userLock[v] = p => userLock'[v] = p
    BY <1>1, <2>1, AccountsAssumption
  <2> QED BY <1>1, <2>1, <2>2, <2>3, StayStep
<1>4. CASE LockUser(q) /\ ~Exists(u)
  <2>1. End(q, "ok") /\ UNCHANGED tables
    BY <1>4 DEF LockUser
  <2> QED BY <2>1, QuietEnd
<1>5. CASE Scan(q)
  <2> DEFINE t == [txn[q] EXCEPT !.todo = SessionsOf(u)]
  <2>1. /\ pc[q] = "scan" /\ userLock' = userLock /\ rowLock' = rowLock
        /\ pc' = [pc EXCEPT ![q] = "delete"] /\ txn' = [txn EXCEPT ![q] = t]
        /\ answer' = "none"
        /\ UNCHANGED <<user, session, booked, lastUser, lastSession, reactivated>>
    BY <1>5 DEF Scan, Stay, tables
  <2>2. txn[q].op \in Revokes
    BY <2>1 DEF IInv, StageFits
  <2>3. t \in Txn
    BY <1>1 DEF Txn
  <2>4. t.op = txn[q].op /\ t.user = txn[q].user /\ t.active = txn[q].active /\ t.op # "delete"
    BY <1>1, <2>2 DEF Txn, Revokes
  <2> HIDE DEF t
  <2> QED BY <1>1, <2>1, <2>2, <2>3, <2>4, StayStep
<1>6. ASSUME NEW r \in SessionIds, Claim(q, r)
      PROVE  IInv'
  <2>1. \E d \in {{}, {r}} :
          /\ txn' = [txn EXCEPT ![q] = [txn[q] EXCEPT !.todo = @ \ {r}, !.done = @ \cup d]]
          /\ r \in DOMAIN session => r \in d
          /\ rowLock' \in [SessionIds -> Requests \cup {None}]
    <3>1. CASE r \in DOMAIN session
      BY <1>1, <1>6, <3>1 DEF Claim, Stay
    <3>2. CASE r \notin DOMAIN session
      <4>1. [txn[q] EXCEPT !.todo = @ \ {r}] = [txn[q] EXCEPT !.todo = @ \ {r}, !.done = @ \cup {}]
        BY <1>1 DEF Txn
      <4> QED BY <1>1, <1>6, <3>2, <4>1 DEF Claim, Stay
    <3> QED BY <3>1, <3>2
  <2>2. PICK d \in {{}, {r}} :
          /\ txn' = [txn EXCEPT ![q] = [txn[q] EXCEPT !.todo = @ \ {r}, !.done = @ \cup d]]
          /\ r \in DOMAIN session => r \in d
          /\ rowLock' \in [SessionIds -> Requests \cup {None}]
    BY <2>1
  <2> DEFINE t == [txn[q] EXCEPT !.todo = @ \ {r}, !.done = @ \cup d]
  <2>3. /\ pc[q] = "delete" /\ pc' = [pc EXCEPT ![q] = "delete"] /\ userLock' = userLock
        /\ answer' = "none"
        /\ UNCHANGED <<user, session, booked, lastUser, lastSession, reactivated>>
    BY <1>6 DEF Claim, Stay, tables
  <2>4. txn[q].op \in {"delete"} \cup Revokes
    BY <2>3 DEF IInv, StageFits
  <2>5. t \in Txn
    BY <1>1 DEF Txn
  <2>6. /\ t.op = txn[q].op /\ t.user = u /\ t.active = txn[q].active
        /\ t.todo = txn[q].todo \ {r} /\ t.done = txn[q].done \cup d
    BY <1>1 DEF Txn
  <2> HIDE DEF t
  <2>7. t.op = "delete" => /\ Exists(t.user) /\ t.user \notin booked /\ userLock'[t.user] = q
                           /\ SessionsOf(t.user) \subseteq t.todo \cup t.done
    <3>1. txn[q].op = "delete" =>
            /\ Exists(u) /\ u \notin booked /\ userLock[u] = q
            /\ SessionsOf(u) \subseteq txn[q].todo \cup txn[q].done
      BY <2>3, Zenon DEF IInv, DeletionComplete
    <3>2. SessionsOf(u) \subseteq DOMAIN session
      BY DEF SessionsOf
    <3> QED BY <2>2, <2>3, <2>6, <3>1, <3>2
  <2>8. txn' = [txn EXCEPT ![q] = t]
    BY <2>2 DEF t
  <2> QED BY <1>1, <2>2, <2>3, <2>4, <2>5, <2>6, <2>7, <2>8, StayStep
<1> QED BY <1>2, <1>3, <1>4, <1>5, <1>6

LEMMA InitHolds == Init => IInv
<1> SUFFICES ASSUME Init PROVE IInv
  OBVIOUS
<1>1. TypeOK
  BY AccountsAssumption, NoTxnType DEF Init, TypeOK, UserIds, SessionIds, Account, Role
<1>2. Running("register") = {} /\ Running("login") = {}
  BY NoTxnType DEF Init, Running
<1>3. IdsSuffice
  <2>1. Cardinality(Running("register")) = 0 /\ Cardinality(Running("login")) = 0
    BY <1>2, FS_EmptySet
  <2> HIDE DEF Running
  <2>2. lastUser = 1 /\ lastSession = 0 /\ 1 <= MaxUsers /\ 0 <= MaxSessions
    BY AccountsAssumption DEF Init
  <2> QED BY <2>1, <2>2 DEF IdsSuffice
<1>4. UniqueNames /\ NothingOrphaned
  BY DEF Init, UniqueNames, NothingOrphaned, Exists
<1>5. StageFits /\ DeletionComplete /\ ReactivationKnown
  BY NoTxnType DEF Init, StageFits, DeletionComplete, ReactivationKnown
<1> QED BY <1>1, <1>3, <1>4, <1>5 DEF IInv

\* The database refuses the DELETE of a request or aborts its transaction.
Aborted(q) == RefuseDelete(q) \/ DeadlockVictim(q) \/ RoomDeadlockVictim(q)

\* The kinds of steps of a request.
LEMMA NextCases ==
  ASSUME Next
  PROVE  \E q \in Requests :
           \/ Starts(q)
           \/ InsertUser(q) \/ InsertSession(q) \/ InsertBooking(q)
           \/ ChangeRole(q) \/ Activate(q) \/ CommitRevoke(q)
           \/ LockUser(q) \/ Scan(q) \/ (\E r \in SessionIds : Claim(q, r))
           \/ CommitDelete(q)
           \/ Aborted(q) \/ Crash(q)
BY DEF Next, Starts, Step, Aborted

LEMMA NextHolds == IInv /\ [Next]_vars => IInv'
<1> SUFFICES ASSUME IInv, [Next]_vars PROVE IInv'
  OBVIOUS
<1>1. CASE UNCHANGED vars
  <2>1. /\ UNCHANGED <<user, session, booked, lastUser, lastSession, userLock, rowLock>>
        /\ UNCHANGED <<pc, txn, answer, reactivated>>
    BY <1>1 DEF vars, tables
  <2>2. TypeOK' /\ StageFits' /\ IdsSuffice'
    BY <2>1 DEF IInv, TypeOK, StageFits, IdsSuffice, Running
  <2>3. UniqueNames' /\ NothingOrphaned'
    BY <2>1 DEF IInv, UniqueNames, NothingOrphaned, Exists
  <2>4. DeletionComplete' /\ ReactivationKnown'
    BY <2>1 DEF IInv, DeletionComplete, ReactivationKnown, Exists, SessionsOf
  <2> QED BY <2>2, <2>3, <2>4 DEF IInv
<1>2. CASE Next
  <2>1. PICK q \in Requests :
           \/ Starts(q)
           \/ InsertUser(q) \/ InsertSession(q) \/ InsertBooking(q)
           \/ ChangeRole(q) \/ Activate(q) \/ CommitRevoke(q)
           \/ LockUser(q) \/ Scan(q) \/ (\E r \in SessionIds : Claim(q, r))
           \/ CommitDelete(q)
           \/ Aborted(q) \/ Crash(q)
    BY <1>2, NextCases
  <2>2. CASE Aborted(q) \/ Crash(q)
    BY <2>2, QuietEnd DEF Aborted, DeadlockVictim, RoomDeadlockVictim, RefuseDelete, Crash
  <2> QED BY <2>1, <2>2, StartStep, InsertStep, UpdateStep, LockStep, DeleteStep
<1> QED BY <1>1, <1>2

LEMMA Inductive == Spec => []IInv
BY InitHolds, NextHolds, PTL DEF Spec

\* The variables stay in their types, and the id sequences within their bounds.
THEOREM TypeCorrect == Spec => []TypeOK
<1>1. IInv => TypeOK
  BY DEF IInv
<1> QED BY <1>1, Inductive, PTL

\* Names and e-mail addresses stay unique, however many registrations race.
THEOREM NamesAreUnique == Spec => []UniqueNames
<1>1. IInv => UniqueNames
  BY DEF IInv
<1> QED BY <1>1, Inductive, PTL

\* No booking and no session outlives its account.
THEOREM NoOrphans == Spec => []NothingOrphaned
<1>1. IInv => NothingOrphaned
  BY DEF IInv
<1> QED BY <1>1, Inductive, PTL
-----------------------------------------------------------------------------
\* A 2xx of a deletion, an activation or a deactivation is true when it is given.
AnswerIsTrue(q) ==
  LET u == txn[q].user IN
  CASE txn[q].op = "delete"     -> u \notin DOMAIN user'
    [] txn[q].op = "activate"   -> u \in DOMAIN user' /\ user'[u].active
    [] txn[q].op = "deactivate" -> u \in DOMAIN user' /\ (user'[u].active => q \in reactivated)
    [] OTHER -> TRUE

LEMMA StepAnswersTrue ==
  ASSUME IInv, Next, NEW q \in Requests, pc[q] # "idle", pc'[q] = "idle", answer' = "ok"
  PROVE  AnswerIsTrue(q)
<1>1. PICK p \in Requests :
         \/ Starts(p)
         \/ InsertUser(p) \/ InsertSession(p) \/ InsertBooking(p)
         \/ ChangeRole(p) \/ Activate(p) \/ CommitRevoke(p)
         \/ LockUser(p) \/ Scan(p) \/ (\E r \in SessionIds : Claim(p, r))
         \/ CommitDelete(p)
         \/ Aborted(p) \/ Crash(p)
  BY NextCases
<1>2. \A r \in Requests \ {p} : pc'[r] = pc[r]
  BY <1>1, StartEffect DEF IInv, TypeOK, Started, InsertUser, InsertSession, InsertBooking,
     ChangeRole, Activate, CommitRevoke, LockUser, Scan, Claim, CommitDelete, Aborted,
     RefuseDelete, DeadlockVictim, RoomDeadlockVictim, Crash, Stay, End, EndActivating
<1>3. p = q
  BY <1>2
<1>4. ~Starts(q) /\ ~Aborted(q) /\ ~Crash(q) /\ ~Scan(q) /\ ~(\E r \in SessionIds : Claim(q, r))
  <2>1. ~Starts(q)
    BY StartEffect DEF IInv, Started
  <2>2. ~Aborted(q) /\ ~Crash(q) /\ ~Scan(q) /\ ~(\E r \in SessionIds : Claim(q, r))
    BY DEF Aborted, RefuseDelete, DeadlockVictim, RoomDeadlockVictim, Crash, Scan, Claim,
       Stay, End, EndActivating
  <2> QED BY <2>1, <2>2
<1>5. CASE InsertUser(q) \/ InsertSession(q) \/ InsertBooking(q) \/ ChangeRole(q)
  <2>1. txn[q].op \in Inserts \cup {"change_role"}
    BY <1>5 DEF InsertUser, InsertSession, InsertBooking, ChangeRole, IInv, StageFits
  <2> QED BY <2>1 DEF AnswerIsTrue, Inserts
<1>6. CASE Activate(q)
  <2>1. txn[q].op = "activate" /\ txn[q].user \in DOMAIN user
    BY <1>6 DEF Activate, ActivateAnswer, EndActivating, Exists
  <2>2. user' = [user EXCEPT ![txn[q].user].active = TRUE]
    BY <1>6, <2>1 DEF Activate, Exists
  <2>3. txn[q].user \in DOMAIN user' /\ user'[txn[q].user].active
    BY <2>1, <2>2 DEF IInv, TypeOK, Account
  <2> QED BY <2>1, <2>3 DEF AnswerIsTrue
<1>7. CASE CommitRevoke(q)
  <2> DEFINE u == txn[q].user
  <2>1. /\ txn[q].op \in Revokes /\ u \in DOMAIN user
        /\ user' = [user EXCEPT ![u].active = ActiveAfter(txn[q])]
    BY <1>7 DEF CommitRevoke, End, EndActivating, Exists
  <2>2. u \in DOMAIN user' /\ user'[u].active = ActiveAfter(txn[q])
    BY <2>1 DEF IInv, TypeOK, Account
  <2>3. txn[q].op = "deactivate" /\ user'[u].active => q \in reactivated
    BY <2>1, <2>2 DEF ActiveAfter, IInv, ReactivationKnown, Exists
  <2> QED BY <2>1, <2>2, <2>3 DEF AnswerIsTrue, Revokes
<1>8. CASE LockUser(q)
  <2>1. txn[q].op = "delete" /\ ~Exists(txn[q].user) /\ UNCHANGED user
    BY <1>8 DEF LockUser, Stay, End, EndActivating, tables, IInv, StageFits
  <2> QED BY <2>1 DEF AnswerIsTrue, Exists
<1>9. CASE CommitDelete(q)
  BY <1>9 DEF CommitDelete, AnswerIsTrue
<1> QED BY <1>1, <1>3, <1>4, <1>5, <1>6, <1>7, <1>8, <1>9

\* A 2xx means what it says, whatever other requests committed meanwhile.
THEOREM AnswersTrue == Spec => AnswersAreTrue
<1>1. IInv /\ [Next]_vars
        => [\A q \in Requests :
              pc[q] # "idle" /\ pc'[q] = "idle" /\ answer' = "ok" => AnswerIsTrue(q)]_vars
  BY StepAnswersTrue
<1>2. Spec => [][\A q \in Requests :
                   pc[q] # "idle" /\ pc'[q] = "idle" /\ answer' = "ok" => AnswerIsTrue(q)]_vars
  BY <1>1, Inductive, PTL DEF Spec
<1> QED BY <1>2 DEF AnswersAreTrue, AnswerIsTrue
=============================================================================
