------------------------- MODULE AuthSessionsProofs -------------------------
(***************************************************************************)
(* Proofs about the sessions of an account, for any number of concurrent   *)
(* requests, tokens, revocations and crashes: a refresh token is exchanged *)
(* at most once, a revocation ends the sessions that it saw, and spares    *)
(* whoever logs in after it.                                               *)
(***************************************************************************)
EXTENDS AuthSessions, FiniteSetTheorems, TLAPS

\* The tokens issued so far.
Numbers == 1 .. Len(issued)

\* A stamp (iat, ep) lies in the past, and later than the cutoff of the last revocation
\* if it was judged after that revocation had committed.
Stamped(iat, ep) == /\ iat \in Time /\ iat <= now
                    /\ ep \in 0 .. epoch
                    /\ ep = epoch => ~Invalidated(iat)

\* The row that holds token k is locked by request q.
HoldsRow(q, k) == HasRow(k) /\ rowLock[issued[k].session] = q

\* What a request knows at its step, whatever the other requests have done meanwhile.
RequestOK(q) ==
  /\ pc[q] = "insert" => /\ txn[q].op = "login"
                         /\ Stamped(txn[q].iat, txn[q].epoch)
  /\ pc[q] \in {"lock_session", "rotate", "respond"} =>
       txn[q].op = "refresh" /\ txn[q].token \in Numbers
  /\ pc[q] = "rotate" => /\ HoldsRow(q, txn[q].token)
                         /\ Stamped(txn[q].iat, issued[txn[q].token].epoch)
  /\ pc[q] = "scan" => txn[q].op \in RevokeAll /\ txn[q].done = {}
  /\ pc[q] = "delete" =>
       /\ txn[q].op \in RevokeAll \cup {"logout"}
       /\ \A r \in txn[q].done : rowLock[r] = q
       /\ txn[q].op \in RevokeAll => /\ txn[q].seen \subseteq Numbers
                                     /\ txn[q].seen \cap DOMAIN session
                                          \subseteq txn[q].todo \cup txn[q].done
  /\ txn[q].op \in RevokeAll => txn[q].iat <= now

\* The tables and the history: every session holds a token of its own, which was not
\* exchanged, and every stamp is in order.
TablesOK ==
  /\ DOMAIN session \subseteq Numbers /\ ended \subseteq Numbers
  /\ \A r \in DOMAIN session : issued[session[r].token].session = r
  /\ \A k \in Tokens \ Numbers : exchanged[k] = 0
  /\ user.validAfter <= now
  /\ epoch \in 0 .. MaxRevokes
  /\ \A k \in Numbers : Stamped(issued[k].iat, issued[k].epoch)
  /\ \A a \in access : Stamped(a.iat, a.epoch)

\* The requests that will issue a token, and those that will revoke.
Issuing  == {q \in Requests : pc[q] \in {"insert", "lock_session", "rotate"}}
Revoking == {q \in Requests : pc[q] # "idle" /\ txn[q].op \in RevokeAll}

\* The bounds suffice for the requests under way.
BoundsSuffice == /\ Len(issued) + Cardinality(Issuing) <= MaxTokens
                 /\ epoch + Cardinality(Revoking) <= MaxRevokes

IInv == /\ TypeOK /\ TablesOK /\ BoundsSuffice
        /\ \A q \in Requests : RequestOK(q)
        /\ ExchangedOnce /\ RevokedSessionsEnd
-----------------------------------------------------------------------------
\* What every step of the tables leaves alone: tokens keep their stamps, sessions are
\* only added under new numbers, and the cutoff moves with the epoch.
Grows == /\ now <= now' /\ now' \in Time
         /\ Numbers \subseteq Numbers'
         /\ \A k \in Numbers : issued'[k] = issued[k]
         /\ DOMAIN session' \cap Numbers \subseteq DOMAIN session
         /\ epoch' \in Nat
         /\ \/ epoch' = epoch /\ user'.validAfter = user.validAfter
            \/ epoch' > epoch

\* The rows that request p has locked stay as they are, and locked.
KeepsRowsOf(p) ==
  \A r \in Tokens : rowLock[r] = p =>
    /\ rowLock'[r] = p
    /\ r \in DOMAIN session => r \in DOMAIN session' /\ session'[r] = session[r]

\* A stamp stays in order: a later revocation is of a later epoch.
LEMMA StampKept ==
  ASSUME TypeOK, TablesOK, Grows, NEW iat, NEW ep, Stamped(iat, ep)
  PROVE  Stamped(iat, ep)'
<1>1. /\ now \in Int /\ now' \in Int /\ iat \in Int /\ ep \in Int
      /\ epoch \in Int /\ epoch' \in Int
  BY DEF TypeOK, TablesOK, Grows, Stamped, Time
<1> QED BY <1>1 DEF Grows, Stamped, Invalidated

\* The numbers of tokens and sessions are numbers that may be used.
LEMMA NumbersAreTokens ==
  ASSUME TypeOK
  PROVE  /\ Len(issued) \in Nat /\ MaxTokens \in Nat /\ Numbers \subseteq Tokens
         /\ \A k \in Numbers : /\ issued[k] \in [iat : Time, epoch : 0 .. MaxRevokes,
                                                 session : Tokens]
                               /\ issued[k].session \in Tokens
<1>1. Len(issued) \in Nat /\ MaxTokens \in Nat /\ Len(issued) <= MaxTokens
  BY AuthAssumption DEF TypeOK
<1>2. Numbers \subseteq Tokens
  BY <1>1 DEF Tokens, Numbers
<1> DEFINE Token == [iat : Time, epoch : 0 .. MaxRevokes, session : Tokens]
<1>3. ASSUME NEW k \in Numbers PROVE issued[k] \in Token
  <2>1. issued \in Seq(Token) /\ k \in 1 .. Len(issued)
    BY DEF TypeOK, Numbers
  <2> HIDE DEF Token
  <2> QED BY <2>1
<1> QED BY <1>1, <1>2, <1>3

\* Rely and guarantee: a request whose locked rows are left alone is undisturbed by a
\* step of another.
LEMMA Undisturbed ==
  ASSUME TypeOK, TablesOK, Grows, NEW p \in Requests, RequestOK(p), KeepsRowsOf(p),
         pc'[p] = pc[p], txn'[p] = txn[p]
  PROVE  RequestOK(p)'
<1>1. txn[p] \in Txn /\ now \in Int /\ now' \in Int
  BY DEF TypeOK, Grows, Time
<1>2. pc[p] = "rotate" => /\ HoldsRow(p, txn[p].token)'
                          /\ Stamped(txn[p].iat, issued[txn[p].token].epoch)'
  <2> SUFFICES ASSUME pc[p] = "rotate"
               PROVE  /\ HoldsRow(p, txn[p].token)'
                      /\ Stamped(txn[p].iat, issued[txn[p].token].epoch)'
    OBVIOUS
  <2> DEFINE k == txn[p].token
  <2>1. k \in Numbers /\ HoldsRow(p, k) /\ Stamped(txn[p].iat, issued[k].epoch)
    BY DEF RequestOK
  <2>2. issued'[k] = issued[k] /\ issued[k].session \in Tokens
    BY <2>1, NumbersAreTokens DEF Grows
  <2>3. HoldsRow(p, k)'
    BY <2>1, <2>2 DEF HoldsRow, HasRow, KeepsRowsOf
  <2>4. Stamped(txn[p].iat, issued[k].epoch)'
    BY <2>1, <2>2, StampKept
  <2> QED BY <2>3, <2>4
<1>3. pc[p] = "insert" => Stamped(txn[p].iat, txn[p].epoch)'
  BY StampKept DEF RequestOK
<1>4. pc[p] = "delete" => \A r \in txn[p].done : rowLock'[r] = p
  BY <1>1 DEF RequestOK, KeepsRowsOf, Txn
<1>5. pc[p] = "delete" /\ txn[p].op \in RevokeAll =>
        /\ txn[p].seen \subseteq Numbers'
        /\ txn[p].seen \cap DOMAIN session' \subseteq txn[p].todo \cup txn[p].done
  BY DEF RequestOK, Grows
<1>6. txn[p].op \in RevokeAll => txn[p].iat <= now'
  BY <1>1 DEF RequestOK, Grows, Txn, Time
<1>7. txn[p].token \in Numbers => txn[p].token \in Numbers'
  BY DEF Grows
<1> QED BY <1>2, <1>3, <1>4, <1>5, <1>6, <1>7 DEF RequestOK
-----------------------------------------------------------------------------
Stages == {"idle", "insert", "lock_session", "rotate", "respond", "scan", "delete"}

LEMMA NoTxnType == NoTxn \in Txn
BY AuthAssumption DEF NoTxn, Txn, Time

\* Sets of requests that differ in one request at most.
LEMMA OneRequestMoves ==
  ASSUME NEW A \in SUBSET Requests, NEW B \in SUBSET Requests, NEW q, A \ {q} = B \ {q}
  PROVE  /\ Cardinality(A) \in Nat /\ Cardinality(B) \in Nat
         /\ q \in A /\ q \notin B => Cardinality(B) = Cardinality(A) - 1
         /\ q \notin A /\ q \in B => Cardinality(B) = Cardinality(A) + 1
         /\ (q \in A <=> q \in B) => Cardinality(B) = Cardinality(A)
<1>1. IsFiniteSet(A) /\ IsFiniteSet(B)
  BY AuthAssumption, FS_Subset
<1>2. Cardinality(A) \in Nat /\ Cardinality(B) \in Nat
  BY <1>1, FS_CardinalityType
<1>3. ASSUME q \in A, q \notin B PROVE Cardinality(B) = Cardinality(A) - 1
  <2>1. B = A \ {q}
    BY <1>3
  <2> QED BY <1>1, <1>3, <2>1, FS_RemoveElement
<1>4. ASSUME q \notin A, q \in B PROVE Cardinality(B) = Cardinality(A) + 1
  <2>1. B = A \cup {q}
    BY <1>4
  <2> QED BY <1>1, <1>4, <2>1, FS_AddElement
<1>5. ASSUME q \in A <=> q \in B PROVE Cardinality(B) = Cardinality(A)
  <2>1. A = B
    BY <1>5
  <2> QED BY <2>1
<1> QED BY <1>2, <1>3, <1>4, <1>5

\* What a step of request q does to the two sets that are counted.
LEMMA CountsMove ==
  ASSUME NEW q \in Requests,
         \A p \in Requests \ {q} : pc'[p] = pc[p] /\ txn'[p] = txn[p]
  PROVE  /\ Cardinality(Issuing) \in Nat /\ Cardinality(Issuing') \in Nat
         /\ Cardinality(Issuing') <= Cardinality(Issuing) + 1
         /\ q \in Issuing \/ q \notin Issuing' => Cardinality(Issuing') <= Cardinality(Issuing)
         /\ q \in Issuing /\ q \notin Issuing' => Cardinality(Issuing') = Cardinality(Issuing) - 1
         /\ Cardinality(Revoking) \in Nat /\ Cardinality(Revoking') \in Nat
         /\ Cardinality(Revoking') <= Cardinality(Revoking) + 1
         /\ q \in Revoking \/ q \notin Revoking' => Cardinality(Revoking') <= Cardinality(Revoking)
         /\ q \in Revoking /\ q \notin Revoking' => Cardinality(Revoking') = Cardinality(Revoking) - 1
<1>1. /\ Issuing \in SUBSET Requests /\ Issuing' \in SUBSET Requests
      /\ Issuing \ {q} = Issuing' \ {q}
  BY DEF Issuing
<1>2. /\ Revoking \in SUBSET Requests /\ Revoking' \in SUBSET Requests
      /\ Revoking \ {q} = Revoking' \ {q}
  BY DEF Revoking
<1>3. /\ Cardinality(Issuing) \in Nat /\ Cardinality(Issuing') \in Nat
      /\ q \in Issuing /\ q \notin Issuing' => Cardinality(Issuing') = Cardinality(Issuing) - 1
      /\ q \notin Issuing /\ q \in Issuing' => Cardinality(Issuing') = Cardinality(Issuing) + 1
      /\ (q \in Issuing <=> q \in Issuing') => Cardinality(Issuing') = Cardinality(Issuing)
  BY <1>1, OneRequestMoves
<1>4. /\ Cardinality(Revoking) \in Nat /\ Cardinality(Revoking') \in Nat
      /\ q \in Revoking /\ q \notin Revoking' => Cardinality(Revoking') = Cardinality(Revoking) - 1
      /\ q \notin Revoking /\ q \in Revoking' => Cardinality(Revoking') = Cardinality(Revoking) + 1
      /\ (q \in Revoking <=> q \in Revoking') => Cardinality(Revoking') = Cardinality(Revoking)
  BY <1>2, OneRequestMoves
<1> QED BY <1>3, <1>4

\* A step of request q that touches nothing but its own memory and row locks.
LEMMA QuietStep ==
  ASSUME IInv, NEW q \in Requests, NEW stage \in Stages, NEW t \in Txn,
         pc' = [pc EXCEPT ![q] = stage], txn' = [txn EXCEPT ![q] = t],
         UNCHANGED <<now, user, session, issued, access, wallet, history>>,
         rowLock' \in [Tokens -> Requests \cup {None}],
         \A p \in Requests \ {q} : \A r \in Tokens : rowLock[r] = p => rowLock'[r] = p,
         BoundsSuffice', RequestOK(q)'
  PROVE  IInv'
<1>1. TypeOK'
  BY DEF IInv, TypeOK, history, Stages
<1>2. TablesOK'
  BY DEF IInv, TablesOK, history, Numbers, Stamped, Invalidated
<1>3. Grows
  BY DEF IInv, TypeOK, TablesOK, history, Grows, Numbers, Time
<1>4. ASSUME NEW p \in Requests \ {q} PROVE RequestOK(p)'
  <2>1. KeepsRowsOf(p)
    BY DEF KeepsRowsOf
  <2>2. pc'[p] = pc[p] /\ txn'[p] = txn[p]
    BY DEF IInv, TypeOK
  <2> QED BY <1>3, <2>1, <2>2, Undisturbed DEF IInv
<1>5. ExchangedOnce' /\ RevokedSessionsEnd'
  BY DEF IInv, ExchangedOnce, RevokedSessionsEnd, history
<1> QED BY <1>1, <1>2, <1>4, <1>5 DEF IInv

\* The locks that q gives up are its own.
LEMMA UnlockedEffect ==
  ASSUME TypeOK, NEW q \in Requests
  PROVE  /\ Unlocked(q) \in [Tokens -> Requests \cup {None}]
         /\ \A p \in Requests \ {q} : \A r \in Tokens : rowLock[r] = p => Unlocked(q)[r] = p
BY DEF TypeOK, Unlocked

\* A request that stops, for whatever reason, leaves nothing behind.
LEMMA StopStep ==
  ASSUME IInv, NEW q \in Requests, End(q), rowLock' = Unlocked(q),
         UNCHANGED <<now, user, session, issued, access, wallet, history>>
  PROVE  IInv'
<1>1. /\ pc' = [pc EXCEPT ![q] = "idle"] /\ txn' = [txn EXCEPT ![q] = NoTxn]
      /\ pc'[q] = "idle" /\ txn'[q] = NoTxn
  BY DEF End, IInv, TypeOK
<1>2. RequestOK(q)'
  BY <1>1 DEF RequestOK, NoTxn, RevokeAll
<1>3. BoundsSuffice'
  <2>1. /\ Cardinality(Issuing') <= Cardinality(Issuing) /\ Cardinality(Issuing) \in Nat
        /\ Cardinality(Revoking') <= Cardinality(Revoking) /\ Cardinality(Revoking) \in Nat
        /\ Cardinality(Issuing') \in Nat /\ Cardinality(Revoking') \in Nat
    <3>1. \A p \in Requests \ {q} : pc'[p] = pc[p] /\ txn'[p] = txn[p]
      BY <1>1 DEF IInv, TypeOK
    <3>2. q \notin Issuing' /\ q \notin Revoking'
      BY <1>1 DEF Issuing, Revoking
    <3> QED BY <3>1, <3>2, CountsMove
  <2>2. Len(issued) \in Nat /\ MaxTokens \in Nat /\ MaxRevokes \in Nat /\ epoch \in Int
    BY NumbersAreTokens, AuthAssumption DEF IInv, TablesOK
  <2> QED BY <2>1, <2>2 DEF IInv, BoundsSuffice, history
<1>4. /\ rowLock' \in [Tokens -> Requests \cup {None}]
      /\ \A p \in Requests \ {q} : \A r \in Tokens : rowLock[r] = p => rowLock'[r] = p
  BY UnlockedEffect DEF IInv
<1> QED BY <1>1, <1>2, <1>3, <1>4, NoTxnType, QuietStep DEF Stages
-----------------------------------------------------------------------------
\* The guards of the requests that start, in terms of the sets that are counted.
LEMMA WhatRemains ==
  ASSUME IInv
  PROVE  /\ TokensRemain <=> Len(issued) + Cardinality(Issuing) < MaxTokens
         /\ RevokesRemain <=> epoch + Cardinality(Revoking) < MaxRevokes
<1>1. {q \in Active({"login", "refresh"}) : pc[q] # "respond"} = Issuing
  BY DEF IInv, TypeOK, RequestOK, Active, Issuing, RevokeAll
<1>2. Active(RevokeAll) = Revoking
  BY DEF Active, Revoking
<1> QED BY <1>1, <1>2 DEF TokensRemain, RevokesRemain

\* A request starts, with what it has to know.
LEMMA BeginStep ==
  ASSUME IInv, NEW q \in Requests, NEW first \in Stages, NEW t \in Txn, Begin(q, first, t),
         first \in {"insert", "lock_session"} => TokensRemain,
         t.op \in RevokeAll => RevokesRemain,
         first \notin {"rotate", "respond"},
         first = "insert" => t.op = "login" /\ Stamped(t.iat, t.epoch),
         first = "lock_session" => t.op = "refresh" /\ t.token \in Numbers,
         first = "scan" => t.op \in RevokeAll /\ t.done = {},
         first = "delete" => t.op = "logout" /\ t.done = {},
         t.op \in RevokeAll => t.iat <= now
  PROVE  IInv'
<1>1. /\ pc[q] = "idle" /\ pc' = [pc EXCEPT ![q] = first] /\ txn' = [txn EXCEPT ![q] = t]
      /\ UNCHANGED <<now, user, session, issued, access, wallet, history, rowLock, epoch>>
  BY DEF Begin, tables, history
<1>2. pc'[q] = first /\ txn'[q] = t
  BY <1>1 DEF IInv, TypeOK
<1>3. RequestOK(q)'
  BY <1>1, <1>2 DEF RequestOK, RevokeAll, Stamped, Invalidated, Numbers, history
<1>4. BoundsSuffice'
  <2>1. /\ Cardinality(Issuing) \in Nat /\ Cardinality(Issuing') \in Nat
        /\ Cardinality(Issuing') <= Cardinality(Issuing) + 1
        /\ first \notin {"insert", "lock_session"} => Cardinality(Issuing') <= Cardinality(Issuing)
        /\ Cardinality(Revoking) \in Nat /\ Cardinality(Revoking') \in Nat
        /\ Cardinality(Revoking') <= Cardinality(Revoking) + 1
        /\ t.op \notin RevokeAll => Cardinality(Revoking') <= Cardinality(Revoking)
    <3>1. \A p \in Requests \ {q} : pc'[p] = pc[p] /\ txn'[p] = txn[p]
      BY <1>1 DEF IInv, TypeOK
    <3>2. /\ first \notin {"insert", "lock_session"} => q \notin Issuing'
          /\ t.op \notin RevokeAll => q \notin Revoking'
      BY <1>2 DEF Issuing, Revoking
    <3> QED BY <3>1, <3>2, CountsMove
  <2>2. Len(issued) \in Nat /\ MaxTokens \in Nat /\ MaxRevokes \in Nat /\ epoch \in Int
    BY NumbersAreTokens, AuthAssumption DEF IInv, TablesOK
  <2>3. /\ TokensRemain => Len(issued) + Cardinality(Issuing) < MaxTokens
        /\ RevokesRemain => epoch + Cardinality(Revoking) < MaxRevokes
    BY WhatRemains
  <2>4. Len(issued) + Cardinality(Issuing') <= MaxTokens
    BY <2>1, <2>2, <2>3 DEF IInv, BoundsSuffice
  <2>5. epoch + Cardinality(Revoking') <= MaxRevokes
    BY <2>1, <2>2, <2>3 DEF IInv, BoundsSuffice
  <2> QED BY <1>1, <2>4, <2>5 DEF BoundsSuffice
<1>5. rowLock' \in [Tokens -> Requests \cup {None}]
  BY <1>1 DEF IInv, TypeOK
<1> QED BY <1>1, <1>3, <1>4, <1>5, QuietStep

LEMMA StartStep ==
  ASSUME IInv, NEW q \in Requests,
         \/ StartLogin(q)
         \/ \E k \in wallet : StartRefresh(q, k) \/ StartLogout(q, k)
         \/ \E op \in RevokeAll : StartRevokeAll(q, op)
  PROVE  IInv'
<1>0. /\ now \in Time /\ now \in Int /\ epoch \in 0 .. MaxRevokes /\ user.active \in BOOLEAN
      /\ user.validAfter \in Int /\ user.validAfter <= now /\ epoch \in Int
  BY DEF IInv, TypeOK, TablesOK, Time
<1>1. CASE StartLogin(q)
  <2> DEFINE t == [NoTxn EXCEPT !.op = "login", !.iat = now, !.epoch = epoch]
  <2>1. t \in Txn /\ t.op = "login" /\ t.iat = now /\ t.epoch = epoch
    BY <1>0, NoTxnType DEF NoTxn, Txn
  <2>2. Stamped(now, epoch)
    BY <1>0 DEF Stamped, Invalidated
  <2>3. TokensRemain /\ Begin(q, "insert", t)
    BY <1>1 DEF StartLogin
  <2> HIDE DEF t
  <2>4. t.op \notin RevokeAll
    BY <2>1 DEF RevokeAll
  <2> QED BY <2>1, <2>2, <2>3, <2>4, BeginStep DEF Stages
<1>2. ASSUME NEW k \in wallet, StartRefresh(q, k) PROVE IInv'
  <2> DEFINE t == [NoTxn EXCEPT !.op = "refresh", !.token = k]
  <2>1. k \in Numbers /\ k \in 0 .. MaxTokens
    BY NumbersAreTokens DEF IInv, TypeOK, Numbers
  <2>2. t \in Txn /\ t.op = "refresh" /\ t.token = k
    BY <2>1, NoTxnType DEF NoTxn, Txn
  <2>3. TokensRemain /\ Begin(q, "lock_session", t)
    BY <1>2 DEF StartRefresh
  <2> HIDE DEF t
  <2>4. t.op \notin RevokeAll
    BY <2>2 DEF RevokeAll
  <2> QED BY <2>1, <2>2, <2>3, <2>4, BeginStep DEF Stages
<1>3. ASSUME NEW k \in wallet, StartLogout(q, k) PROVE IInv'
  <2> DEFINE found == IF HasRow(k) THEN {issued[k].session} ELSE {}
             t == [NoTxn EXCEPT !.op = "logout", !.token = k, !.seen = found, !.todo = found]
  <2>1. k \in Numbers /\ k \in 0 .. MaxTokens /\ found \in SUBSET Tokens
    BY NumbersAreTokens DEF IInv, TypeOK, Numbers
  <2> HIDE DEF found
  <2>2. t \in Txn /\ t.op = "logout" /\ t.done = {}
    BY <2>1, NoTxnType DEF NoTxn, Txn
  <2>3. Begin(q, "delete", t)
    BY <1>3 DEF StartLogout, found
  <2> HIDE DEF t
  <2>4. t.op \notin RevokeAll
    BY <2>2 DEF RevokeAll
  <2> QED BY <2>2, <2>3, <2>4, BeginStep DEF Stages
<1>4. ASSUME NEW op \in RevokeAll, StartRevokeAll(q, op) PROVE IInv'
  <2> DEFINE t == [NoTxn EXCEPT !.op = op, !.iat = now, !.active = user.active]
  <2>1. t \in Txn /\ t.op = op /\ t.iat = now /\ t.done = {}
    BY <1>0, NoTxnType DEF NoTxn, Txn
  <2>2. RevokesRemain /\ Begin(q, "scan", t)
    BY <1>4 DEF StartRevokeAll
  <2> HIDE DEF t
  <2> QED BY <1>0, <2>1, <2>2, BeginStep DEF Stages
<1> QED BY <1>1, <1>2, <1>3, <1>4
-----------------------------------------------------------------------------
\* The bounds still suffice after a step that goes on with a request.
LEMMA BoundsKept ==
  ASSUME IInv, NEW q \in Requests, NEW stage, NEW t,
         pc' = [pc EXCEPT ![q] = stage], txn' = [txn EXCEPT ![q] = t],
         Len(issued') = Len(issued), epoch' = epoch,
         stage \in {"insert", "lock_session", "rotate"} => q \in Issuing,
         stage # "idle" /\ t.op \in RevokeAll => q \in Revoking
  PROVE  BoundsSuffice'
<1>1. /\ Cardinality(Issuing) \in Nat /\ Cardinality(Issuing') \in Nat
      /\ Cardinality(Issuing') <= Cardinality(Issuing)
      /\ Cardinality(Revoking) \in Nat /\ Cardinality(Revoking') \in Nat
      /\ Cardinality(Revoking') <= Cardinality(Revoking)
  <2>1. /\ pc'[q] = stage /\ txn'[q] = t
        /\ \A p \in Requests \ {q} : pc'[p] = pc[p] /\ txn'[p] = txn[p]
    BY DEF IInv, TypeOK
  <2>2. (q \in Issuing' => q \in Issuing) /\ (q \in Revoking' => q \in Revoking)
    BY <2>1 DEF Issuing, Revoking
  <2> QED BY <2>1, <2>2, CountsMove
<1>2. Len(issued) \in Nat /\ MaxTokens \in Nat /\ MaxRevokes \in Nat /\ epoch \in Int
  BY NumbersAreTokens, AuthAssumption DEF IInv, TablesOK
<1> QED BY <1>1, <1>2 DEF IInv, BoundsSuffice

\* rotate finds and locks its row, or gives up.
LEMMA LockStep ==
  ASSUME IInv, NEW q \in Requests, LockSession(q)
  PROVE  IInv'
<1> DEFINE k == txn[q].token
           r == issued[k].session
<1>1. /\ pc[q] = "lock_session" /\ txn[q] \in Txn /\ txn[q].op = "refresh" /\ k \in Numbers
      /\ UNCHANGED <<now, user, session, issued, access, wallet, history, epoch>>
      /\ now \in Time /\ now \in Int /\ user.validAfter <= now /\ r \in Tokens
      /\ q # None /\ user.validAfter \in Int /\ epoch \in Int
  <2>1. pc[q] = "lock_session" /\ UNCHANGED <<now, user, session, issued, access, wallet, history, epoch>>
    BY DEF LockSession, history
  <2>2. txn[q] \in Txn /\ txn[q].op = "refresh" /\ k \in Numbers
    BY <2>1 DEF IInv, TypeOK, RequestOK
  <2>3. now \in Time /\ now \in Int /\ user.validAfter <= now
        /\ user.validAfter \in Int /\ epoch \in Int
    BY DEF IInv, TypeOK, TablesOK, Time
  <2>4. r \in Tokens /\ q # None
    BY <2>2, NumbersAreTokens, AuthAssumption DEF IInv
  <2> QED BY <2>1, <2>2, <2>3, <2>4
<1>2. CASE HasRow(k) /\ session[r].expires > now
  <2> DEFINE t == [txn[q] EXCEPT !.iat = now]
  <2>1. /\ t \in Txn /\ t.op = "refresh" /\ t.token = k /\ t.iat = now
    BY <1>1 DEF Txn
  <2>2. /\ rowLock[r] = None /\ rowLock' = [rowLock EXCEPT ![r] = q]
        /\ pc' = [pc EXCEPT ![q] = "rotate"] /\ txn' = [txn EXCEPT ![q] = t]
    BY <1>2 DEF LockSession, RowFree
  <2> HIDE DEF t
  <2>3. pc'[q] = "rotate" /\ txn'[q] = t
    BY <2>2 DEF IInv, TypeOK
  <2>4. Stamped(now, issued[k].epoch)
    <3>1. issued[k].epoch \in 0 .. epoch
      BY <1>1 DEF IInv, TablesOK, Stamped
    <3> QED BY <1>1, <3>1 DEF Stamped, Invalidated
  <2>5. HoldsRow(q, k)'
    <3>1. rowLock'[r] = q
      BY <1>1, <2>2 DEF IInv, TypeOK
    <3>2. issued'[k] = issued[k] /\ session' = session
      BY <1>1
    <3>3. r \in DOMAIN session /\ session[r].token = k
      BY <1>2 DEF HasRow
    <3> QED BY <2>1, <2>3, <3>1, <3>2, <3>3 DEF HoldsRow, HasRow
  <2>6. RequestOK(q)'
    BY <1>1, <2>1, <2>3, <2>4, <2>5 DEF RequestOK, RevokeAll, Stamped, Invalidated, Numbers
  <2>7. BoundsSuffice'
    <3>1. q \in Issuing /\ t.op \notin RevokeAll
      BY <1>1, <2>1 DEF Issuing, RevokeAll
    <3> QED BY <1>1, <2>2, <3>1, BoundsKept
  <2>8. /\ rowLock' \in [Tokens -> Requests \cup {None}]
        /\ \A p \in Requests \ {q} : \A x \in Tokens : rowLock[x] = p => rowLock'[x] = p
    BY <1>1, <2>2, AuthAssumption DEF IInv, TypeOK
  <2> QED BY <1>1, <2>1, <2>2, <2>6, <2>7, <2>8, QuietStep DEF Stages
<1>3. CASE ~(HasRow(k) /\ session[r].expires > now)
  <2>1. End(q) /\ UNCHANGED rowLock
    BY <1>3 DEF LockSession
  <2>2. /\ pc' = [pc EXCEPT ![q] = "idle"] /\ txn' = [txn EXCEPT ![q] = NoTxn]
        /\ pc'[q] = "idle" /\ txn'[q] = NoTxn
    BY <2>1 DEF End, IInv, TypeOK
  <2>3. RequestOK(q)'
    BY <2>2 DEF RequestOK, NoTxn, RevokeAll
  <2>4. BoundsSuffice'
    BY <1>1, <2>2, BoundsKept
  <2>5. rowLock' \in [Tokens -> Requests \cup {None}]
    BY <2>1 DEF IInv, TypeOK
  <2> QED BY <1>1, <2>1, <2>2, <2>3, <2>4, <2>5, NoTxnType, QuietStep DEF Stages
<1> QED BY <1>2, <1>3

\* revoke_all finds its rows: all there are.
LEMMA ScanStep ==
  ASSUME IInv, NEW q \in Requests, ScanSessions(q)
  PROVE  IInv'
<1> DEFINE t == [txn[q] EXCEPT !.seen = DOMAIN session, !.todo = DOMAIN session]
<1>1. /\ pc[q] = "scan" /\ txn[q] \in Txn /\ txn[q].op \in RevokeAll /\ txn[q].iat <= now
      /\ txn[q].done = {}
      /\ UNCHANGED <<now, user, session, issued, access, wallet, history, rowLock, epoch>>
  BY DEF ScanSessions, IInv, TypeOK, RequestOK, history, tables
<1>2. DOMAIN session \in SUBSET Tokens /\ DOMAIN session \subseteq Numbers
  BY DEF IInv, TypeOK, TablesOK
<1>3. /\ t \in Txn /\ t.op = txn[q].op /\ t.iat = txn[q].iat
      /\ t.seen = DOMAIN session /\ t.todo = DOMAIN session
  BY <1>1, <1>2 DEF Txn
<1>4. /\ pc' = [pc EXCEPT ![q] = "delete"] /\ txn' = [txn EXCEPT ![q] = t]
  BY DEF ScanSessions
<1>5. t.done = txn[q].done
  BY <1>1 DEF Txn
<1> HIDE DEF t
<1>6. pc'[q] = "delete" /\ txn'[q] = t
  BY <1>4 DEF IInv, TypeOK
<1>7. RequestOK(q)'
  BY <1>1, <1>2, <1>3, <1>5, <1>6 DEF RequestOK, RevokeAll, Numbers
<1>8. BoundsSuffice'
  BY <1>1, <1>3, <1>4, BoundsKept DEF Revoking
<1>9. rowLock' \in [Tokens -> Requests \cup {None}]
  BY <1>1 DEF IInv, TypeOK
<1> QED BY <1>1, <1>3, <1>4, <1>7, <1>8, <1>9, QuietStep DEF Stages

\* A deletion locks its next row, or finds that it no longer matches.
LEMMA ClaimStep ==
  ASSUME IInv, NEW q \in Requests, NEW r \in Tokens, ClaimSession(q, r)
  PROVE  IInv'
<1>1. /\ pc[q] = "delete" /\ txn[q] \in Txn /\ r \in txn[q].todo /\ rowLock[r] = None
      /\ UNCHANGED <<now, user, session, issued, access, wallet, history, epoch, pc>>
      /\ q # None /\ RequestOK(q)
  BY AuthAssumption DEF ClaimSession, IInv, TypeOK, history
<1> DEFINE claims == StillMatches(q, r)
           t == IF claims THEN [txn[q] EXCEPT !.todo = @ \ {r}, !.done = @ \cup {r}]
                          ELSE [txn[q] EXCEPT !.todo = @ \ {r}]
<1>2. /\ t \in Txn /\ t.op = txn[q].op /\ t.iat = txn[q].iat /\ t.seen = txn[q].seen
      /\ t.todo = txn[q].todo \ {r}
      /\ t.done = IF claims THEN txn[q].done \cup {r} ELSE txn[q].done
  BY <1>1 DEF Txn
<1>3. /\ txn' = [txn EXCEPT ![q] = t]
      /\ rowLock' = IF claims THEN [rowLock EXCEPT ![r] = q] ELSE rowLock
  BY DEF ClaimSession
<1>4. pc' = [pc EXCEPT ![q] = "delete"]
  BY <1>1 DEF IInv, TypeOK
<1>5. txn[q].op \in RevokeAll /\ ~claims => r \notin DOMAIN session
  BY DEF StillMatches, RevokeAll
<1> HIDE DEF t, claims
<1>6. pc'[q] = "delete" /\ txn'[q] = t
  BY <1>1, <1>3 DEF IInv, TypeOK
<1>7. /\ rowLock' \in [Tokens -> Requests \cup {None}]
      /\ \A p \in Requests : \A x \in Tokens : rowLock[x] = p => rowLock'[x] = p
      /\ claims => rowLock'[r] = q
  BY <1>1, <1>3, AuthAssumption DEF IInv, TypeOK
<1>8. \A x \in t.done : rowLock'[x] = q
  BY <1>1, <1>2, <1>7 DEF RequestOK, Txn
<1>9. RequestOK(q)'
  BY <1>1, <1>2, <1>5, <1>6, <1>8 DEF RequestOK, RevokeAll, Numbers
<1>10. BoundsSuffice'
  BY <1>1, <1>2, <1>3, <1>4, BoundsKept DEF Revoking
<1> QED BY <1>1, <1>2, <1>3, <1>4, <1>7, <1>9, <1>10, QuietStep DEF Stages
-----------------------------------------------------------------------------
Token == [iat : Time, epoch : 0 .. MaxRevokes, session : Tokens]

\* The next token gets the next number.
LEMMA NextToken ==
  ASSUME TypeOK, Len(issued) < MaxTokens, NEW x \in Token, issued' = Append(issued, x)
  PROVE  LET n == Len(issued) + 1 IN
         /\ issued' \in Seq(Token) /\ Len(issued') = n /\ n \in Tokens /\ n \notin Numbers
         /\ Numbers' = Numbers \cup {n}
         /\ issued'[n] = x /\ \A k \in Numbers : issued'[k] = issued[k]
<1>1. issued \in Seq(Token) /\ Len(issued) \in Nat /\ MaxTokens \in Nat
  BY AuthAssumption DEF TypeOK, Token
<1> HIDE DEF Token
<1>2. issued' \in Seq(Token) /\ Len(issued') = Len(issued) + 1
  BY <1>1
<1>3. Len(issued) + 1 \in Tokens /\ Len(issued) + 1 \notin Numbers
  BY <1>1 DEF Tokens, Numbers
<1>4. Numbers' = Numbers \cup {Len(issued) + 1}
  BY <1>1, <1>2 DEF Numbers
<1>5. issued'[Len(issued) + 1] = x /\ \A k \in Numbers : issued'[k] = issued[k]
  BY <1>1 DEF Numbers
<1> QED BY <1>2, <1>3, <1>4, <1>5

\* All requests but the one that takes the step are undisturbed.
LEMMA OthersOK ==
  ASSUME IInv, Grows, NEW q,
         \A p \in Requests \ {q} : pc'[p] = pc[p] /\ txn'[p] = txn[p] /\ KeepsRowsOf(p)
  PROVE  \A p \in Requests \ {q} : RequestOK(p)'
BY Undisturbed DEF IInv

\* A request that has returned knows nothing.
LEMMA EndEffect ==
  ASSUME TypeOK, NEW q \in Requests, End(q)
  PROVE  /\ pc' \in [Requests -> Stages] /\ txn' \in [Requests -> Txn]
         /\ \A p \in Requests \ {q} : pc'[p] = pc[p] /\ txn'[p] = txn[p]
         /\ q \notin Issuing' /\ q \notin Revoking' /\ RequestOK(q)'
<1>1. pc'[q] = "idle" /\ txn'[q] = NoTxn
  BY DEF TypeOK, End
<1>2. /\ pc' \in [Requests -> Stages] /\ txn' \in [Requests -> Txn]
      /\ \A p \in Requests \ {q} : pc'[p] = pc[p] /\ txn'[p] = txn[p]
  BY NoTxnType DEF TypeOK, End, Stages
<1>3. q \notin Issuing' /\ q \notin Revoking'
  BY <1>1 DEF Issuing, Revoking
<1>4. RequestOK(q)'
  BY <1>1 DEF RequestOK, NoTxn, RevokeAll
<1> QED BY <1>2, <1>3, <1>4

\* While a request waits to issue a token, a number is left for it.
LEMMA NumberLeft ==
  ASSUME IInv, NEW q \in Requests, q \in Issuing, q \notin Issuing',
         \A p \in Requests \ {q} : pc'[p] = pc[p] /\ txn'[p] = txn[p],
         Revoking' \subseteq Revoking \cup {q}, q \in Revoking' => q \in Revoking, epoch' = epoch
  PROVE  /\ Len(issued) < MaxTokens
         /\ Len(issued') = Len(issued) + 1 => BoundsSuffice'
<1>1. /\ Cardinality(Issuing) \in Nat /\ Cardinality(Issuing') \in Nat
      /\ Cardinality(Issuing') = Cardinality(Issuing) - 1
      /\ Cardinality(Revoking) \in Nat /\ Cardinality(Revoking') \in Nat
      /\ Cardinality(Revoking') <= Cardinality(Revoking)
  BY CountsMove
<1>2. Len(issued) \in Nat /\ MaxTokens \in Nat /\ MaxRevokes \in Nat /\ epoch \in Int
  BY NumbersAreTokens, AuthAssumption DEF IInv, TablesOK
<1> QED BY <1>1, <1>2 DEF IInv, BoundsSuffice

\* The session row of a login is committed, and its tokens are handed out.
LEMMA InsertStep ==
  ASSUME IInv, NEW q \in Requests, InsertSession(q)
  PROVE  IInv'
<1> DEFINE n == Len(issued) + 1
           x == [iat |-> txn[q].iat, epoch |-> txn[q].epoch, session |-> n]
<1>1. /\ pc[q] = "insert" /\ txn[q] \in Txn /\ Stamped(txn[q].iat, txn[q].epoch) /\ End(q)
      /\ UNCHANGED <<now, user, rowLock, epoch, exchanged, ended>>
  BY DEF InsertSession, IInv, TypeOK, RequestOK, history
<1>2. /\ pc' \in [Requests -> Stages] /\ txn' \in [Requests -> Txn]
      /\ \A p \in Requests \ {q} : pc'[p] = pc[p] /\ txn'[p] = txn[p]
      /\ q \notin Issuing' /\ q \notin Revoking' /\ RequestOK(q)'
  BY <1>1, EndEffect DEF IInv
<1>3. q \in Issuing /\ Revoking' \subseteq Revoking \cup {q}
  BY <1>1, <1>2 DEF Issuing, Revoking
<1>4. Len(issued) < MaxTokens /\ (Len(issued') = n => BoundsSuffice')
  BY <1>1, <1>2, <1>3, NumberLeft
<1>5. n \in Tokens /\ x \in Token /\ issued' = Append(issued, x)
  <2>1. Len(issued) \in Nat /\ MaxTokens \in Nat
    BY NumbersAreTokens DEF IInv
  <2>2. n \in Tokens
    BY <1>4, <2>1 DEF Tokens
  <2>3. issued' = Append(issued, x)
    BY DEF InsertSession
  <2> QED BY <1>1, <2>2, <2>3 DEF Token, Txn
<1>6. /\ issued' \in Seq(Token) /\ Len(issued') = n /\ n \notin Numbers
      /\ Numbers' = Numbers \cup {n}
      /\ issued'[n] = x /\ \A k \in Numbers : issued'[k] = issued[k]
  BY <1>4, <1>5, NextToken DEF IInv
<1>7. /\ DOMAIN session' = DOMAIN session \cup {n}
      /\ session'[n].token = n /\ n \notin DOMAIN session
      /\ \A r \in DOMAIN session : session'[r] = session[r]
  BY <1>6 DEF InsertSession, IInv, TablesOK
<1>8. /\ x.iat = txn[q].iat /\ x.epoch = txn[q].epoch /\ x.session = n
      /\ access' = access \cup {[iat |-> txn[q].iat, epoch |-> txn[q].epoch]}
      /\ wallet' = wallet \cup {n}
  BY DEF InsertSession
<1> HIDE DEF x, n
<1>9. Grows
  <2>1. DOMAIN session' \cap Numbers \subseteq DOMAIN session
    BY <1>6, <1>7
  <2>2. now' \in Time /\ now <= now' /\ epoch' \in Nat
    BY <1>1 DEF IInv, TypeOK, TablesOK, Time
  <2> QED BY <1>1, <1>6, <2>1, <2>2 DEF Grows
<1>10. \A p \in Requests : RequestOK(p)'
  <2>1. \A p \in Requests : KeepsRowsOf(p)
    BY <1>1, <1>7 DEF KeepsRowsOf
  <2> QED BY <1>2, <1>9, <2>1, OthersOK
<1>11. TypeOK'
  <2>1. session'[n].token \in Numbers' /\ \A r \in DOMAIN session : session'[r].token \in Numbers'
    BY <1>6, <1>7 DEF IInv, TypeOK, Numbers
  <2>2. DOMAIN session' \subseteq Tokens /\ \A r \in DOMAIN session' : session'[r].token \in Numbers'
    BY <1>5, <1>7, <2>1 DEF IInv, TypeOK
  <2>3. wallet' \subseteq Numbers' /\ access' \subseteq [iat : Time, epoch : 0 .. MaxRevokes]
    <3>1. txn[q].iat \in Time /\ txn[q].epoch \in 0 .. MaxRevokes
      BY <1>1 DEF Txn
    <3>2. wallet \subseteq Numbers /\ access \subseteq [iat : Time, epoch : 0 .. MaxRevokes]
      BY DEF IInv, TypeOK, Numbers
    <3> QED BY <1>6, <1>8, <3>1, <3>2
  <2>4. Len(issued') <= MaxTokens
    BY <1>5, <1>6 DEF Tokens
  <2> QED BY <1>1, <1>2, <1>6, <2>2, <2>3, <2>4 DEF IInv, TypeOK, Token, Stages, Numbers
<1>12. TablesOK'
  <2>1. /\ \A k \in Numbers' : Stamped(issued'[k].iat, issued'[k].epoch)
        /\ \A a \in access' : Stamped(a.iat, a.epoch)
    BY <1>1, <1>6, <1>8 DEF IInv, TablesOK
  <2>2. \A i, ep : Stamped(i, ep)' <=> Stamped(i, ep)
    BY <1>1 DEF Stamped, Invalidated
  <2>3. \A r \in DOMAIN session' : issued'[session'[r].token].session = r
    <3>1. \A r \in DOMAIN session : /\ session[r].token \in Numbers
                                   /\ issued[session[r].token].session = r
      BY DEF IInv, TypeOK, TablesOK, Numbers
    <3>2. \A r \in DOMAIN session : issued'[session'[r].token].session = r
      BY <1>6, <1>7, <3>1
    <3>3. issued'[session'[n].token].session = n
      BY <1>6, <1>7, <1>8
    <3> QED BY <1>7, <3>2, <3>3
  <2>4. DOMAIN session' \subseteq Numbers' /\ ended' \subseteq Numbers'
    BY <1>1, <1>6, <1>7 DEF IInv, TablesOK
  <2>5. \A k \in Tokens \ Numbers' : exchanged'[k] = 0
    BY <1>1, <1>6 DEF IInv, TablesOK
  <2>6. user'.validAfter <= now' /\ epoch' \in 0 .. MaxRevokes
    BY <1>1 DEF IInv, TablesOK
  <2> QED BY <2>1, <2>2, <2>3, <2>4, <2>5, <2>6 DEF TablesOK
<1>13. ExchangedOnce'
  BY <1>1, <1>5, <1>6, <1>7 DEF IInv, ExchangedOnce, TablesOK
<1>14. RevokedSessionsEnd'
  BY <1>1, <1>6, <1>7 DEF IInv, RevokedSessionsEnd, TablesOK
<1> QED BY <1>4, <1>6, <1>10, <1>11, <1>12, <1>13, <1>14 DEF IInv
\* The row gets the next token, in place; the one it had is exchanged.
LEMMA RotateStep ==
  ASSUME IInv, NEW q \in Requests, CommitRotate(q)
  PROVE  IInv'
<1>1. PICK k \in Numbers : /\ k = txn[q].token /\ HoldsRow(q, k)
                           /\ Stamped(txn[q].iat, issued[k].epoch)
  BY DEF CommitRotate, IInv, RequestOK
<1>2. PICK r \in Tokens : /\ r = issued[k].session /\ r \in DOMAIN session
                          /\ session[r].token = k /\ rowLock[r] = q
                          /\ k \in Tokens /\ issued[k].epoch \in 0 .. MaxRevokes
  BY <1>1, NumbersAreTokens DEF IInv, HoldsRow, HasRow
<1>3. PICK n : n = Len(issued) + 1
  OBVIOUS
<1>4. PICK x : x = [iat |-> txn[q].iat, epoch |-> issued[k].epoch, session |-> r]
  OBVIOUS
<1>5. PICK t : t = [txn[q] EXCEPT !.token = n]
  OBVIOUS
<1>6. /\ pc[q] = "rotate" /\ txn[q] \in Txn /\ txn[q].op = "refresh"
      /\ session' = [session EXCEPT ![r] = [token |-> n, expires |-> txn[q].iat + Lifetime]]
      /\ issued' = Append(issued, x)
      /\ exchanged' = [exchanged EXCEPT ![k] = @ + 1]
      /\ rowLock' = Unlocked(q)
      /\ pc' = [pc EXCEPT ![q] = "respond"] /\ txn' = [txn EXCEPT ![q] = t]
      /\ UNCHANGED <<now, user, access, wallet, epoch, ended>>
  BY <1>1, <1>2, <1>3, <1>4, <1>5 DEF CommitRotate, IInv, TypeOK, RequestOK
<1>7. /\ pc'[q] = "respond" /\ txn'[q] = t
      /\ \A p \in Requests \ {q} : pc'[p] = pc[p] /\ txn'[p] = txn[p]
      /\ pc' \in [Requests -> Stages]
  BY <1>6 DEF IInv, TypeOK, Stages
<1>8. /\ q \in Issuing /\ q \notin Issuing' /\ Revoking' \subseteq Revoking \cup {q}
      /\ q \notin Revoking'
  <2>1. t.op = "refresh"
    BY <1>5, <1>6 DEF Txn
  <2> QED BY <1>6, <1>7, <2>1 DEF Issuing, Revoking, RevokeAll
<1>9. Len(issued) < MaxTokens /\ (Len(issued') = n => BoundsSuffice')
  BY <1>3, <1>6, <1>7, <1>8, NumberLeft
<1>10. /\ x \in Token /\ x.iat = txn[q].iat /\ x.epoch = issued[k].epoch /\ x.session = r
  BY <1>2, <1>4, <1>6 DEF Token, Txn
<1>11. /\ issued' \in Seq(Token) /\ Len(issued') = n /\ n \in Tokens /\ n \notin Numbers
       /\ Numbers' = Numbers \cup {n}
       /\ issued'[n] = x /\ \A i \in Numbers : issued'[i] = issued[i]
  BY <1>3, <1>6, <1>9, <1>10, NextToken DEF IInv
<1>12. /\ DOMAIN session' = DOMAIN session /\ session'[r].token = n
       /\ \A s \in DOMAIN session \ {r} : session'[s] = session[s]
  BY <1>2, <1>6
<1>13. /\ t \in Txn /\ t.op = "refresh" /\ t.token = n
  <2>1. n \in 0 .. MaxTokens
    BY <1>11 DEF Tokens
  <2> QED BY <1>5, <1>6, <2>1 DEF Txn
<1>14. /\ rowLock' \in [Tokens -> Requests \cup {None}]
       /\ \A p \in Requests \ {q} : \A s \in Tokens : rowLock[s] = p => rowLock'[s] = p
  BY <1>6, UnlockedEffect DEF IInv
<1>15. \A p \in Requests : RequestOK(p)'
  <2>1. Grows
    <3>1. now' \in Time /\ now <= now' /\ epoch' \in Nat
      BY <1>6 DEF IInv, TypeOK, TablesOK, Time
    <3> QED BY <1>6, <1>11, <1>12, <3>1 DEF Grows
  <2>2. \A p \in Requests \ {q} : KeepsRowsOf(p)
    BY <1>2, <1>12, <1>14 DEF KeepsRowsOf
  <2>3. RequestOK(q)'
    BY <1>7, <1>11, <1>13 DEF RequestOK, RevokeAll
  <2> QED BY <1>7, <2>1, <2>2, <2>3, OthersOK
<1>16. ASSUME NEW s \in DOMAIN session
       PROVE  /\ session[s].token \in Numbers /\ issued[session[s].token].session = s
              /\ s # r => session[s].token # k
  BY <1>2 DEF IInv, TypeOK, TablesOK, Numbers
<1>17. TypeOK'
  <2>1. ASSUME NEW s \in DOMAIN session' PROVE session'[s].token \in Numbers'
    <3>1. CASE s = r
      BY <1>11, <1>12, <3>1
    <3>2. CASE s # r
      <4>1. s \in DOMAIN session /\ s # r
        BY <1>12, <3>2
      <4>2. session'[s] = session[s]
        BY <1>12, <4>1
      <4>3. session[s].token \in Numbers /\ issued[session[s].token].session = s
        BY <1>16, <4>1
      <4> QED BY <1>11, <4>2, <4>3
    <3> QED BY <3>1, <3>2
  <2>2. wallet' \subseteq Numbers'
    BY <1>6, <1>11 DEF IInv, TypeOK, Numbers
  <2>3. Len(issued') <= MaxTokens
    BY <1>11 DEF Tokens
  <2>4. exchanged' \in [Tokens -> Nat] /\ txn' \in [Requests -> Txn]
    BY <1>2, <1>6, <1>13 DEF IInv, TypeOK
  <2> QED BY <1>6, <1>7, <1>11, <1>12, <1>14, <2>1, <2>2, <2>3, <2>4
          DEF IInv, TypeOK, Token, Stages, Numbers
<1>18. TablesOK'
  <2>1. \A i, ep : Stamped(i, ep)' <=> Stamped(i, ep)
    BY <1>6 DEF Stamped, Invalidated
  <2>2. \A i \in Numbers' : Stamped(issued'[i].iat, issued'[i].epoch)
    BY <1>1, <1>10, <1>11 DEF IInv, TablesOK
  <2>3. \A a \in access' : Stamped(a.iat, a.epoch)
    BY <1>6 DEF IInv, TablesOK
  <2>4. ASSUME NEW s \in DOMAIN session' PROVE issued'[session'[s].token].session = s
    <3>1. CASE s = r
      BY <1>10, <1>11, <1>12, <3>1
    <3>2. CASE s # r
      <4>1. s \in DOMAIN session /\ s # r
        BY <1>12, <3>2
      <4>2. session'[s] = session[s]
        BY <1>12, <4>1
      <4>3. session[s].token \in Numbers /\ issued[session[s].token].session = s
        BY <1>16, <4>1
      <4> QED BY <1>11, <4>2, <4>3
    <3> QED BY <3>1, <3>2
  <2>5. /\ DOMAIN session' \subseteq Numbers' /\ ended' \subseteq Numbers'
        /\ user'.validAfter <= now' /\ epoch' \in 0 .. MaxRevokes
    BY <1>6, <1>11, <1>12 DEF IInv, TablesOK
  <2>6. \A i \in Tokens \ Numbers' : exchanged'[i] = 0
    BY <1>1, <1>6, <1>11 DEF IInv, TypeOK, TablesOK
  <2> QED BY <2>1, <2>2, <2>3, <2>4, <2>5, <2>6 DEF TablesOK
<1>19. ExchangedOnce'
  <2>1. exchanged[k] = 0
    BY <1>2 DEF IInv, ExchangedOnce
  <2>2. exchanged'[k] = 1 /\ \A i \in Tokens \ {k} : exchanged'[i] = exchanged[i]
    BY <1>2, <1>6, <2>1 DEF IInv, TypeOK
  <2>3. Numbers \subseteq Tokens
    BY NumbersAreTokens DEF IInv
  <2>4. exchanged'[n] = 0
    <3>1. n # k /\ exchanged[n] = 0
      BY <1>11 DEF IInv, TablesOK
    <3> QED BY <1>11, <2>2, <3>1
  <2>5. ASSUME NEW s \in DOMAIN session' PROVE exchanged'[session'[s].token] = 0
    <3>1. CASE s = r
      BY <1>12, <2>4, <3>1
    <3>2. CASE s # r
      <4>1. /\ session'[s].token = session[s].token /\ session[s].token \in Tokens \ {k}
            /\ exchanged[session[s].token] = 0
        <5>1. s \in DOMAIN session /\ s # r
          BY <1>12, <3>2
        <5>2. session'[s] = session[s]
          BY <1>12, <5>1
        <5>3. session[s].token \in Tokens \ {k}
          BY <1>16, <2>3, <5>1
        <5> QED BY <5>1, <5>2, <5>3 DEF IInv, ExchangedOnce
      <4> QED BY <2>2, <4>1
    <3> QED BY <3>1, <3>2
  <2>6. \A i \in Tokens : exchanged'[i] <= 1
    BY <2>2 DEF IInv, ExchangedOnce
  <2> QED BY <2>5, <2>6 DEF ExchangedOnce
<1>20. RevokedSessionsEnd'
  BY <1>6, <1>12 DEF IInv, RevokedSessionsEnd
<1> QED BY <1>9, <1>11, <1>15, <1>17, <1>18, <1>19, <1>20 DEF IInv

\* The answer to a refresh: an access token of this moment.
LEMMA RespondStep ==
  ASSUME IInv, NEW q \in Requests, RespondRefresh(q)
  PROVE  IInv'
<1>1. PICK k \in Numbers : k = txn[q].token
  BY DEF RespondRefresh, IInv, RequestOK
<1>2. /\ pc[q] = "respond" /\ End(q)
      /\ access' = access \cup {[iat |-> now, epoch |-> issued[k].epoch]}
      /\ wallet' = wallet \cup {k}
      /\ UNCHANGED <<now, user, session, issued, rowLock, epoch, exchanged, ended>>
  BY <1>1 DEF RespondRefresh, tables, history
<1>3. /\ pc' \in [Requests -> Stages] /\ txn' \in [Requests -> Txn]
      /\ \A p \in Requests \ {q} : pc'[p] = pc[p] /\ txn'[p] = txn[p]
      /\ q \notin Issuing' /\ q \notin Revoking' /\ RequestOK(q)'
  BY <1>2, EndEffect DEF IInv
<1>4. Numbers' = Numbers
  BY <1>2 DEF Numbers
<1>5. /\ now \in Time /\ now \in Int /\ epoch \in Nat /\ user.validAfter \in Int
      /\ user.validAfter <= now
  BY DEF IInv, TypeOK, TablesOK, Time
<1>6. TypeOK'
  <2>1. issued[k].epoch \in 0 .. MaxRevokes
    BY NumbersAreTokens DEF IInv
  <2>2. access' \subseteq [iat : Time, epoch : 0 .. MaxRevokes]
    BY <1>2, <1>5, <2>1 DEF IInv, TypeOK
  <2>3. wallet' \subseteq 1 .. Len(issued)
    BY <1>1, <1>2 DEF IInv, TypeOK, Numbers
  <2> QED BY <1>2, <1>3, <2>2, <2>3 DEF IInv, TypeOK, Stages
<1>7. \A i, ep : Stamped(i, ep)' <=> Stamped(i, ep)
  BY <1>2 DEF Stamped, Invalidated
<1>8. TablesOK'
  <2>1. Stamped(now, issued[k].epoch)
    <3>1. issued[k].epoch \in 0 .. epoch
      BY DEF IInv, TablesOK, Stamped
    <3> QED BY <1>5, <3>1 DEF Stamped, Invalidated
  <2>2. \A a \in access' : Stamped(a.iat, a.epoch)
    BY <1>2, <2>1 DEF IInv, TablesOK
  <2> QED BY <1>2, <1>4, <1>7, <2>2 DEF IInv, TablesOK
<1>9. \A p \in Requests : RequestOK(p)'
  <2>1. Grows
    BY <1>2, <1>4, <1>5 DEF Grows
  <2>2. \A p \in Requests : KeepsRowsOf(p)
    BY <1>2 DEF KeepsRowsOf
  <2> QED BY <1>3, <2>1, <2>2, OthersOK
<1>10. BoundsSuffice'
  <2>1. /\ Cardinality(Issuing) \in Nat /\ Cardinality(Issuing') \in Nat
        /\ Cardinality(Issuing') <= Cardinality(Issuing)
        /\ Cardinality(Revoking) \in Nat /\ Cardinality(Revoking') \in Nat
        /\ Cardinality(Revoking') <= Cardinality(Revoking)
    BY <1>3, CountsMove
  <2>2. Len(issued) \in Nat /\ MaxTokens \in Nat /\ MaxRevokes \in Nat
    BY NumbersAreTokens, AuthAssumption DEF IInv
  <2> QED BY <1>2, <1>5, <2>1, <2>2 DEF IInv, BoundsSuffice
<1>11. ExchangedOnce' /\ RevokedSessionsEnd'
  BY <1>2 DEF IInv, ExchangedOnce, RevokedSessionsEnd
<1> QED BY <1>6, <1>8, <1>9, <1>10, <1>11 DEF IInv

\* The commit of a logout or a revocation: every session that it saw is claimed, hence
\* deleted now, or was gone already.
LEMMA DeleteStep ==
  ASSUME IInv, NEW q \in Requests, CommitDelete(q)
  PROVE  IInv'
<1> DEFINE all == txn[q].op \in RevokeAll
<1>1. /\ pc[q] = "delete" /\ txn[q] \in Txn /\ txn[q].todo = {} /\ RequestOK(q) /\ End(q)
      /\ session' = [r \in DOMAIN session \ txn[q].done |-> session[r]]
      /\ rowLock' = Unlocked(q)
      /\ user' = IF all THEN Revoked(txn[q]) ELSE user
      /\ epoch' = IF all THEN epoch + 1 ELSE epoch
      /\ ended' = IF all THEN ended \cup txn[q].seen ELSE ended
      /\ UNCHANGED <<now, issued, access, wallet, exchanged>>
  BY DEF CommitDelete, IInv, TypeOK
<1>2. /\ pc' \in [Requests -> Stages] /\ txn' \in [Requests -> Txn]
      /\ \A p \in Requests \ {q} : pc'[p] = pc[p] /\ txn'[p] = txn[p]
      /\ q \notin Issuing' /\ q \notin Revoking' /\ RequestOK(q)'
  BY <1>1, EndEffect DEF IInv
<1>3. /\ DOMAIN session' = DOMAIN session \ txn[q].done
      /\ \A r \in DOMAIN session' : session'[r] = session[r]
  BY <1>1
<1>4. Numbers' = Numbers
  BY <1>1 DEF Numbers
<1>5. /\ now \in Time /\ now \in Int /\ epoch \in Nat /\ epoch' \in Nat /\ MaxRevokes \in Nat
      /\ all => q \in Revoking
      /\ all => txn[q].iat \in Time /\ txn[q].iat <= now
      /\ user.active \in BOOLEAN
  <2>1. now \in Time /\ now \in Int /\ epoch \in Nat /\ MaxRevokes \in Nat /\ user.active \in BOOLEAN
    BY AuthAssumption DEF IInv, TypeOK, TablesOK, Time
  <2>2. all => txn[q].iat \in Time /\ txn[q].iat <= now
    BY <1>1 DEF RequestOK, Txn
  <2>3. all => q \in Revoking
    BY <1>1 DEF Revoking
  <2>4. epoch' \in Nat
    BY <1>1, <2>1
  <2> QED BY <2>1, <2>2, <2>3, <2>4
<1>6. /\ user' \in [active : BOOLEAN, validAfter : Time] /\ user'.validAfter <= now
      /\ ~all => user' = user
  BY <1>1, <1>5 DEF Revoked, IInv, TypeOK, TablesOK
<1>7. BoundsSuffice' /\ epoch' \in 0 .. MaxRevokes
  <2>1. /\ Cardinality(Issuing) \in Nat /\ Cardinality(Issuing') \in Nat
        /\ Cardinality(Issuing') <= Cardinality(Issuing)
        /\ Cardinality(Revoking) \in Nat /\ Cardinality(Revoking') \in Nat
        /\ Cardinality(Revoking') <= Cardinality(Revoking)
        /\ all => Cardinality(Revoking') = Cardinality(Revoking) - 1
    BY <1>2, <1>5, CountsMove
  <2>2. Len(issued) \in Nat /\ MaxTokens \in Nat /\ Len(issued') = Len(issued)
    BY <1>1, NumbersAreTokens DEF IInv
  <2>3. /\ Len(issued) + Cardinality(Issuing) <= MaxTokens
        /\ epoch + Cardinality(Revoking) <= MaxRevokes
    BY DEF IInv, BoundsSuffice
  <2>4. CASE all
    BY <1>1, <1>5, <2>1, <2>2, <2>3, <2>4 DEF BoundsSuffice
  <2>5. CASE ~all
    BY <1>1, <1>5, <2>1, <2>2, <2>3, <2>5 DEF BoundsSuffice
  <2> QED BY <2>4, <2>5
<1>8. Grows
  <2>1. (epoch' = epoch /\ user'.validAfter = user.validAfter) \/ epoch' > epoch
    BY <1>1, <1>5, <1>6
  <2> QED BY <1>1, <1>3, <1>4, <1>5, <2>1 DEF Grows
<1>9. \A p \in Requests : RequestOK(p)'
  <2>1. ASSUME NEW p \in Requests \ {q} PROVE KeepsRowsOf(p)
    <3>1. ASSUME NEW r \in Tokens, rowLock[r] = p PROVE rowLock'[r] = p /\ r \notin txn[q].done
      BY <1>1, <2>1, <3>1 DEF RequestOK, Unlocked
    <3> QED BY <1>3, <3>1 DEF KeepsRowsOf
  <2> QED BY <1>2, <1>8, <2>1, OthersOK
<1>10. TypeOK'
  <2>1. rowLock' \in [Tokens -> Requests \cup {None}]
    BY <1>1, UnlockedEffect DEF IInv
  <2>2. ended' \subseteq Tokens
    BY <1>1 DEF IInv, TypeOK, Txn
  <2>3. DOMAIN session' \subseteq Tokens /\ \A r \in DOMAIN session' : session'[r].token \in Numbers
    BY <1>3 DEF IInv, TypeOK, Numbers
  <2> QED BY <1>1, <1>2, <1>6, <2>1, <2>2, <2>3 DEF IInv, TypeOK, Stages, Numbers
<1>11. TablesOK'
  <2>1. /\ \A k \in Numbers : Stamped(issued[k].iat, issued[k].epoch)'
        /\ \A a \in access : Stamped(a.iat, a.epoch)'
    <3>1. ASSUME NEW k \in Numbers PROVE Stamped(issued[k].iat, issued[k].epoch)'
      <4>1. Stamped(issued[k].iat, issued[k].epoch) /\ issued'[k] = issued[k]
        BY <1>1 DEF IInv, TablesOK
      <4> QED BY <1>8, <4>1, StampKept DEF IInv
    <3>2. ASSUME NEW a \in access PROVE Stamped(a.iat, a.epoch)'
      BY <1>8, StampKept DEF IInv, TablesOK
    <3> QED BY <3>1, <3>2
  <2>2. \A r \in DOMAIN session' : issued'[session'[r].token].session = r
    BY <1>1, <1>3 DEF IInv, TablesOK
  <2>3. DOMAIN session' \subseteq Numbers' /\ ended' \subseteq Numbers'
    BY <1>1, <1>3, <1>4 DEF IInv, TablesOK, RequestOK
  <2>4. \A k \in Tokens \ Numbers' : exchanged'[k] = 0
    BY <1>1, <1>4 DEF IInv, TablesOK
  <2> QED BY <1>1, <1>4, <1>6, <1>7, <2>1, <2>2, <2>3, <2>4 DEF TablesOK
<1>12. ExchangedOnce'
  BY <1>1, <1>3 DEF IInv, ExchangedOnce
<1>13. RevokedSessionsEnd'
  BY <1>1, <1>3 DEF IInv, RevokedSessionsEnd, RequestOK
<1> QED BY <1>7, <1>9, <1>10, <1>11, <1>12, <1>13 DEF IInv

\* Time passes, or the account is activated.
LEMMA OutsideStep ==
  ASSUME IInv, Tick \/ Activate
  PROVE  IInv'
<1>1. /\ UNCHANGED <<session, issued, access, wallet, rowLock, pc, txn, epoch, exchanged, ended>>
      /\ user'.validAfter = user.validAfter /\ user' \in [active : BOOLEAN, validAfter : Time]
  BY DEF Tick, Activate, tables, history, IInv, TypeOK
<1>2. now' \in Time /\ now <= now' /\ now \in Int /\ now' \in Int /\ epoch \in Nat
      /\ user.validAfter \in Int
  BY AuthAssumption DEF Tick, Activate, IInv, TypeOK, TablesOK, Time
<1>3. Numbers' = Numbers
  BY <1>1 DEF Numbers
<1>4. Grows
  BY <1>1, <1>2, <1>3 DEF Grows
<1>5. TypeOK'
  BY <1>1, <1>2 DEF IInv, TypeOK
<1>6. TablesOK'
  <2>1. \A k \in Numbers : Stamped(issued[k].iat, issued[k].epoch)'
    <3> SUFFICES ASSUME NEW k \in Numbers PROVE Stamped(issued[k].iat, issued[k].epoch)'
      OBVIOUS
    <3>1. Stamped(issued[k].iat, issued[k].epoch) /\ issued' = issued
      BY <1>1 DEF IInv, TablesOK
    <3> QED BY <1>4, <3>1, StampKept DEF IInv
  <2>2. \A a \in access : Stamped(a.iat, a.epoch)'
    BY <1>4, StampKept DEF IInv, TablesOK
  <2>3. user'.validAfter <= now'
    BY <1>1, <1>2 DEF IInv, TablesOK
  <2> QED BY <1>1, <1>3, <2>1, <2>2, <2>3 DEF IInv, TablesOK
<1>7. \A p \in Requests : RequestOK(p)'
  <2>1. \A p \in Requests : KeepsRowsOf(p)
    BY <1>1 DEF KeepsRowsOf
  <2> QED BY <1>1, <1>4, <2>1, Undisturbed DEF IInv
<1>8. BoundsSuffice'
  BY <1>1 DEF IInv, BoundsSuffice, Issuing, Revoking
<1>9. ExchangedOnce' /\ RevokedSessionsEnd'
  BY <1>1 DEF IInv, ExchangedOnce, RevokedSessionsEnd
<1> QED BY <1>5, <1>6, <1>7, <1>8, <1>9 DEF IInv
-----------------------------------------------------------------------------
LEMMA InitHolds == Init => IInv
<1> SUFFICES ASSUME Init PROVE IInv
  OBVIOUS
<1>1. /\ MaxTime \in Nat /\ MaxTokens \in Nat /\ MaxRevokes \in Nat /\ 0 \in Time
  BY AuthAssumption DEF Time
<1>2. Len(issued) = 0 /\ Numbers = {} /\ DOMAIN session = {}
  BY DEF Init, Numbers
<1>3. TypeOK
  <2>1. issued \in Seq([iat : Time, epoch : 0 .. MaxRevokes, session : Tokens])
    BY DEF Init
  <2> QED BY <1>1, <1>2, <2>1, NoTxnType DEF Init, TypeOK, Tokens
<1>4. TablesOK
  BY <1>1, <1>2 DEF Init, TablesOK
<1>5. BoundsSuffice
  <2>1. Issuing = {} /\ Revoking = {}
    BY DEF Init, Issuing, Revoking
  <2> QED BY <1>1, <1>2, <2>1, FS_EmptySet DEF Init, BoundsSuffice
<1>6. \A q \in Requests : RequestOK(q)
  BY DEF Init, RequestOK, NoTxn, RevokeAll
<1>7. ExchangedOnce /\ RevokedSessionsEnd
  BY <1>2 DEF Init, ExchangedOnce, RevokedSessionsEnd
<1> QED BY <1>3, <1>4, <1>5, <1>6, <1>7 DEF IInv

LEMMA NextHolds == IInv /\ [Next]_vars => IInv'
<1> SUFFICES ASSUME IInv, [Next]_vars PROVE IInv'
  OBVIOUS
<1>1. CASE Tick \/ Activate
  BY <1>1, OutsideStep
<1>2. ASSUME NEW q \in Requests, DeadlockVictim(q) \/ Crash(q) PROVE IInv'
  BY <1>2, StopStep DEF DeadlockVictim, Crash
<1>3. ASSUME NEW q \in Requests, InsertSession(q) \/ LockSession(q) \/ CommitRotate(q)
                                   \/ RespondRefresh(q) \/ ScanSessions(q) \/ CommitDelete(q)
      PROVE  IInv'
  BY <1>3, InsertStep, LockStep, RotateStep, RespondStep, ScanStep, DeleteStep
<1>4. ASSUME NEW q \in Requests, NEW r \in Tokens, ClaimSession(q, r) PROVE IInv'
  BY <1>4, ClaimStep
<1>5. CASE UNCHANGED vars
  <2>1. /\ TypeOK' /\ TablesOK' /\ BoundsSuffice' /\ ExchangedOnce' /\ RevokedSessionsEnd'
    BY <1>5 DEF vars, IInv, TypeOK, TablesOK, BoundsSuffice, ExchangedOnce, RevokedSessionsEnd,
       Numbers, Stamped, Invalidated, Issuing, Revoking
  <2>2. \A q \in Requests : RequestOK(q)'
    BY <1>5 DEF vars, IInv, RequestOK, Numbers, Stamped, Invalidated, HoldsRow, HasRow
  <2> QED BY <2>1, <2>2 DEF IInv
<1> QED BY <1>1, <1>2, <1>3, <1>4, <1>5, StartStep DEF Next

LEMMA Inductive == Spec => []IInv
BY InitHolds, NextHolds, PTL DEF Spec

\* The tables, the tokens and what the requests hold stay in their types, and the
\* tokens and revocations within their bounds.
THEOREM TypeCorrect == Spec => []TypeOK
<1>1. IInv => TypeOK
  BY DEF IInv
<1> QED BY <1>1, Inductive, PTL

\* A refresh token buys new tokens at most once, however many refreshes, logouts and
\* revocations race for its session.
THEOREM TokensExchangedOnce == Spec => []ExchangedOnce
<1>1. IInv => ExchangedOnce
  BY DEF IInv
<1> QED BY <1>1, Inductive, PTL

\* A session that a committed revocation saw never comes back.
THEOREM RevokedStaysRevoked == Spec => []RevokedSessionsEnd
<1>1. IInv => RevokedSessionsEnd
  BY DEF IInv
<1> QED BY <1>1, Inductive, PTL

\* Tokens and sessions of a login after the last revocation are not older than its cutoff.
THEOREM LaterLoginsSurvive == Spec => []NewLoginsSurvive
<1>1. IInv => NewLoginsSurvive
  <2> SUFFICES ASSUME IInv PROVE NewLoginsSurvive
    OBVIOUS
  <2>1. \A a \in access : a.epoch = epoch => ~Invalidated(a.iat)
    BY DEF IInv, TablesOK, Stamped
  <2>2. ASSUME NEW r \in DOMAIN session
        PROVE  LET t == issued[session[r].token] IN t.epoch = epoch => ~Invalidated(t.iat)
    <3>1. session[r].token \in Numbers
      BY DEF IInv, TypeOK, Numbers
    <3> QED BY <3>1 DEF IInv, TablesOK, Stamped
  <2> QED BY <2>1, <2>2 DEF NewLoginsSurvive
<1> QED BY <1>1, Inductive, PTL
=============================================================================
