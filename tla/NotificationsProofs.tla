------------------------- MODULE NotificationsProofs -------------------------
(***************************************************************************)
(* Proofs about the notification jobs: how many mails they send and what   *)
(* the mails still may say, for any number of bookings, any pool and any   *)
(* number of failures.                                                     *)
(***************************************************************************)
EXTENDS Notifications, TLAPS

\* A job exists only after the change it reports.
JobsFollowChanges ==
  \A b \in Bookings :
    /\ status[b] = "none" => state[<<"creation", b>>] = "none"
    /\ status[b] \in {"none", "ACTIVE"} => state[<<"cancellation", b>>] = "none"

\* Before its last attempt a job has mailed at most once per retry.
MailsCounted ==
  \A j \in Jobs : /\ mails[j] <= retries[j] + 1
                  /\ state[j] \notin Ends => mails[j] <= retries[j]

\* A cancellation job that is about to mail, or has mailed, is right.
CancellationKnown ==
  \A b \in Bookings :
    state[<<"cancellation", b>>] = "sending" \/ mails[<<"cancellation", b>>] > 0
      => status[b] = "CANCELLED"

\* After a late confirmation the job reads its booking again before it mails.
LateOnce ==
  \A b \in Bookings :
    /\ late[b] <= 1
    /\ late[b] = 1 => /\ status[b] \in {"CANCELLED", "COMPLETED"}
                      /\ state[<<"creation", b>>] # "sending"

IInv == TypeOK /\ JobsFollowChanges /\ MailsCounted /\ CancellationKnown /\ LateOnce

\* A job is a task for a booking.
LEMMA JobParts ==
  /\ \A t \in Tasks, b \in Bookings : <<t, b>> \in Jobs
  /\ \A j \in Jobs : j[1] \in Tasks /\ j[2] \in Bookings /\ j = <<j[1], j[2]>>
BY DEF Jobs

\* A request commits a change and owes its job.
LEMMA ChangeStep ==
  ASSUME IInv, NEW b \in Bookings, Create(b) \/ Cancel(b)
  PROVE  IInv'
<1> USE JobParts DEF IInv, Tasks
<1>1. CASE Create(b)
  <2>1. /\ status[b] = "none" /\ status' = [status EXCEPT ![b] = "ACTIVE"]
        /\ state' = [state EXCEPT ![<<"creation", b>>] = "owed"]
        /\ UNCHANGED <<retries, mails, late>>
    BY <1>1 DEF Create
  <2>2. TypeOK'
    BY <2>1 DEF TypeOK
  <2>3. JobsFollowChanges'
    BY <2>1 DEF TypeOK, JobsFollowChanges
  <2>4. MailsCounted'
    BY <2>1 DEF TypeOK, JobsFollowChanges, MailsCounted, Ends
  <2>5. CancellationKnown'
    BY <2>1 DEF TypeOK, CancellationKnown
  <2>6. LateOnce'
    BY <2>1 DEF TypeOK, LateOnce
  <2> QED BY <2>2, <2>3, <2>4, <2>5, <2>6
<1>2. CASE Cancel(b)
  <2>1. /\ status[b] = "ACTIVE" /\ status' = [status EXCEPT ![b] = "CANCELLED"]
        /\ state' = [state EXCEPT ![<<"cancellation", b>>] = "owed"]
        /\ UNCHANGED <<retries, mails, late>>
    BY <1>2 DEF Cancel
  <2>2. TypeOK'
    BY <2>1 DEF TypeOK
  <2>3. JobsFollowChanges'
    BY <2>1 DEF TypeOK, JobsFollowChanges
  <2>4. MailsCounted'
    BY <2>1 DEF TypeOK, JobsFollowChanges, MailsCounted, Ends
  <2>5. CancellationKnown'
    BY <2>1 DEF TypeOK, CancellationKnown
  <2>6. LateOnce'
    BY <2>1 DEF TypeOK, LateOnce
  <2> QED BY <2>2, <2>3, <2>4, <2>5, <2>6
<1> QED BY <1>1, <1>2

\* The sweep completes ACTIVE bookings.
LEMMA CompleteStep ==
  ASSUME IInv, NEW ids \in SUBSET Bookings, Complete(ids)
  PROVE  IInv'
<1> USE JobParts DEF IInv, Tasks
<1>1. /\ \A b \in ids : status[b] = "ACTIVE"
      /\ status' = [b \in Bookings |-> IF b \in ids THEN "COMPLETED" ELSE status[b]]
      /\ UNCHANGED <<state, retries, mails, late>>
  BY DEF Complete
<1>2. TypeOK'
  BY <1>1 DEF TypeOK
<1>3. JobsFollowChanges' /\ MailsCounted'
  BY <1>1 DEF TypeOK, JobsFollowChanges, MailsCounted
<1>4. CancellationKnown' /\ LateOnce'
  BY <1>1 DEF TypeOK, CancellationKnown, LateOnce
<1> QED BY <1>2, <1>3, <1>4

\* The enqueueing, successful or not.
LEMMA EnqueueStep ==
  ASSUME IInv, NEW j \in Jobs, Enqueue(j) \/ EnqueueFails(j)
  PROVE  IInv'
<1> USE JobParts DEF IInv
<1>1. PICK e \in {"queued", "lost"} :
        /\ state[j] = "owed" /\ state' = [state EXCEPT ![j] = e]
        /\ UNCHANGED <<status, retries, mails, late>>
  BY DEF Enqueue, EnqueueFails, TypeOK
<1>2. TypeOK'
  BY <1>1 DEF TypeOK, Ends
<1>3. JobsFollowChanges'
  BY <1>1 DEF TypeOK, JobsFollowChanges, Tasks
<1>4. MailsCounted'
  BY <1>1 DEF TypeOK, MailsCounted, Ends, MaxRetries
<1>5. CancellationKnown' /\ LateOnce'
  BY <1>1 DEF TypeOK, CancellationKnown, LateOnce, Tasks
<1> QED BY <1>2, <1>3, <1>4, <1>5

\* Steps of a job that mail nothing.
LEMMA QuietStep ==
  ASSUME IInv, NEW j \in Jobs,
         \/ Take(j) \/ Read(j) \/ WorkerDies(j)
         \/ \E error \in ReadErrors : ReadFails(j, error)
  PROVE  IInv'
<1> USE JobParts DEF IInv
<1>1. \E e \in {"taken", "sending", "queued"} \cup Ends :
        /\ state' = [state EXCEPT ![j] = e]
        /\ state[j] \in {"queued", "taken", "sending"}
        /\ e = "sending" => StatusFits(j)
        /\ retries' \in [Jobs -> 0 .. MaxRetries]
        /\ \A k \in Jobs : retries'[k] >= retries[k]
        /\ UNCHANGED <<status, mails, late>>
  <2>1. CASE Take(j)
    <3>1. /\ state' = [state EXCEPT ![j] = "taken"] /\ state[j] = "queued"
          /\ UNCHANGED <<status, retries, mails, late>>
      BY <2>1 DEF Take
    <3>2. \A k \in Jobs : retries'[k] >= retries[k]
      BY <3>1 DEF TypeOK, MaxRetries
    <3> QED BY <3>1, <3>2 DEF TypeOK
  <2>2. CASE Read(j)
    <3>1. /\ state' = [state EXCEPT ![j] = IF StatusFits(j) THEN "sending" ELSE "skipped"]
          /\ state[j] = "taken"
          /\ UNCHANGED <<status, retries, mails, late>>
      BY <2>2 DEF Read
    <3>2. \A k \in Jobs : retries'[k] >= retries[k]
      BY <3>1 DEF TypeOK, MaxRetries
    <3>3. CASE StatusFits(j)
      <4>1. state' = [state EXCEPT ![j] = "sending"]
        BY <3>1, <3>3
      <4> QED BY <3>1, <3>2, <3>3, <4>1 DEF TypeOK
    <3>4. CASE ~ StatusFits(j)
      <4>1. state' = [state EXCEPT ![j] = "skipped"] /\ "skipped" \in Ends
        BY <3>1, <3>4 DEF Ends
      <4> QED BY <3>1, <3>2, <4>1 DEF TypeOK
    <3> QED BY <3>3, <3>4
  <2>3. CASE WorkerDies(j)
    BY <2>3 DEF WorkerDies, Running, TypeOK, Ends
  <2>4. ASSUME NEW error \in ReadErrors, ReadFails(j, error)
        PROVE  \E e \in {"queued", "failed"} :
                 /\ state' = [state EXCEPT ![j] = e] /\ state[j] = "taken"
                 /\ retries' \in [Jobs -> 0 .. MaxRetries]
                 /\ \A k \in Jobs : retries'[k] >= retries[k]
                 /\ UNCHANGED <<status, mails, late>>
    <3>1. /\ state[j] = "taken"
          /\ UNCHANGED <<status, mails, late>>
      BY <2>4 DEF ReadFails, HandleFailure, TypeOK
    <3>2. CASE IsTransient(error) /\ retries[j] < MaxRetries
      <4>1. /\ state' = [state EXCEPT ![j] = "queued"]
            /\ retries' = [retries EXCEPT ![j] = @ + 1]
        BY <2>4, <3>2 DEF ReadFails, HandleFailure
      <4>2. /\ retries' \in [Jobs -> 0 .. MaxRetries]
            /\ \A k \in Jobs : retries'[k] >= retries[k]
        <5>1. retries \in [Jobs -> 0 .. MaxRetries] /\ retries[j] \in 0 .. MaxRetries
          BY DEF TypeOK
        <5>2. retries[j] + 1 \in 0 .. MaxRetries
          BY <3>2, <5>1 DEF MaxRetries
        <5>3. \A k \in Jobs : retries'[k] = IF k = j THEN retries[k] + 1 ELSE retries[k]
          BY <4>1, <5>1
        <5>4. \A k \in Jobs : retries[k] \in 0 .. MaxRetries
          BY <5>1
        <5> QED BY <4>1, <5>1, <5>2, <5>3, <5>4 DEF MaxRetries
      <4> WITNESS "queued" \in {"queued", "failed"}
      <4> QED BY <3>1, <4>1, <4>2
    <3>3. CASE ~ (IsTransient(error) /\ retries[j] < MaxRetries)
      <4>1. state' = [state EXCEPT ![j] = "failed"] /\ retries' = retries
        BY <2>4, <3>3 DEF ReadFails, HandleFailure
      <4>2. \A k \in Jobs : retries'[k] >= retries[k]
        BY <4>1 DEF TypeOK, MaxRetries
      <4> QED BY <3>1, <4>1, <4>2 DEF TypeOK
    <3> QED BY <3>2, <3>3
  <2> QED BY <2>1, <2>2, <2>3, <2>4 DEF Ends
<1>2. PICK e \in {"taken", "sending", "queued"} \cup Ends :
        /\ state' = [state EXCEPT ![j] = e]
        /\ state[j] \in {"queued", "taken", "sending"}
        /\ e = "sending" => StatusFits(j)
        /\ retries' \in [Jobs -> 0 .. MaxRetries]
        /\ \A k \in Jobs : retries'[k] >= retries[k]
        /\ UNCHANGED <<status, mails, late>>
  BY <1>1
<1>3. TypeOK'
  BY <1>2 DEF TypeOK
<1>4. JobsFollowChanges'
  BY <1>2 DEF TypeOK, JobsFollowChanges, Tasks
<1>5. MailsCounted'
  BY <1>2 DEF TypeOK, MailsCounted, Ends, MaxRetries
<1>6. CancellationKnown'
  BY <1>2 DEF TypeOK, CancellationKnown, StatusFits, Tasks
<1>7. LateOnce'
  BY <1>2 DEF TypeOK, LateOnce, StatusFits, Tasks
<1> QED BY <1>3, <1>4, <1>5, <1>6, <1>7

\* The attempt to send, successful or not, and with or without its mail arriving.
LEMMA SendStep ==
  ASSUME IInv, NEW j \in Jobs, Send(j) \/ \E error \in SendErrors : SendFails(j, error)
  PROVE  IInv'
<1> USE JobParts DEF IInv
<1>1. /\ state[j] = "sending" /\ status' = status
      /\ \/ state' = [state EXCEPT ![j] = "queued"]
            /\ retries' = [retries EXCEPT ![j] = @ + 1] /\ retries[j] < MaxRetries
         \/ \E e \in {"sent", "failed"} :
              state' = [state EXCEPT ![j] = e] /\ retries' = retries
      /\ Deliver(j) \/ UNCHANGED <<mails, late>>
  BY DEF Send, SendFails, HandleFailure, TypeOK
<1>2. /\ mails' \in [Jobs -> Nat] /\ late' \in [Bookings -> Nat]
      /\ \A k \in Jobs \ {j} : mails'[k] = mails[k]
      /\ mails'[j] \in {mails[j], mails[j] + 1}
      /\ \A b \in Bookings : late'[b] # late[b] =>
           j = <<"creation", b>> /\ status[b] # "ACTIVE" /\ late'[b] = late[b] + 1
  BY <1>1 DEF Deliver, TypeOK
<1>3. TypeOK'
  BY <1>1, <1>2 DEF TypeOK, Ends, MaxRetries
<1>4. JobsFollowChanges'
  BY <1>1 DEF TypeOK, JobsFollowChanges, Tasks
<1>5. MailsCounted'
  BY <1>1, <1>2 DEF TypeOK, MailsCounted, Ends, MaxRetries
<1>6. CancellationKnown'
  BY <1>1, <1>2 DEF TypeOK, CancellationKnown, Tasks
<1>7. LateOnce'
  <2> SUFFICES ASSUME NEW b \in Bookings
               PROVE  /\ late'[b] <= 1
                      /\ late'[b] = 1 => /\ status[b] \in {"CANCELLED", "COMPLETED"}
                                         /\ state'[<<"creation", b>>] # "sending"
    BY <1>1 DEF LateOnce
  <2>1. /\ late[b] \in Nat /\ late[b] <= 1
        /\ status[b] \in {"none", "ACTIVE", "CANCELLED", "COMPLETED"}
        /\ status[b] = "none" => state[<<"creation", b>>] = "none"
        /\ late[b] = 1 => /\ status[b] \in {"CANCELLED", "COMPLETED"}
                          /\ state[<<"creation", b>>] # "sending"
    BY DEF TypeOK, LateOnce, JobsFollowChanges
  <2>2. <<"creation", b>> \in Jobs /\ state'[j] # "sending"
    BY <1>1 DEF TypeOK, Tasks
  <2>3. j # <<"creation", b>> => state'[<<"creation", b>>] = state[<<"creation", b>>]
    BY <1>1, <2>2 DEF TypeOK
  <2> QED BY <1>1, <1>2, <2>1, <2>2, <2>3
<1> QED BY <1>3, <1>4, <1>5, <1>6, <1>7

\* The strengthened invariant is inductive.
LEMMA Induction == IInv /\ [Next]_vars => IInv'
<1> SUFFICES ASSUME IInv, [Next]_vars PROVE IInv'
  OBVIOUS
<1>1. CASE UNCHANGED vars
  BY <1>1 DEF vars, IInv, TypeOK, JobsFollowChanges, MailsCounted, CancellationKnown, LateOnce
<1>2. CASE Next
  BY <1>2, ChangeStep, CompleteStep, EnqueueStep, QuietStep, SendStep DEF Next
<1> QED BY <1>1, <1>2

\* It holds in every state.
LEMMA Invariant == Spec => []IInv
<1>1. Init => IInv
  BY JobParts
     DEF Init, IInv, TypeOK, JobsFollowChanges, MailsCounted, CancellationKnown, LateOnce,
         Tasks, MaxRetries, Ends
<1> QED BY <1>1, Induction, PTL DEF Spec

\* Retries stay within max_retries, however often reading and sending fail, and each
\* job and booking is in a state that the tasks know.
THEOREM TypeCorrect == Spec => []TypeOK
<1>1. IInv => TypeOK
  BY DEF IInv
<1> QED BY <1>1, Invariant, PTL

\* A job mails at most once per attempt, and makes at most four.
THEOREM MailsAreBounded == Spec => []MailsBounded
<1>1. IInv => MailsBounded
  BY DEF IInv, MailsCounted, MailsBounded
<1> QED BY <1>1, Invariant, PTL

\* Nobody is told of a cancellation that did not happen.
THEOREM CancellationsAreTrue == Spec => []CancellationIsTrue
<1>1. IInv => CancellationIsTrue
  BY DEF IInv, CancellationKnown, CancellationIsTrue
<1> QED BY <1>1, Invariant, PTL

\* At most one confirmation arrives after its booking was cancelled or completed.
THEOREM AtMostOneLateConfirmation == Spec => []LateConfirmationAtMostOnce
<1>1. IInv => LateConfirmationAtMostOnce
  BY DEF IInv, LateOnce, LateConfirmationAtMostOnce
<1> QED BY <1>1, Invariant, PTL
=============================================================================
