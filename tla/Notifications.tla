---------------------------- MODULE Notifications ----------------------------
(***************************************************************************)
(* From the queue to the mailbox: the Celery tasks                         *)
(* process_booking_creation and process_booking_cancellation, which read   *)
(* the booking in a session of their own, close it, and only then talk to  *)
(* the SMTP server, while the booking goes on living.  A failure is        *)
(* retried if it is transient; a lost reply looks like a failure.          *)
(* Celery acknowledges a task before it runs, so a worker that dies loses  *)
(* it.  The upper half (Create, Cancel, Complete, Enqueue, EnqueueFails)   *)
(* is what BookingService does, as BookingServiceProps shows.              *)
(***************************************************************************)
EXTENDS Integers, FiniteSets

CONSTANTS Bookings,   \* ids of bookings
          PoolSize    \* tasks the workers run at the same time

ASSUME NotificationsAssumption == PoolSize \in Nat \ {0}

Tasks == {"creation", "cancellation"}
Jobs  == Tasks \X Bookings

MaxRetries == 3

\* What reading the database and sending a mail may raise.
ReadErrors == {"db_operational", "db_other", "os_error"}
SendErrors == {"smtp_4xx", "smtp_5xx", "smtp_disconnected", "smtp_other", "os_error"}

VARIABLES status,   \* status of each booking; "none" before its creation commits
          state,    \* of each job: "none", "owed" by the request that committed
                    \* the change, "queued", "taken", "sending" or its end
          retries,  \* request.retries of each job
          mails,    \* mails that reached the mailbox, per job
          late      \* history: confirmations that arrived for a booking not ACTIVE
vars == <<status, state, retries, mails, late>>

Ends == {"sent", "skipped", "failed", "lost"}

TypeOK ==
  /\ status \in [Bookings -> {"none", "ACTIVE", "CANCELLED", "COMPLETED"}]
  /\ state \in [Jobs -> {"none", "owed", "queued", "taken", "sending"} \cup Ends]
  /\ retries \in [Jobs -> 0 .. MaxRetries]
  /\ mails \in [Jobs -> Nat]
  /\ late \in [Bookings -> Nat]

Init ==
  /\ status = [b \in Bookings |-> "none"]
  /\ state = [j \in Jobs |-> "none"] /\ retries = [j \in Jobs |-> 0]
  /\ mails = [j \in Jobs |-> 0]
  /\ late = [b \in Bookings |-> 0]

\* A request commits a change of b and now owes the queue its task.
Create(b) == /\ status[b] = "none"
             /\ status' = [status EXCEPT ![b] = "ACTIVE"]
             /\ state' = [state EXCEPT ![<<"creation", b>>] = "owed"]
             /\ UNCHANGED <<retries, mails, late>>

Cancel(b) == /\ status[b] = "ACTIVE"
             /\ status' = [status EXCEPT ![b] = "CANCELLED"]
             /\ state' = [state EXCEPT ![<<"cancellation", b>>] = "owed"]
             /\ UNCHANGED <<retries, mails, late>>

\* Fault: the sweep completes cancelled bookings too.
CompleteAnything(ids) ==
  /\ \A b \in ids : status[b] # "none"
  /\ status' = [b \in Bookings |-> IF b \in ids THEN "COMPLETED" ELSE status[b]]
  /\ UNCHANGED <<state, retries, mails, late>>

\* The sweep completes some bookings.
Complete(ids) ==
  /\ \A b \in ids : status[b] = "ACTIVE"
  /\ status' = [b \in Bookings |-> IF b \in ids THEN "COMPLETED" ELSE status[b]]
  /\ UNCHANGED <<state, retries, mails, late>>

\* _enqueue_booking_notification: the broker takes the task ...
Enqueue(j) ==
  /\ state[j] = "owed"
  /\ state' = [state EXCEPT ![j] = "queued"]
  /\ UNCHANGED <<status, retries, mails, late>>

\* ... or refuses it, or the process dies first: nothing remembers the task.
EnqueueFails(j) ==
  /\ state[j] = "owed"
  /\ state' = [state EXCEPT ![j] = "lost"]
  /\ UNCHANGED <<status, retries, mails, late>>
-----------------------------------------------------------------------------
Running == {j \in Jobs : state[j] \in {"taken", "sending"}}

\* A free process of the pool takes a job and acknowledges it.
Take(j) ==
  /\ state[j] = "queued" /\ Cardinality(Running) < PoolSize
  /\ state' = [state EXCEPT ![j] = "taken"]
  /\ UNCHANGED <<status, retries, mails, late>>

\* The status in which the task's mail is still right.
StatusFits(j) == status[j[2]] = IF j[1] = "creation" THEN "ACTIVE" ELSE "CANCELLED"

\* The task reads its booking; a status that does not fit ends it.
Read(j) ==
  /\ state[j] = "taken"
  /\ state' = [state EXCEPT ![j] = IF StatusFits(j) THEN "sending" ELSE "skipped"]
  /\ UNCHANGED <<status, retries, mails, late>>

\* A mail of job j reaches the mailbox.
Deliver(j) ==
  /\ mails' = [mails EXCEPT ![j] = @ + 1]
  /\ late' = IF j[1] = "creation" /\ status[j[2]] # "ACTIVE"
             THEN [late EXCEPT ![j[2]] = @ + 1] ELSE late

Send(j) ==
  /\ state[j] = "sending"
  /\ Deliver(j)
  /\ state' = [state EXCEPT ![j] = "sent"]
  /\ UNCHANGED <<status, retries>>

\* _is_transient_notification_error.
IsTransient(error) ==
  error \in {"smtp_4xx", "smtp_disconnected", "os_error", "db_operational"}

\* Fault: one retry more than max_retries.
RetryOnceTooOften(j, error) ==
  IF IsTransient(error) /\ retries[j] <= MaxRetries
  THEN /\ state' = [state EXCEPT ![j] = "queued"]
       /\ retries' = [retries EXCEPT ![j] = @ + 1]
  ELSE state' = [state EXCEPT ![j] = "failed"] /\ UNCHANGED retries

\* Fault: a retry goes on where the last attempt failed, without a fresh read.
RetrySendOnly(j, error) ==
  IF IsTransient(error) /\ retries[j] < MaxRetries
  THEN /\ state' = [state EXCEPT ![j] = IF @ = "sending" THEN "sending" ELSE "queued"]
       /\ retries' = [retries EXCEPT ![j] = @ + 1]
  ELSE state' = [state EXCEPT ![j] = "failed"] /\ UNCHANGED retries

\* Fault: a transient failure puts the job back without counting the retry.
RetryUncounted(j, error) ==
  IF IsTransient(error) /\ retries[j] < MaxRetries
  THEN state' = [state EXCEPT ![j] = "queued"] /\ UNCHANGED retries
  ELSE state' = [state EXCEPT ![j] = "failed"] /\ UNCHANGED retries

\* _handle_notification_failure: a transient failure puts the job back on the
\* queue, with a countdown, until the retries are used up.
HandleFailure(j, error) ==
  IF IsTransient(error) /\ retries[j] < MaxRetries
  THEN /\ state' = [state EXCEPT ![j] = "queued"]
       /\ retries' = [retries EXCEPT ![j] = @ + 1]
  ELSE state' = [state EXCEPT ![j] = "failed"] /\ UNCHANGED retries

\* Fault: a task whose read fails is put back as if it had not been tried.
ReadFailsUncounted(j, error) ==
  /\ state[j] = "taken"
  /\ IF IsTransient(error) THEN state' = [state EXCEPT ![j] = "queued"] /\ UNCHANGED retries
                           ELSE HandleFailure(j, error)
  /\ UNCHANGED <<status, mails, late>>

ReadFails(j, error) ==
  /\ state[j] = "taken"
  /\ HandleFailure(j, error)
  /\ UNCHANGED <<status, mails, late>>

\* The send raises, before the server has the mail or after it.
SendFails(j, error) ==
  /\ state[j] = "sending"
  /\ HandleFailure(j, error)
  /\ \/ UNCHANGED <<mails, late>>
     \/ Deliver(j)
  /\ UNCHANGED status

\* The worker process dies with the job it had acknowledged.
WorkerDies(j) ==
  /\ j \in Running
  /\ state' = [state EXCEPT ![j] = "lost"]
  /\ UNCHANGED <<status, retries, mails, late>>

Next ==
  \/ \E b \in Bookings : Create(b) \/ Cancel(b)
  \/ \E ids \in SUBSET Bookings : Complete(ids)
  \/ \E j \in Jobs :
       \/ Enqueue(j) \/ EnqueueFails(j)
       \/ Take(j) \/ Read(j) \/ Send(j) \/ WorkerDies(j)
       \/ \E error \in ReadErrors : ReadFails(j, error)
       \/ \E error \in SendErrors : SendFails(j, error)

Spec == Init /\ [][Next]_vars

\* A request goes on to the enqueueing; the pool takes queued jobs, in some order,
\* and goes on with those it has.
Fairness == \A j \in Jobs : /\ WF_vars(Enqueue(j))
                            /\ SF_vars(Take(j)) /\ WF_vars(Read(j) \/ Send(j))

FairSpec == Spec /\ Fairness
-----------------------------------------------------------------------------
\* A job mails at most once per attempt and thus at most four times: a failure
\* whose mail had arrived costs a retry like any other.
MailsBounded == \A j \in Jobs : mails[j] <= retries[j] + 1

\* Whoever was told of a cancellation has a CANCELLED booking, then and for ever,
\* although the mail goes out after the session that read the booking was closed
\* and the sweep runs all the time.
CancellationIsTrue ==
  \A b \in Bookings : mails[<<"cancellation", b>>] > 0 => status[b] = "CANCELLED"

\* After a booking stops being ACTIVE, at most the one confirmation that was on
\* its way may still arrive: every retry reads the booking again.
LateConfirmationAtMostOnce == \A b \in Bookings : late[b] <= 1

\* Every committed change is dealt with in the end, however often the database, the
\* mail server and the broker fail: its job is sent or skipped, or its retries are
\* used up, or a process died with it, or the broker refused it.
EveryJobEnds == \A j \in Jobs : state[j] = "owed" ~> state[j] \in Ends
=============================================================================
