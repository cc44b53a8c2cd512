------------------------------- MODULE Outbox -------------------------------
(***************************************************************************)
(* Delivery of the notification outbox: the dispatchers that poll it, one  *)
(* per process sharing the database.  A round lists due jobs once, then    *)
(* sends and records them one by one; sending is a call to a gateway       *)
(* outside any transaction, and what is recorded afterwards is computed    *)
(* from the row as it was LISTED.                                          *)
(* Time is kept as an order: `ready' holds the due jobs in the order they  *)
(* became due, which is the order of next_attempt_at; a job in retry       *)
(* waits outside it until its backoff elapses.                             *)
(***************************************************************************)
EXTENDS Naturals, Sequences, SequencesExt

CONSTANTS Job, Dispatcher,
          MaxAttempts,   \* attempt budget of a job
          Batch          \* jobs claimed by one round

ASSUME BudgetAssumption == MaxAttempts \in Nat \ {0} /\ Batch \in Nat \ {0}

VARIABLES job,        \* [state, attempts] of every row
          ready,      \* the due jobs, earliest first
          loop,       \* "running" or "stopped": Dispatcher.Run
          cancelled,  \* the context of the loop
          round,      \* the listed jobs a round has still to handle
          outcome,    \* what Send returned for the head of the round
          delivered,  \* the jobs the gateway said it accepted (history)
          failures    \* attempts the gateway refused, up to MaxAttempts (history)

vars == <<job, ready, loop, cancelled, round, outcome, delivered, failures>>

NoJob == [state |-> "none", attempts |-> 0]

Init ==
  /\ job = [j \in Job |-> NoJob]
  /\ ready = <<>>
  /\ loop = [d \in Dispatcher |-> "running"]
  /\ cancelled = [d \in Dispatcher |-> FALSE]
  /\ round = [d \in Dispatcher |-> <<>>]
  /\ outcome = [d \in Dispatcher |-> "none"]
  /\ delivered = {}
  /\ failures = [j \in Job |-> 0]

Pending == {j \in Job : job[j].state = "pending"}

(* Enqueue, in the transaction of a business change; due at once.            *)
Enqueue(j) ==
  /\ job[j] = NoJob
  /\ job' = [job EXCEPT ![j] = [state |-> "pending", attempts |-> 0]]
  /\ ready' = Append(ready, j)
  /\ UNCHANGED <<loop, cancelled, round, outcome, delivered, failures>>

(* The backoff of a parked job elapses.                                      *)
BackoffElapses(j) ==
  /\ j \in Pending \ ToSet(ready)
  /\ ready' = Append(ready, j)
  /\ UNCHANGED <<job, loop, cancelled, round, outcome, delivered, failures>>

(* ListDue: the rows are read, not claimed; another dispatcher sees them too. *)
ListDue(d) ==
  /\ loop[d] = "running"
  /\ round[d] = <<>>
  /\ ready # <<>>
  /\ LET n == IF Len(ready) < Batch THEN Len(ready) ELSE Batch
     IN  round' = [round EXCEPT ![d] =
           [k \in 1..n |-> [job |-> ready[k], attempts |-> job[ready[k]].attempts]]]
  /\ UNCHANGED <<job, ready, loop, cancelled, outcome, delivered, failures>>

(* Sender.Send: the gateway accepts, refuses, or runs into a deadline of its *)
(* own.                                                                      *)
Send(d) ==
  /\ round[d] # <<>> /\ outcome[d] = "none"
  /\ LET j == Head(round[d]).job
     IN  \/ /\ outcome' = [outcome EXCEPT ![d] = "sent"]
            /\ delivered' = delivered \cup {j}
            /\ UNCHANGED failures
         \/ /\ outcome' = [outcome EXCEPT ![d] = "refused"]
            /\ failures' = [failures EXCEPT ![j] = Min({@ + 1, MaxAttempts})]
            /\ UNCHANGED delivered
         \/ /\ outcome' = [outcome EXCEPT ![d] = "deadline"]
            /\ UNCHANGED <<delivered, failures>>
  /\ UNCHANGED <<job, ready, loop, cancelled, round>>

Exhausted_Early(attempts) == attempts + 1 >= MaxAttempts

Exhausted_Late(attempts) == attempts > MaxAttempts

Exhausted(attempts) == attempts >= MaxAttempts

Update_AnyState(j, state, attempts) ==
  /\ job' = [job EXCEPT ![j] = [state |-> state, attempts |-> attempts]]
  /\ ready' = RemoveFirst(ready, j)

Update_KeepsCount(j, state, attempts) ==
  IF j \in Pending
  THEN /\ job' = [job EXCEPT ![j].state = state]
       /\ ready' = RemoveFirst(ready, j)
  ELSE UNCHANGED <<job, ready>>

(* updateOne: a row another dispatcher has finished is left alone and the    *)
(* conflict is tolerated.  A finished row, and one whose next attempt lies   *)
(* in the future, is no longer due.                                          *)
Update(j, state, attempts) ==
  IF j \in Pending
  THEN /\ job' = [job EXCEPT ![j] = [state |-> state, attempts |-> attempts]]
       /\ ready' = RemoveFirst(ready, j)
  ELSE UNCHANGED <<job, ready>>

(* The rest of deliver, after Send returned.                                 *)
Record(d) ==
  LET j        == Head(round[d]).job
      attempts == Head(round[d]).attempts + 1
      result   == outcome[d]
  IN  /\ result \in {"sent", "refused"}
      /\ \/ result = "sent" /\ Update(j, "succeeded", attempts)
         \/ /\ result = "refused" /\ Exhausted(attempts)
            /\ Update(j, "failed_permanent", attempts)
         \/ /\ result = "refused" /\ ~Exhausted(attempts)
            /\ Update(j, "pending", attempts)
      /\ round' = [round EXCEPT ![d] = Tail(@)]
      /\ outcome' = [outcome EXCEPT ![d] = "none"]
      /\ UNCHANGED <<loop, cancelled, delivered, failures>>

EndRound(d) ==
  /\ round' = [round EXCEPT ![d] = <<>>]
  /\ outcome' = [outcome EXCEPT ![d] = "none"]

(* deliver hands a deadline error up, Tick ends the round with it, and Run   *)
(* takes it for the end of its own context and returns.                      *)
StopOnDeadline(d) ==
  /\ outcome[d] = "deadline"
  /\ loop' = [loop EXCEPT ![d] = "stopped"]
  /\ EndRound(d)
  /\ UNCHANGED <<job, ready, cancelled, delivered, failures>>

(* The outcome cannot be recorded: a database error ends the round, Run logs *)
(* it and polls again.                                                       *)
RoundFails(d) ==
  /\ outcome[d] \in {"sent", "refused"}
  /\ EndRound(d)
  /\ UNCHANGED <<job, ready, loop, cancelled, delivered, failures>>

(* Cancellation of the context, at the point where the loop notices it:      *)
(* between two rounds or two jobs, or with an outcome it cannot record.      *)
Shutdown(d) ==
  /\ loop[d] = "running"
  /\ outcome[d] # "deadline"
  /\ cancelled' = [cancelled EXCEPT ![d] = TRUE]
  /\ loop' = [loop EXCEPT ![d] = "stopped"]
  /\ EndRound(d)
  /\ UNCHANGED <<job, ready, delivered, failures>>

(* The process crashed or was stopped, and starts again.                     *)
Restart(d) ==
  /\ loop' = [loop EXCEPT ![d] = "running"]
  /\ cancelled' = [cancelled EXCEPT ![d] = FALSE]
  /\ EndRound(d)
  /\ UNCHANGED <<job, ready, delivered, failures>>

Next ==
  \/ \E j \in Job : Enqueue(j) \/ BackoffElapses(j)
  \/ \E d \in Dispatcher :
       \/ ListDue(d) \/ Send(d) \/ Record(d) \/ StopOnDeadline(d) \/ RoundFails(d)
       \/ Shutdown(d) \/ Restart(d)

Spec == Init /\ [][Next]_vars

(* A loop polls as long as it runs.  Rounds may be cut short by errors and   *)
(* restarts again and again, but not every time before the same step, and    *)
(* the gateway answers now and then instead of running into a deadline.      *)
Fairness ==
  /\ \A j \in Job : WF_vars(BackoffElapses(j))
  /\ \A d \in Dispatcher :
       /\ SF_vars(ListDue(d)) /\ SF_vars(Record(d))
       /\ SF_vars(Send(d) /\ outcome'[d] # "deadline")
       /\ WF_vars(StopOnDeadline(d))

FairSpec == Spec /\ Fairness

-----------------------------------------------------------------------------
TypeOK ==
  /\ job \in [Job -> [state : {"none", "pending", "succeeded", "failed_permanent"},
                      attempts : 0..MaxAttempts]]
  /\ ready \in Seq(Job)
  /\ loop \in [Dispatcher -> {"running", "stopped"}]
  /\ cancelled \in [Dispatcher -> BOOLEAN]
  /\ round \in [Dispatcher -> Seq([job : Job, attempts : 0..(MaxAttempts - 1)])]
  /\ outcome \in [Dispatcher -> {"none", "sent", "refused", "deadline"}]
  /\ delivered \subseteq Job
  /\ failures \in [Job -> 0..MaxAttempts]

(* Nothing is reported as delivered that the gateway did not accept, and a   *)
(* job is only given up after as many refusals as its budget allows, although *)
(* a stale attempt may set the counter back (job.go: attempts, max_attempts). *)
FinalStateEarned ==
  \A j \in Job :
    /\ job[j].state = "succeeded" => j \in delivered
    /\ job[j].state = "failed_permanent" => failures[j] = MaxAttempts
    /\ job[j].state = "pending" => job[j].attempts < MaxAttempts

(* A job that was finished by one dispatcher is not reopened by the late     *)
(* outcome of another that listed it earlier.                                *)
FinishedOnce ==
  [][\A j \in Job : job[j].state \in {"succeeded", "failed_permanent"} => job'[j] = job[j]]_vars

(* Every enqueued job is delivered or given up, whatever order the outcomes  *)
(* of two dispatchers are recorded in, unless no loop is left running.       *)
JobsFinish ==
  \A j \in Job :
    job[j].state = "pending"
      ~> (job[j].state # "pending" \/ \A d \in Dispatcher : loop[d] = "stopped")

(* dispatcher.go:155: Run drives Tick until the context is cancelled.        *)
RunsUntilCancelled == \A d \in Dispatcher : loop[d] = "stopped" => cancelled[d]
=============================================================================
