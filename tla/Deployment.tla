------------------------------ MODULE Deployment ------------------------------
(***************************************************************************)
(* Server processes over one database file, from start to exit: migration, *)
(* seeding, the first operations account, serving, shutdown.  Replicas and *)
(* successive deploys start with builds that embed different migrations.   *)
(* One step is one statement or transaction of app.New and app.Run.        *)
(***************************************************************************)
EXTENDS Naturals, Sequences

CONSTANTS Process,
          Checksum,
          Builds,       \* the deployable builds: the checksum of each embedded version
          MaxVersion,   \* bound: the longest build
          PlanCodes,    \* the codes of defaultPlans, in order
          BootstrapEnabled,
          Loops,        \* the background loops, the dispatcher among them
          MaxRequests   \* bound: requests in flight at one process

Absent == "absent"

ASSUME DeploymentAssumption ==
  /\ MaxVersion \in Nat /\ MaxRequests \in Nat
  /\ Builds \subseteq UNION {[1..n -> Checksum] : n \in 1..MaxVersion}
  /\ Absent \notin Checksum
  /\ PlanCodes \in Seq(STRING)
  /\ BootstrapEnabled \in BOOLEAN

VARIABLES applied,  \* schema_migrations; the objects of a version come with its row
          plan,     \* service_plans: absent, as seeded, or tuned by operations
          admins,   \* accounts with the configured e-mail
          proc,     \* the processes
          alone     \* those during whose start no other process did a step (history)

vars == <<applied, plan, admins, proc, alone>>

Version  == 1..MaxVersion
Seeds    == {PlanCodes[k] : k \in DOMAIN PlanCodes}
NoSchema == [v \in Version |-> Absent]

Down == [stage |-> "down", build |-> <<>>, read |-> NoSchema, next |-> 0,
         asked |-> FALSE,        \* the signal context is done
         stopped |-> FALSE,      \* stopLoops was called
         listener |-> "none", loops |-> {}, requests |-> 0,
         hurried |-> FALSE]      \* left without waiting for the requests

Starting == {"opened", "migrating", "seeding", "planting", "admin", "registering"}
Up       == {"running", "shutdown", "waiting"}

Init ==
  /\ applied = NoSchema
  /\ plan = [c \in Seeds |-> "absent"]
  /\ admins = 0
  /\ proc = [p \in Process |-> Down]
  /\ alone = {}

Move(p, stage, next) ==
  proc' = [proc EXCEPT ![p].stage = stage, ![p].next = next, ![p].read =
             IF stage = "migrating" THEN @ ELSE NoSchema]

Leave(p) == proc' = [proc EXCEPT ![p] = Down]

(* A statement of New runs under the signal context.                         *)
At(p, stage) == proc[p].stage = stage /\ ~proc[p].asked

-----------------------------------------------------------------------------

(* Open and ensureMigrationTable.                                            *)
Start(p, build) ==
  /\ proc[p] = Down
  /\ proc' = [proc EXCEPT ![p] = [Down EXCEPT !.stage = "opened", !.build = build]]
  /\ UNCHANGED <<applied, plan, admins>>

(* AppliedMigrations, read once.  A version the build lacks is refused.      *)
ReadApplied(p) ==
  /\ At(p, "opened")
  /\ \/ /\ \A v \in Version : applied[v] # Absent => v \in DOMAIN proc[p].build
        /\ proc' = [proc EXCEPT ![p].stage = "migrating", ![p].next = 1,
                                ![p].read = applied]
     \/ /\ \E v \in Version : applied[v] # Absent /\ v \notin DOMAIN proc[p].build
        /\ Leave(p)
  /\ UNCHANGED <<applied, plan, admins>>

Agrees_AnyChecksum(p, v) == proc[p].read[v] # Absent

(* The row that was read has the checksum of the embedded file.              *)
Agrees(p, v) == proc[p].read[v] = proc[p].build[v]

(* A recorded migration is skipped, or refused when its file has changed.    *)
CheckApplied(p) ==
  LET v == proc[p].next
  IN  /\ At(p, "migrating") /\ v \in DOMAIN proc[p].build
      /\ proc[p].read[v] # Absent
      /\ \/ Agrees(p, v) /\ Move(p, "migrating", v + 1)
         \/ ~Agrees(p, v) /\ Leave(p)
      /\ UNCHANGED <<applied, plan, admins>>

ApplyMigration_Unsorted(p) ==
  LET v == Len(proc[p].build) + 1 - proc[p].next
  IN  /\ At(p, "migrating") /\ v \in DOMAIN proc[p].build
      /\ proc[p].read[v] = Absent
      /\ \/ /\ applied[v] = Absent
            /\ applied' = [applied EXCEPT ![v] = proc[p].build[v]]
            /\ Move(p, "migrating", proc[p].next + 1)
         \/ applied[v] # Absent /\ Leave(p) /\ UNCHANGED applied
      /\ UNCHANGED <<plan, admins>>

(* applyMigration: the body and its row in one transaction.  When another    *)
(* process has applied the version since the read, the objects exist, the    *)
(* transaction fails and the start with it.                                  *)
ApplyMigration(p) ==
  LET v == proc[p].next
  IN  /\ At(p, "migrating") /\ v \in DOMAIN proc[p].build
      /\ proc[p].read[v] = Absent
      /\ \/ /\ applied[v] = Absent
            /\ applied' = [applied EXCEPT ![v] = proc[p].build[v]]
            /\ Move(p, "migrating", v + 1)
         \/ applied[v] # Absent /\ Leave(p) /\ UNCHANGED applied
      /\ UNCHANGED <<plan, admins>>

EndMigrations(p) ==
  /\ At(p, "migrating") /\ proc[p].next > Len(proc[p].build)
  /\ Move(p, "seeding", 1)
  /\ UNCHANGED <<applied, plan, admins>>

LookUpPlan_Always(p) ==
  LET k == proc[p].next
  IN  /\ At(p, "seeding") /\ k \in DOMAIN PlanCodes
      /\ Move(p, "planting", k)
      /\ UNCHANGED <<applied, plan, admins>>

LookUpPlan_ReturnsEarly(p) ==
  LET k == proc[p].next
  IN  /\ At(p, "seeding") /\ k \in DOMAIN PlanCodes
      /\ \/ plan[PlanCodes[k]] # "absent" /\ Move(p, "seeding", Len(PlanCodes) + 1)
         \/ plan[PlanCodes[k]] = "absent" /\ Move(p, "planting", k)
      /\ UNCHANGED <<applied, plan, admins>>

(* GetPlan: a plan that exists is left alone.                                *)
LookUpPlan(p) ==
  LET k == proc[p].next
  IN  /\ At(p, "seeding") /\ k \in DOMAIN PlanCodes
      /\ \/ plan[PlanCodes[k]] # "absent" /\ Move(p, "seeding", k + 1)
         \/ plan[PlanCodes[k]] = "absent" /\ Move(p, "planting", k)
      /\ UNCHANGED <<applied, plan, admins>>

(* UpsertPlan, in a statement of its own: whatever is there is overwritten.  *)
SeedPlan(p) ==
  /\ At(p, "planting")
  /\ plan' = [plan EXCEPT ![PlanCodes[proc[p].next]] = "seeded"]
  /\ Move(p, "seeding", proc[p].next + 1)
  /\ UNCHANGED <<applied, admins>>

EndSeeding(p) ==
  /\ At(p, "seeding") /\ proc[p].next > Len(PlanCodes)
  /\ Move(p, "admin", 0)
  /\ UNCHANGED <<applied, plan, admins>>

(* New returns, and Run starts the loops.                                    *)
Run(p) == proc' = [proc EXCEPT ![p].stage = "running", ![p].loops = Loops]

(* bootstrapAdmin: GetByEmail.                                               *)
LookUpAdmin(p) ==
  /\ At(p, "admin")
  /\ IF BootstrapEnabled /\ admins = 0 THEN Move(p, "registering", 0) ELSE Run(p)
  /\ UNCHANGED <<applied, plan, admins>>

(* RegisterStaff: the e-mail is unique, so a second registration fails.      *)
RegisterAdmin(p) ==
  /\ At(p, "registering")
  /\ \/ admins = 0 /\ admins' = 1 /\ Run(p)
     \/ admins # 0 /\ UNCHANGED admins /\ Leave(p)
  /\ UNCHANGED <<applied, plan>>

(* An error of the database ends the start; so does a signal, with the next  *)
(* statement.                                                                *)
StartFails(p) ==
  /\ proc[p].stage \in Starting
  /\ Leave(p)
  /\ UNCHANGED <<applied, plan, admins>>

-----------------------------------------------------------------------------

Signal(p) ==
  /\ proc[p].stage \in Starting \cup Up /\ ~proc[p].asked
  /\ proc' = [proc EXCEPT ![p].asked = TRUE]
  /\ UNCHANGED <<applied, plan, admins>>

(* ListenAndServe, in a goroutine of its own: it returns at once when        *)
(* Shutdown came first.                                                      *)
Listen(p) ==
  /\ proc[p].stage \in Up /\ proc[p].listener = "none"
  /\ proc' = [proc EXCEPT ![p].listener =
                IF proc[p].stage = "running" THEN "open" ELSE "closed"]
  /\ UNCHANGED <<applied, plan, admins>>

(* The address is taken, or Accept fails.                                    *)
ServeFails(p) ==
  /\ \/ proc[p].stage \in Up /\ proc[p].listener = "none"
     \/ proc[p].listener = "open"
  /\ proc' = [proc EXCEPT ![p].listener = "failed"]
  /\ UNCHANGED <<applied, plan, admins>>

Arrive(p) ==
  /\ proc[p].listener = "open" /\ proc[p].requests < MaxRequests
  /\ proc' = [proc EXCEPT ![p].requests = @ + 1]
  /\ UNCHANGED <<applied, plan, admins>>

Answer(p) ==
  /\ proc[p].requests > 0
  /\ proc' = [proc EXCEPT ![p].requests = @ - 1]
  /\ UNCHANGED <<applied, plan, admins>>

(* A request of operations: adminsvc.UpsertPlan, one statement.              *)
TunePlan(p, code) ==
  /\ proc[p].stage \in Up /\ proc[p].requests > 0
  /\ plan' = [plan EXCEPT ![code] = "tuned"]
  /\ proc' = [proc EXCEPT ![p].requests = @ - 1]
  /\ UNCHANGED <<applied, admins>>

(* A loop returns when its context, which descends from the signal's, is     *)
(* cancelled.                                                                *)
EndLoop(p, l) ==
  /\ l \in proc[p].loops
  /\ proc[p].asked \/ proc[p].stopped
  /\ proc' = [proc EXCEPT ![p].loops = @ \ {l}]
  /\ UNCHANGED <<applied, plan, admins>>

(* The dispatcher also returns when a deadline of the gateway comes up to    *)
(* Run, and nobody notices before the process stops.                         *)
DispatcherReturns(p) ==
  /\ "dispatcher" \in proc[p].loops
  /\ proc' = [proc EXCEPT ![p].loops = @ \ {"dispatcher"}]
  /\ UNCHANGED <<applied, plan, admins>>

GiveUp_LoopsRun(p) ==
  /\ proc[p].stage = "running" /\ proc[p].listener = "failed"
  /\ proc' = [proc EXCEPT ![p].stage = "waiting", ![p].hurried = TRUE]
  /\ UNCHANGED <<applied, plan, admins>>

(* Run's first case: the server ended by itself; its requests are abandoned. *)
GiveUp(p) ==
  /\ proc[p].stage = "running" /\ proc[p].listener = "failed"
  /\ proc' = [proc EXCEPT ![p].stage = "waiting", ![p].stopped = TRUE,
                          ![p].hurried = TRUE]
  /\ UNCHANGED <<applied, plan, admins>>

(* Run's second case: the signal; server.Shutdown closes the listener.       *)
BeginShutdown(p) ==
  /\ proc[p].stage = "running" /\ proc[p].asked
  /\ proc' = [proc EXCEPT ![p].stage = "shutdown",
                          ![p].listener = IF @ = "open" THEN "closed" ELSE @]
  /\ UNCHANGED <<applied, plan, admins>>

(* Shutdown returns: no request is left, or the timeout is over.             *)
EndShutdown(p) ==
  /\ proc[p].stage = "shutdown"
  /\ proc' = [proc EXCEPT ![p].stage = "waiting", ![p].stopped = TRUE,
                          ![p].hurried = proc[p].requests > 0]
  /\ UNCHANGED <<applied, plan, admins>>

Close_NoWait(p) ==
  /\ proc[p].stage = "waiting" /\ proc[p].listener \in {"closed", "failed"}
  /\ proc' = [proc EXCEPT ![p].stage = "closed"]
  /\ UNCHANGED <<applied, plan, admins>>

(* group.Wait, the receive from serveErr, then the deferred Close.           *)
Close(p) ==
  /\ proc[p].stage = "waiting" /\ proc[p].loops = {}
  /\ proc[p].listener \in {"closed", "failed"}
  /\ proc' = [proc EXCEPT ![p].stage = "closed"]
  /\ UNCHANGED <<applied, plan, admins>>

Exit(p) == proc[p].stage = "closed" /\ Leave(p) /\ UNCHANGED <<applied, plan, admins>>

(* The process dies; what is committed stays.                                *)
Crash(p) ==
  /\ proc[p].stage \in Starting \cup Up
  /\ Leave(p)
  /\ UNCHANGED <<applied, plan, admins>>

-----------------------------------------------------------------------------

StartStep(p) ==
  \/ ReadApplied(p) \/ CheckApplied(p) \/ ApplyMigration(p) \/ EndMigrations(p)
  \/ LookUpPlan(p) \/ SeedPlan(p) \/ EndSeeding(p)
  \/ LookUpAdmin(p) \/ RegisterAdmin(p)

(* What a process does by itself once it is told to stop.                    *)
StopStep(p) ==
  \/ proc[p].asked /\ StartFails(p)
  \/ Listen(p) \/ GiveUp(p) \/ BeginShutdown(p) \/ EndShutdown(p)
  \/ \E l \in Loops : EndLoop(p, l)
  \/ Close(p) \/ Exit(p)

Step(p) ==
  \/ StartStep(p) \/ StopStep(p) \/ StartFails(p)
  \/ Signal(p) \/ ServeFails(p) \/ DispatcherReturns(p) \/ Arrive(p) \/ Answer(p)
  \/ \E code \in Seeds : TunePlan(p, code)
  \/ Crash(p)

(* Whoever does a step disturbs the other starts.                            *)
Disturb(p) == alone' = IF proc'[p].stage \in Starting THEN alone \cap {p} ELSE {}

Next ==
  \E p \in Process :
    \/ (\E b \in Builds : Start(p, b)) /\ alone' = {p}
    \/ Step(p) /\ Disturb(p)

Spec == Init /\ [][Next]_vars

(* A process that can go on goes on: the scheduler of the operating system,  *)
(* ShutdownTimeout, and loops that watch their context at every step.        *)
FairSpec == Spec /\ \A p \in Process : WF_vars(StopStep(p) /\ Disturb(p))

-----------------------------------------------------------------------------

Serving(p) == proc[p].stage \in Up

(* A process serves only over a schema that has each migration of its build, *)
(* with the contents its build embeds, however many processes migrate at     *)
(* once and wherever one of them died.  migrate.go:89-93.                    *)
RunningAgrees ==
  \A p \in Process : Serving(p) =>
    \A v \in DOMAIN proc[p].build : applied[v] = proc[p].build[v]

(* A crash, an error or a lost race in the middle of Migrate leaves an       *)
(* initial segment of the versions, from which the next start goes on.       *)
SchemaIsPrefix ==
  \A v \in Version : applied[v] # Absent => \A w \in 1..(v - 1) : applied[w] # Absent

(* bootstrap.go:42-43: a start completes what an earlier, interrupted one    *)
(* left out and duplicates nothing, also beside another start.               *)
Bootstrapped ==
  /\ admins <= 1
  /\ \A p \in Process : Serving(p) =>
       /\ \A c \in Seeds : plan[c] # "absent"
       /\ BootstrapEnabled => admins = 1

(* bootstrap.go:52: the start of a process does not undo what operations     *)
(* tuned, as long as no other process is at work during the start.           *)
RestartKeepsTuning ==
  [][\A p \in Process, c \in Seeds :
       p \in alone /\ proc'[p] # proc[p] /\ plan[c] = "tuned" => plan'[c] = "tuned"]_vars

(* The database handle is closed last: no loop runs on it and no new request *)
(* can come; a request still holds it only when the server failed or the     *)
(* shutdown ran out of time.                                                 *)
ClosedLast ==
  \A p \in Process : proc[p].stage = "closed" =>
    /\ proc[p].loops = {} /\ proc[p].listener \in {"closed", "failed"}
    /\ proc[p].requests > 0 => proc[p].hurried

(* A process that was told to stop, or whose server failed, exits: no side   *)
(* waits for ever for the other, whichever happens first.                    *)
StopEnds ==
  \A p \in Process :
    (proc[p].asked \/ proc[p].listener = "failed") ~> (proc[p] = Down)
===============================================================================
