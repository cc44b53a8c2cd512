# A TLA+ verification of HeartBridge matchmaking

HeartBridge (`src/`) introduces pairs of members of a matchmaking agency,
collects their answers, books a meetup for a pair that agreed, and settles the
paid allowances of both once the meetup took place. It is a Go service over one
SQLite database, with two background loops: a dispatcher that delivers the
notification outbox and a sweeper that expires what nobody finished.

This directory holds TLA+ models of its stateful parts, the TLC configurations
that check them on small instances, and TLAPS proofs of the safety properties. Every
definition that models code is mapped to its lines in `PROJECT.json` (`map`).

## 1. The system

All services follow one pattern, and most of the difficulty comes from it: a
request **reads** the rows it needs outside any transaction, **decides** on that
snapshot, and then runs **one write transaction** (`sqlitedb.WithinTx`, `BEGIN
IMMEDIATE`) that is supposed to fail if the snapshot is stale, mostly by comparing
the `version` column it read. Writers are serialised by the database; an error
rolls the whole transaction back.

| component | state | operations | talks to |
| --- | --- | --- | --- |
| introductions (`service/matchsvc`, `domain/matching`) | `matches`, `match_consents` | Propose, ProposeBatch, Decide, Cancel, ExpireDue | allowances and outbox in the same transaction; meetups on Cancel |
| meetups and seats (`service/schedulesvc`, `domain/meetup`) | `meetups`, `venue_slots.booked_count`, `meetup_feedbacks` | Book, CheckIn, Complete, Cancel, SubmitFeedback | moves the match; Complete settles the allowances |
| allowances (`domain/entitlement`, `sqliterepo/entitlement_repo`) | `entitlements`, `entitlement_ledger` | GrantEntitlement, Reserve, Release, Consume | only ever moved by the two above |
| outbox and dispatcher (`domain/notification`, `worker/dispatcher`) | `notification_jobs` | Enqueue, ListDue, Send, MarkSucceeded, ScheduleRetry, MarkFailed | written by the business transactions; several processes may poll one table |
| expiry sweeper (`worker/sweeper`) | none of its own | ExpireDue, session purge, replay sweep | introductions, sessions, replay records |
| sessions (`service/authsvc`, `middleware/auth`) | `sessions` | Login, Authenticate, TouchLastSeen, Logout, purge | wraps every request |
| replay protection (`idempotency`, `Server.idempotent`) | `idempotency_keys` | Lookup, perform, Remember, Sweep | wraps the mutating staff endpoints |
| member profiles (`service/membersvc`, `domain/member`) | `members.status`, `member_preferences` | RegisterMember, SavePreference, SetStatus | read by Propose |
| HTTP API (`httpapi`) | none of its own | routing, roles, rendering | all services |
| eligibility rules (`domain/member`) | none | AgeAt, Validate, Accepts, MutuallyEligible | decide on every pair of Propose |
| storage and migrations (`storage/sqlitedb`) | `schema_migrations` and the schema | Open, Migrate, WithinTx, Close | under everything |
| application lifecycle (`app`, `worker/group`, `cmd/server`) | the processes | New, bootstrap, Run, shutdown | several processes may share one database file |
| administration, audit trail, support code | catalogue rows, append-only rows | | see section 7 |

What makes each component correct, and why a test hardly reaches it:

* **introductions**: two answers, an answer and a deadline, a cancellation and a
  booking may all race. Answers and match state must agree in every order, a
  closed introduction must stay closed, and an overdue one must end.
* **allowances**: every introduction charges each member once and either spends
  or returns that charge once, on the same allowance, although `release` and
  `settle` look the allowance up again; the counters must remain the balance of
  the ledger at the boundary of the quota.
* **meetups**: match, meetup and seat are three rows moved together by five
  operations along two paths (schedulesvc's Cancel and matchsvc's releaseSlot).
* **dispatcher**: sending is outside any transaction, the outcome is recorded
  from the row as it was listed, and two dispatchers, errors and crashes may
  fall between any two steps.
* **sessions**: authentication writes to a row it checked earlier.
* **replay protection**: lookup, operation and record are three steps; when the
  operation is a batch, each pair of it commits on its own.
* **profiles**: decisions on an earlier read are written unconditionally.
* **migrations and bootstrap**: what is missing is looked up first and written later,
  by processes that may start together, with other builds, or die in between.
* **shutdown**: a signal or a failing server, loops, requests in flight and the
  goroutine of the listener end in any order, and the database must outlive them.

`PROJECT.json` lists each such hazard at its line, with the properties meant to
catch it.

## 2. Modules

```text
Lifecycle               states and transition tables of match, meetup, consent, feedback
  Introductions         introductions + meetups + seats + allowances + sweeper, one database
    IntroductionProperties   type invariant, safety, action and liveness properties
      AllowanceRefinement    Introductions implements Allowances (abstract promise)
        MCIntroductions      plans, initial states and symmetry for TLC
      Transactions           the transactions without the requests, and IInv, the invariant
      IntroductionProofs     types, the version guard, final outcomes      (TLAPS)
      RowProofs              transactions keep match, meetup, reports, announcements  (TLAPS)
        AllowanceProofs      ... and everything that is counted           (TLAPS)
          TransactionProofs  every step is a transaction on current rows  (TLAPS)
      Batches           batches of proposals behind replay protection
        MCBatches       members, criteria and payloads for TLC
        BatchProofs     ages and criteria; batches on any earlier rows    (TLAPS)
Allowances              the abstract promise: hold, then spend or return, once
Eligibility             ages and criteria (part of Batches)
Outbox                  the outbox, its dispatchers, crash and shutdown
  OutboxProofs          finished once and with reason                     (TLAPS)
Clients                 what the API components share: clients and clock
  Sessions  Replay  Profiles      (Batches has an instance of Replay)
    Frontend            the three behind the HTTP API, one request per client
      MCFrontend        sessions and owners for TLC
      FrontendProofs    sessions, profiles and replays                    (TLAPS)
Deployment              processes over one database: migrate, seed, serve, stop
  MCDeployment          three builds for TLC
  DeploymentProofs      who serves, what a start leaves, who closes       (TLAPS)
```

### Introductions

One variable per table (`match`, `consent`, `entitlement`, `ledger`, `meetup`,
`booked`, `reports`, `outbox`), the clock `now`, one request in flight per client
(`request[c]`, the snapshot it read) and the candidates the sweeper has listed
(`sweep`). A service method is two or more actions, `...Read` for the reads and
early returns and `...Commit` for the transaction:

| code | actions |
| --- | --- |
| `matchsvc.Propose` | `ProposePrepare`, per side `ReadAllowance` then `CheckActiveLimit`, `PersistProposal` |
| `matchsvc.Decide` / `Cancel` | `DecideRead` `DecideCommit` / `CancelRead` `CancelCommit` |
| `matchsvc.ExpireDue` | `SweepList`, then per candidate `SweepExpire` or `SweepSkip`; `SweepStop` when the round fails |
| `schedulesvc.Book` | `BookRead`, per side `RejectOverlaps`, `BookCommit` |
| `CheckIn`, `Complete`, `Cancel`, `SubmitFeedback` | `CheckIn...`, `Complete...`, `CancelMeetup...`, `Feedback...` `Read`/`Commit` |
| `membersvc.GrantEntitlement` | `GrantEntitlement` (its check is the index inside the insert, so it is one step) |

Each SQL statement of a transaction is an operator (`UpdateMatch`, `Reserve`,
`Consume`, `AppendLedger`, `TryBook`, ...) whose guards are its WHERE clause, its
constraint or its rows-affected check. A transaction with a failing guard has no
effect; such a request, like one that is refused, cancelled or lost in a crash,
leaves through `Abandon`.

Reads are merged into one step only where the transaction itself compares the
version of what was read first (`CompleteRead`, for instance, reads meetup and
match; had the meetup changed in between, its version guard would fail). Reads the
transaction does *not* protect are steps of their own: the count of live
introductions and the appointments of each participant.

Abstractions: a row identity is a model value (`Intro`, `Client`) or a pair
(`EntId` = member and grant, `MeetupId` = introduction and booking); a pair of members is a
set, which is what the code's canonical ordering of the two ids is for; plans
and slots are constants; who may call what, notes, names and audit rows are left
out. Eligibility of the two members may refuse a proposal, which `Abandon` covers;
`Batches` computes it. The outbox is the set of announcements; delivering them is `Outbox`.

### Outbox

Rows with state and attempt count, the due jobs in order (`ready`), and per
dispatcher the listed round, the outcome of the current `Send` and whether the
loop runs. Time is an order: a parked job is outside `ready` until its backoff
elapses, in any order relative to the others, so the result does not depend on the
backoff arithmetic. `delivered` and `failures` are history variables.

### Sessions, Replay, Profiles, Frontend

`Frontend` runs requests statement by statement: `Arrive`, `Authenticate` (read and
check), `TouchLastSeen`, then one operation: a logout, a profile edit
(`SaveRead`/`SavePreference`, `SetRead`/`SetStatus`), or an operation under replay
protection (`Miss`, `Succeed`, `Remember`, or `Replayed`); `Leave` is the end of the
request by response, refusal, error, timeout or crash. The sweeper's purges and
the clock run beside them. A key stands for actor, method, path and client key;
only staff endpoints are wrapped, and the staff sessions of an instance belong to
one account, so they share keys.

### Batches, Eligibility

`Batches` puts `Replay` around the proposals of `Introductions`, statement by
statement. `Receive` looks the key up and either replays or begins;
`ProposePair` is the next statement of `Propose` for the head of `todo` (the
eligibility of the pair included, first member before second);
`AcceptPair` reads back what was committed and `RejectPair` turns an error, at any
statement, into a verdict; `FinishWork` and `Remember` store the response; `Leave`
is the deadline, error or crash that ends a request wherever it is, with whatever it
has committed so far. Everybody may then send the same key again, also while the first
request is still running. A single proposal is a batch of one
whose refusal is an error, of which nothing is stored; a call without a key skips
`Receive` and `Remember`, and is what `Introductions` has. `Eligibility` translates
the predicates; a city stands for all its spellings, and criteria are the
sets `Normalize` makes of them.

### Deployment

One record per process: the stage of `app.New` and `app.Run`, the build it was started
with, the migrations as it read them (`read`), signal, listener, loops, requests. One
step is one statement or transaction: `ReadApplied`, `CheckApplied`/`ApplyMigration` per
version, `LookUpPlan`/`SeedPlan` per plan, `LookUpAdmin`/`RegisterAdmin`. A start fails
on an error, on a lost race, or with the next statement after a signal
(`StartFails`). `Run` has its two ends: `GiveUp` when the server fails by itself,
`BeginShutdown`/`EndShutdown` after a signal; both go through `Close` (group.Wait, the
receive from `serveErr`, the deferred close of the database) and `Exit`. A crash may
come at any time, and any build may be started next: upgrade, rollback, and a build
whose migration was edited after its release. A migration's
body and its row are one variable because they are one transaction. `alone` is a
history variable: the processes during whose start no other did a step.

## 3. Runs

Every run takes a bounded instance; `MaxTime` bounds the clock, and the
cardinalities of `Intro`, `Grant`, `Booking`, `Job` and `Session` bound what would
otherwise be an unlimited number of rows. Deadlock
is checked in every run: in no reachable state is everyone waiting.

| run | question | instance and why it is enough |
| --- | --- | --- |
| `retries` | Can stale reads exceed the limit on live introductions? Do answers, match and announcements agree in every order? Does a batch that is repeated, or run twice at once, introduce a pair twice or answer untruthfully? | four members with limits 1 and 2, two introductions, two clients that share a key, payloads that share members, of which one has an ineligible pair and one is malformed; answers race with all of it. The clock stands still: expiry is left to `overdue`, the end of a record to `frontend`, withdrawals to `meetups` |
| `meetups` | Do match, meetup, seat, holds and reports move together, and does the version guard stand for the state that was read? | starts with two consented introductions that share a member, one seat, two bookings each, two clients: bookings race for the seat, withdrawals race with completion, reports race with each other; `OnlyKnownTransitions` compares every step with the documented tables |
| `renewal` | Are the counters the balance of the ledger across exhausted and renewed plans, and is every charge settled once, on the allowance it was made on? Does the core implement `Allowances`? Is every commit legal on the rows as they are? | from the empty database; quota 1, two grants per member, two introductions, the clock may pass the answer window: every hold is at the boundary |
| `overdue` | Does an unanswered introduction end, although the sweep is bounded and may be overtaken? | two introductions, batches of one, a client that answers, cancels or does nothing |
| `outbox` | Does every job finish, is a final state earned, and is a finished job never reopened? | two jobs, two dispatchers, two attempts, batches of one: one dispatcher always works on what the other has already handled |
| `frontend` | Does a logout take effect and survive concurrent writes? Is a replayed response the response to that payload? Has an active profile criteria? | two clients, a member's and a staff session, one key, two payloads; lifetimes of 1 and a clock up to 2, so that sessions and records expire and are swept under requests in flight |
| `startup` | Does who serves have the schema, plans and administrator of its build? Does a start undo what operations tuned? Does every stop end, with the database closed last? | two processes, three builds (a release, its successor, one with an edited migration), two plans, one loop, one request: two starts interleave at every statement, and either may crash, stop or be replaced by another build |
| `overlap`, `plan_expiry`, `dispatcher_stop`, `resurrected`, `replay_race` | see section 6 | the smallest instance in which the documented property fails |

`GrantedSpec` and `ConsentedSpec` in `MCIntroductions` start `Introductions` in a
state it reaches (all plans granted; all introductions consented) so that the state
space is spent on what follows. Symmetry is used where values are interchangeable
and only safety or action properties are checked; `overdue`, `plan_expiry`,
`outbox` and `startup` check liveness and use none.

The properties that carry most of the weight:

* `ActiveLimitHolds`: the limit is read before the transaction, yet holds.
* `ActsOnCurrentRows`: each request decides on rows it read earlier, yet every change
  of the rows is one of the transactions of `Transactions`, which state their
  conditions on the rows at the moment of the commit. It is what the version guards are for.
* `HoldsSettledOnce`, `LedgerBalances`, `ImplementsAllowances`: charges are exact.
* `MeetupFollowsMatch`, `SeatsMatchMeetups`: three rows, five operations.
* `AnswersMatchState`, `ReportsDecideOutcome`: two members at the same time.
* `VersionsStandForState`: comparing versions is as good as comparing states.
* `OutcomeFinal`: no stale snapshot reopens or withdraws an ended introduction.
* `OverdueEnds`, `JobsFinish`, `StopEnds`: what must happen does.
* `PairIntroducedOnce`, `ResponsesTellTruth`: what a client that retries may rely on.
  The first is the work of the index on live pairs, not of the replay record: a
  batch that was cut off has no record, and its repetition performs.
* `RunningAgrees`, `SchemaIsPrefix`, `Bootstrapped`, `RestartKeepsTuning`,
  `ClosedLast`: start and stop of a process among others.
* `FinalStateEarned`, `FinishedOnce`: late outcomes of another dispatcher.
* `LogoutEffective`, `SessionsOnlyEnd`, `ReplaysFaithful`, `StoredOutcomeStable`,
  `ActiveHasCriteria`: the front of the service.

For every property of a passing run `PROJECT.json` has a mutant, a version of one
definition with a plausible bug (`..._Something` in the modules), under which the
run fails.

## 4. Fairness

* `Introductions`: weak fairness of `Tick`, of listing and of skipping, since the
  sweeper runs on a ticker and lists again whatever happened to the last round.
  Strong fairness, per introduction, of the transaction that expires it: a round
  may be ended by an error or a restart any number of times, but not always
  before the same candidate. This is a real assumption, not a consequence of the
  code: an introduction whose transaction fails *every* time and which is first by
  deadline ends every round (`service.go:523`) and blocks the later ones. Clients
  have no fairness: nobody has to answer, and a request may hang for ever.
* `Outbox`: weak fairness of the timers and of stopping on a deadline. Strong
  fairness of listing, of recording and of a `Send` that returns an answer, because
  failed rounds and restarts may interrupt each of them again and again.
  Nothing is assumed of `Shutdown` and `Restart`; `JobsFinish` therefore excepts the
  behaviours in which no loop is left running.
* `Deployment`: weak fairness of what a process does by itself once it is told to stop
  or its server has failed. The loops watch their context between any two statements and
  `server.Shutdown` has a timeout, so none of these steps depends on a client. Starts,
  requests, signals and crashes have no fairness.
* The other models check safety only and have no fairness.

## 5. Proofs

All theorems hold for every value of the constants: any number of members,
introductions, clients, dispatchers, processes and builds, any plans, capacities, budgets
and lifetimes. They use the ASSUMEs of the modules only, which say that the constants
are what the schema's CHECK constraints and the code's own validation make of them; every
run evaluates them. Before an invariant was proved TLC checked it on small instances.

### Introductions

**Types and versions** (`IntroductionProofs`). `TypeCorrect`: rows and snapshots keep
their shape and no counter goes below zero; there is a lemma per statement and one per
operation. `GuardsAreSound` (`[]VersionsStandForState`): if a match still has the version a
request or the sweeper read, it still is in the state they checked, because no step
keeps the version and changes the row. `OutcomesAreFinal` follows: whoever gets past the
version guard moves the match from a state its own read allowed, and no read allows
a closed one.

**The invariant.** The other properties are not inductive by themselves: whether
`PersistProposal` breaks the limit depends on what its request counted earlier.
`Transactions` therefore states each operation a second time, without its request, on
the rows as they are (`Proposed`, `Answered`, `Withdrawn`, `Scheduled`, `Met`, ...), and

```text
IInv == RowsInv /\ VersionsStandForState /\ SnapshotsStand
```

`RowsInv` relates the rows to each other: the properties of section 3 and what they
rest on, such as the slot of a meetup, the author of a report, and that nothing makes an
allowance `expired`. `SnapshotsStand` relates a snapshot to the rows: an allowance that
still has the version it was read with is active, and *the limit that was counted
after that read still has room*, because every introduction of the member also changes
an active allowance of the member, and there is only one. The argument has three parts.

1. A transaction keeps the rows in order (`RowProofs`, `AllowanceProofs`): one lemma per
   part of `RowsInv`. Seats, holds and live introductions are cardinalities; each
   is reduced to one element that joins or leaves a finite set (`JoinCounted`,
   `LeaveCounted`). What `releaseReservations` and `settle` look up again is exactly what the
   introduction holds (`HeldIsActive`), since a member has one active allowance
   and an exhausted one holds nothing.
2. A snapshot that stands goes on standing over the transactions of others
   (`SnapshotKept`), and a read makes one that stands (`ProposeReads`, `MatchReads`, ...).
3. A commit whose guards hold of a snapshot that stands is a transaction
   (`ProposalCommits`, `AnswerCommits`, ...), so every step of `Introductions` is one or
   leaves the rows alone (`StepsAreTransactions`, `InvStep`).

From it (`TransactionProofs`): `CommitsActOnCurrentRows`, `AnswersAgree`,
`MeetupsFollowMatches`, `ReportsClose`, `OutcomesAreAnnounced`, `SeatsAgree`, `LedgersBalance`,
`HoldsAreSettledOnce`, `LimitsHold`, `TransitionsAreKnown`, and `AllowancesImplemented`, the
refinement: `Init` maps to the initial state of `Allowances`, a transaction to one
of its steps or to a stutter.

### Batches

`BatchSpec` starts on any rows that satisfy `IInv` and `PairIntroducedOnce`, which by
`InvHolds` and `LivePairsAreUnique` is every state `Introductions` can come to; the run
`retries` has one such start. Every step of a batch is a step of `Introductions` or
leaves it alone (`BatchStepsAreSteps`), so `IInv`, and with it all of the above, holds in
batches too. `BatchInv` says what a batch is at: its verdicts and its remaining
pairs are the payload in order, the proposal under way is that of the first remaining
pair and has passed the rules, what is committed is that pair, and every response that
was ever produced is already true. `ResponsesAreTrue` and `IntroducedAreEligible` follow.
`PairsIntroducedOnce` needs no fact about batches at all: it is the work of the index.

`AgeIsCompletedYears` states what `AgeAt` computes by its cases against the calendar order
of birthdays; `AgeNeverFalls` and `NoMinorIntroduced` follow from it.

### Outbox

`IInv` adds to the types and to `FinalStateEarned` that the due jobs are pending and
each is due once (`DueOnce`), that an attempt counted in a row *or in the round of any
dispatcher* was really refused (`Counted`; a late retry may write an older count, never
one that was not earned), and that the outcome of `Send` is about the head of the
round. `FinalStatesAreEarned` and `FinishedJobsStay` follow. The lemmas on `RemoveFirst`
(`RemoveFirstKeeps`, `RemovedOnce`) rest on the least element of a set of numbers
(`LeastNatural`), by well-founded induction from the library.

### Frontend

Its three components share a clock and the requests, and no more. Each is proved
about its projection: every step of `Frontend` is a step of the sessions, of the profiles
and of the replay records, or leaves them alone (`SessionSteps`, `ProfileSteps`,
`ReplaySteps`). `SessionInv` has that a request that arrived after the end of its
session finds it over whenever it is checked; `ProfileInv` needs only the types beside
the property (a save writes the criteria with the status, a change to active looks for
the criteria in the step that writes it, and criteria are never removed); `ReplayInv`
that calls in flight and stored records are outcomes of operations that took effect for
their key and payload.

### Deployment

`IInv` says of each process what it may rely on at its stage: below the version it has
got to, the schema has the migrations of its build (`Migrating`); below the plan it
has got to, plans exist (`Seeding`); the listener is closed before the loops are waited
for (`Stopping`). All of it is about things that only grow, so a process keeps it while
others move (`StillSound`), and each action is checked for the one process that moves
(`OneMoves`). `TuningSurvivesRestarts` needs `Undisturbed` as well: a plan that an
undisturbed start is about to write is still absent.

### What is only model-checked

* Liveness (`OverdueEnds`, `JobsFinish`, `StopEnds`): neither fairness nor ENABLED is in
  the reach of the proof system.
* What the five runs of section 6 refute, of course.

Every invariant and action property of the passing runs, and the refinement, is proved.

## 6. Where code and documentation disagree

Each is a run that TLC ends with a counterexample; the quoted lines are in
`PROJECT.json` (`findings`).

* `overlap`: two bookings for two introductions of one member, each checked before
  the other committed, give that member two appointments at the same time.
* `plan_expiry`: no code moves an allowance to `expired`; past its validity it
  stays active, refuses every reservation and blocks its own renewal.
* `dispatcher_stop`: a deadline inside the gateway is taken for the end of the loop.
* `resurrected`: a status decided before a retirement and written after it reactivates
  the retired profile.
* `replay_race`: two concurrent calls with one key and different bodies both succeed.

Met while modelling and without a run of their own:

* Two steps are outside the tables of which `README.md:59` says that every transition
  is validated against them (`match.go:33`: "the single source of truth"):
  `scheduled -> consented` (`schedulesvc/service.go:314`) and a `checked_in` meetup that is
  cancelled with its match (`matchsvc/service.go:476`). `OnlyKnownTransitions` names
  both and shows that there is no third.
* `Decide` compares no version when the answer leaves the match pending
  (`matchsvc/service.go:335`). A first acceptance decided on a stale snapshot is therefore
  recorded on an introduction that was cancelled or expired in between, where
  `matching_flow_test.go:540` expects a refusal. No invariant of the match is broken.
* A pair of a batch whose introduction was committed but could not be read back
  (`matchsvc/service.go:117`) gets the verdict "rejected", although `batch.go:38-40` says
  that a rejected pair leaves nothing behind. `ResponsesTellTruth` therefore
  binds accepted verdicts only.
* `bootstrap.go:52` says that seeding must not overwrite a tuned plan. The look-up and the
  upsert are two statements: a process whose start is overtaken by another, which seeds the
  plan and serves a request that tunes it, resets it. `RestartKeepsTuning` holds for a
  start that nobody overtakes.
* `app.go:168` calls the service ready when the schema "is at the expected version";
  `Ready` asks for any version above zero. A build that is already serving also
  goes on serving when a newer one migrates the database under it: the refusal of unknown
  versions (`migrate.go:114`) is a check of the start only.

## 7. Not modelled, and why

* `PublishSlot` inserts rows that are constants here. `UpsertPlan` is in `Deployment`, as a
  write a start must not undo; what a changed limit or window means for
  allowances granted before is not modelled.
* Audit trail: append-only rows in the same transactions, read only by a listing.
* A pause or retirement between the eligibility check and the transaction
  (`matchsvc/service.go:147`): the outcome is that of a proposal that came first, which the
  code allows, so no property of the rows tells them apart.
* A consented introduction may expire by the table but by no code path; only a
  withdrawal ends it, and nobody has to withdraw.
* Account suspension: checked at login, but no operation ever sets it.
* Passwords, tokens, further staff accounts, decoding, rendering, paging, filters,
  configuration, logging, readiness: no state that another component depends on.
* The exponential backoff: `Outbox` lets parked jobs become due in any order instead.

## 8. Plan

1. `Introductions` with its properties, refinement and runs; `Outbox`; `Sessions`,
   `Replay`, `Profiles` and `Frontend`; type correctness, the version guard and the
   finality of outcomes proved. *Done.*
2. `Replay` around batches of proposals with `Eligibility`; migrations, bootstrap and
   shutdown; the transition tables as a positive property. *Done.*
3. Prove the safety properties of all runs and the refinement of `Allowances`. *Done.*
4. To prove still: that `Sessions`, `Replay` and `Profiles` by themselves have the
   properties `Frontend` has, and an abstract promise of the outbox (pending, then finished
   once) which `Outbox` implements.
5. Candidates for later models: plans that change under granted allowances, and
   slots that are published while bookings run.
