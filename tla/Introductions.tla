---------------------------- MODULE Introductions ----------------------------
(***************************************************************************)
(* The introduction path and the allowance path of HeartBridge over one    *)
(* SQLite database.  A request first READS, outside any transaction, then  *)
(* runs ONE write transaction guarded by the versions it read.  Each read  *)
(* whose result is used later is a step that leaves a snapshot in          *)
(* request[c]; the transaction is one atomic step (BEGIN IMMEDIATE         *)
(* serialises writers, an error rolls everything back).  A transaction     *)
(* whose guards fail has no effect: the request is then abandoned, as it   *)
(* may be at any time by a crash or a cancelled context.                   *)
(***************************************************************************)
EXTENDS Lifecycle

CONSTANTS Member, Intro, Client,
          Grant,       \* the successive service plans of one member
          Booking,     \* the successive meetups of one introduction
          Slot, NoSlot,
          Plan,        \* [Member -> plan]: the plan a member is granted
          Capacity, StartAt, EndAt,   \* of a venue slot
          Batch,       \* candidates of one sweep
          MaxTime      \* bound of the clock

EntId    == Member \X Grant
MeetupId == Intro \X Booking

PlanType == [quota : Nat \ {0}, maxActive : Nat \ {0},
             window : Nat \ {0}, validFor : Nat \ {0}]

ASSUME PlanAssumption == Plan \in [Member -> PlanType]
ASSUME SlotAssumption == /\ NoSlot \notin Slot
                         /\ Capacity \in [Slot -> Nat \ {0}]
                         /\ StartAt \in [Slot -> Nat]
                         /\ EndAt \in [Slot -> Nat]
                         /\ \A s \in Slot : StartAt[s] < EndAt[s]
ASSUME BoundAssumption == Batch \in Nat \ {0} /\ MaxTime \in Nat

VARIABLES now,          \* clock.Clock
          match,        \* matches
          consent,      \* match_consents
          entitlement,  \* entitlements
          ledger,       \* entitlement_ledger
          meetup,       \* meetups
          booked,       \* venue_slots.booked_count
          reports,      \* meetup_feedbacks
          outbox,       \* notification_jobs, as announcements
          request,      \* what each request in flight has read
          sweep         \* the candidates the sweeper has listed

rows == <<match, consent, entitlement, ledger, meetup, booked, reports, outbox>>
vars == <<now, rows, request, sweep>>

NoMatch       == [state |-> "none", pair |-> {}, version |-> 0, deadline |-> 0]
NoEntitlement == [state |-> "none", used |-> 0, reserved |-> 0, version |-> 0,
                  from |-> 0, until |-> 0]
NoMeetup      == [state |-> "none", slot |-> NoSlot, version |-> 0]
Idle          == [op |-> "idle"]

Init ==
  /\ now = 0
  /\ match = [i \in Intro |-> NoMatch]
  /\ consent = [i \in Intro |-> [m \in Member |-> "pending"]]
  /\ entitlement = [e \in EntId |-> NoEntitlement]
  /\ ledger = {}
  /\ meetup = [u \in MeetupId |-> NoMeetup]
  /\ booked = [s \in Slot |-> 0]
  /\ reports = {}
  /\ outbox = {}
  /\ request = [c \in Client |-> Idle]
  /\ sweep = {}

-----------------------------------------------------------------------------
(* Queries *)

ActivePairExists(pair) ==
  \E i \in Intro : match[i].state \in ActiveStates /\ match[i].pair = pair

ActiveMatches(m) == {i \in Intro : match[i].state \in ActiveStates /\ m \in match[i].pair}

CountActiveByMember(m) == Cardinality(ActiveMatches(m))

(* GetActiveByMember: the unique index leaves at most one. *)
ActiveEntitlements(m) == {e \in EntId : e[1] = m /\ entitlement[e].state = "active"}

Total(e) == Plan[e[1]].quota

CanReserve(e, at) ==
  /\ entitlement[e].state = "active"
  /\ entitlement[e].from <= at
  /\ at < entitlement[e].until
  /\ entitlement[e].used + entitlement[e].reserved < Total(e)

ActiveMeetups(i) == {u \in MeetupId : u[1] = i /\ meetup[u].state \in HoldsSeat}

Overlaps(s, t) == StartAt[s] < EndAt[t] /\ StartAt[t] < EndAt[s]

Bookable(s) == now < StartAt[s] /\ booked[s] < Capacity[s]

(* ListConsents, of which BookRead asks that all are accepted.               *)
AllAccepted(i) == \A m \in match[i].pair : consent[i][m] = "accepted"

MemberBookings(m) ==
  {u \in MeetupId : meetup[u].state \in HoldsSeat /\ m \in match[u[1]].pair}

-----------------------------------------------------------------------------
(* Statements of a transaction.  A definition whose name has an underscore   *)
(* is a mutant: the same statement with a bug, used only to show that the    *)
(* properties notice it.                                                     *)

MoveTo(row, target) == [row EXCEPT !.state = target, !.version = @ + 1]

CreateMatch_Unindexed(i, pair, deadline) ==
  /\ match[i].state = "none"
  /\ match' = [match EXCEPT ![i] = [state |-> "pending_consent", pair |-> pair,
                                    version |-> 1, deadline |-> deadline]]
  /\ consent' = [consent EXCEPT ![i] = [m \in Member |-> "pending"]]

(* matches.Create: the partial index admits one live row per pair.           *)
CreateMatch(i, pair, deadline) ==
  /\ match[i].state = "none"
  /\ ~ActivePairExists(pair)
  /\ match' = [match EXCEPT ![i] = [state |-> "pending_consent", pair |-> pair,
                                    version |-> 1, deadline |-> deadline]]
  /\ consent' = [consent EXCEPT ![i] = [m \in Member |-> "pending"]]

(* RecordDecision: an answer is given once.                                  *)
RecordDecision(i, m, answer) ==
  /\ consent[i][m] = "pending"
  /\ consent' = [consent EXCEPT ![i][m] = answer]

UpdateMatch_Unguarded(i, version, target) ==
  match' = [match EXCEPT ![i] = MoveTo(match[i], target)]

UpdateMatch_SameVersion(i, version, target) ==
  /\ match[i].version = version
  /\ match' = [match EXCEPT ![i].state = target]

(* matches.UpdateState: only the version is compared. *)
UpdateMatch(i, version, target) ==
  /\ match[i].version = version
  /\ match' = [match EXCEPT ![i] = MoveTo(match[i], target)]

(* meetups.Create: one live meetup per match.                                *)
CreateMeetup(u, i, s) ==
  /\ u[1] = i /\ meetup[u].state = "none" /\ ActiveMeetups(i) = {}
  /\ meetup' = [meetup EXCEPT ![u] = [state |-> "booked", slot |-> s, version |-> 1]]

UpdateMeetup_Unguarded(u, version, target) ==
  meetup' = [meetup EXCEPT ![u] = MoveTo(meetup[u], target)]

UpdateMeetup(u, version, target) ==
  /\ meetup[u].version = version
  /\ meetup' = [meetup EXCEPT ![u] = MoveTo(meetup[u], target)]

Enqueue_OnlyOne(kind, i, pair) ==
  outbox' = outbox \cup {[kind |-> kind, intro |-> i, member |-> CHOOSE m \in pair : TRUE]}

(* One notification job per participant, in the transaction of the change.  *)
Enqueue(kind, i, pair) ==
  outbox' = outbox \cup {[kind |-> kind, intro |-> i, member |-> m] : m \in pair}

(* AppendLedger for every entitlement of es: unique over (entitlement, match, reason). *)
AppendLedger(es, i, reason) ==
  /\ \A e \in es : [ent |-> e, intro |-> i, reason |-> reason] \notin ledger
  /\ ledger' = ledger \cup {[ent |-> e, intro |-> i, reason |-> reason] : e \in es}

Reserve_Exhausts(es) ==
  entitlement' = [e \in EntId |->
    IF e \in es
    THEN [entitlement[e] EXCEPT
            !.state = IF entitlement[e].reserved + 1 >= Total(e) THEN "exhausted" ELSE @,
            !.reserved = @ + 1, !.version = @ + 1]
    ELSE entitlement[e]]

Reserve(es) ==
  entitlement' = [e \in EntId |->
    IF e \in es THEN [entitlement[e] EXCEPT !.reserved = @ + 1, !.version = @ + 1]
    ELSE entitlement[e]]

Release(es) ==
  /\ \A e \in es : entitlement[e].reserved > 0
  /\ entitlement' = [e \in EntId |->
       IF e \in es THEN [entitlement[e] EXCEPT !.reserved = @ - 1, !.version = @ + 1]
       ELSE entitlement[e]]

Consume_KeepsHold(es) ==
  entitlement' = [e \in EntId |->
    IF e \in es THEN [entitlement[e] EXCEPT !.used = @ + 1, !.version = @ + 1]
    ELSE entitlement[e]]

Consume(es) ==
  /\ \A e \in es : entitlement[e].reserved > 0 /\ entitlement[e].used < Total(e)
  /\ entitlement' = [e \in EntId |->
       IF e \in es
       THEN [entitlement[e] EXCEPT
               !.state = IF entitlement[e].used + 1 >= Total(e) THEN "exhausted" ELSE @,
               !.reserved = @ - 1, !.used = @ + 1, !.version = @ + 1]
       ELSE entitlement[e]]

(* releaseReservations: the entitlements the participants hold NOW; a       *)
(* participant without an active one is skipped.                            *)
ReleaseReservations(i, from) ==
  IF from \notin HoldsQuota THEN UNCHANGED <<entitlement, ledger>>
  ELSE LET es == UNION {ActiveEntitlements(m) : m \in match[i].pair}
       IN  Release(es) /\ AppendLedger(es, i, "release")

Settle_OneSide(i) ==
  LET es == ActiveEntitlements(CHOOSE m \in match[i].pair : TRUE)
  IN  Consume(es) /\ AppendLedger(es, i, "consume")

(* settle: both participants must have an active entitlement.               *)
Settle(i) ==
  LET es == UNION {ActiveEntitlements(m) : m \in match[i].pair}
  IN  /\ \A m \in match[i].pair : ActiveEntitlements(m) # {}
      /\ Consume(es)
      /\ AppendLedger(es, i, "consume")

TryBook(s) ==
  /\ booked[s] < Capacity[s]
  /\ booked' = [booked EXCEPT ![s] = @ + 1]

FreeSeat(s) ==
  /\ booked[s] > 0
  /\ booked' = [booked EXCEPT ![s] = @ - 1]

ReleaseSlot_KeepsSeat(i) ==
  /\ UNCHANGED booked
  /\ \/ ActiveMeetups(i) = {} /\ UNCHANGED meetup
     \/ \E u \in ActiveMeetups(i) : UpdateMeetup(u, meetup[u].version, "cancelled")

(* releaseSlot: whatever live meetup the match has now is cancelled.        *)
ReleaseSlot(i) ==
  \/ ActiveMeetups(i) = {} /\ UNCHANGED <<meetup, booked>>
  \/ \E u \in ActiveMeetups(i) :
       /\ UpdateMeetup(u, meetup[u].version, "cancelled")
       /\ FreeSeat(meetup[u].slot)

ReportsOf(u, rs) == {r \in rs : r.meetup = u}

(* AddFeedback: one report per author and meetup.                            *)
AddFeedback(u, m, intent) ==
  /\ \A p \in ReportsOf(u, reports) : p.author # m
  /\ reports' = reports \cup {[meetup |-> u, author |-> m, intent |-> intent]}

Begin(c, snapshot) == request[c] = Idle /\ request' = [request EXCEPT ![c] = snapshot]

Finish(c) == request' = [request EXCEPT ![c] = Idle]

-----------------------------------------------------------------------------
(* Clock, crash, grant *)

Tick == now < MaxTime /\ now' = now + 1 /\ UNCHANGED <<rows, request, sweep>>

(* A refused, rolled back, cancelled or crashed request.                    *)
Abandon(c) == request[c] # Idle /\ Finish(c) /\ UNCHANGED <<now, rows, sweep>>

(* membersvc.GrantEntitlement: refused by the index on active plans.        *)
GrantEntitlement(e) ==
  /\ entitlement[e].state = "none"
  /\ ActiveEntitlements(e[1]) = {}
  /\ entitlement' = [entitlement EXCEPT ![e] =
       [NoEntitlement EXCEPT !.state = "active", !.from = now,
                             !.until = now + Plan[e[1]].validFor]]
  /\ UNCHANGED <<now, match, consent, ledger, meetup, booked, reports, outbox, request, sweep>>

-----------------------------------------------------------------------------
(* matchsvc.Propose: prepare reads the pair, then for each side the          *)
(* entitlement and AFTER it the number of live introductions; the            *)
(* transaction relies on the entitlement version it read.                    *)

ProposePrepare(c, a, b) ==
  /\ a # b
  /\ ~ActivePairExists({a, b})
  /\ Begin(c, [op |-> "propose", pair |-> {a, b}, at |-> now, held |-> {}, counted |-> {}])
  /\ UNCHANGED <<now, rows, sweep>>

ReadAllowance(c, e) ==
  LET r == request[c]
  IN  /\ r.op = "propose"
      /\ e[1] \in r.pair \ r.counted
      /\ {h.ent[1] : h \in r.held} = r.counted
      /\ CanReserve(e, r.at)
      /\ request' = [request EXCEPT ![c].held =
                       @ \cup {[ent |-> e, version |-> entitlement[e].version]}]
      /\ UNCHANGED <<now, rows, sweep>>

CheckActiveLimit(c, m) ==
  LET r == request[c]
  IN  /\ r.op = "propose"
      /\ m \in {h.ent[1] : h \in r.held} \ r.counted
      /\ CountActiveByMember(m) < Plan[m].maxActive
      /\ request' = [request EXCEPT ![c].counted = @ \cup {m}]
      /\ UNCHANGED <<now, rows, sweep>>

ShortestWindow(windows) == CHOOSE w \in windows : \A v \in windows : w <= v

ConsentDeadline_Sign(at, pair) == at - ShortestWindow({Plan[m].window : m \in pair})

ConsentDeadline(at, pair) == at + ShortestWindow({Plan[m].window : m \in pair})

CanHold_AnyVersion(h, at) == CanReserve(h.ent, at)

(* The WHERE clause of entitlements.Reserve.                                 *)
CanHold(h, at) == entitlement[h.ent].version = h.version /\ CanReserve(h.ent, at)

PersistProposal(c, i) ==
  LET r  == request[c]
      es == {h.ent : h \in r.held}
  IN  /\ r.op = "propose"
      /\ r.counted = r.pair
      /\ CreateMatch(i, r.pair, ConsentDeadline(r.at, r.pair))
      /\ \A h \in r.held : CanHold(h, r.at)
      /\ Reserve(es)
      /\ AppendLedger(es, i, "reserve")
      /\ Enqueue("match_proposed", i, r.pair)
      /\ Finish(c)
      /\ UNCHANGED <<now, meetup, booked, reports, sweep>>

-----------------------------------------------------------------------------
(* matchsvc.Decide *)

DecideRead(c, i, m, answer) ==
  /\ m \in match[i].pair
  /\ match[i].state = "pending_consent"
  /\ now < match[i].deadline
  /\ Begin(c, [op |-> "decide", intro |-> i, member |-> m, answer |-> answer,
               version |-> match[i].version])
  /\ UNCHANGED <<now, rows, sweep>>

DecideCommit(c) ==
  LET r == request[c]
      i == r.intro
      target == NextState([consent[i] EXCEPT ![r.member] = r.answer], match[i].pair)
  IN  /\ r.op = "decide"
      /\ RecordDecision(i, r.member, r.answer)
      /\ \/ /\ target = "pending_consent"
            /\ UNCHANGED <<match, entitlement, ledger, outbox>>
         \/ /\ target = "consented"
            /\ UpdateMatch(i, r.version, target)
            /\ Enqueue("meetup_booked", i, match[i].pair)
            /\ UNCHANGED <<entitlement, ledger>>
         \/ /\ target = "closed_failed"
            /\ UpdateMatch(i, r.version, target)
            /\ ReleaseReservations(i, "pending_consent")
            /\ Enqueue("match_closed", i, match[i].pair)
      /\ Finish(c)
      /\ UNCHANGED <<now, meetup, booked, reports, sweep>>

-----------------------------------------------------------------------------
(* matchsvc.Cancel: by a participant or by staff *)

CancelRead(c, i) ==
  /\ MatchCanTransition(match[i].state, "cancelled")
  /\ Begin(c, [op |-> "cancel", intro |-> i, from |-> match[i].state,
               version |-> match[i].version])
  /\ UNCHANGED <<now, rows, sweep>>

CancelCommit(c) ==
  LET r == request[c]
      i == r.intro
  IN  /\ r.op = "cancel"
      /\ UpdateMatch(i, r.version, "cancelled")
      /\ IF r.from \in OccupiesSlot THEN ReleaseSlot(i) ELSE UNCHANGED <<meetup, booked>>
      /\ ReleaseReservations(i, r.from)
      /\ Enqueue("match_closed", i, match[i].pair)
      /\ Finish(c)
      /\ UNCHANGED <<now, consent, reports, sweep>>

-----------------------------------------------------------------------------
(* matchsvc.ExpireDue, driven by the sweeper: a listing of at most Batch     *)
(* candidates by deadline, then one transaction per candidate.               *)

Overdue == {i \in Intro : match[i].state = "pending_consent" /\ match[i].deadline <= now}

SweepList(due) ==
  /\ sweep = {}
  /\ due # {}
  /\ due \subseteq Overdue
  /\ Cardinality(due) <= Batch
  /\ due = Overdue \/ Cardinality(due) = Batch
  /\ \A i \in due, j \in Overdue \ due : match[i].deadline <= match[j].deadline
  /\ sweep' = {[intro |-> i, version |-> match[i].version] : i \in due}
  /\ UNCHANGED <<now, rows, request>>

SweepExpire(d) ==
  /\ d \in sweep
  /\ UpdateMatch(d.intro, d.version, "expired")
  /\ ReleaseReservations(d.intro, "pending_consent")
  /\ Enqueue("match_closed", d.intro, match[d.intro].pair)
  /\ sweep' = sweep \ {d}
  /\ UNCHANGED <<now, consent, meetup, booked, reports, request>>

SweepSkip_Retries(d) ==
  /\ d \in sweep
  /\ match[d.intro].version # d.version
  /\ UNCHANGED vars

(* A version conflict is skipped, the other candidates are still processed.  *)
SweepSkip(d) ==
  /\ d \in sweep
  /\ match[d.intro].version # d.version
  /\ sweep' = sweep \ {d}
  /\ UNCHANGED <<now, rows, request>>

(* Any other error, a crash or a shutdown ends the round.                    *)
SweepStop == sweep # {} /\ sweep' = {} /\ UNCHANGED <<now, rows, request>>

-----------------------------------------------------------------------------
(* schedulesvc.Book: the appointments of each participant are read before    *)
(* the transaction, which does not look at them again.                       *)

BookRead(c, i, s) ==
  /\ MatchCanTransition(match[i].state, "scheduled")
  /\ AllAccepted(i)
  /\ Bookable(s)
  /\ Begin(c, [op |-> "book", intro |-> i, slot |-> s, version |-> match[i].version,
               clear |-> {}])
  /\ UNCHANGED <<now, rows, sweep>>

RejectOverlaps(c, m) ==
  LET r == request[c]
  IN  /\ r.op = "book"
      /\ m \in match[r.intro].pair \ r.clear
      /\ \A u \in MemberBookings(m) : ~Overlaps(meetup[u].slot, r.slot)
      /\ request' = [request EXCEPT ![c].clear = @ \cup {m}]
      /\ UNCHANGED <<now, rows, sweep>>

BookCommit(c, u) ==
  LET r == request[c]
      i == r.intro
  IN  /\ r.op = "book"
      /\ r.clear = match[i].pair
      /\ TryBook(r.slot)
      /\ CreateMeetup(u, i, r.slot)
      /\ UpdateMatch(i, r.version, "scheduled")
      /\ Enqueue("meetup_booked", i, match[i].pair)
      /\ Finish(c)
      /\ UNCHANGED <<now, consent, entitlement, ledger, reports, sweep>>

-----------------------------------------------------------------------------
(* schedulesvc.CheckIn, Complete, Cancel *)

CheckInRead(c, u) ==
  /\ MeetupCanTransition(meetup[u].state, "checked_in")
  /\ Begin(c, [op |-> "check_in", meetup |-> u, version |-> meetup[u].version])
  /\ UNCHANGED <<now, rows, sweep>>

CheckInCommit(c) ==
  LET r == request[c]
  IN  /\ r.op = "check_in"
      /\ UpdateMeetup(r.meetup, r.version, "checked_in")
      /\ Finish(c)
      /\ UNCHANGED <<now, match, consent, entitlement, ledger, booked, reports, outbox, sweep>>

(* The meetup is read before its match; both versions guard the             *)
(* transaction, so the two reads are one step: a commit needs the meetup    *)
(* row unchanged from its own read on.                                      *)
CompleteRead(c, u) ==
  /\ MeetupCanTransition(meetup[u].state, "completed")
  /\ MatchCanTransition(match[u[1]].state, "met")
  /\ Begin(c, [op |-> "complete", meetup |-> u, version |-> meetup[u].version,
               matchVersion |-> match[u[1]].version])
  /\ UNCHANGED <<now, rows, sweep>>

CompleteCommit(c) ==
  LET r == request[c]
      i == r.meetup[1]
  IN  /\ r.op = "complete"
      /\ UpdateMeetup(r.meetup, r.version, "completed")
      /\ UpdateMatch(i, r.matchVersion, "met")
      /\ Settle(i)
      /\ Enqueue("meetup_completed", i, match[i].pair)
      /\ Finish(c)
      /\ UNCHANGED <<now, consent, booked, reports, sweep>>

CancelMeetupRead(c, u) ==
  /\ MeetupCanTransition(meetup[u].state, "cancelled")
  /\ Begin(c, [op |-> "cancel_meetup", meetup |-> u, version |-> meetup[u].version,
               from |-> match[u[1]].state, matchVersion |-> match[u[1]].version])
  /\ UNCHANGED <<now, rows, sweep>>

CancelMeetupCommit(c) ==
  LET r == request[c]
  IN  /\ r.op = "cancel_meetup"
      /\ UpdateMeetup(r.meetup, r.version, "cancelled")
      /\ FreeSeat(meetup[r.meetup].slot)
      /\ IF r.from = "scheduled" THEN UpdateMatch(r.meetup[1], r.matchVersion, "consented")
                                 ELSE UNCHANGED match
      /\ Finish(c)
      /\ UNCHANGED <<now, consent, entitlement, ledger, reports, outbox, sweep>>

-----------------------------------------------------------------------------
(* schedulesvc.SubmitFeedback *)

FeedbackRead(c, u, m, intent) ==
  /\ meetup[u].state = "completed"
  /\ m \in match[u[1]].pair
  /\ Begin(c, [op |-> "feedback", meetup |-> u, member |-> m, intent |-> intent,
               from |-> match[u[1]].state, matchVersion |-> match[u[1]].version])
  /\ UNCHANGED <<now, rows, sweep>>

FeedbackCommit(c) ==
  LET r   == request[c]
      i   == r.meetup[1]
      all == ReportsOf(r.meetup, reports')
  IN  /\ r.op = "feedback"
      /\ AddFeedback(r.meetup, r.member, r.intent)
      /\ IF Complete(all) /\ r.from = "met"
         THEN /\ UpdateMatch(i, r.matchVersion,
                   IF MutualContinue(all) THEN "closed_success" ELSE "closed_failed")
              /\ Enqueue("match_closed", i, match[i].pair)
         ELSE UNCHANGED <<match, outbox>>
      /\ Finish(c)
      /\ UNCHANGED <<now, consent, entitlement, ledger, meetup, booked, sweep>>

-----------------------------------------------------------------------------
Propose(c) ==
  \/ \E a, b \in Member : ProposePrepare(c, a, b)
  \/ \E e \in EntId : ReadAllowance(c, e)
  \/ \E m \in Member : CheckActiveLimit(c, m)
  \/ \E i \in Intro : PersistProposal(c, i)

Decide(c) ==
  \/ \E i \in Intro, m \in Member, answer \in {"accepted", "declined"} :
       DecideRead(c, i, m, answer)
  \/ DecideCommit(c)

Cancel(c) == (\E i \in Intro : CancelRead(c, i)) \/ CancelCommit(c)

Book(c) ==
  \/ \E i \in Intro, s \in Slot : BookRead(c, i, s)
  \/ \E m \in Member : RejectOverlaps(c, m)
  \/ \E u \in MeetupId : BookCommit(c, u)

CheckIn(c)       == (\E u \in MeetupId : CheckInRead(c, u)) \/ CheckInCommit(c)
CompleteMeetup(c) == (\E u \in MeetupId : CompleteRead(c, u)) \/ CompleteCommit(c)
CancelMeetup(c)  == (\E u \in MeetupId : CancelMeetupRead(c, u)) \/ CancelMeetupCommit(c)

SubmitFeedback(c) ==
  \/ \E u \in MeetupId, m \in Member, intent \in Intent : FeedbackRead(c, u, m, intent)
  \/ FeedbackCommit(c)

ExpireDue ==
  \/ \E due \in SUBSET Overdue : SweepList(due)
  \/ \E d \in sweep : SweepExpire(d) \/ SweepSkip(d)
  \/ SweepStop

Next ==
  \/ Tick
  \/ \E e \in EntId : GrantEntitlement(e)
  \/ ExpireDue
  \/ \E c \in Client :
       \/ Propose(c) \/ Decide(c) \/ Cancel(c)
       \/ Book(c) \/ CheckIn(c) \/ CompleteMeetup(c) \/ CancelMeetup(c) \/ SubmitFeedback(c)
       \/ Abandon(c)

Spec == Init /\ [][Next]_vars
==============================================================================
