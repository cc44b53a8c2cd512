-------------------------- MODULE IntroductionProofs --------------------------
(* Theorems about Introductions, for every value of the constants.           *)
EXTENDS IntroductionProperties, TLAPS

(* The minimum of the two consent windows exists, so a deadline is a time.   *)
LEMMA DeadlineIsTime ==
  ASSUME NEW at \in Nat, NEW pair \in Couple
  PROVE  ConsentDeadline(at, pair) \in Nat
<1> DEFINE W == {Plan[m].window : m \in pair}
<1>1. PICK m, n \in Member : pair = {m, n}
  BY DEF Couple
<1>2. Plan[m].window \in Nat /\ Plan[n].window \in Nat
  BY PlanAssumption DEF PlanType
<1>3. W = {Plan[m].window, Plan[n].window}
  BY <1>1
<1>4. \E w \in W : \A v \in W : w <= v
  <2>1. CASE Plan[m].window <= Plan[n].window
    BY <1>2, <1>3, <2>1
  <2>2. CASE Plan[n].window <= Plan[m].window
    BY <1>2, <1>3, <2>2
  <2>3. QED BY <1>2, <2>1, <2>2
<1> HIDE DEF W
<1>5. ShortestWindow(W) \in W
  BY <1>4 DEF ShortestWindow
<1>6. QED BY <1>2, <1>3, <1>5 DEF ConsentDeadline, W
-----------------------------------------------------------------------------
(* The statements of a transaction keep the rows in their types.             *)

LEMMA UpdateMatchType ==
  ASSUME match \in [Intro -> MatchRow], NEW i \in Intro, NEW version,
         NEW target \in MatchState, UpdateMatch(i, version, target)
  PROVE  match' \in [Intro -> MatchRow]
<1>1. match[i].version + 1 \in Nat
  BY DEF MatchRow
<1>2. MoveTo(match[i], target) \in MatchRow
  BY <1>1, Zenon DEF MatchRow, MoveTo
<1>3. QED BY <1>2 DEF UpdateMatch

LEMMA UpdateMeetupType ==
  ASSUME meetup \in [MeetupId -> MeetupRow], NEW u \in MeetupId, NEW version,
         NEW target \in MeetupState, UpdateMeetup(u, version, target)
  PROVE  meetup' \in [MeetupId -> MeetupRow]
<1>1. meetup[u].version + 1 \in Nat
  BY DEF MeetupRow
<1>2. MoveTo(meetup[u], target) \in MeetupRow
  BY <1>1, Zenon DEF MeetupRow, MoveTo
<1>3. QED BY <1>2 DEF UpdateMeetup

LEMMA EnqueueType ==
  ASSUME outbox \subseteq Announcement, NEW i \in Intro, NEW pair \in SUBSET Member,
         NEW kind \in {"match_proposed", "meetup_booked", "meetup_completed", "match_closed"},
         Enqueue(kind, i, pair)
  PROVE  outbox' \subseteq Announcement
BY DEF Enqueue, Announcement

LEMMA AppendLedgerType ==
  ASSUME ledger \subseteq LedgerEntry, NEW es \in SUBSET EntId, NEW i \in Intro,
         NEW reason \in {"reserve", "release", "consume"}, AppendLedger(es, i, reason)
  PROVE  ledger' \subseteq LedgerEntry
BY DEF AppendLedger, LedgerEntry

LEMMA HoldMoved ==
  ASSUME NEW r \in EntitlementRow, NEW h \in Nat
  PROVE  [r EXCEPT !.reserved = h, !.version = @ + 1] \in EntitlementRow
<1>1. r.version + 1 \in Nat
  BY DEF EntitlementRow
<1>2. QED BY <1>1, Zenon DEF EntitlementRow

LEMMA HoldSpent ==
  ASSUME NEW r \in EntitlementRow, NEW st \in EntitlementState, NEW h \in Nat
  PROVE  [r EXCEPT !.state = st, !.reserved = h, !.used = @ + 1, !.version = @ + 1]
           \in EntitlementRow
<1>1. r.version + 1 \in Nat /\ r.used + 1 \in Nat
  BY DEF EntitlementRow
<1>2. QED BY <1>1, Zenon DEF EntitlementRow

LEMMA ReserveType ==
  ASSUME entitlement \in [EntId -> EntitlementRow], NEW es \in SUBSET EntId, Reserve(es)
  PROVE  entitlement' \in [EntId -> EntitlementRow]
<1>1. ASSUME NEW e \in EntId PROVE entitlement'[e] \in EntitlementRow
  <2>1. CASE e \in es
    <3>1. entitlement[e].reserved + 1 \in Nat
      BY DEF EntitlementRow
    <3>2. QED BY <2>1, <3>1, HoldMoved DEF Reserve
  <2>2. CASE e \notin es
    BY <2>2 DEF Reserve
  <2>3. QED BY <2>1, <2>2
<1>2. QED BY <1>1 DEF Reserve

LEMMA ReleaseType ==
  ASSUME entitlement \in [EntId -> EntitlementRow], NEW es \in SUBSET EntId, Release(es)
  PROVE  entitlement' \in [EntId -> EntitlementRow]
<1>1. ASSUME NEW e \in EntId PROVE entitlement'[e] \in EntitlementRow
  <2>1. CASE e \in es
    <3>1. entitlement[e].reserved - 1 \in Nat
      <4>1. entitlement[e].reserved > 0
        BY <2>1, Zenon DEF Release
      <4>2. entitlement[e].reserved \in Nat
        BY DEF EntitlementRow
      <4>3. QED BY <4>1, <4>2
    <3>2. QED BY <2>1, <3>1, HoldMoved DEF Release
  <2>2. CASE e \notin es
    BY <2>2 DEF Release
  <2>3. QED BY <2>1, <2>2
<1>2. QED BY <1>1 DEF Release

LEMMA ConsumeType ==
  ASSUME entitlement \in [EntId -> EntitlementRow], NEW es \in SUBSET EntId, Consume(es)
  PROVE  entitlement' \in [EntId -> EntitlementRow]
<1>1. ASSUME NEW e \in EntId PROVE entitlement'[e] \in EntitlementRow
  <2>1. CASE e \in es
    <3> DEFINE st == IF entitlement[e].used + 1 >= Total(e) THEN "exhausted"
                     ELSE entitlement[e].state
    <3> DEFINE h == entitlement[e].reserved - 1
    <3>1. h \in Nat
      <4>1. entitlement[e].reserved > 0
        BY <2>1, Zenon DEF Consume
      <4>2. entitlement[e].reserved \in Nat
        BY DEF EntitlementRow
      <4>3. QED BY <4>1, <4>2
    <3>2. entitlement'[e] = [entitlement[e] EXCEPT !.state = st, !.reserved = h,
                                                   !.used = @ + 1, !.version = @ + 1]
      BY <2>1 DEF Consume
    <3>3. st \in EntitlementState
      BY DEF EntitlementRow, EntitlementState
    <3>4. entitlement[e] \in EntitlementRow
      OBVIOUS
    <3> HIDE DEF st, h
    <3>5. [entitlement[e] EXCEPT !.state = st, !.reserved = h,
                                 !.used = @ + 1, !.version = @ + 1] \in EntitlementRow
      BY <3>1, <3>3, <3>4, HoldSpent
    <3>6. QED BY <3>2, <3>5
  <2>2. CASE e \notin es
    BY <2>2 DEF Consume
  <2>3. QED BY <2>1, <2>2
<1>2. QED BY <1>1 DEF Consume

LEMMA ReleaseReservationsType ==
  ASSUME entitlement \in [EntId -> EntitlementRow], ledger \subseteq LedgerEntry,
         NEW i \in Intro, NEW from, ReleaseReservations(i, from)
  PROVE  entitlement' \in [EntId -> EntitlementRow] /\ ledger' \subseteq LedgerEntry
<1>1. CASE from \notin HoldsQuota
  BY <1>1 DEF ReleaseReservations
<1>2. CASE from \in HoldsQuota
  <2> DEFINE es == UNION {ActiveEntitlements(m) : m \in match[i].pair}
  <2>1. es \in SUBSET EntId
    BY DEF ActiveEntitlements
  <2>2. Release(es) /\ AppendLedger(es, i, "release")
    BY <1>2 DEF ReleaseReservations
  <2> HIDE DEF es
  <2>3. QED BY <2>1, <2>2, ReleaseType, AppendLedgerType
<1>3. QED BY <1>1, <1>2

LEMMA SettleType ==
  ASSUME entitlement \in [EntId -> EntitlementRow], ledger \subseteq LedgerEntry,
         NEW i \in Intro, Settle(i)
  PROVE  entitlement' \in [EntId -> EntitlementRow] /\ ledger' \subseteq LedgerEntry
<1> DEFINE es == UNION {ActiveEntitlements(m) : m \in match[i].pair}
<1>1. es \in SUBSET EntId
  BY DEF ActiveEntitlements
<1>2. Consume(es) /\ AppendLedger(es, i, "consume")
  BY DEF Settle
<1> HIDE DEF es
<1>3. QED BY <1>1, <1>2, ConsumeType, AppendLedgerType

LEMMA FreeSeatType ==
  ASSUME booked \in [Slot -> Nat], NEW s, FreeSeat(s)
  PROVE  booked' \in [Slot -> Nat]
<1>1. CASE s \in Slot
  BY <1>1 DEF FreeSeat
<1>2. CASE s \notin Slot
  <2>1. \A t \in Slot : booked'[t] = booked[t]
    BY <1>2 DEF FreeSeat
  <2>2. booked' = [t \in Slot |-> booked'[t]]
    BY DEF FreeSeat
  <2>3. QED BY <2>1, <2>2
<1>3. QED BY <1>1, <1>2

LEMMA ReleaseSlotType ==
  ASSUME meetup \in [MeetupId -> MeetupRow], booked \in [Slot -> Nat],
         NEW i \in Intro, ReleaseSlot(i)
  PROVE  meetup' \in [MeetupId -> MeetupRow] /\ booked' \in [Slot -> Nat]
<1>1. CASE UNCHANGED <<meetup, booked>>
  BY <1>1
<1>2. ASSUME NEW u \in ActiveMeetups(i),
             UpdateMeetup(u, meetup[u].version, "cancelled"), FreeSeat(meetup[u].slot)
      PROVE  meetup' \in [MeetupId -> MeetupRow] /\ booked' \in [Slot -> Nat]
  <2>1. u \in MeetupId /\ "cancelled" \in MeetupState
    BY DEF ActiveMeetups, MeetupState
  <2>2. QED BY <1>2, <2>1, UpdateMeetupType, FreeSeatType
<1>3. QED BY <1>1, <1>2 DEF ReleaseSlot

(* A snapshot is one of the records of its operation.                        *)
LEMMA SnapshotOfOp ==
  ASSUME NEW r \in Snapshot
  PROVE  /\ r.op = "propose" => r \in ProposeSnapshot
         /\ r.op = "decide" => r \in DecideSnapshot
         /\ r.op = "cancel" => r \in CancelSnapshot
         /\ r.op = "book" => r \in BookSnapshot
         /\ r.op = "check_in" => r \in CheckInSnapshot
         /\ r.op = "complete" => r \in CompleteSnapshot
         /\ r.op = "cancel_meetup" => r \in CancelMeetupSnapshot
         /\ r.op = "feedback" => r \in FeedbackSnapshot
BY DEF Snapshot, Idle, ProposeSnapshot, DecideSnapshot, CancelSnapshot, BookSnapshot,
       CheckInSnapshot, CompleteSnapshot, CancelMeetupSnapshot, FeedbackSnapshot

LEMMA BeginType ==
  ASSUME request \in [Client -> Snapshot], NEW c \in Client, NEW s \in Snapshot, Begin(c, s)
  PROVE  request' \in [Client -> Snapshot]
BY DEF Begin

LEMMA FinishType ==
  ASSUME request \in [Client -> Snapshot], NEW c \in Client, Finish(c)
  PROVE  request' \in [Client -> Snapshot]
BY DEF Finish, Snapshot

LEMMA InitTyped == Init => TypeOK
<1>1. NoMatch \in MatchRow
  BY DEF NoMatch, MatchRow, MatchState
<1>2. NoEntitlement \in EntitlementRow
  BY DEF NoEntitlement, EntitlementRow, EntitlementState
<1>3. NoMeetup \in MeetupRow
  BY DEF NoMeetup, MeetupRow, MeetupState
<1>4. Idle \in Snapshot
  BY DEF Snapshot
<1>5. QED BY <1>1, <1>2, <1>3, <1>4 DEF Init, TypeOK, Decision

LEMMA PairOfMembers ==
  ASSUME TypeOK, NEW i \in Intro
  PROVE  match[i].pair \in SUBSET Member
<1>1. match[i].pair \in Couple \cup {{}}
  BY DEF TypeOK, MatchRow
<1>2. QED BY <1>1 DEF Couple

(* Each disjunct of Next keeps the types, given the lemmas above for the     *)
(* statements it makes.                                                      *)
LEMMA ClockTyped == TypeOK /\ Tick => TypeOK'
BY DEF TypeOK, Tick, rows

LEMMA GrantTyped ==
  ASSUME TypeOK, NEW e \in EntId, GrantEntitlement(e)
  PROVE  TypeOK'
<1> DEFINE row == [NoEntitlement EXCEPT !.state = "active", !.from = now,
                                        !.until = now + Plan[e[1]].validFor]
<1>1. now \in Nat /\ now + Plan[e[1]].validFor \in Nat
  BY PlanAssumption DEF EntId, PlanType, TypeOK
<1>2. row \in EntitlementRow
  BY <1>1 DEF NoEntitlement, EntitlementRow, EntitlementState
<1>3. entitlement' = [entitlement EXCEPT ![e] = row]
  BY DEF GrantEntitlement
<1> HIDE DEF row
<1>4. entitlement' \in [EntId -> EntitlementRow]
  BY <1>2, <1>3 DEF TypeOK
<1>5. QED BY <1>4 DEF TypeOK, GrantEntitlement

LEMMA SweepTyped == TypeOK /\ ExpireDue => TypeOK'
<1> SUFFICES ASSUME TypeOK, ExpireDue PROVE TypeOK'
  OBVIOUS
<1>1. ASSUME NEW due \in SUBSET Overdue, SweepList(due) PROVE TypeOK'
  <2>1. \A i \in due : i \in Intro /\ match[i].version \in Nat
    BY DEF Overdue, TypeOK, MatchRow
  <2>2. QED BY <1>1, <2>1 DEF SweepList, TypeOK, rows
<1>2. ASSUME NEW d \in sweep, SweepExpire(d) PROVE TypeOK'
  <2>1. d.intro \in Intro
    BY DEF TypeOK
  <2>2. match' \in [Intro -> MatchRow]
    BY <1>2, <2>1, UpdateMatchType DEF SweepExpire, TypeOK, MatchState
  <2>3. entitlement' \in [EntId -> EntitlementRow] /\ ledger' \subseteq LedgerEntry
    BY <1>2, <2>1, ReleaseReservationsType DEF SweepExpire, TypeOK
  <2>4. outbox' \subseteq Announcement
    BY <1>2, <2>1, PairOfMembers, EnqueueType DEF SweepExpire, TypeOK
  <2>5. QED BY <1>2, <2>2, <2>3, <2>4 DEF SweepExpire, TypeOK
<1>3. ASSUME NEW d \in sweep, SweepSkip(d) PROVE TypeOK'
  BY <1>3 DEF SweepSkip, TypeOK, rows
<1>4. CASE SweepStop
  BY <1>4 DEF SweepStop, TypeOK, rows
<1>5. QED BY <1>1, <1>2, <1>3, <1>4 DEF ExpireDue

LEMMA AbandonTyped ==
  ASSUME TypeOK, NEW c \in Client, Abandon(c)
  PROVE  TypeOK'
BY FinishType DEF Abandon, TypeOK, rows

LEMMA ProposeTyped ==
  ASSUME TypeOK, NEW c \in Client, Propose(c)
  PROVE  TypeOK'
<1> DEFINE r == request[c]
<1>1. r \in Snapshot
  BY DEF TypeOK
<1>2. ASSUME NEW a \in Member, NEW b \in Member, ProposePrepare(c, a, b) PROVE TypeOK'
  <2> DEFINE s == [op |-> "propose", pair |-> {a, b}, at |-> now, held |-> {}, counted |-> {}]
  <2>1. s \in Snapshot
    BY DEF Snapshot, ProposeSnapshot, Couple, TypeOK
  <2>2. Begin(c, s)
    BY <1>2 DEF ProposePrepare
  <2> HIDE DEF s
  <2>3. request' \in [Client -> Snapshot]
    BY <2>1, <2>2, BeginType DEF TypeOK
  <2>4. QED BY <1>2, <2>3 DEF ProposePrepare, TypeOK, rows
<1>3. ASSUME NEW e \in EntId, ReadAllowance(c, e) PROVE TypeOK'
  <2> DEFINE more == r.held \cup {[ent |-> e, version |-> entitlement[e].version]}
  <2>1. r \in ProposeSnapshot
    BY <1>1, <1>3, SnapshotOfOp DEF ReadAllowance
  <2>2. more \in SUBSET [ent : EntId, version : Nat]
    BY <2>1 DEF ProposeSnapshot, TypeOK, EntitlementRow
  <2>3. request' = [request EXCEPT ![c] = [r EXCEPT !.held = more]]
    BY <1>3 DEF ReadAllowance
  <2> HIDE DEF more, r
  <2>4. [r EXCEPT !.held = more] \in ProposeSnapshot
    BY <2>1, <2>2 DEF ProposeSnapshot
  <2>5. request' \in [Client -> Snapshot]
    BY <2>3, <2>4 DEF TypeOK, Snapshot
  <2>6. QED BY <1>3, <2>5 DEF ReadAllowance, TypeOK, rows
<1>4. ASSUME NEW m \in Member, CheckActiveLimit(c, m) PROVE TypeOK'
  <2> DEFINE more == r.counted \cup {m}
  <2>1. r \in ProposeSnapshot
    BY <1>1, <1>4, SnapshotOfOp DEF CheckActiveLimit
  <2>2. more \in SUBSET Member
    BY <2>1 DEF ProposeSnapshot
  <2>3. request' = [request EXCEPT ![c] = [r EXCEPT !.counted = more]]
    BY <1>4 DEF CheckActiveLimit
  <2> HIDE DEF more, r
  <2>4. [r EXCEPT !.counted = more] \in ProposeSnapshot
    BY <2>1, <2>2 DEF ProposeSnapshot
  <2>5. request' \in [Client -> Snapshot]
    BY <2>3, <2>4 DEF TypeOK, Snapshot
  <2>6. QED BY <1>4, <2>5 DEF CheckActiveLimit, TypeOK, rows
<1>5. ASSUME NEW i \in Intro, PersistProposal(c, i) PROVE TypeOK'
  <2> DEFINE es  == {h.ent : h \in r.held}
             row == [state |-> "pending_consent", pair |-> r.pair, version |-> 1,
                     deadline |-> ConsentDeadline(r.at, r.pair)]
  <2>1. r \in ProposeSnapshot
    BY <1>1, <1>5, SnapshotOfOp DEF PersistProposal, CreateMatch
  <2>2. r.pair \in Couple /\ r.pair \in SUBSET Member /\ r.at \in Nat /\ es \in SUBSET EntId
    BY <2>1 DEF ProposeSnapshot, Couple
  <2>3. row \in MatchRow
    BY <2>2, DeadlineIsTime DEF MatchRow, MatchState
  <2>4. /\ match' = [match EXCEPT ![i] = row]
        /\ consent' = [consent EXCEPT ![i] = [m \in Member |-> "pending"]]
        /\ Reserve(es)
        /\ AppendLedger(es, i, "reserve")
        /\ Enqueue("match_proposed", i, r.pair)
        /\ Finish(c)
        /\ UNCHANGED <<now, meetup, booked, reports, sweep>>
    BY <1>5 DEF PersistProposal, CreateMatch
  <2> HIDE DEF r, es, row
  <2>5. match' \in [Intro -> MatchRow] /\ consent' \in [Intro -> [Member -> Decision]]
    BY <2>3, <2>4 DEF TypeOK, Decision
  <2>6. entitlement' \in [EntId -> EntitlementRow] /\ ledger' \subseteq LedgerEntry
    BY <2>2, <2>4, ReserveType, AppendLedgerType DEF TypeOK
  <2>7. outbox' \subseteq Announcement
    BY <2>2, <2>4, EnqueueType DEF TypeOK
  <2>8. request' \in [Client -> Snapshot]
    BY <2>4, FinishType DEF TypeOK
  <2>9. QED BY <2>4, <2>5, <2>6, <2>7, <2>8 DEF TypeOK
<1>6. QED BY <1>2, <1>3, <1>4, <1>5 DEF Propose

LEMMA DecideTyped ==
  ASSUME TypeOK, NEW c \in Client, Decide(c)
  PROVE  TypeOK'
<1> DEFINE r == request[c]
<1>1. ASSUME NEW i \in Intro, NEW m \in Member, NEW answer \in {"accepted", "declined"},
             DecideRead(c, i, m, answer)
      PROVE  TypeOK'
  <2> DEFINE s == [op |-> "decide", intro |-> i, member |-> m, answer |-> answer,
                   version |-> match[i].version]
  <2>1. s \in Snapshot
    BY DEF Snapshot, DecideSnapshot, TypeOK, MatchRow
  <2>2. Begin(c, s)
    BY <1>1 DEF DecideRead
  <2> HIDE DEF s
  <2>3. request' \in [Client -> Snapshot]
    BY <2>1, <2>2, BeginType DEF TypeOK
  <2>4. QED BY <1>1, <2>3 DEF DecideRead, TypeOK, rows
<1>2. CASE DecideCommit(c)
  <2> DEFINE i == r.intro
             target == NextState([consent[i] EXCEPT ![r.member] = r.answer], match[i].pair)
  <2>1. r \in DecideSnapshot
    BY <1>2, SnapshotOfOp DEF DecideCommit, RecordDecision, TypeOK
  <2>2. i \in Intro /\ r.member \in Member /\ r.answer \in Decision
    BY <2>1 DEF DecideSnapshot, Decision
  <2>3. match[i].pair \in SUBSET Member
    BY <2>2, PairOfMembers
  <2>4. /\ consent' = [consent EXCEPT ![i][r.member] = r.answer]
        /\ Finish(c)
        /\ UNCHANGED <<now, meetup, booked, reports, sweep>>
    BY <1>2 DEF DecideCommit, RecordDecision
  <2>5. \/ UNCHANGED <<match, entitlement, ledger, outbox>>
        \/ /\ UpdateMatch(i, r.version, "consented")
           /\ Enqueue("meetup_booked", i, match[i].pair)
           /\ UNCHANGED <<entitlement, ledger>>
        \/ /\ UpdateMatch(i, r.version, "closed_failed")
           /\ ReleaseReservations(i, "pending_consent")
           /\ Enqueue("match_closed", i, match[i].pair)
    BY <1>2 DEF DecideCommit, RecordDecision
  <2> HIDE DEF r, i, target
  <2>6. consent' \in [Intro -> [Member -> Decision]]
    BY <2>2, <2>4 DEF TypeOK
  <2>7. request' \in [Client -> Snapshot]
    BY <2>4, FinishType DEF TypeOK
  <2>8. match' \in [Intro -> MatchRow]
    BY <2>2, <2>5, UpdateMatchType DEF TypeOK, MatchState
  <2>9. entitlement' \in [EntId -> EntitlementRow] /\ ledger' \subseteq LedgerEntry
    BY <2>2, <2>5, ReleaseReservationsType DEF TypeOK
  <2>10. outbox' \subseteq Announcement
    BY <2>2, <2>3, <2>5, EnqueueType DEF TypeOK
  <2>11. QED BY <2>4, <2>6, <2>7, <2>8, <2>9, <2>10 DEF TypeOK
<1>3. QED BY <1>1, <1>2 DEF Decide

LEMMA CancelTyped ==
  ASSUME TypeOK, NEW c \in Client, Cancel(c)
  PROVE  TypeOK'
<1> DEFINE r == request[c]
<1>1. ASSUME NEW i \in Intro, CancelRead(c, i) PROVE TypeOK'
  <2> DEFINE s == [op |-> "cancel", intro |-> i, from |-> match[i].state,
                   version |-> match[i].version]
  <2>1. s \in Snapshot
    BY DEF Snapshot, CancelSnapshot, TypeOK, MatchRow
  <2>2. Begin(c, s)
    BY <1>1 DEF CancelRead
  <2> HIDE DEF s
  <2>3. request' \in [Client -> Snapshot]
    BY <2>1, <2>2, BeginType DEF TypeOK
  <2>4. QED BY <1>1, <2>3 DEF CancelRead, TypeOK, rows
<1>2. CASE CancelCommit(c)
  <2> DEFINE i == r.intro
  <2>1. r \in CancelSnapshot
    BY <1>2, SnapshotOfOp DEF CancelCommit, TypeOK
  <2>2. i \in Intro
    BY <2>1 DEF CancelSnapshot
  <2>3. match[i].pair \in SUBSET Member
    BY <2>2, PairOfMembers
  <2>4. /\ UpdateMatch(i, r.version, "cancelled")
        /\ \/ ReleaseSlot(i)
           \/ UNCHANGED <<meetup, booked>>
        /\ ReleaseReservations(i, r.from)
        /\ Enqueue("match_closed", i, match[i].pair)
        /\ Finish(c)
        /\ UNCHANGED <<now, consent, reports, sweep>>
    BY <1>2 DEF CancelCommit
  <2> HIDE DEF r, i
  <2>5. match' \in [Intro -> MatchRow]
    BY <2>2, <2>4, UpdateMatchType DEF TypeOK, MatchState
  <2>6. meetup' \in [MeetupId -> MeetupRow] /\ booked' \in [Slot -> Nat]
    BY <2>2, <2>4, ReleaseSlotType DEF TypeOK
  <2>7. entitlement' \in [EntId -> EntitlementRow] /\ ledger' \subseteq LedgerEntry
    BY <2>2, <2>4, ReleaseReservationsType DEF TypeOK
  <2>8. outbox' \subseteq Announcement
    BY <2>2, <2>3, <2>4, EnqueueType DEF TypeOK
  <2>9. request' \in [Client -> Snapshot]
    BY <2>4, FinishType DEF TypeOK
  <2>10. QED BY <2>4, <2>5, <2>6, <2>7, <2>8, <2>9 DEF TypeOK
<1>3. QED BY <1>1, <1>2 DEF Cancel

LEMMA BookTyped ==
  ASSUME TypeOK, NEW c \in Client, Book(c)
  PROVE  TypeOK'
<1> DEFINE r == request[c]
<1>1. ASSUME NEW i \in Intro, NEW s \in Slot, BookRead(c, i, s) PROVE TypeOK'
  <2> DEFINE snap == [op |-> "book", intro |-> i, slot |-> s, version |-> match[i].version,
                      clear |-> {}]
  <2>1. snap \in Snapshot
    BY DEF Snapshot, BookSnapshot, TypeOK, MatchRow
  <2>2. Begin(c, snap)
    BY <1>1 DEF BookRead, Bookable, AllAccepted
  <2> HIDE DEF snap
  <2>3. request' \in [Client -> Snapshot]
    BY <2>1, <2>2, BeginType DEF TypeOK
  <2>4. QED BY <1>1, <2>3 DEF BookRead, Bookable, AllAccepted, TypeOK, rows
<1>2. ASSUME NEW m \in Member, RejectOverlaps(c, m) PROVE TypeOK'
  <2> DEFINE more == r.clear \cup {m}
  <2>1. r \in BookSnapshot
    BY <1>2, SnapshotOfOp DEF RejectOverlaps, TypeOK
  <2>2. more \in SUBSET Member
    BY <2>1 DEF BookSnapshot
  <2>3. request' = [request EXCEPT ![c] = [r EXCEPT !.clear = more]]
    BY <1>2 DEF RejectOverlaps
  <2> HIDE DEF more, r
  <2>4. [r EXCEPT !.clear = more] \in BookSnapshot
    BY <2>1, <2>2 DEF BookSnapshot
  <2>5. request' \in [Client -> Snapshot]
    BY <2>3, <2>4 DEF TypeOK, Snapshot
  <2>6. QED BY <1>2, <2>5 DEF RejectOverlaps, TypeOK, rows
<1>3. ASSUME NEW u \in MeetupId, BookCommit(c, u) PROVE TypeOK'
  <2> DEFINE i   == r.intro
             row == [state |-> "booked", slot |-> r.slot, version |-> 1]
  <2>1. r \in BookSnapshot
    BY <1>3, SnapshotOfOp DEF BookCommit, TryBook, CreateMeetup, TypeOK
  <2>2. i \in Intro /\ r.slot \in Slot
    BY <2>1 DEF BookSnapshot
  <2>3. row \in MeetupRow
    BY <2>2 DEF MeetupRow, MeetupState
  <2>4. match[i].pair \in SUBSET Member
    BY <2>2, PairOfMembers
  <2>5. /\ booked' = [booked EXCEPT ![r.slot] = @ + 1]
        /\ meetup' = [meetup EXCEPT ![u] = row]
        /\ UpdateMatch(i, r.version, "scheduled")
        /\ Enqueue("meetup_booked", i, match[i].pair)
        /\ Finish(c)
        /\ UNCHANGED <<now, consent, entitlement, ledger, reports, sweep>>
    BY <1>3 DEF BookCommit, TryBook, CreateMeetup
  <2> HIDE DEF r, i, row
  <2>6. match' \in [Intro -> MatchRow]
    BY <2>2, <2>5, UpdateMatchType DEF TypeOK, MatchState
  <2>7. booked' \in [Slot -> Nat] /\ meetup' \in [MeetupId -> MeetupRow]
    BY <2>2, <2>3, <2>5 DEF TypeOK
  <2>8. outbox' \subseteq Announcement
    BY <2>2, <2>4, <2>5, EnqueueType DEF TypeOK
  <2>9. request' \in [Client -> Snapshot]
    BY <2>5, FinishType DEF TypeOK
  <2>10. QED BY <2>5, <2>6, <2>7, <2>8, <2>9 DEF TypeOK
<1>4. QED BY <1>1, <1>2, <1>3 DEF Book

LEMMA CheckInTyped ==
  ASSUME TypeOK, NEW c \in Client, CheckIn(c)
  PROVE  TypeOK'
<1>1. ASSUME NEW u \in MeetupId, CheckInRead(c, u) PROVE TypeOK'
  <2> DEFINE s == [op |-> "check_in", meetup |-> u, version |-> meetup[u].version]
  <2>1. s \in Snapshot
    BY DEF Snapshot, CheckInSnapshot, TypeOK, MeetupRow
  <2>2. Begin(c, s)
    BY <1>1 DEF CheckInRead
  <2> HIDE DEF s
  <2>3. request' \in [Client -> Snapshot]
    BY <2>1, <2>2, BeginType DEF TypeOK
  <2>4. QED BY <1>1, <2>3 DEF CheckInRead, TypeOK, rows
<1>2. CASE CheckInCommit(c)
  <2>1. request[c] \in CheckInSnapshot
    BY <1>2, SnapshotOfOp DEF CheckInCommit, TypeOK
  <2>2. request[c].meetup \in MeetupId
    BY <2>1 DEF CheckInSnapshot
  <2>3. meetup' \in [MeetupId -> MeetupRow]
    BY <1>2, <2>2, UpdateMeetupType DEF CheckInCommit, TypeOK, MeetupState
  <2>4. request' \in [Client -> Snapshot]
    BY <1>2, FinishType DEF CheckInCommit, TypeOK
  <2>5. QED BY <1>2, <2>3, <2>4 DEF CheckInCommit, TypeOK
<1>3. QED BY <1>1, <1>2 DEF CheckIn

LEMMA CompleteTyped ==
  ASSUME TypeOK, NEW c \in Client, CompleteMeetup(c)
  PROVE  TypeOK'
<1> DEFINE r == request[c]
<1>1. ASSUME NEW u \in MeetupId, CompleteRead(c, u) PROVE TypeOK'
  <2> DEFINE s == [op |-> "complete", meetup |-> u, version |-> meetup[u].version,
                   matchVersion |-> match[u[1]].version]
  <2>1. s \in Snapshot
    BY DEF Snapshot, CompleteSnapshot, TypeOK, MeetupRow, MatchRow, MeetupId
  <2>2. Begin(c, s)
    BY <1>1 DEF CompleteRead
  <2> HIDE DEF s
  <2>3. request' \in [Client -> Snapshot]
    BY <2>1, <2>2, BeginType DEF TypeOK
  <2>4. QED BY <1>1, <2>3 DEF CompleteRead, TypeOK, rows
<1>2. CASE CompleteCommit(c)
  <2> DEFINE i == r.meetup[1]
  <2>1. r \in CompleteSnapshot
    BY <1>2, SnapshotOfOp DEF CompleteCommit, TypeOK
  <2>2. r.meetup \in MeetupId /\ i \in Intro
    BY <2>1 DEF CompleteSnapshot, MeetupId
  <2>3. match[i].pair \in SUBSET Member
    BY <2>2, PairOfMembers
  <2>4. /\ UpdateMeetup(r.meetup, r.version, "completed")
        /\ UpdateMatch(i, r.matchVersion, "met")
        /\ Settle(i)
        /\ Enqueue("meetup_completed", i, match[i].pair)
        /\ Finish(c)
        /\ UNCHANGED <<now, consent, booked, reports, sweep>>
    BY <1>2 DEF CompleteCommit
  <2> HIDE DEF r, i
  <2>5. match' \in [Intro -> MatchRow]
    BY <2>2, <2>4, UpdateMatchType DEF TypeOK, MatchState
  <2>6. meetup' \in [MeetupId -> MeetupRow]
    BY <2>2, <2>4, UpdateMeetupType DEF TypeOK, MeetupState
  <2>7. entitlement' \in [EntId -> EntitlementRow] /\ ledger' \subseteq LedgerEntry
    BY <2>2, <2>4, SettleType DEF TypeOK
  <2>8. outbox' \subseteq Announcement
    BY <2>2, <2>3, <2>4, EnqueueType DEF TypeOK
  <2>9. request' \in [Client -> Snapshot]
    BY <2>4, FinishType DEF TypeOK
  <2>10. QED BY <2>4, <2>5, <2>6, <2>7, <2>8, <2>9 DEF TypeOK
<1>3. QED BY <1>1, <1>2 DEF CompleteMeetup

LEMMA CancelMeetupTyped ==
  ASSUME TypeOK, NEW c \in Client, CancelMeetup(c)
  PROVE  TypeOK'
<1> DEFINE r == request[c]
<1>1. ASSUME NEW u \in MeetupId, CancelMeetupRead(c, u) PROVE TypeOK'
  <2> DEFINE s == [op |-> "cancel_meetup", meetup |-> u, version |-> meetup[u].version,
                   from |-> match[u[1]].state, matchVersion |-> match[u[1]].version]
  <2>1. s \in Snapshot
    BY DEF Snapshot, CancelMeetupSnapshot, TypeOK, MeetupRow, MatchRow, MeetupId
  <2>2. Begin(c, s)
    BY <1>1 DEF CancelMeetupRead
  <2> HIDE DEF s
  <2>3. request' \in [Client -> Snapshot]
    BY <2>1, <2>2, BeginType DEF TypeOK
  <2>4. QED BY <1>1, <2>3 DEF CancelMeetupRead, TypeOK, rows
<1>2. CASE CancelMeetupCommit(c)
  <2>1. r \in CancelMeetupSnapshot
    BY <1>2, SnapshotOfOp DEF CancelMeetupCommit, TypeOK
  <2>2. r.meetup \in MeetupId /\ r.meetup[1] \in Intro
    BY <2>1 DEF CancelMeetupSnapshot, MeetupId
  <2>3. /\ UpdateMeetup(r.meetup, r.version, "cancelled")
        /\ FreeSeat(meetup[r.meetup].slot)
        /\ UpdateMatch(r.meetup[1], r.matchVersion, "consented") \/ UNCHANGED match
        /\ Finish(c)
        /\ UNCHANGED <<now, consent, entitlement, ledger, reports, outbox, sweep>>
    BY <1>2 DEF CancelMeetupCommit
  <2> HIDE DEF r
  <2>4. match' \in [Intro -> MatchRow]
    BY <2>2, <2>3, UpdateMatchType DEF TypeOK, MatchState
  <2>5. meetup' \in [MeetupId -> MeetupRow]
    BY <2>2, <2>3, UpdateMeetupType DEF TypeOK, MeetupState
  <2>6. booked' \in [Slot -> Nat]
    BY <2>3, FreeSeatType DEF TypeOK
  <2>7. request' \in [Client -> Snapshot]
    BY <2>3, FinishType DEF TypeOK
  <2>8. QED BY <2>3, <2>4, <2>5, <2>6, <2>7 DEF TypeOK
<1>3. QED BY <1>1, <1>2 DEF CancelMeetup

LEMMA FeedbackTyped ==
  ASSUME TypeOK, NEW c \in Client, SubmitFeedback(c)
  PROVE  TypeOK'
<1> DEFINE r == request[c]
<1>1. ASSUME NEW u \in MeetupId, NEW m \in Member, NEW intent \in Intent,
             FeedbackRead(c, u, m, intent)
      PROVE  TypeOK'
  <2> DEFINE s == [op |-> "feedback", meetup |-> u, member |-> m, intent |-> intent,
                   from |-> match[u[1]].state, matchVersion |-> match[u[1]].version]
  <2>1. s \in Snapshot
    BY DEF Snapshot, FeedbackSnapshot, TypeOK, MatchRow, MeetupId
  <2>2. Begin(c, s)
    BY <1>1 DEF FeedbackRead
  <2> HIDE DEF s
  <2>3. request' \in [Client -> Snapshot]
    BY <2>1, <2>2, BeginType DEF TypeOK
  <2>4. QED BY <1>1, <2>3 DEF FeedbackRead, TypeOK, rows
<1>2. CASE FeedbackCommit(c)
  <2> DEFINE i == r.meetup[1]
             verdict == IF MutualContinue(ReportsOf(r.meetup, reports'))
                        THEN "closed_success" ELSE "closed_failed"
             report == [meetup |-> r.meetup, author |-> r.member, intent |-> r.intent]
  <2>1. r \in FeedbackSnapshot
    BY <1>2, SnapshotOfOp DEF FeedbackCommit, AddFeedback, TypeOK
  <2>2. r.meetup \in MeetupId /\ i \in Intro /\ report \in Report
    BY <2>1 DEF FeedbackSnapshot, MeetupId, Report
  <2>3. match[i].pair \in SUBSET Member
    BY <2>2, PairOfMembers
  <2>4. verdict \in MatchState
    BY DEF MatchState
  <2>5. /\ reports' = reports \cup {report}
        /\ \/ UpdateMatch(i, r.matchVersion, verdict) /\ Enqueue("match_closed", i, match[i].pair)
           \/ UNCHANGED <<match, outbox>>
        /\ Finish(c)
        /\ UNCHANGED <<now, consent, entitlement, ledger, meetup, booked, sweep>>
    BY <1>2, Zenon DEF FeedbackCommit, AddFeedback
  <2> HIDE DEF r, i, verdict, report
  <2>6. match' \in [Intro -> MatchRow]
    BY <2>2, <2>4, <2>5, UpdateMatchType DEF TypeOK
  <2>7. reports' \subseteq Report
    BY <2>2, <2>5 DEF TypeOK
  <2>8. outbox' \subseteq Announcement
    BY <2>2, <2>3, <2>5, EnqueueType DEF TypeOK
  <2>9. request' \in [Client -> Snapshot]
    BY <2>5, FinishType DEF TypeOK
  <2>10. QED BY <2>5, <2>6, <2>7, <2>8, <2>9 DEF TypeOK
<1>3. QED BY <1>1, <1>2 DEF SubmitFeedback

LEMMA TypeStep == TypeOK /\ [Next]_vars => TypeOK'
<1> SUFFICES ASSUME TypeOK, [Next]_vars PROVE TypeOK'
  OBVIOUS
<1>1. CASE UNCHANGED vars
  BY <1>1 DEF TypeOK, vars, rows
<1>2. ASSUME NEW c \in Client,
             \/ Propose(c) \/ Decide(c) \/ Cancel(c) \/ Book(c) \/ CheckIn(c)
             \/ CompleteMeetup(c) \/ CancelMeetup(c) \/ SubmitFeedback(c) \/ Abandon(c)
      PROVE  TypeOK'
  BY <1>2, ProposeTyped, DecideTyped, CancelTyped, BookTyped, CheckInTyped,
     CompleteTyped, CancelMeetupTyped, FeedbackTyped, AbandonTyped
<1>3. QED BY <1>1, <1>2, ClockTyped, GrantTyped, SweepTyped DEF Next

(* Every row and every snapshot keeps its shape, and no counter goes below   *)
(* zero (the CHECK constraints of entitlements and venue_slots), for any     *)
(* number of members, introductions, plans, slots and requests.              *)
THEOREM TypeCorrect == Spec => []TypeOK
<1>1. QED BY InitTyped, TypeStep, PTL DEF Spec
-----------------------------------------------------------------------------
(* The optimistic version guard is enough: what a request read still holds   *)
(* when its transaction finds the version unchanged, hence no stale snapshot *)
(* reopens or withdraws an introduction that has come to an end.             *)

FreshInv == TypeOK /\ VersionsStandForState

(* A step leaves a match row alone or gives it a higher version.             *)
Versioned(i) == match'[i] = match[i] \/ match'[i].version > match[i].version

LEMMA UpdateVersions ==
  ASSUME TypeOK, NEW i \in Intro, NEW version, NEW target, UpdateMatch(i, version, target)
  PROVE  /\ \A j \in Intro : Versioned(j)
         /\ match'[i].state = target
         /\ \A j \in Intro \ {i} : match'[j] = match[j]
<1>1. match[i] \in MatchRow /\ match[i].version \in Nat
  BY DEF TypeOK, MatchRow
<1>2. MoveTo(match[i], target).version = match[i].version + 1
      /\ MoveTo(match[i], target).state = target
  BY <1>1 DEF MoveTo, MatchRow
<1>3. match' = [match EXCEPT ![i] = MoveTo(match[i], target)]
  BY DEF UpdateMatch
<1>4. match'[i] = MoveTo(match[i], target) /\ \A j \in Intro \ {i} : match'[j] = match[j]
  BY <1>3 DEF TypeOK
<1>5. QED BY <1>1, <1>2, <1>4 DEF Versioned

(* A read that was honest stays honest over such a step.                     *)
LEMMA ReadKept ==
  ASSUME TypeOK, TypeOK', NEW i \in Intro, NEW v \in Nat, NEW states, Versioned(i), Read(i, v, states)
  PROVE  Read(i, v, states)'
<1>1. match[i].version \in Nat /\ match'[i].version \in Nat
  BY DEF TypeOK, MatchRow
<1>2. QED BY <1>1 DEF Versioned, Read

LEMMA FreshKept ==
  ASSUME TypeOK, TypeOK', \A i \in Intro : Versioned(i),
         NEW r \in Snapshot, RequestFresh(r)
  PROVE  RequestFresh(r)'
<1>1. CASE r.op = "decide"
  <2>1. r \in DecideSnapshot
    BY <1>1, SnapshotOfOp
  <2>2. r.intro \in Intro /\ r.version \in Nat
    BY <2>1 DEF DecideSnapshot
  <2>3. QED BY <1>1, <2>2, ReadKept DEF RequestFresh
<1>2. CASE r.op = "cancel"
  <2>1. r \in CancelSnapshot
    BY <1>2, SnapshotOfOp
  <2>2. r.intro \in Intro /\ r.version \in Nat
    BY <2>1 DEF CancelSnapshot
  <2>3. QED BY <1>2, <2>2, ReadKept DEF RequestFresh
<1>3. CASE r.op = "book"
  <2>1. r \in BookSnapshot
    BY <1>3, SnapshotOfOp
  <2>2. r.intro \in Intro /\ r.version \in Nat
    BY <2>1 DEF BookSnapshot
  <2>3. QED BY <1>3, <2>2, ReadKept DEF RequestFresh
<1>4. CASE r.op = "complete"
  <2>1. r \in CompleteSnapshot
    BY <1>4, SnapshotOfOp
  <2>2. r.meetup[1] \in Intro /\ r.matchVersion \in Nat
    BY <2>1 DEF CompleteSnapshot, MeetupId
  <2>3. QED BY <1>4, <2>2, ReadKept DEF RequestFresh
<1>5. CASE r.op = "cancel_meetup"
  <2>1. r \in CancelMeetupSnapshot
    BY <1>5, SnapshotOfOp
  <2>2. r.meetup[1] \in Intro /\ r.matchVersion \in Nat
    BY <2>1 DEF CancelMeetupSnapshot, MeetupId
  <2>3. QED BY <1>5, <2>2, ReadKept DEF RequestFresh
<1>6. CASE r.op = "feedback"
  <2>1. r \in FeedbackSnapshot
    BY <1>6, SnapshotOfOp
  <2>2. r.meetup[1] \in Intro /\ r.matchVersion \in Nat
    BY <2>1 DEF FeedbackSnapshot, MeetupId
  <2>3. QED BY <1>6, <2>2, ReadKept DEF RequestFresh
<1>7. CASE r.op \notin {"decide", "cancel", "book", "complete", "cancel_meetup", "feedback"}
  BY <1>7 DEF RequestFresh
<1>8. QED BY <1>1, <1>2, <1>3, <1>4, <1>5, <1>6, <1>7
-----------------------------------------------------------------------------
(* What a transaction on a match that has a version can do to it: the        *)
(* source state is the one the request checked.                              *)
Moves == MatchEdges \cup {<<"scheduled", "consented">>}

MatchStep ==
  /\ \A i \in Intro : Versioned(i)
  /\ \A i \in Intro : match'[i] # match[i] =>
       \/ match[i].state = "none"
       \/ <<match[i].state, match'[i].state>> \in Moves
  /\ \A i \in Intro : match'[i].state = "none" => match'[i] = match[i]

LEMMA GuardedMove ==
  ASSUME TypeOK, NEW i \in Intro, NEW version, NEW from, NEW target \in MatchState \ {"none"},
         Read(i, version, {from}), <<from, target>> \in Moves,
         UpdateMatch(i, version, target)
  PROVE  MatchStep
<1>1. match[i].version \in Nat /\ match[i].version = version
  BY DEF TypeOK, MatchRow, UpdateMatch
<1>2. match[i].state = from
  BY <1>1 DEF Read
<1>3. QED BY <1>2, UpdateVersions DEF MatchStep

LEMMA StillMatch ==
  ASSUME UNCHANGED match
  PROVE  MatchStep
BY DEF MatchStep, Versioned

LEMMA NextMoves ==
  ASSUME FreshInv, Next
  PROVE  MatchStep
<1> USE DEF FreshInv
<1>1. CASE Tick
  BY <1>1, StillMatch DEF Tick, rows
<1>2. ASSUME NEW e \in EntId, GrantEntitlement(e) PROVE MatchStep
  BY <1>2, StillMatch DEF GrantEntitlement
<1>3. CASE ExpireDue
  <2>1. ASSUME NEW d \in sweep, SweepExpire(d) PROVE MatchStep
    <3>1. d.intro \in Intro /\ Read(d.intro, d.version, {"pending_consent"})
      BY DEF TypeOK, VersionsStandForState
    <3>2. UpdateMatch(d.intro, d.version, "expired")
      BY <2>1 DEF SweepExpire
    <3>3. <<"pending_consent", "expired">> \in Moves /\ "expired" \in MatchState \ {"none"}
      BY DEF Moves, MatchEdges, MatchState
    <3>4. QED BY <3>1, <3>2, <3>3, GuardedMove
  <2>2. CASE UNCHANGED match
    BY <2>2, StillMatch
  <2>3. QED BY <1>3, <2>1, <2>2 DEF ExpireDue, SweepList, SweepSkip, SweepStop, rows
<1>4. ASSUME NEW c \in Client, Propose(c) PROVE MatchStep
  <2>1. ASSUME NEW i \in Intro, PersistProposal(c, i) PROVE MatchStep
    <3> DEFINE row == [state |-> "pending_consent", pair |-> request[c].pair, version |-> 1,
                       deadline |-> ConsentDeadline(request[c].at, request[c].pair)]
    <3>1. match[i].state = "none" /\ match' = [match EXCEPT ![i] = row]
      BY <2>1 DEF PersistProposal, CreateMatch
    <3>2. row.version = 1 /\ row.state = "pending_consent"
      OBVIOUS
    <3> HIDE DEF row
    <3>3. match'[i] = row /\ \A j \in Intro \ {i} : match'[j] = match[j]
      BY <3>1 DEF TypeOK
    <3>4. match[i].version = 0
      BY <3>1 DEF VersionsStandForState
    <3>5. QED BY <3>1, <3>2, <3>3, <3>4 DEF MatchStep, Versioned
  <2>2. CASE UNCHANGED match
    BY <2>2, StillMatch
  <2>3. QED BY <1>4, <2>1, <2>2 DEF Propose, ProposePrepare, ReadAllowance, CheckActiveLimit, rows
<1>5. ASSUME NEW c \in Client, Decide(c) PROVE MatchStep
  <2>1. CASE DecideCommit(c)
    <3> DEFINE r == request[c]
    <3>1. r \in DecideSnapshot /\ RequestFresh(r) /\ r.op = "decide"
      BY <2>1, SnapshotOfOp DEF DecideCommit, RecordDecision, TypeOK, VersionsStandForState
    <3>2. r.intro \in Intro /\ Read(r.intro, r.version, {"pending_consent"})
      BY <3>1 DEF DecideSnapshot, RequestFresh
    <3>3. \/ UNCHANGED match
          \/ UpdateMatch(r.intro, r.version, "consented")
          \/ UpdateMatch(r.intro, r.version, "closed_failed")
      BY <2>1 DEF DecideCommit, RecordDecision
    <3>4. /\ {"consented", "closed_failed"} \subseteq MatchState \ {"none"}
          /\ <<"pending_consent", "consented">> \in Moves
          /\ <<"pending_consent", "closed_failed">> \in Moves
      BY DEF Moves, MatchEdges, MatchState
    <3> HIDE DEF r
    <3>5. QED BY <3>2, <3>3, <3>4, GuardedMove, StillMatch
  <2>2. CASE UNCHANGED match
    BY <2>2, StillMatch
  <2>3. QED BY <1>5, <2>1, <2>2 DEF Decide, DecideRead, rows
<1>6. ASSUME NEW c \in Client, Cancel(c) PROVE MatchStep
  <2>1. CASE CancelCommit(c)
    <3> DEFINE r == request[c]
    <3>1. r \in CancelSnapshot /\ RequestFresh(r) /\ r.op = "cancel"
      BY <2>1, SnapshotOfOp DEF CancelCommit, TypeOK, VersionsStandForState
    <3>2. /\ r.intro \in Intro
          /\ Read(r.intro, r.version, {r.from})
          /\ <<r.from, "cancelled">> \in Moves
      BY <3>1 DEF CancelSnapshot, RequestFresh, Cancellable, MatchCanTransition, Moves
    <3>3. UpdateMatch(r.intro, r.version, "cancelled") /\ "cancelled" \in MatchState \ {"none"}
      BY <2>1 DEF CancelCommit, MatchState
    <3> HIDE DEF r
    <3>4. QED BY <3>2, <3>3, GuardedMove
  <2>2. CASE UNCHANGED match
    BY <2>2, StillMatch
  <2>3. QED BY <1>6, <2>1, <2>2 DEF Cancel, CancelRead, rows
<1>7. ASSUME NEW c \in Client, Book(c) PROVE MatchStep
  <2>1. ASSUME NEW u \in MeetupId, BookCommit(c, u) PROVE MatchStep
    <3> DEFINE r == request[c]
    <3>1. r \in BookSnapshot /\ RequestFresh(r) /\ r.op = "book"
      BY <2>1, SnapshotOfOp DEF BookCommit, TryBook, CreateMeetup, TypeOK, VersionsStandForState
    <3>2. r.intro \in Intro /\ Read(r.intro, r.version, {"consented"})
      BY <3>1 DEF BookSnapshot, RequestFresh
    <3>3. UpdateMatch(r.intro, r.version, "scheduled")
      BY <2>1 DEF BookCommit, TryBook, CreateMeetup
    <3>4. "scheduled" \in MatchState \ {"none"} /\ <<"consented", "scheduled">> \in Moves
      BY DEF Moves, MatchEdges, MatchState
    <3> HIDE DEF r
    <3>5. QED BY <3>2, <3>3, <3>4, GuardedMove
  <2>2. CASE UNCHANGED match
    BY <2>2, StillMatch
  <2>3. QED BY <1>7, <2>1, <2>2 DEF Book, BookRead, Bookable, AllAccepted, RejectOverlaps, rows
<1>8. ASSUME NEW c \in Client, CheckIn(c) PROVE MatchStep
  BY <1>8, StillMatch DEF CheckIn, CheckInRead, CheckInCommit, rows
<1>9. ASSUME NEW c \in Client, CompleteMeetup(c) PROVE MatchStep
  <2>1. CASE CompleteCommit(c)
    <3> DEFINE r == request[c]
    <3>1. r \in CompleteSnapshot /\ RequestFresh(r) /\ r.op = "complete"
      BY <2>1, SnapshotOfOp DEF CompleteCommit, TypeOK, VersionsStandForState
    <3>2. r.meetup[1] \in Intro /\ Read(r.meetup[1], r.matchVersion, {"scheduled"})
      BY <3>1 DEF CompleteSnapshot, RequestFresh, MeetupId
    <3>3. UpdateMatch(r.meetup[1], r.matchVersion, "met")
      BY <2>1 DEF CompleteCommit
    <3>4. "met" \in MatchState \ {"none"} /\ <<"scheduled", "met">> \in Moves
      BY DEF Moves, MatchEdges, MatchState
    <3> HIDE DEF r
    <3>5. QED BY <3>2, <3>3, <3>4, GuardedMove
  <2>2. CASE UNCHANGED match
    BY <2>2, StillMatch
  <2>3. QED BY <1>9, <2>1, <2>2 DEF CompleteMeetup, CompleteRead, rows
<1>10. ASSUME NEW c \in Client, CancelMeetup(c) PROVE MatchStep
  <2>1. CASE CancelMeetupCommit(c)
    <3> DEFINE r == request[c]
    <3>1. r \in CancelMeetupSnapshot /\ RequestFresh(r) /\ r.op = "cancel_meetup"
      BY <2>1, SnapshotOfOp DEF CancelMeetupCommit, TypeOK, VersionsStandForState
    <3>2. r.meetup[1] \in Intro /\ Read(r.meetup[1], r.matchVersion, {r.from})
      BY <3>1 DEF CancelMeetupSnapshot, RequestFresh, MeetupId
    <3>3. \/ r.from = "scheduled" /\ UpdateMatch(r.meetup[1], r.matchVersion, "consented")
          \/ UNCHANGED match
      BY <2>1 DEF CancelMeetupCommit
    <3>4. "consented" \in MatchState \ {"none"} /\ <<"scheduled", "consented">> \in Moves
      BY DEF Moves, MatchState
    <3> HIDE DEF r
    <3>5. QED BY <3>2, <3>3, <3>4, GuardedMove, StillMatch
  <2>2. CASE UNCHANGED match
    BY <2>2, StillMatch
  <2>3. QED BY <1>10, <2>1, <2>2 DEF CancelMeetup, CancelMeetupRead, rows
<1>11. ASSUME NEW c \in Client, SubmitFeedback(c) PROVE MatchStep
  <2>1. CASE FeedbackCommit(c)
    <3> DEFINE r == request[c]
               verdict == IF MutualContinue(ReportsOf(r.meetup, reports'))
                          THEN "closed_success" ELSE "closed_failed"
    <3>1. r \in FeedbackSnapshot /\ RequestFresh(r) /\ r.op = "feedback"
      BY <2>1, SnapshotOfOp DEF FeedbackCommit, AddFeedback, TypeOK, VersionsStandForState
    <3>2. r.meetup[1] \in Intro /\ Read(r.meetup[1], r.matchVersion, {r.from})
      BY <3>1 DEF FeedbackSnapshot, RequestFresh, MeetupId
    <3>3. \/ r.from = "met" /\ UpdateMatch(r.meetup[1], r.matchVersion, verdict)
          \/ UNCHANGED match
      BY <2>1, Zenon DEF FeedbackCommit, AddFeedback
    <3>4. verdict \in MatchState \ {"none"} /\ <<"met", verdict>> \in Moves
      BY DEF Moves, MatchEdges, MatchState
    <3> HIDE DEF r, verdict
    <3>5. QED BY <3>2, <3>3, <3>4, GuardedMove, StillMatch
  <2>2. CASE UNCHANGED match
    BY <2>2, StillMatch
  <2>3. QED BY <1>11, <2>1, <2>2 DEF SubmitFeedback, FeedbackRead, rows
<1>12. ASSUME NEW c \in Client, Abandon(c) PROVE MatchStep
  BY <1>12, StillMatch DEF Abandon, rows
<1>13. QED BY <1>1, <1>2, <1>3, <1>4, <1>5, <1>6, <1>7, <1>8, <1>9, <1>10, <1>11, <1>12 DEF Next
-----------------------------------------------------------------------------
(* Every request is fresh after a step: those in flight by FreshKept, those  *)
(* that have just read because the match has not moved since.                *)
LEMMA UntouchedFresh ==
  ASSUME FreshInv, TypeOK', MatchStep, NEW c \in Client, request'[c] = request[c]
  PROVE  RequestFresh(request[c])'
<1>1. PICK r \in Snapshot : r = request[c]
  BY DEF FreshInv, TypeOK
<1>2. RequestFresh(r)
  BY <1>1 DEF FreshInv, VersionsStandForState
<1>3. RequestFresh(r)'
  BY <1>2, FreshKept DEF FreshInv, MatchStep
<1>4. QED BY <1>1, <1>3, Zenon DEF RequestFresh, Read

LEMMA OthersFresh ==
  ASSUME FreshInv, TypeOK', MatchStep, NEW c \in Client, NEW d \in Client \ {c}, NEW snapshot,
         request' = [request EXCEPT ![c] = snapshot]
  PROVE  RequestFresh(request[d])'
<1>1. request'[d] = request[d]
  BY DEF FreshInv, TypeOK
<1>2. QED BY <1>1, UntouchedFresh

(* A snapshot that holds no version of a match.                              *)
Quiet(s) == s.op \in {"idle", "propose", "check_in"}

LEMMA QuietFresh ==
  ASSUME FreshInv, TypeOK', MatchStep, NEW c \in Client, NEW snapshot,
         Quiet(snapshot),
         request' = [request EXCEPT ![c] = snapshot]
  PROVE  \A d \in Client : RequestFresh(request[d])'
<1>1. request'[c] = snapshot
  BY DEF FreshInv, TypeOK
<1>2. RequestFresh(request[c])'
  BY <1>1 DEF RequestFresh, Quiet
<1>3. QED BY <1>2, OthersFresh

LEMMA DoneFresh ==
  ASSUME FreshInv, TypeOK', MatchStep, NEW c \in Client, Finish(c)
  PROVE  \A d \in Client : RequestFresh(request[d])'
<1>1. Quiet(Idle)
  BY DEF Idle, Quiet
<1>2. request' = [request EXCEPT ![c] = Idle]
  BY DEF Finish
<1>3. QED BY <1>1, <1>2, QuietFresh

(* What a read of a match or of a meetup with its match has just seen.       *)
LEMMA ReadFresh ==
  ASSUME FreshInv, TypeOK', MatchStep, UNCHANGED match, NEW c \in Client, NEW snapshot,
         request' = [request EXCEPT ![c] = snapshot], RequestFresh(snapshot)
  PROVE  \A d \in Client : RequestFresh(request[d])'
<1>1. request'[c] = snapshot
  BY DEF FreshInv, TypeOK
<1>2. RequestFresh(request[c])'
  BY <1>1 DEF RequestFresh, Read
<1>3. QED BY <1>2, OthersFresh

LEMMA RequestsFresh ==
  ASSUME FreshInv, TypeOK', MatchStep, Next
  PROVE  \A d \in Client : RequestFresh(request[d])'
<1>1. CASE UNCHANGED request
  BY <1>1, UntouchedFresh
<1>2. ASSUME NEW c \in Client, Propose(c) PROVE \A d \in Client : RequestFresh(request[d])'
  <2>1. ASSUME NEW a \in Member, NEW b \in Member, ProposePrepare(c, a, b)
        PROVE  \A d \in Client : RequestFresh(request[d])'
    <3> DEFINE s == [op |-> "propose", pair |-> {a, b}, at |-> now, held |-> {}, counted |-> {}]
    <3>1. request' = [request EXCEPT ![c] = s] /\ Quiet(s)
      BY <2>1 DEF ProposePrepare, Begin, Quiet
    <3> HIDE DEF s
    <3>2. QED BY <3>1, QuietFresh
  <2>2. ASSUME NEW e \in EntId, ReadAllowance(c, e)
        PROVE  \A d \in Client : RequestFresh(request[d])'
    <3> DEFINE s == [request[c] EXCEPT !.held =
                       @ \cup {[ent |-> e, version |-> entitlement[e].version]}]
    <3>1. request[c] \in ProposeSnapshot
      BY <2>2, SnapshotOfOp DEF ReadAllowance, FreshInv, TypeOK
    <3>2. request' = [request EXCEPT ![c] = s] /\ Quiet(s)
      BY <2>2, <3>1 DEF ReadAllowance, ProposeSnapshot, Quiet
    <3> HIDE DEF s
    <3>3. QED BY <3>2, QuietFresh
  <2>3. ASSUME NEW m \in Member, CheckActiveLimit(c, m)
        PROVE  \A d \in Client : RequestFresh(request[d])'
    <3> DEFINE s == [request[c] EXCEPT !.counted = @ \cup {m}]
    <3>1. request[c] \in ProposeSnapshot
      BY <2>3, SnapshotOfOp DEF CheckActiveLimit, FreshInv, TypeOK
    <3>2. request' = [request EXCEPT ![c] = s] /\ Quiet(s)
      BY <2>3, <3>1 DEF CheckActiveLimit, ProposeSnapshot, Quiet
    <3> HIDE DEF s
    <3>3. QED BY <3>2, QuietFresh
  <2>4. ASSUME NEW i \in Intro, PersistProposal(c, i)
        PROVE  \A d \in Client : RequestFresh(request[d])'
    BY <2>4, DoneFresh DEF PersistProposal, CreateMatch
  <2>5. QED BY <1>2, <2>1, <2>2, <2>3, <2>4 DEF Propose
<1>3. ASSUME NEW c \in Client, Decide(c) PROVE \A d \in Client : RequestFresh(request[d])'
  <2>1. ASSUME NEW i \in Intro, NEW m \in Member, NEW answer, DecideRead(c, i, m, answer)
        PROVE  \A d \in Client : RequestFresh(request[d])'
    <3> DEFINE s == [op |-> "decide", intro |-> i, member |-> m, answer |-> answer,
                     version |-> match[i].version]
    <3>1. request' = [request EXCEPT ![c] = s] /\ RequestFresh(s) /\ UNCHANGED match
      BY <2>1 DEF DecideRead, Begin, RequestFresh, Read, rows
    <3> HIDE DEF s
    <3>2. QED BY <3>1, ReadFresh
  <2>2. CASE DecideCommit(c)
    BY <2>2, DoneFresh DEF DecideCommit, RecordDecision
  <2>3. QED BY <1>3, <2>1, <2>2 DEF Decide
<1>4. ASSUME NEW c \in Client, Cancel(c) PROVE \A d \in Client : RequestFresh(request[d])'
  <2>1. ASSUME NEW i \in Intro, CancelRead(c, i)
        PROVE  \A d \in Client : RequestFresh(request[d])'
    <3> DEFINE s == [op |-> "cancel", intro |-> i, from |-> match[i].state,
                     version |-> match[i].version]
    <3>1. match[i].state \in Cancellable
      BY <2>1 DEF CancelRead, Cancellable, FreshInv, TypeOK, MatchRow
    <3>2. request' = [request EXCEPT ![c] = s] /\ RequestFresh(s) /\ UNCHANGED match
      BY <2>1, <3>1 DEF CancelRead, Begin, RequestFresh, Read, rows
    <3> HIDE DEF s
    <3>3. QED BY <3>2, ReadFresh
  <2>2. CASE CancelCommit(c)
    BY <2>2, DoneFresh DEF CancelCommit
  <2>3. QED BY <1>4, <2>1, <2>2 DEF Cancel
<1>5. ASSUME NEW c \in Client, Book(c) PROVE \A d \in Client : RequestFresh(request[d])'
  <2>1. ASSUME NEW i \in Intro, NEW t \in Slot, BookRead(c, i, t)
        PROVE  \A d \in Client : RequestFresh(request[d])'
    <3> DEFINE s == [op |-> "book", intro |-> i, slot |-> t, version |-> match[i].version,
                     clear |-> {}]
    <3>1. match[i].state = "consented"
      BY <2>1 DEF BookRead, Bookable, AllAccepted, MatchCanTransition, MatchEdges
    <3>2. request' = [request EXCEPT ![c] = s] /\ RequestFresh(s) /\ UNCHANGED match
      BY <2>1, <3>1 DEF BookRead, Bookable, AllAccepted, Begin, RequestFresh, Read, rows
    <3> HIDE DEF s
    <3>3. QED BY <3>2, ReadFresh
  <2>2. ASSUME NEW m \in Member, RejectOverlaps(c, m)
        PROVE  \A d \in Client : RequestFresh(request[d])'
    <3> DEFINE s == [request[c] EXCEPT !.clear = @ \cup {m}]
    <3>1. request[c] \in BookSnapshot /\ RequestFresh(request[c])
      BY <2>2, SnapshotOfOp DEF RejectOverlaps, FreshInv, TypeOK, VersionsStandForState
    <3>2. s.op = "book" /\ s.intro = request[c].intro /\ s.version = request[c].version
      BY <3>1 DEF BookSnapshot
    <3>3. request' = [request EXCEPT ![c] = s] /\ UNCHANGED match /\ request[c].op = "book"
      BY <2>2 DEF RejectOverlaps, rows
    <3> HIDE DEF s
    <3>4. RequestFresh(s)
      BY <3>1, <3>2, <3>3 DEF RequestFresh
    <3>5. QED BY <3>3, <3>4, ReadFresh
  <2>3. ASSUME NEW u \in MeetupId, BookCommit(c, u)
        PROVE  \A d \in Client : RequestFresh(request[d])'
    BY <2>3, DoneFresh DEF BookCommit, TryBook, CreateMeetup
  <2>4. QED BY <1>5, <2>1, <2>2, <2>3 DEF Book
<1>6. ASSUME NEW c \in Client, CheckIn(c) PROVE \A d \in Client : RequestFresh(request[d])'
  <2>1. ASSUME NEW u \in MeetupId, CheckInRead(c, u)
        PROVE  \A d \in Client : RequestFresh(request[d])'
    <3> DEFINE s == [op |-> "check_in", meetup |-> u, version |-> meetup[u].version]
    <3>1. request' = [request EXCEPT ![c] = s] /\ Quiet(s)
      BY <2>1 DEF CheckInRead, Begin, Quiet
    <3> HIDE DEF s
    <3>2. QED BY <3>1, QuietFresh
  <2>2. CASE CheckInCommit(c)
    BY <2>2, DoneFresh DEF CheckInCommit
  <2>3. QED BY <1>6, <2>1, <2>2 DEF CheckIn
<1>7. ASSUME NEW c \in Client, CompleteMeetup(c) PROVE \A d \in Client : RequestFresh(request[d])'
  <2>1. ASSUME NEW u \in MeetupId, CompleteRead(c, u)
        PROVE  \A d \in Client : RequestFresh(request[d])'
    <3> DEFINE s == [op |-> "complete", meetup |-> u, version |-> meetup[u].version,
                     matchVersion |-> match[u[1]].version]
    <3>1. match[u[1]].state = "scheduled"
      BY <2>1 DEF CompleteRead, MatchCanTransition, MatchEdges
    <3>2. request' = [request EXCEPT ![c] = s] /\ RequestFresh(s) /\ UNCHANGED match
      BY <2>1, <3>1 DEF CompleteRead, Begin, RequestFresh, Read, rows
    <3> HIDE DEF s
    <3>3. QED BY <3>2, ReadFresh
  <2>2. CASE CompleteCommit(c)
    BY <2>2, DoneFresh DEF CompleteCommit
  <2>3. QED BY <1>7, <2>1, <2>2 DEF CompleteMeetup
<1>8. ASSUME NEW c \in Client, CancelMeetup(c) PROVE \A d \in Client : RequestFresh(request[d])'
  <2>1. ASSUME NEW u \in MeetupId, CancelMeetupRead(c, u)
        PROVE  \A d \in Client : RequestFresh(request[d])'
    <3> DEFINE s == [op |-> "cancel_meetup", meetup |-> u, version |-> meetup[u].version,
                     from |-> match[u[1]].state, matchVersion |-> match[u[1]].version]
    <3>1. request' = [request EXCEPT ![c] = s] /\ RequestFresh(s) /\ UNCHANGED match
      BY <2>1 DEF CancelMeetupRead, Begin, RequestFresh, Read, rows
    <3> HIDE DEF s
    <3>2. QED BY <3>1, ReadFresh
  <2>2. CASE CancelMeetupCommit(c)
    BY <2>2, DoneFresh DEF CancelMeetupCommit
  <2>3. QED BY <1>8, <2>1, <2>2 DEF CancelMeetup
<1>9. ASSUME NEW c \in Client, SubmitFeedback(c) PROVE \A d \in Client : RequestFresh(request[d])'
  <2>1. ASSUME NEW u \in MeetupId, NEW m \in Member, NEW intent, FeedbackRead(c, u, m, intent)
        PROVE  \A d \in Client : RequestFresh(request[d])'
    <3> DEFINE s == [op |-> "feedback", meetup |-> u, member |-> m, intent |-> intent,
                     from |-> match[u[1]].state, matchVersion |-> match[u[1]].version]
    <3>1. request' = [request EXCEPT ![c] = s] /\ RequestFresh(s) /\ UNCHANGED match
      BY <2>1 DEF FeedbackRead, Begin, RequestFresh, Read, rows
    <3> HIDE DEF s
    <3>2. QED BY <3>1, ReadFresh
  <2>2. CASE FeedbackCommit(c)
    BY <2>2, DoneFresh DEF FeedbackCommit, AddFeedback
  <2>3. QED BY <1>9, <2>1, <2>2 DEF SubmitFeedback
<1>10. ASSUME NEW c \in Client, Abandon(c) PROVE \A d \in Client : RequestFresh(request[d])'
  BY <1>10, DoneFresh DEF Abandon
<1>11. (Tick \/ (\E e \in EntId : GrantEntitlement(e)) \/ ExpireDue) => UNCHANGED request
  BY DEF Tick, GrantEntitlement, ExpireDue, SweepList, SweepExpire, SweepSkip, SweepStop
<1>12. QED BY <1>1, <1>2, <1>3, <1>4, <1>5, <1>6, <1>7, <1>8, <1>9, <1>10, <1>11 DEF Next

LEMMA SweepFresh ==
  ASSUME FreshInv, TypeOK', MatchStep, Next
  PROVE  \A d \in sweep' : Read(d.intro, d.version, {"pending_consent"})'
<1>1. ASSUME NEW d \in sweep PROVE Read(d.intro, d.version, {"pending_consent"})'
  <2>1. d.intro \in Intro /\ d.version \in Nat
    BY DEF FreshInv, TypeOK
  <2>2. Read(d.intro, d.version, {"pending_consent"})
    BY DEF FreshInv, VersionsStandForState
  <2>3. QED BY <2>1, <2>2, ReadKept DEF FreshInv, MatchStep
<1>2. ASSUME NEW due \in SUBSET Overdue, SweepList(due)
      PROVE  \A d \in sweep' : Read(d.intro, d.version, {"pending_consent"})'
  BY <1>2 DEF SweepList, Overdue, Read, rows
<1>3. CASE sweep' \subseteq sweep
  BY <1>1, <1>3
<1>4. CASE ExpireDue
  BY <1>2, <1>3, <1>4 DEF ExpireDue, SweepExpire, SweepSkip, SweepStop
<1>5. (Tick \/ \E e \in EntId : GrantEntitlement(e)) => UNCHANGED sweep
  BY DEF Tick, GrantEntitlement
<1>6. ASSUME NEW c \in Client PROVE Propose(c) \/ Abandon(c) => UNCHANGED sweep
  BY DEF Propose, ProposePrepare, ReadAllowance, CheckActiveLimit, PersistProposal, CreateMatch, Abandon
<1>7. ASSUME NEW c \in Client PROVE Decide(c) \/ Cancel(c) => UNCHANGED sweep
  BY DEF Decide, DecideRead, DecideCommit, RecordDecision, Cancel, CancelRead, CancelCommit
<1>8. ASSUME NEW c \in Client PROVE Book(c) \/ CheckIn(c) => UNCHANGED sweep
  BY DEF Book, BookRead, Bookable, AllAccepted, RejectOverlaps, BookCommit, TryBook, CreateMeetup, CheckIn, CheckInRead, CheckInCommit
<1>9. ASSUME NEW c \in Client PROVE CompleteMeetup(c) \/ CancelMeetup(c) => UNCHANGED sweep
  BY DEF CompleteMeetup, CompleteRead, CompleteCommit,
         CancelMeetup, CancelMeetupRead, CancelMeetupCommit
<1>10. ASSUME NEW c \in Client PROVE SubmitFeedback(c) => UNCHANGED sweep
  BY DEF SubmitFeedback, FeedbackRead, FeedbackCommit, AddFeedback
<1>11. QED BY <1>3, <1>4, <1>5, <1>6, <1>7, <1>8, <1>9, <1>10 DEF Next

LEMMA FreshStep == FreshInv /\ [Next]_vars => FreshInv'
<1> SUFFICES ASSUME FreshInv, [Next]_vars PROVE FreshInv'
  OBVIOUS
<1>1. TypeOK'
  BY TypeStep DEF FreshInv
<1>2. CASE UNCHANGED vars
  BY <1>1, <1>2, Zenon DEF FreshInv, VersionsStandForState, RequestFresh, Read, vars, rows
<1>3. CASE Next
  <2>1. MatchStep
    BY <1>3, NextMoves
  <2>2. \A i \in Intro : match'[i].state = "none" => match'[i].version = 0
    BY <2>1 DEF MatchStep, FreshInv, VersionsStandForState
  <2>3. QED BY <1>1, <1>3, <2>1, <2>2, RequestsFresh, SweepFresh
            DEF FreshInv, VersionsStandForState
<1>4. QED BY <1>2, <1>3

LEMMA FreshStart == Init => FreshInv
<1>1. Init => VersionsStandForState
  BY DEF Init, VersionsStandForState, RequestFresh, Idle, NoMatch
<1>2. QED BY <1>1, InitTyped DEF FreshInv

LEMMA AlwaysFresh == Spec => []FreshInv
BY FreshStart, FreshStep, PTL DEF Spec

(* For any number of requests in flight: a version a request or the sweeper  *)
(* holds is either out of date or still stands for the state it checked.     *)
THEOREM GuardsAreSound == Spec => []VersionsStandForState
<1>1. FreshInv => VersionsStandForState
  BY DEF FreshInv
<1>2. QED BY <1>1, AlwaysFresh, PTL

(* Whatever stale snapshots are around, no step of any request or of the     *)
(* sweeper changes a closed introduction, and a met one can only be closed.  *)
THEOREM OutcomesAreFinal == Spec => OutcomeFinal
<1> DEFINE Final == \A i \in Intro :
             /\ match[i].state \in Terminal => match'[i] = match[i]
             /\ match[i].state = "met"
                  => match'[i].state \in {"met", "closed_success", "closed_failed"}
<1>1. FreshInv /\ [Next]_vars => [Final]_vars
  <2>1. FreshInv /\ Next => Final
    BY NextMoves DEF MatchStep, Moves, MatchEdges, Terminal
  <2>2. QED BY <2>1
<1> HIDE DEF Final
<1>2. Spec => [][Final]_vars
  BY <1>1, AlwaysFresh, PTL DEF Spec
<1>3. QED BY <1>2 DEF OutcomeFinal, Final
=============================================================================
