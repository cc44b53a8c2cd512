--------------------------- MODULE TransactionProofs ---------------------------
(***************************************************************************)
(* Every step of every request is a transaction on the current rows or     *)
(* leaves the rows alone, because what a request has read still stands     *)
(* when its guards let it commit.  With the two other proofs modules this  *)
(* makes IInv inductive.                                                   *)
(***************************************************************************)
EXTENDS IntroductionProofs, AllowanceProofs, AllowanceRefinement

(* The version a request compares stands for the state it has checked.       *)
LEMMA MatchGuarded ==
  ASSUME TypeOK, NEW i \in Intro, NEW version, NEW from, NEW to,
         Read(i, version, {from}), UpdateMatch(i, version, to)
  PROVE  MatchGoes(i, from, to)
<1>1. match[i].version \in Nat
  BY DEF TypeOK, MatchRow
<1> QED BY <1>1 DEF Read, UpdateMatch, MatchGoes

LEMMA MeetupGuarded ==
  ASSUME TypeOK, NEW u \in MeetupId, NEW version, NEW from, NEW to,
         ReadMeetup(u, version, {from}), UpdateMeetup(u, version, to)
  PROVE  MeetupGoes(u, from, to)
<1>1. meetup[u].version \in Nat
  BY DEF TypeOK, MeetupRow
<1> QED BY <1>1 DEF ReadMeetup, UpdateMeetup, MeetupGoes

(* releaseReservations and settle look up the active allowances of the pair: *)
(* while an introduction holds quota these are the ones it has charged.      *)
LEMMA HeldIsActive ==
  ASSUME RowsInv, NEW i \in Intro, HoldsOpen(i)
  PROVE  /\ UNION {ActiveEntitlements(m) : m \in match[i].pair} = Held(i)
         /\ \A m \in match[i].pair : ActiveEntitlements(m) # {}
<1> USE DEF RowsInv
<1>1. ASSUME NEW e \in Held(i)
      PROVE  e \in ActiveEntitlements(e[1]) /\ e[1] \in match[i].pair
  <2>1. e \in EntId /\ Moved(e, i, "reserve") /\ i \in OpenHolds(e)
    BY DEF Held, OpenHolds
  <2>2. [ent |-> e, intro |-> i, reason |-> "reserve"].ent[1]
          \in match[[ent |-> e, intro |-> i, reason |-> "reserve"].intro].pair
    BY <2>1, Zenon DEF LedgerKnown, Moved
  <2>3. e[1] \in match[i].pair
    BY <2>2
  <2>4. IsFiniteSet(OpenHolds(e)) /\ entitlement[e].reserved = Cardinality(OpenHolds(e))
    BY <2>1 DEF LedgerKnown, LedgerBalances
  <2>5. Cardinality(OpenHolds(e)) # 0
    BY <2>1, <2>4, FS_EmptySet
  <2>6. entitlement[e].reserved # 0
    BY <2>4, <2>5
  <2>7. entitlement[e].state # "none" /\ entitlement[e].state # "expired"
    BY <2>1, <2>6 DEF AllowancesKnown, NoEntitlement
  <2>8. entitlement[e].state # "exhausted"
    BY <2>1, <2>6 DEF LedgerKnown, LedgerBalances
  <2>9. entitlement[e].state \in EntitlementState
    BY <2>1 DEF TypeOK, EntitlementRow
  <2> QED BY <2>1, <2>3, <2>7, <2>8, <2>9 DEF EntitlementState, ActiveEntitlements
<1>2. ASSUME NEW m \in match[i].pair
      PROVE  \E e \in Held(i) : ActiveEntitlements(m) = {e}
  <2>1. PICK e \in EntId : ChargedTo(i, m) = {e} /\ (i \in OpenHolds(e) <=> HoldsOpen(i))
    BY ChargedParts DEF LedgerKnown, Charged, ChargeAt
  <2>2. e \in Held(i) /\ e[1] = m
    BY <2>1 DEF Held, ChargedTo
  <2>3. e \in ActiveEntitlements(m)
    BY <1>1, <2>2
  <2>4. \A f \in ActiveEntitlements(m) : f = e
    BY <2>2, <2>3 DEF ActiveEntitlements, AllowancesKnown
  <2> QED BY <2>2, <2>3, <2>4
<1>3. ASSUME NEW m \in match[i].pair, NEW f \in ActiveEntitlements(m) PROVE f \in Held(i)
  BY <1>2
<1> QED BY <1>1, <1>2, <1>3

LEMMA HoldsReturned ==
  ASSUME RowsInv, NEW i \in Intro, HoldsOpen(i), NEW from \in HoldsQuota,
         ReleaseReservations(i, from)
  PROVE  ReturnHolds(i)
BY HeldIsActive DEF ReleaseReservations, ReturnHolds

LEMMA HoldsSpent ==
  ASSUME RowsInv, NEW i \in Intro, HoldsOpen(i), Settle(i)
  PROVE  SpendHolds(i)
BY HeldIsActive DEF Settle, SpendHolds
-----------------------------------------------------------------------------
(* The commits, one by one.                                                  *)

LEMMA ProposalCommits ==
  ASSUME IInv, NEW c \in Client, NEW i \in Intro, PersistProposal(c, i)
  PROVE  \E pair \in SUBSET Member, es \in SUBSET EntId : Proposed(i, pair, es)
<1> DEFINE r  == request[c]
           es == {h.ent : h \in r.held}
<1>1. r \in ProposeSnapshot /\ ProposalStands(r)
  BY SnapshotOfOp DEF PersistProposal, IInv, RowsInv, TypeOK, SnapshotsStand, SnapshotStands
<1>2. /\ r.pair \in SUBSET Member /\ es \in SUBSET EntId
      /\ \A h \in r.held : h.ent \in EntId /\ h.version \in Nat
  BY <1>1 DEF ProposeSnapshot, Couple
<1>3. ASSUME NEW h \in r.held
      PROVE  /\ h.ent[1] \in r.pair /\ h.version = entitlement[h.ent].version
             /\ entitlement[h.ent].state = "active"
             /\ entitlement[h.ent].used + entitlement[h.ent].reserved < Total(h.ent)
  BY <1>1 DEF ProposalStands, PersistProposal, CanHold, CanReserve
<1>4. ASSUME NEW m \in r.pair PROVE CountActiveByMember(m) < Plan[m].maxActive
  <2>1. m \in r.counted
    BY DEF PersistProposal
  <2>2. PICK h \in r.held : h.ent[1] = m
    BY <1>1, <2>1 DEF ProposalStands
  <2>3. AllowanceStands(h, r.counted)
    BY <1>1, <2>2 DEF ProposalStands
  <2> QED BY <1>2, <1>3, <2>1, <2>2, <2>3 DEF AllowanceStands
<1>5. ASSUME NEW m \in r.pair PROVE \E e \in es : {f \in es : f[1] = m} = {e}
  <2>1. m \in r.counted
    BY DEF PersistProposal
  <2>2. PICK h \in r.held : h.ent[1] = m
    BY <1>1, <2>1 DEF ProposalStands
  <2>3. \A k \in r.held : k.ent[1] = m => k = h
    BY <1>1, <2>2 DEF ProposalStands
  <2> QED BY <2>2, <2>3
<1>6. Chargeable(es, r.pair)
  BY <1>3, <1>5 DEF Chargeable
<1>7. CreateMatch(i, r.pair, match'[i].deadline)
  BY DEF PersistProposal, CreateMatch, IInv, RowsInv, TypeOK
<1>8. /\ Reserve(es) /\ AppendLedger(es, i, "reserve") /\ Enqueue("match_proposed", i, r.pair)
      /\ UNCHANGED <<meetup, booked, reports>>
  BY DEF PersistProposal
<1> HIDE DEF es
<1>9. Proposed(i, r.pair, es)
  BY <1>1, <1>4, <1>6, <1>7, <1>8 DEF Proposed, ProposalStands
<1> QED BY <1>2, <1>9

LEMMA AnswerCommits ==
  ASSUME IInv, NEW c \in Client, DecideCommit(c)
  PROVE  \E i \in Intro, m \in Member, answer \in {"accepted", "declined"} : Answered(i, m, answer)
<1> DEFINE r == request[c]
           i == r.intro
           target == NextState([consent[i] EXCEPT ![r.member] = r.answer], match[i].pair)
<1>1. TypeOK /\ RowsInv
  BY DEF IInv, RowsInv
<1>2. r \in DecideSnapshot /\ r.op = "decide"
  BY <1>1, SnapshotOfOp DEF DecideCommit, RecordDecision, TypeOK
<1>3. i \in Intro /\ r.member \in Member /\ r.answer \in {"accepted", "declined"}
  BY <1>2 DEF DecideSnapshot
<1>4. r.member \in match[i].pair /\ Read(i, r.version, {"pending_consent"})
  BY <1>2 DEF IInv, SnapshotsStand, SnapshotStands, VersionsStandForState, RequestFresh
<1>5. ASSUME UpdateMatch(i, r.version, target), target \in {"consented", "closed_failed"}
      PROVE  MatchGoes(i, "pending_consent", target)
  <2> HIDE DEF target
  <2> QED BY <1>1, <1>3, <1>4, <1>5, MatchGuarded
<1>6. ASSUME MatchGoes(i, "pending_consent", target), ReleaseReservations(i, "pending_consent")
      PROVE  ReturnHolds(i)
  <2>1. HoldsOpen(i)
    BY <1>6 DEF MatchGoes, HoldsOpen
  <2>2. "pending_consent" \in HoldsQuota
    BY DEF HoldsQuota
  <2> QED BY <1>1, <1>3, <1>6, <2>1, <2>2, HoldsReturned
<1>7. /\ RecordDecision(i, r.member, r.answer) /\ UNCHANGED <<meetup, booked, reports>>
      /\ \/ target = "pending_consent" /\ UNCHANGED <<match, entitlement, ledger, outbox>>
         \/ /\ target = "consented"
            /\ UpdateMatch(i, r.version, target)
            /\ Enqueue("meetup_booked", i, match[i].pair)
            /\ UNCHANGED <<entitlement, ledger>>
         \/ /\ target = "closed_failed"
            /\ UpdateMatch(i, r.version, target)
            /\ ReleaseReservations(i, "pending_consent")
            /\ Enqueue("match_closed", i, match[i].pair)
  BY DEF DecideCommit
<1>8. Answered(i, r.member, r.answer)
  <2> HIDE DEF r, i
  <2> SUFFICES
        \/ target = "pending_consent" /\ UNCHANGED <<match, entitlement, ledger, outbox>>
        \/ /\ target = "consented" /\ MatchGoes(i, "pending_consent", "consented")
           /\ Enqueue("meetup_booked", i, match[i].pair) /\ UNCHANGED <<entitlement, ledger>>
        \/ /\ target = "closed_failed" /\ MatchGoes(i, "pending_consent", "closed_failed")
           /\ ReturnHolds(i) /\ Enqueue("match_closed", i, match[i].pair)
    BY <1>4, <1>7 DEF Answered
  <2> HIDE DEF target
  <2> QED BY <1>5, <1>6, <1>7
<1> QED BY <1>3, <1>8

LEMMA ExpiryCommits ==
  ASSUME IInv, NEW d \in sweep, SweepExpire(d)
  PROVE  \E i \in Intro, from, to \in MatchState : Withdrawn(i, from, to)
<1>1. TypeOK /\ RowsInv
  BY DEF IInv, RowsInv
<1>2. d.intro \in Intro /\ Read(d.intro, d.version, {"pending_consent"})
  BY <1>1 DEF TypeOK, IInv, VersionsStandForState
<1>3. MatchGoes(d.intro, "pending_consent", "expired")
  BY <1>1, <1>2, MatchGuarded DEF SweepExpire
<1>4. HoldsOpen(d.intro) /\ "pending_consent" \in HoldsQuota
  BY <1>3 DEF MatchGoes, HoldsOpen, HoldsQuota
<1>5. ReturnHolds(d.intro)
  BY <1>1, <1>2, <1>4, HoldsReturned DEF SweepExpire
<1>6. Withdrawn(d.intro, "pending_consent", "expired")
  BY <1>3, <1>5 DEF SweepExpire, Withdrawn
<1>7. "pending_consent" \in MatchState /\ "expired" \in MatchState
  BY DEF MatchState
<1> QED BY <1>2, <1>6, <1>7

LEMMA BookingCommits ==
  ASSUME IInv, NEW c \in Client, NEW u \in MeetupId, BookCommit(c, u)
  PROVE  \E i \in Intro, s \in Slot : Scheduled(i, u, s)
<1> DEFINE r == request[c]
           i == r.intro
<1>1. TypeOK /\ RowsInv
  BY DEF IInv, RowsInv
<1>2. r \in BookSnapshot /\ r.op = "book"
  BY <1>1, SnapshotOfOp DEF BookCommit, TryBook, CreateMeetup, TypeOK
<1>3. i \in Intro /\ r.slot \in Slot
  BY <1>2 DEF BookSnapshot
<1>4. Read(i, r.version, {"consented"})
  BY <1>2 DEF IInv, VersionsStandForState, RequestFresh
<1>5. /\ UpdateMatch(i, r.version, "scheduled") /\ TryBook(r.slot) /\ CreateMeetup(u, i, r.slot)
      /\ Enqueue("meetup_booked", i, match[i].pair)
      /\ UNCHANGED <<consent, entitlement, ledger, reports>>
  BY DEF BookCommit
<1> HIDE DEF r, i
<1>6. MatchGoes(i, "consented", "scheduled")
  BY <1>1, <1>3, <1>4, <1>5, MatchGuarded
<1>7. AllAccepted(i)
  BY <1>1, <1>3, <1>6, AnswersParts DEF RowsInv, AnswersAt, AllAccepted, MatchGoes
<1> QED BY <1>3, <1>5, <1>6, <1>7 DEF Scheduled

LEMMA CheckInCommits ==
  ASSUME IInv, NEW c \in Client, CheckInCommit(c)
  PROVE  \E u \in MeetupId : CheckedIn(u)
<1> DEFINE r == request[c]
<1>1. TypeOK
  BY DEF IInv, RowsInv
<1>2. r \in CheckInSnapshot /\ r.op = "check_in"
  BY <1>1, SnapshotOfOp DEF CheckInCommit, TypeOK
<1>3. r.meetup \in MeetupId
  BY <1>2 DEF CheckInSnapshot
<1>4. ReadMeetup(r.meetup, r.version, {"booked"})
  BY <1>2 DEF IInv, SnapshotsStand, SnapshotStands
<1>5. MeetupGoes(r.meetup, "booked", "checked_in")
  BY <1>1, <1>3, <1>4, MeetupGuarded DEF CheckInCommit
<1> QED BY <1>3, <1>5 DEF CheckInCommit, CheckedIn

LEMMA CompletionCommits ==
  ASSUME IInv, NEW c \in Client, CompleteCommit(c)
  PROVE  \E u \in MeetupId : Met(u)
<1> DEFINE r == request[c]
           u == r.meetup
<1>1. TypeOK /\ RowsInv
  BY DEF IInv, RowsInv
<1>2. r \in CompleteSnapshot /\ r.op = "complete"
  BY <1>1, SnapshotOfOp DEF CompleteCommit, TypeOK
<1>3. u \in MeetupId /\ u[1] \in Intro
  BY <1>2 DEF CompleteSnapshot, MeetupId
<1>4. /\ ReadMeetup(u, r.version, {"checked_in"})
      /\ Read(u[1], r.matchVersion, {"scheduled"})
  BY <1>2 DEF IInv, SnapshotsStand, SnapshotStands, VersionsStandForState, RequestFresh
<1>5. /\ UpdateMeetup(u, r.version, "completed") /\ UpdateMatch(u[1], r.matchVersion, "met")
      /\ Settle(u[1]) /\ Enqueue("meetup_completed", u[1], match[u[1]].pair)
      /\ UNCHANGED <<consent, booked, reports>>
  BY DEF CompleteCommit
<1> HIDE DEF r, u
<1>6. MeetupGoes(u, "checked_in", "completed") /\ MatchGoes(u[1], "scheduled", "met")
  BY <1>1, <1>3, <1>4, <1>5, MeetupGuarded, MatchGuarded
<1>7. SpendHolds(u[1])
  BY <1>1, <1>3, <1>5, <1>6, HoldsSpent DEF MatchGoes, HoldsOpen
<1> QED BY <1>3, <1>5, <1>6, <1>7 DEF Met

LEMMA MeetupCancelCommits ==
  ASSUME IInv, NEW c \in Client, CancelMeetupCommit(c)
  PROVE  \E u \in MeetupId : Unscheduled(u)
<1> DEFINE r == request[c]
           u == r.meetup
<1>1. TypeOK
  BY DEF IInv, RowsInv
<1>2. r \in CancelMeetupSnapshot /\ r.op = "cancel_meetup"
  BY <1>1, SnapshotOfOp DEF CancelMeetupCommit, TypeOK
<1>3. u \in MeetupId /\ u[1] \in Intro
  BY <1>2 DEF CancelMeetupSnapshot, MeetupId
<1>4. /\ ReadMeetup(u, r.version, {"booked"}) /\ r.from = "scheduled"
      /\ Read(u[1], r.matchVersion, {"scheduled"})
  BY <1>2 DEF IInv, SnapshotsStand, SnapshotStands, VersionsStandForState, RequestFresh
<1>5. /\ UpdateMeetup(u, r.version, "cancelled") /\ UpdateMatch(u[1], r.matchVersion, "consented")
      /\ FreeSeat(meetup[u].slot)
      /\ UNCHANGED <<consent, entitlement, ledger, reports, outbox>>
  BY <1>4 DEF CancelMeetupCommit
<1> HIDE DEF r, u
<1>6. MeetupGoes(u, "booked", "cancelled") /\ MatchGoes(u[1], "scheduled", "consented")
  BY <1>1, <1>3, <1>4, <1>5, MeetupGuarded, MatchGuarded
<1> QED BY <1>3, <1>5, <1>6 DEF Unscheduled

LEMMA CancelCommits ==
  ASSUME IInv, NEW c \in Client, CancelCommit(c)
  PROVE  \/ \E i \in Intro, from, to \in MatchState : Withdrawn(i, from, to)
         \/ \E u \in MeetupId, from \in MeetupState : CalledOff(u, from)
<1> DEFINE r == request[c]
           i == r.intro
<1>1. TypeOK /\ RowsInv /\ MeetupsFollow
  BY DEF IInv, RowsInv
<1>2. r \in CancelSnapshot /\ r.op = "cancel"
  BY <1>1, SnapshotOfOp DEF CancelCommit, TypeOK
<1>3. i \in Intro
  BY <1>2 DEF CancelSnapshot
<1>4. Read(i, r.version, {r.from}) /\ r.from \in Cancellable
  BY <1>2 DEF IInv, VersionsStandForState, RequestFresh
<1>5. /\ UpdateMatch(i, r.version, "cancelled")
      /\ r.from = "scheduled" => ReleaseSlot(i)
      /\ r.from # "scheduled" => UNCHANGED <<meetup, booked>>
      /\ ReleaseReservations(i, r.from)
      /\ Enqueue("match_closed", i, match[i].pair)
      /\ UNCHANGED <<consent, reports>>
  BY DEF CancelCommit, OccupiesSlot
<1>6. r.from \in {"pending_consent", "consented", "scheduled"}
  BY <1>4 DEF Cancellable, MatchCanTransition, MatchEdges
<1>7. MatchGoes(i, r.from, "cancelled")
  BY <1>1, <1>3, <1>4, <1>5, MatchGuarded
<1>8. ReturnHolds(i)
  BY <1>1, <1>3, <1>5, <1>6, <1>7, HoldsReturned DEF MatchGoes, HoldsOpen, HoldsQuota
<1> HIDE DEF r, i
<1>9. CASE r.from # "scheduled"
  <2>1. r.from \in MatchState /\ "cancelled" \in MatchState
    BY <1>6 DEF MatchState
  <2>2. Withdrawn(i, r.from, "cancelled")
    BY <1>5, <1>6, <1>7, <1>8, <1>9 DEF Withdrawn
  <2> QED BY <1>3, <2>1, <2>2
<1>10. CASE r.from = "scheduled"
  <2>1. PICK v \in ActiveMeetups(i) : meetup[v].state \in {"booked", "checked_in"}
    BY <1>1, <1>3, <1>7, <1>10 DEF MatchGoes, MeetupsFollow
  <2>2. PICK u \in ActiveMeetups(i) : /\ UpdateMeetup(u, meetup[u].version, "cancelled")
                                      /\ FreeSeat(meetup[u].slot)
    BY <1>5, <1>10, <2>1 DEF ReleaseSlot
  <2>3. u = v
    BY <1>1, <1>3, <2>1, <2>2 DEF MeetupsFollow
  <2>4. u \in MeetupId /\ u[1] = i
    BY <2>2 DEF ActiveMeetups
  <2>5. meetup[u].state \in {"booked", "checked_in"}
    BY <2>1, <2>3
  <2>6. MeetupGoes(u, meetup[u].state, "cancelled")
    BY <2>2 DEF UpdateMeetup, MeetupGoes
  <2>7. CalledOff(u, meetup[u].state)
    BY <1>5, <1>7, <1>8, <1>10, <2>2, <2>4, <2>5, <2>6 DEF CalledOff
  <2>8. meetup[u].state \in MeetupState
    BY <2>5 DEF MeetupState
  <2> QED BY <2>4, <2>7, <2>8
<1> QED BY <1>9, <1>10

LEMMA ReportCommits ==
  ASSUME IInv, NEW c \in Client, FeedbackCommit(c)
  PROVE  \E u \in MeetupId, m \in Member, intent \in Intent : Reported(u, m, intent)
<1> DEFINE r == request[c]
           u == r.meetup
           all == ReportsOf(u, reports')
           verdict == IF MutualContinue(all) THEN "closed_success" ELSE "closed_failed"
<1>1. TypeOK /\ RowsInv /\ ReportsKnown
  BY DEF IInv, RowsInv
<1>2. r \in FeedbackSnapshot /\ r.op = "feedback"
  BY <1>1, SnapshotOfOp DEF FeedbackCommit, AddFeedback, TypeOK
<1>3. u \in MeetupId /\ u[1] \in Intro /\ r.member \in Member /\ r.intent \in Intent
  BY <1>2 DEF FeedbackSnapshot, MeetupId
<1>4. FeedbackStands(r) /\ Read(u[1], r.matchVersion, {r.from})
  BY <1>2 DEF IInv, SnapshotsStand, SnapshotStands, VersionsStandForState, RequestFresh
<1>5. /\ AddFeedback(u, r.member, r.intent)
      /\ UNCHANGED <<consent, entitlement, ledger, meetup, booked>>
      /\ \/ /\ Complete(all) /\ r.from = "met"
            /\ UpdateMatch(u[1], r.matchVersion, verdict)
            /\ Enqueue("match_closed", u[1], match[u[1]].pair)
         \/ /\ ~(Complete(all) /\ r.from = "met")
            /\ UNCHANGED <<match, outbox>>
  BY Zenon DEF FeedbackCommit
<1>6. meetup[u].state = "completed" /\ r.member \in match[u[1]].pair
  BY <1>4 DEF FeedbackStands
<1>7. ~HasReported(u, r.member)
  BY <1>5 DEF AddFeedback, ReportsOf, HasReported
<1>8. match[u[1]].state = "met"
  BY <1>1, <1>3, <1>6, <1>7 DEF ReportsKnown
<1>9. r.from = "met"
  BY <1>4, <1>8 DEF FeedbackStands
<1>10. ASSUME UpdateMatch(u[1], r.matchVersion, verdict) PROVE MatchGoes(u[1], "met", verdict)
  <2> HIDE DEF verdict
  <2> QED BY <1>1, <1>3, <1>4, <1>9, <1>10, MatchGuarded
<1>11. Reported(u, r.member, r.intent)
  <2>1. \/ ~Complete(all) /\ UNCHANGED <<match, outbox>>
        \/ /\ Complete(all) /\ MatchGoes(u[1], "met", verdict)
           /\ Enqueue("match_closed", u[1], match[u[1]].pair)
    <3> HIDE DEF verdict, all
    <3> QED BY <1>5, <1>9, <1>10
  <2> QED BY <1>5, <1>6, <2>1, Zenon DEF Reported
<1> QED BY <1>3, <1>11
-----------------------------------------------------------------------------
(* What a request has read goes on standing while transactions go by.        *)

LEMMA AllowanceSteps ==
  ASSUME RowsInv, Transaction, NEW e \in EntId, entitlement'[e] # entitlement[e]
  PROVE  GrantEntitlement(e) \/ entitlement'[e].version = entitlement[e].version + 1
<1> USE DEF RowsInv
<1>1. ASSUME NEW f \in EntId, GrantEntitlement(f), f # e PROVE entitlement'[e] = entitlement[e]
  BY <1>1 DEF GrantEntitlement, TypeOK
<1>2. ASSUME NEW i \in Intro, NEW pair \in SUBSET Member, NEW es \in SUBSET EntId,
             Proposed(i, pair, es)
      PROVE  entitlement'[e].version = entitlement[e].version + 1
  BY <1>2, ReserveRows DEF Proposed
<1>3. ASSUME NEW i \in Intro, Returned(i) \/ Settled(i)
      PROVE  entitlement'[e].version = entitlement[e].version + 1
  <2>1. Held(i) \in SUBSET EntId
    BY DEF Held
  <2>2. Release(Held(i)) \/ Consume(Held(i))
    BY <1>3 DEF Returned, Settled, ReturnHolds, SpendHolds
  <2> QED BY <2>1, <2>2, ReleaseRows, ConsumeRows
<1> QED BY <1>1, <1>2, <1>3, HoldSteps

LEMMA AllowanceReadKept ==
  ASSUME RowsInv, Transaction, NEW h \in [ent : EntId, version : Nat], NEW counted,
         AllowanceStands(h, counted)
  PROVE  AllowanceStands(h, counted)'
<1> USE DEF RowsInv
<1> DEFINE e == h.ent
           m == e[1]
<1>1. e \in EntId /\ m \in Member /\ h.version \in Nat /\ entitlement[e].version \in Nat
  BY DEF EntId, TypeOK, EntitlementRow
<1>2. CASE entitlement'[e] # entitlement[e]
  <2>1. CASE GrantEntitlement(e)
    <3>1. entitlement[e].version = 0 /\ entitlement[e].state = "none"
      BY <1>1, <2>1 DEF GrantEntitlement, AllowancesKnown, NoEntitlement
    <3> QED BY <1>1, <3>1 DEF AllowanceStands
  <2>2. CASE entitlement'[e].version = entitlement[e].version + 1
    BY <1>1, <2>2 DEF AllowanceStands
  <2> QED BY <1>1, <1>2, <2>1, <2>2, AllowanceSteps
<1>3. ASSUME entitlement'[e] = entitlement[e], entitlement[e].state = "active", m \in counted,
             CountActiveByMember(m) < Plan[m].maxActive
      PROVE  CountActiveByMember(m)' < Plan[m].maxActive
  <2>1. ASSUME NEW i \in Intro, NEW pair \in SUBSET Member, NEW es \in SUBSET EntId,
               Proposed(i, pair, es), m \in pair
        PROVE  FALSE
    <3>1. PICK f \in es : f[1] = m
      BY <2>1 DEF Proposed, Chargeable
    <3>2. entitlement[f].state = "active" /\ f \in EntId
      BY <2>1, <3>1 DEF Proposed, Chargeable
    <3>3. f = e
      BY <1>1, <1>3, <3>1, <3>2 DEF AllowancesKnown
    <3>4. entitlement'[e].version = entitlement[e].version + 1
      BY <1>1, <2>1, <3>1, <3>3, ReserveRows DEF Proposed
    <3> QED BY <1>1, <1>3, <3>4
  <2>2. ActiveMatches(m)' \subseteq ActiveMatches(m)
    BY <1>1, <2>1, LiveMatches
  <2>3. IsFiniteSet(ActiveMatches(m)) /\ Plan[m].maxActive \in Nat
    BY <1>1, PlanAssumption DEF LimitKnown, PlanType
  <2>4. /\ IsFiniteSet(ActiveMatches(m)')
        /\ Cardinality(ActiveMatches(m)') <= Cardinality(ActiveMatches(m))
    BY <2>2, <2>3, FS_Subset
  <2>5. Cardinality(ActiveMatches(m)) \in Nat /\ Cardinality(ActiveMatches(m)') \in Nat
    BY <2>3, <2>4, FS_CardinalityType
  <2> QED BY <1>3, <2>3, <2>4, <2>5 DEF CountActiveByMember
<1>4. CASE entitlement'[e] = entitlement[e]
  <2>1. CASE h.version < entitlement[e].version
    BY <1>4, <2>1 DEF AllowanceStands
  <2>2. CASE ~(h.version < entitlement[e].version)
    BY <1>3, <1>4, <2>2 DEF AllowanceStands
  <2> QED BY <2>1, <2>2
<1> QED BY <1>2, <1>4

LEMMA MeetupReadKept ==
  ASSUME RowsInv, Transaction, NEW u \in MeetupId, NEW version \in Nat, NEW states,
         ReadMeetup(u, version, states)
  PROVE  ReadMeetup(u, version, states)'
<1> USE DEF RowsInv
<1>1. meetup[u].version \in Nat
  BY DEF TypeOK, MeetupRow
<1>2. ASSUME NEW s \in Slot, Scheduled(u[1], u, s)
      PROVE  meetup'[u].version = meetup[u].version + 1
  <2>1. u[1] \in Intro
    BY DEF MeetupId
  <2>2. meetup[u].state = "none" /\ meetup'[u].version = 1
    BY <1>2, <2>1, MeetupMade DEF Scheduled
  <2> QED BY <2>2 DEF MeetupsFollow
<1>3. meetup'[u] = meetup[u] \/ meetup'[u].version = meetup[u].version + 1
  BY <1>2, MeetupSteps
<1> QED BY <1>1, <1>3 DEF ReadMeetup

LEMMA ReportReadKept ==
  ASSUME RowsInv, Transaction, NEW r \in FeedbackSnapshot, FeedbackStands(r)
  PROVE  FeedbackStands(r)'
<1> USE DEF RowsInv
<1>1. r.meetup \in MeetupId /\ r.meetup[1] \in Intro
  BY DEF FeedbackSnapshot, MeetupId
<1>2. meetup[r.meetup].state = "completed"
  BY DEF FeedbackStands
<1>3. meetup'[r.meetup] = meetup[r.meetup] /\ match'[r.meetup[1]].pair = match[r.meetup[1]].pair
  BY <1>1, <1>2, CompletedRowsKept
<1>4. match[r.meetup[1]].state \in {"met", "closed_success", "closed_failed"}
  BY <1>1, <1>2 DEF MeetupsFollow, CompletedMeetup
<1>5. ASSUME match[r.meetup[1]].state # "met" PROVE match'[r.meetup[1]].state # "met"
  <2>1. CASE match'[r.meetup[1]] = match[r.meetup[1]]
    BY <1>5, <2>1
  <2>2. CASE match'[r.meetup[1]] # match[r.meetup[1]]
    <3>1. ~\E pair \in SUBSET Member, es \in SUBSET EntId : Proposed(r.meetup[1], pair, es)
      BY <1>1, <1>4, MatchMade DEF Proposed
    <3>2. <<match[r.meetup[1]].state, match'[r.meetup[1]].state>> \in MatchMoves
      BY <1>1, <2>2, <3>1, MatchSteps
    <3> QED BY <1>4, <3>2 DEF MatchMoves, MatchEdges
  <2> QED BY <2>1, <2>2
<1> QED BY <1>2, <1>3, <1>5 DEF FeedbackStands

LEMMA SnapshotKept ==
  ASSUME RowsInv, Transaction, NEW r \in Snapshot, SnapshotStands(r)
  PROVE  SnapshotStands(r)'
<1>1. ASSUME r.op = "propose" PROVE ProposalStands(r)'
  <2>1. r \in ProposeSnapshot /\ ProposalStands(r)
    BY <1>1, SnapshotOfOp DEF SnapshotStands
  <2>2. \A h \in r.held : h \in [ent : EntId, version : Nat]
    BY <2>1 DEF ProposeSnapshot
  <2>3. ASSUME NEW h \in r.held PROVE AllowanceStands(h, r.counted)'
    BY <2>1, <2>2, AllowanceReadKept DEF ProposalStands
  <2> QED BY <2>1, <2>3 DEF ProposalStands
<1>2. ASSUME r.op = "decide" PROVE r.member \in match'[r.intro].pair
  <2>1. r \in DecideSnapshot /\ r.member \in match[r.intro].pair
    BY <1>2, SnapshotOfOp DEF SnapshotStands
  <2>2. r.intro \in Intro
    BY <2>1 DEF DecideSnapshot
  <2> QED BY <2>1, <2>2, MatchLasts DEF RowsInv, PairsKnown
<1>3. ASSUME r.op = "check_in" PROVE ReadMeetup(r.meetup, r.version, {"booked"})'
  <2>1. r \in CheckInSnapshot /\ ReadMeetup(r.meetup, r.version, {"booked"})
    BY <1>3, SnapshotOfOp DEF SnapshotStands
  <2>2. r.meetup \in MeetupId /\ r.version \in Nat
    BY <2>1 DEF CheckInSnapshot
  <2> QED BY <2>1, <2>2, MeetupReadKept
<1>4. ASSUME r.op = "complete" PROVE ReadMeetup(r.meetup, r.version, {"checked_in"})'
  <2>1. r \in CompleteSnapshot /\ ReadMeetup(r.meetup, r.version, {"checked_in"})
    BY <1>4, SnapshotOfOp DEF SnapshotStands
  <2>2. r.meetup \in MeetupId /\ r.version \in Nat
    BY <2>1 DEF CompleteSnapshot
  <2> QED BY <2>1, <2>2, MeetupReadKept
<1>5. ASSUME r.op = "cancel_meetup"
      PROVE  ReadMeetup(r.meetup, r.version, {"booked"})' /\ r.from = "scheduled"
  <2>1. /\ r \in CancelMeetupSnapshot /\ ReadMeetup(r.meetup, r.version, {"booked"})
        /\ r.from = "scheduled"
    BY <1>5, SnapshotOfOp DEF SnapshotStands
  <2>2. r.meetup \in MeetupId /\ r.version \in Nat
    BY <2>1 DEF CancelMeetupSnapshot
  <2> QED BY <2>1, <2>2, MeetupReadKept
<1>6. ASSUME r.op = "feedback" PROVE FeedbackStands(r)'
  BY <1>6, SnapshotOfOp, ReportReadKept DEF SnapshotStands
<1> QED BY <1>1, <1>2, <1>3, <1>4, <1>5, <1>6 DEF SnapshotStands
-----------------------------------------------------------------------------
(* What a request has just read, and what it reads next.                     *)

LEMMA SnapshotStill ==
  ASSUME UNCHANGED rows, NEW r, SnapshotStands(r)
  PROVE  SnapshotStands(r)'
BY Zenon DEF rows, SnapshotStands, ProposalStands, AllowanceStands, CountActiveByMember,
             ActiveMatches, ReadMeetup, FeedbackStands

LEMMA ReadStands ==
  ASSUME IInv, UNCHANGED rows, NEW c \in Client, NEW snapshot, SnapshotStands(snapshot),
         request' = [request EXCEPT ![c] = snapshot]
  PROVE  SnapshotsStand'
<1>1. request'[c] = snapshot /\ \A d \in Client \ {c} : request'[d] = request[d]
  BY DEF IInv, RowsInv, TypeOK
<1>2. \A d \in Client : SnapshotStands(request[d])
  BY DEF IInv, SnapshotsStand
<1>3. SUFFICES ASSUME NEW d \in Client, NEW r, r = request'[d] PROVE SnapshotStands(r)'
  BY Zenon DEF SnapshotsStand
<1>4. SnapshotStands(r)
  BY <1>1, <1>2, <1>3
<1> QED BY <1>4, SnapshotStill

LEMMA DoneStands ==
  ASSUME IInv, Transaction \/ UNCHANGED rows, UNCHANGED request \/ \E c \in Client : Finish(c)
  PROVE  SnapshotsStand'
<1>1. SUFFICES ASSUME NEW d \in Client, NEW r, r = request'[d] PROVE SnapshotStands(r)'
  BY Zenon DEF SnapshotsStand
<1>2. r = Idle \/ r = request[d]
  BY <1>1 DEF Finish, IInv, RowsInv, TypeOK
<1>3. CASE r = Idle
  BY <1>3 DEF Idle, SnapshotStands
<1>4. CASE r = request[d]
  <2>1. SnapshotStands(r) /\ r \in Snapshot /\ RowsInv
    BY <1>4 DEF IInv, SnapshotsStand, RowsInv, TypeOK
  <2> QED BY <2>1, SnapshotKept, SnapshotStill
<1> QED BY <1>2, <1>3, <1>4

LEMMA ProposeReads ==
  ASSUME IInv, NEW c \in Client,
         \/ \E a, b \in Member : ProposePrepare(c, a, b)
         \/ \E e \in EntId : ReadAllowance(c, e)
         \/ \E m \in Member : CheckActiveLimit(c, m)
  PROVE  UNCHANGED rows /\ SnapshotsStand'
<1>1. ASSUME NEW a \in Member, NEW b \in Member, ProposePrepare(c, a, b)
      PROVE  UNCHANGED rows /\ SnapshotsStand'
  <2> DEFINE s == [op |-> "propose", pair |-> {a, b}, at |-> now, held |-> {}, counted |-> {}]
  <2>1. request' = [request EXCEPT ![c] = s] /\ UNCHANGED rows /\ a # b
    BY <1>1 DEF ProposePrepare, Begin
  <2>2. Twosome({a, b})
    BY <2>1 DEF Twosome
  <2>3. SnapshotStands(s)
    BY <2>2 DEF SnapshotStands, ProposalStands
  <2> HIDE DEF s
  <2> QED BY <2>1, <2>3, ReadStands
<1>2. ASSUME NEW e \in EntId, ReadAllowance(c, e) PROVE UNCHANGED rows /\ SnapshotsStand'
  <2> DEFINE r == request[c]
             h == [ent |-> e, version |-> entitlement[e].version]
             s == [r EXCEPT !.held = @ \cup {h}]
  <2>1. /\ r.op = "propose" /\ e[1] \in r.pair \ r.counted /\ UNCHANGED rows
        /\ {k.ent[1] : k \in r.held} = r.counted
        /\ entitlement[e].state = "active"
        /\ request' = [request EXCEPT ![c] = s]
    <3>1. request' = [request EXCEPT ![c].held = @ \cup {h}]
      BY <1>2 DEF ReadAllowance
    <3> QED BY <1>2, <3>1 DEF ReadAllowance, CanReserve
  <2>2. r \in ProposeSnapshot /\ ProposalStands(r)
    BY <2>1, SnapshotOfOp DEF IInv, RowsInv, TypeOK, SnapshotsStand, SnapshotStands
  <2>3. /\ s.op = "propose" /\ s.pair = r.pair /\ s.counted = r.counted
        /\ s.held = r.held \cup {h}
    BY <2>1, <2>2 DEF ProposeSnapshot
  <2>4. h.ent = e /\ AllowanceStands(h, r.counted)
    BY <2>1 DEF AllowanceStands
  <2> HIDE DEF s, h, r
  <2>5. \A k \in r.held : k.ent[1] # e[1]
    BY <2>1
  <2>6. ProposalStands(s)
    BY <2>1, <2>2, <2>3, <2>4, <2>5 DEF ProposalStands
  <2>7. SnapshotStands(s)
    BY <2>3, <2>6 DEF SnapshotStands
  <2> QED BY <2>1, <2>7, ReadStands
<1>3. ASSUME NEW m \in Member, CheckActiveLimit(c, m) PROVE UNCHANGED rows /\ SnapshotsStand'
  <2> DEFINE r == request[c]
             s == [r EXCEPT !.counted = @ \cup {m}]
  <2>1. /\ r.op = "propose" /\ m \in {k.ent[1] : k \in r.held} /\ UNCHANGED rows
        /\ CountActiveByMember(m) < Plan[m].maxActive
        /\ request' = [request EXCEPT ![c] = s]
    <3>1. request' = [request EXCEPT ![c].counted = @ \cup {m}]
      BY <1>3 DEF CheckActiveLimit
    <3> QED BY <1>3, <3>1 DEF CheckActiveLimit
  <2>2. r \in ProposeSnapshot /\ ProposalStands(r)
    BY <2>1, SnapshotOfOp DEF IInv, RowsInv, TypeOK, SnapshotsStand, SnapshotStands
  <2>3. /\ s.op = "propose" /\ s.pair = r.pair /\ s.held = r.held
        /\ s.counted = r.counted \cup {m}
    BY <2>1, <2>2 DEF ProposeSnapshot
  <2> HIDE DEF s, r
  <2>4. ASSUME NEW h \in r.held PROVE AllowanceStands(h, s.counted)
    BY <2>1, <2>2, <2>3 DEF ProposalStands, AllowanceStands
  <2>5. ProposalStands(s)
    BY <2>1, <2>2, <2>3, <2>4 DEF ProposalStands
  <2>6. SnapshotStands(s)
    BY <2>3, <2>5 DEF SnapshotStands
  <2> QED BY <2>1, <2>6, ReadStands
<1> QED BY <1>1, <1>2, <1>3

LEMMA MatchReads ==
  ASSUME IInv, NEW c \in Client,
         \/ \E i \in Intro, m \in Member, answer \in {"accepted", "declined"} :
              DecideRead(c, i, m, answer)
         \/ \E i \in Intro : CancelRead(c, i)
         \/ \E i \in Intro, s \in Slot : BookRead(c, i, s)
         \/ \E m \in Member : RejectOverlaps(c, m)
  PROVE  UNCHANGED rows /\ SnapshotsStand'
<1>1. ASSUME NEW i \in Intro, NEW m \in Member, NEW answer, DecideRead(c, i, m, answer)
      PROVE  UNCHANGED rows /\ SnapshotsStand'
  <2> DEFINE s == [op |-> "decide", intro |-> i, member |-> m, answer |-> answer,
                   version |-> match[i].version]
  <2>1. request' = [request EXCEPT ![c] = s] /\ UNCHANGED rows /\ SnapshotStands(s)
    BY <1>1 DEF DecideRead, Begin, SnapshotStands
  <2> HIDE DEF s
  <2> QED BY <2>1, ReadStands
<1>2. ASSUME NEW i \in Intro, CancelRead(c, i) PROVE UNCHANGED rows /\ SnapshotsStand'
  <2> DEFINE s == [op |-> "cancel", intro |-> i, from |-> match[i].state,
                   version |-> match[i].version]
  <2>1. request' = [request EXCEPT ![c] = s] /\ UNCHANGED rows /\ SnapshotStands(s)
    BY <1>2 DEF CancelRead, Begin, SnapshotStands
  <2> HIDE DEF s
  <2> QED BY <2>1, ReadStands
<1>3. ASSUME NEW i \in Intro, NEW t \in Slot, BookRead(c, i, t)
      PROVE  UNCHANGED rows /\ SnapshotsStand'
  <2> DEFINE s == [op |-> "book", intro |-> i, slot |-> t, version |-> match[i].version,
                   clear |-> {}]
  <2>1. request' = [request EXCEPT ![c] = s] /\ UNCHANGED rows /\ SnapshotStands(s)
    BY <1>3 DEF BookRead, Bookable, AllAccepted, Begin, SnapshotStands
  <2> HIDE DEF s
  <2> QED BY <2>1, ReadStands
<1>4. ASSUME NEW m \in Member, RejectOverlaps(c, m) PROVE UNCHANGED rows /\ SnapshotsStand'
  <2> DEFINE s == [request[c] EXCEPT !.clear = @ \cup {m}]
  <2>1. /\ request' = [request EXCEPT ![c] = s] /\ UNCHANGED rows
        /\ request[c].op = "book"
    BY <1>4 DEF RejectOverlaps
  <2>2. request[c] \in BookSnapshot
    BY <2>1, SnapshotOfOp DEF IInv, RowsInv, TypeOK
  <2>3. s.op = "book"
    BY <2>2 DEF BookSnapshot
  <2>4. SnapshotStands(s)
    BY <2>3 DEF SnapshotStands
  <2> HIDE DEF s
  <2> QED BY <2>1, <2>4, ReadStands
<1> QED BY <1>1, <1>2, <1>3, <1>4

LEMMA MeetupReads ==
  ASSUME IInv, NEW c \in Client, NEW u \in MeetupId,
         \/ CheckInRead(c, u) \/ CompleteRead(c, u) \/ CancelMeetupRead(c, u)
         \/ \E m \in Member, intent \in Intent : FeedbackRead(c, u, m, intent)
  PROVE  UNCHANGED rows /\ SnapshotsStand'
<1>1. ASSUME CheckInRead(c, u) PROVE UNCHANGED rows /\ SnapshotsStand'
  <2> DEFINE s == [op |-> "check_in", meetup |-> u, version |-> meetup[u].version]
  <2>1. meetup[u].state = "booked"
    BY <1>1 DEF CheckInRead, MeetupCanTransition, MeetupEdges
  <2>2. request' = [request EXCEPT ![c] = s] /\ UNCHANGED rows /\ SnapshotStands(s)
    BY <1>1, <2>1 DEF CheckInRead, Begin, SnapshotStands, ReadMeetup
  <2> HIDE DEF s
  <2> QED BY <2>2, ReadStands
<1>2. ASSUME CompleteRead(c, u) PROVE UNCHANGED rows /\ SnapshotsStand'
  <2> DEFINE s == [op |-> "complete", meetup |-> u, version |-> meetup[u].version,
                   matchVersion |-> match[u[1]].version]
  <2>1. meetup[u].state = "checked_in"
    BY <1>2 DEF CompleteRead, MeetupCanTransition, MeetupEdges
  <2>2. request' = [request EXCEPT ![c] = s] /\ UNCHANGED rows /\ SnapshotStands(s)
    BY <1>2, <2>1 DEF CompleteRead, Begin, SnapshotStands, ReadMeetup
  <2> HIDE DEF s
  <2> QED BY <2>2, ReadStands
<1>3. ASSUME CancelMeetupRead(c, u) PROVE UNCHANGED rows /\ SnapshotsStand'
  <2> DEFINE s == [op |-> "cancel_meetup", meetup |-> u, version |-> meetup[u].version,
                   from |-> match[u[1]].state, matchVersion |-> match[u[1]].version]
  <2>1. meetup[u].state = "booked"
    BY <1>3 DEF CancelMeetupRead, MeetupCanTransition, MeetupEdges
  <2>2. u[1] \in Intro /\ u \in ActiveMeetups(u[1])
    BY <2>1 DEF MeetupId, ActiveMeetups, HoldsSeat
  <2>3. match[u[1]].state = "scheduled"
    BY <2>1, <2>2 DEF IInv, RowsInv, MeetupsFollow
  <2>4. request' = [request EXCEPT ![c] = s] /\ UNCHANGED rows /\ SnapshotStands(s)
    BY <1>3, <2>1, <2>3 DEF CancelMeetupRead, Begin, SnapshotStands, ReadMeetup
  <2> HIDE DEF s
  <2> QED BY <2>4, ReadStands
<1>4. ASSUME NEW m \in Member, NEW intent \in Intent, FeedbackRead(c, u, m, intent)
      PROVE  UNCHANGED rows /\ SnapshotsStand'
  <2> DEFINE s == [op |-> "feedback", meetup |-> u, member |-> m, intent |-> intent,
                   from |-> match[u[1]].state, matchVersion |-> match[u[1]].version]
  <2>1. request' = [request EXCEPT ![c] = s] /\ UNCHANGED rows /\ SnapshotStands(s)
    BY <1>4 DEF FeedbackRead, Begin, SnapshotStands, FeedbackStands
  <2> HIDE DEF s
  <2> QED BY <2>1, ReadStands
<1> QED BY <1>1, <1>2, <1>3, <1>4

-----------------------------------------------------------------------------
LEMMA StepsAreTransactions ==
  ASSUME IInv, Next
  PROVE  (Transaction \/ UNCHANGED rows) /\ SnapshotsStand'
<1> DEFINE Goal == (Transaction \/ UNCHANGED rows) /\ SnapshotsStand'
<1>1. ASSUME NEW c \in Client, Finish(c), Transaction \/ UNCHANGED rows PROVE Goal
  BY <1>1, DoneStands
<1>2. ASSUME UNCHANGED request, Transaction \/ UNCHANGED rows PROVE Goal
  BY <1>2, DoneStands
<1> HIDE DEF Goal
<1>3. ASSUME Tick PROVE Goal
  BY <1>2, <1>3 DEF Tick
<1>4. ASSUME NEW e \in EntId, GrantEntitlement(e) PROVE Goal
  <2>1. Transaction /\ UNCHANGED request
    BY <1>4, Zenon DEF Transaction, GrantEntitlement
  <2> QED BY <1>2, <2>1
<1>5. ASSUME ExpireDue PROVE Goal
  <2>1. ASSUME NEW d \in sweep, SweepExpire(d) PROVE Goal
    <3>1. Transaction
      BY <2>1, ExpiryCommits, Zenon DEF Transaction
    <3>2. UNCHANGED request
      BY <2>1 DEF SweepExpire
    <3> QED BY <1>2, <3>1, <3>2
  <2>2. ASSUME UNCHANGED rows, UNCHANGED request PROVE Goal
    BY <1>2, <2>2
  <2> QED BY <1>5, <2>1, <2>2 DEF ExpireDue, SweepList, SweepSkip, SweepStop
<1>6. ASSUME NEW c \in Client, Propose(c) PROVE Goal
  <2>1. ASSUME NEW i \in Intro, PersistProposal(c, i) PROVE Goal
    <3>1. Transaction
      BY <2>1, ProposalCommits, Zenon DEF Transaction
    <3>2. Finish(c)
      BY <2>1 DEF PersistProposal
    <3> QED BY <1>1, <3>1, <3>2
  <2> QED BY <1>6, <2>1, ProposeReads DEF Propose, Goal
<1>7. ASSUME NEW c \in Client, Decide(c) PROVE Goal
  <2>1. CASE DecideCommit(c)
    <3>1. Transaction
      BY <2>1, AnswerCommits, Zenon DEF Transaction
    <3>2. Finish(c)
      BY <2>1 DEF DecideCommit
    <3> QED BY <1>1, <3>1, <3>2
  <2> QED BY <1>7, <2>1, MatchReads DEF Decide, Goal
<1>8. ASSUME NEW c \in Client, Cancel(c) PROVE Goal
  <2>1. CASE CancelCommit(c)
    <3>1. Transaction
      BY <2>1, CancelCommits, Zenon DEF Transaction
    <3>2. Finish(c)
      BY <2>1 DEF CancelCommit
    <3> QED BY <1>1, <3>1, <3>2
  <2> QED BY <1>8, <2>1, MatchReads DEF Cancel, Goal
<1>9. ASSUME NEW c \in Client, Book(c) PROVE Goal
  <2>1. ASSUME NEW u \in MeetupId, BookCommit(c, u) PROVE Goal
    <3>1. Transaction
      BY <2>1, BookingCommits, Zenon DEF Transaction
    <3>2. Finish(c)
      BY <2>1 DEF BookCommit
    <3> QED BY <1>1, <3>1, <3>2
  <2> QED BY <1>9, <2>1, MatchReads DEF Book, Goal
<1>10. ASSUME NEW c \in Client, CheckIn(c) PROVE Goal
  <2>1. CASE CheckInCommit(c)
    <3>1. Transaction
      BY <2>1, CheckInCommits, Zenon DEF Transaction
    <3>2. Finish(c)
      BY <2>1 DEF CheckInCommit
    <3> QED BY <1>1, <3>1, <3>2
  <2> QED BY <1>10, <2>1, MeetupReads DEF CheckIn, Goal
<1>11. ASSUME NEW c \in Client, CompleteMeetup(c) PROVE Goal
  <2>1. CASE CompleteCommit(c)
    <3>1. Transaction
      BY <2>1, CompletionCommits, Zenon DEF Transaction
    <3>2. Finish(c)
      BY <2>1 DEF CompleteCommit
    <3> QED BY <1>1, <3>1, <3>2
  <2> QED BY <1>11, <2>1, MeetupReads DEF CompleteMeetup, Goal
<1>12. ASSUME NEW c \in Client, CancelMeetup(c) PROVE Goal
  <2>1. CASE CancelMeetupCommit(c)
    <3>1. Transaction
      BY <2>1, MeetupCancelCommits, Zenon DEF Transaction
    <3>2. Finish(c)
      BY <2>1 DEF CancelMeetupCommit
    <3> QED BY <1>1, <3>1, <3>2
  <2> QED BY <1>12, <2>1, MeetupReads DEF CancelMeetup, Goal
<1>13. ASSUME NEW c \in Client, SubmitFeedback(c) PROVE Goal
  <2>1. CASE FeedbackCommit(c)
    <3>1. Transaction
      BY <2>1, ReportCommits, Zenon DEF Transaction
    <3>2. Finish(c)
      BY <2>1 DEF FeedbackCommit
    <3> QED BY <1>1, <3>1, <3>2
  <2> QED BY <1>13, <2>1, MeetupReads DEF SubmitFeedback, Goal
<1>14. ASSUME NEW c \in Client, Abandon(c) PROVE Goal
  BY <1>1, <1>14 DEF Abandon
<1> QED BY <1>3, <1>4, <1>5, <1>6, <1>7, <1>8, <1>9, <1>10, <1>11, <1>12, <1>13, <1>14 DEF Next, Goal
-----------------------------------------------------------------------------
(* IInv is inductive.                                                        *)

LEMMA StartsEmpty ==
  ASSUME Init
  PROVE  RowsInv
<1>1. TypeOK
  BY InitTyped
<1>2. /\ \A i \in Intro : /\ match[i].state = "none" /\ match[i].pair = {}
                          /\ ~CompletedMeetup(i) /\ ActiveMeetups(i) = {}
      /\ \A u \in MeetupId : meetup[u].state = "none" /\ meetup[u].version = 0
      /\ \A e \in EntId : entitlement[e] = NoEntitlement
      /\ ledger = {} /\ reports = {} /\ outbox = {}
  BY DEF Init, NoMatch, NoMeetup, CompletedMeetup, ActiveMeetups, HoldsSeat
<1>3. IsFiniteSet({}) /\ Cardinality({}) = 0
  BY FS_EmptySet
<1>4. PairsKnown /\ ReportsKnown
  BY <1>2 DEF PairsKnown, ReportsKnown
<1>5. MeetupsFollow
  BY <1>2 DEF MeetupsFollow
<1>6. AnswersMatchState
  BY <1>2 DEF AnswersMatchState
<1>7. AnnouncedKnown
  BY <1>2 DEF AnnouncedKnown, OutcomeAnnounced
<1>8. SeatsCounted
  <2>1. \A s \in Slot : Seated(s) = {} /\ booked[s] = 0 /\ 0 <= Capacity[s]
    BY <1>2, SlotAssumption DEF Seated, HoldsSeat, Init
  <2> QED BY <1>3, <2>1 DEF SeatsCounted
<1>9. AllowancesKnown
  BY <1>2 DEF AllowancesKnown, NoEntitlement
<1>10. LedgerKnown
  <2>1. \A e \in EntId : OpenHolds(e) = {} /\ Spent(e) = {}
    BY <1>2 DEF OpenHolds, Spent, Moved
  <2>2. \A e \in EntId : 0 <= Total(e)
    BY QuotaIsNat
  <2>3. LedgerBalances
    BY <1>2, <1>3, <2>1, <2>2 DEF LedgerBalances, NoEntitlement
  <2>4. HoldsSettledOnce
    BY <1>2 DEF HoldsSettledOnce
  <2> QED BY <1>2, <1>3, <2>1, <2>3, <2>4 DEF LedgerKnown
<1>11. LimitKnown
  <2>1. \A m \in Member : ActiveMatches(m) = {} /\ 0 <= Plan[m].maxActive
    BY <1>2, PlanAssumption DEF ActiveMatches, ActiveStates, PlanType
  <2> QED BY <1>3, <2>1 DEF LimitKnown, CountActiveByMember
<1> QED BY <1>1, <1>4, <1>5, <1>6, <1>7, <1>8, <1>9, <1>10, <1>11 DEF RowsInv

LEMMA StartsWell == Init => IInv
<1>1. Init => SnapshotsStand
  BY DEF Init, SnapshotsStand, SnapshotStands, Idle
<1> QED BY <1>1, StartsEmpty, FreshStart DEF IInv, FreshInv

LEMMA RowsStill ==
  ASSUME UNCHANGED rows, RowsInv, TypeOK'
  PROVE  RowsInv'
<1> USE DEF RowsInv
<1>1. /\ match' = match /\ consent' = consent /\ entitlement' = entitlement /\ ledger' = ledger
      /\ meetup' = meetup /\ booked' = booked /\ reports' = reports /\ outbox' = outbox
  BY DEF rows
<1>2. \A i \in Intro : /\ ActiveMeetups(i)' = ActiveMeetups(i)
                       /\ CompletedMeetup(i)' <=> CompletedMeetup(i)
  BY <1>1 DEF ActiveMeetups, CompletedMeetup
<1>3. PairsKnown'
  BY <1>1 DEF PairsKnown
<1>4. MeetupsFollow'
  BY <1>1, <1>2 DEF MeetupsFollow
<1>5. AnswersMatchState'
  BY <1>1, <1>2, Zenon DEF AnswersMatchState
<1>6. ReportsKnown'
  BY <1>1 DEF ReportsKnown, HasReported, ReportsOf
<1>7. AnnouncedKnown'
  BY <1>1, <1>2 DEF AnnouncedKnown, OutcomeAnnounced
<1>8. SeatsCounted'
  BY <1>1 DEF SeatsCounted, Seated
<1>9. AllowancesKnown'
  BY <1>1 DEF AllowancesKnown
<1>10. LedgerKnown'
  <2>1. \A e, i, r : Moved(e, i, r)' <=> Moved(e, i, r)
    BY <1>1 DEF Moved
  <2>2. \A e \in EntId : OpenHolds(e)' = OpenHolds(e) /\ Spent(e)' = Spent(e)
    BY <2>1 DEF OpenHolds, Spent
  <2>3. LedgerBalances'
    BY <1>1, <2>2 DEF LedgerKnown, LedgerBalances, Total
  <2>4. \A i, m : ChargedTo(i, m)' = ChargedTo(i, m)
    BY <2>1 DEF ChargedTo
  <2>5. HoldsSettledOnce'
    BY <1>1, <1>2, <2>1, <2>2, <2>4 DEF LedgerKnown, HoldsSettledOnce, ChargedTo
  <2> QED BY <1>1, <2>2, <2>3, <2>5 DEF LedgerKnown
<1>11. LimitKnown'
  BY <1>1 DEF LimitKnown, CountActiveByMember, ActiveMatches
<1> QED BY <1>3, <1>4, <1>5, <1>6, <1>7, <1>8, <1>9, <1>10, <1>11

LEMMA InvStep == IInv /\ [Next]_vars => IInv' /\ [Transaction]_rows
<1> SUFFICES ASSUME IInv, [Next]_vars PROVE IInv' /\ [Transaction]_rows
  OBVIOUS
<1>1. RowsInv /\ FreshInv
  BY DEF IInv, FreshInv, RowsInv
<1>2. TypeOK' /\ VersionsStandForState'
  BY <1>1, FreshStep DEF FreshInv
<1>3. (Transaction \/ UNCHANGED rows) /\ SnapshotsStand'
  <2>1. CASE Next
    BY <2>1, StepsAreTransactions
  <2>2. CASE UNCHANGED vars
    <3>1. UNCHANGED rows /\ UNCHANGED request
      BY <2>2 DEF vars
    <3> QED BY <3>1, DoneStands
  <2> QED BY <2>1, <2>2
<1>4. RowsInv'
  BY <1>1, <1>2, <1>3, RowsStay, RowsStill
<1> QED BY <1>2, <1>3, <1>4 DEF IInv

LEMMA InvHolds == Spec => []IInv
BY StartsWell, InvStep, PTL DEF Spec
-----------------------------------------------------------------------------
(* What a transaction means for the promise of Allowances.                   *)

Holding  == {p \in Intro \X EntId : p[1] \in OpenHolds(p[2])}
Spending == {p \in Intro \X EntId : p[1] \in Spent(p[2])}
Giving   == {p \in Intro \X EntId : Moved(p[2], p[1], "release")}

LEMMA PromiseStill ==
  ASSUME UNCHANGED ledger
  PROVE  UNCHANGED Promise!ledgerVars
<1>1. \A e, i, r : Moved(e, i, r)' <=> Moved(e, i, r)
  BY DEF Moved
<1> QED BY <1>1 DEF Promise!ledgerVars, OpenHolds, Spent

LEMMA PromiseHolds ==
  ASSUME RowsInv, NEW i \in Intro, NEW pair \in SUBSET Member, NEW es \in SUBSET EntId,
         Proposed(i, pair, es)
  PROVE  Promise!Next
<1> USE DEF RowsInv
<1>1. PICK m \in Member, n \in Member : m # n /\ pair = {m, n}
  BY DEF Proposed, Twosome
<1>2. PICK e \in es : {g \in es : g[1] = m} = {e}
  BY <1>1 DEF Proposed, Chargeable
<1>3. PICK f \in es : {g \in es : g[1] = n} = {f}
  BY <1>1 DEF Proposed, Chargeable
<1>4. e[1] = m /\ f[1] = n /\ es = {e, f} /\ e \in EntId /\ f \in EntId
  BY <1>1, <1>2, <1>3 DEF Proposed, Chargeable
<1>5. ASSUME NEW g, NEW r, Moved(g, i, r) PROVE FALSE
  <2> DEFINE l == [ent |-> g, intro |-> i, reason |-> r]
  <2>1. l \in ledger
    BY <1>5 DEF Moved
  <2>2. l.ent[1] \in match[l.intro].pair
    BY <2>1 DEF LedgerKnown
  <2>3. match[i].state = "none"
    BY MatchMade DEF Proposed
  <2>4. match[i].pair = {}
    BY <2>3 DEF PairsKnown
  <2> QED BY <2>2, <2>4
<1>6. \A g, j, r : Moved(g, j, r)' <=> Moved(g, j, r) \/ (g \in es /\ j = i /\ r = "reserve")
  BY LedgerWritten DEF Proposed
<1>7. ASSUME NEW g \in es
      PROVE  Cardinality(OpenHolds(g) \cup Spent(g)) < Total(g)
  <2>1. /\ g \in EntId /\ IsFiniteSet(OpenHolds(g)) /\ IsFiniteSet(Spent(g))
        /\ Cardinality(OpenHolds(g)) + Cardinality(Spent(g)) < Total(g)
    BY DEF Proposed, Chargeable, LedgerKnown, LedgerBalances, TypeOK, EntitlementRow
  <2>2. OpenHolds(g) \cap Spent(g) = {}
    BY DEF OpenHolds, Spent
  <2>3. Cardinality(OpenHolds(g) \cup Spent(g)) = Cardinality(OpenHolds(g)) + Cardinality(Spent(g))
    <3>1. Cardinality(OpenHolds(g) \cup Spent(g)) =
            Cardinality(OpenHolds(g)) + Cardinality(Spent(g)) - Cardinality(OpenHolds(g) \cap Spent(g))
      BY <2>1, FS_Union, Zenon
    <3>2. Cardinality(OpenHolds(g)) \in Nat /\ Cardinality(Spent(g)) \in Nat
      BY <2>1, FS_CardinalityType
    <3>3. Cardinality(OpenHolds(g) \cap Spent(g)) = 0
      BY <2>2, FS_EmptySet
    <3> QED BY <3>1, <3>2, <3>3
  <2> QED BY <2>1, <2>3
<1>8. Promise!Hold(i, e, f)
  <2>1. Promise!Of(i, Holding \cup Spending \cup Giving) = {}
    BY <1>5 DEF Promise!Of, Holding, Spending, Giving, OpenHolds, Spent
  <2>2. ASSUME NEW g \in es
        PROVE  Promise!Committed(g) = OpenHolds(g) \cup Spent(g)
    BY <1>4 DEF Promise!Committed, OpenHolds, Spent
  <2>3. ASSUME NEW g \in es PROVE Promise!Cardinality(Promise!Committed(g)) < Total(g)
    <3>1. Promise!Cardinality(OpenHolds(g) \cup Spent(g)) = Cardinality(OpenHolds(g) \cup Spent(g))
      BY Zenon DEF Promise!Cardinality, Cardinality
    <3> QED BY <1>7, <2>2, <3>1
  <2>4. Holding' = Holding \cup {<<i, e>>, <<i, f>>}
    BY <1>4, <1>5, <1>6 DEF Holding, OpenHolds
  <2>5. Spending' = Spending /\ Giving' = Giving
    BY <1>6 DEF Spending, Giving, Spent
  <2> QED BY <1>1, <1>4, <2>1, <2>3, <2>4, <2>5 DEF Promise!Hold, Holding, Spending, Giving
<1> QED BY <1>4, <1>8 DEF Promise!Next

LEMMA SomethingHeld ==
  ASSUME RowsInv, NEW i \in Intro, HoldsOpen(i)
  PROVE  Held(i) # {}
<1>1. PICK m : m \in match[i].pair
  BY DEF RowsInv, PairsKnown, Twosome, HoldsOpen
<1> QED BY <1>1, HeldIsActive

LEMMA PromiseReturned ==
  ASSUME RowsInv, NEW i \in Intro, Returned(i)
  PROVE  Promise!Next
<1>1. \A g, j, r : Moved(g, j, r)' <=> Moved(g, j, r) \/ (g \in Held(i) /\ j = i /\ r = "release")
  BY LedgerWritten DEF Returned, ReturnHolds
<1>2. Promise!Of(i, Holding) = {<<i, e>> : e \in Held(i)}
  BY DEF Promise!Of, Holding, Held
<1>3. Held(i) # {} /\ \A e \in Held(i) : e \in EntId /\ i \in OpenHolds(e)
  BY SomethingHeld DEF Returned, Held
<1>4. Giving' = Giving \cup {<<i, e>> : e \in Held(i)}
  BY <1>1, <1>3 DEF Giving
<1>5. Holding' = Holding \ {<<i, e>> : e \in Held(i)}
  BY <1>1, <1>3 DEF Holding, OpenHolds, Held
<1>6. Spending' = Spending
  BY <1>1 DEF Spending, Spent
<1>7. Promise!Return(i)
  BY <1>2, <1>3, <1>4, <1>5, <1>6 DEF Promise!Return, Holding, Spending, Giving
<1> QED BY <1>7 DEF Promise!Next

LEMMA PromiseSpent ==
  ASSUME RowsInv, NEW i \in Intro, Settled(i)
  PROVE  Promise!Next
<1>1. \A g, j, r : Moved(g, j, r)' <=> Moved(g, j, r) \/ (g \in Held(i) /\ j = i /\ r = "consume")
  BY LedgerWritten DEF Settled, SpendHolds
<1>2. Promise!Of(i, Holding) = {<<i, e>> : e \in Held(i)}
  BY DEF Promise!Of, Holding, Held
<1>3. Held(i) # {} /\ \A e \in Held(i) : e \in EntId /\ i \in OpenHolds(e)
  BY SomethingHeld DEF Settled, Held
<1>4. Spending' = Spending \cup {<<i, e>> : e \in Held(i)}
  BY <1>1, <1>3 DEF Spending, Spent
<1>5. Holding' = Holding \ {<<i, e>> : e \in Held(i)}
  BY <1>1, <1>3 DEF Holding, OpenHolds, Held
<1>6. Giving' = Giving
  BY <1>1 DEF Giving
<1>7. Promise!Spend(i)
  BY <1>2, <1>3, <1>4, <1>5, <1>6 DEF Promise!Spend, Holding, Spending, Giving
<1> QED BY <1>7 DEF Promise!Next

LEMMA PromiseKept == IInv /\ [Transaction]_rows => [Promise!Next]_(Promise!ledgerVars)
<1> SUFFICES ASSUME IInv, [Transaction]_rows PROVE [Promise!Next]_(Promise!ledgerVars)
  OBVIOUS
<1>1. RowsInv
  BY DEF IInv
<1>2. CASE UNCHANGED rows
  <2>1. UNCHANGED ledger
    BY <1>2 DEF rows
  <2> QED BY <2>1, PromiseStill
<1>3. CASE Transaction
  <2>1. ASSUME NEW e \in EntId, GrantEntitlement(e) PROVE UNCHANGED ledger
    BY <2>1 DEF GrantEntitlement
  <2> QED BY <1>1, <1>3, <2>1, HoldSteps, PromiseStill, PromiseHolds, PromiseReturned, PromiseSpent
<1> QED BY <1>2, <1>3

LEMMA PromiseStarts == Init => Promise!Init
BY DEF Init, Promise!Init, OpenHolds, Spent, Moved

-----------------------------------------------------------------------------
(* The moves of match and meetup that a transaction can make.                *)
LEMMA KnownMoves ==
  ASSUME IInv, Transaction
  PROVE  /\ \A i \in Intro : match[i].state # "none" /\ match'[i].state # match[i].state
              => \/ MatchCanTransition(match[i].state, match'[i].state)
                 \/ match[i].state = "scheduled" /\ match'[i].state = "consented"
         /\ \A u \in MeetupId : meetup[u].state # "none" /\ meetup'[u].state # meetup[u].state
              => \/ MeetupCanTransition(meetup[u].state, meetup'[u].state)
                 \/ meetup[u].state = "checked_in" /\ meetup'[u].state = "cancelled"
<1>1. TypeOK
  BY DEF IInv, RowsInv
<1>2. ASSUME NEW i \in Intro, match[i].state # "none", match'[i].state # match[i].state
      PROVE  <<match[i].state, match'[i].state>> \in MatchMoves
  <2>1. ~\E pair \in SUBSET Member, es \in SUBSET EntId : Proposed(i, pair, es)
    BY <1>1, <1>2, MatchMade DEF Proposed
  <2> QED BY <1>1, <1>2, <2>1, MatchSteps
<1>3. ASSUME NEW u \in MeetupId, meetup[u].state # "none", meetup'[u].state # meetup[u].state
      PROVE  <<meetup[u].state, meetup'[u].state>> \in MeetupMoves
  <2>1. u[1] \in Intro
    BY DEF MeetupId
  <2>2. ~\E s \in Slot : Scheduled(u[1], u, s)
    BY <1>1, <1>3, <2>1, MeetupMade DEF Scheduled
  <2> QED BY <1>1, <1>3, <2>2, MeetupSteps
<1> QED BY <1>2, <1>3 DEF MatchMoves, MeetupMoves, MatchCanTransition, MeetupCanTransition

-----------------------------------------------------------------------------
(* Theorems *)

(* However the reads and commits of any number of requests, the sweeper and  *)
(* the grants interleave, every change of the rows is one transaction that   *)
(* is legal on the rows as they are, not only on the rows it had read.       *)
THEOREM CommitsActOnCurrentRows == Spec => ActsOnCurrentRows
BY InvStep, InvHolds, PTL DEF Spec, ActsOnCurrentRows

(* The answers and the state of a match never contradict each other, in      *)
(* whatever order two members answer (matchsvc.Decide).                      *)
THEOREM AnswersAgree == Spec => []AnswersMatchState
<1>1. IInv => AnswersMatchState
  BY DEF IInv, RowsInv
<1> QED BY <1>1, InvHolds, PTL

(* A match is scheduled exactly while it has a live meetup that did not take *)
(* place yet, of which there is at most one (schedulesvc, releaseSlot).      *)
THEOREM MeetupsFollowMatches == Spec => []MeetupFollowsMatch
<1>1. IInv => MeetupFollowsMatch
  BY MeetupFollows DEF IInv, RowsInv
<1> QED BY <1>1, InvHolds, PTL

(* Two concurrent reports close an introduction once, with their common      *)
(* verdict (schedulesvc.SubmitFeedback).                                     *)
THEOREM ReportsClose == Spec => []ReportsDecideOutcome
<1>1. IInv => ReportsDecideOutcome
  BY ReportsDecide DEF IInv
<1> QED BY <1>1, InvHolds, PTL

(* Outcomes and announcements agree: the job is enqueued in the transaction  *)
(* that makes the outcome, and by no other.                                  *)
THEOREM OutcomesAreAnnounced == Spec => []OutcomeAnnounced
<1>1. IInv => OutcomeAnnounced
  BY DEF IInv, RowsInv, AnnouncedKnown
<1> QED BY <1>1, InvHolds, PTL

(* booked_count counts the meetups in a slot and stays within its capacity,  *)
(* whichever path gives a seat back.                                         *)
THEOREM SeatsAgree == Spec => []SeatsMatchMeetups
<1>1. IInv => SeatsMatchMeetups
  BY DEF IInv, RowsInv, SeatsCounted, Seated, SeatsMatchMeetups
<1> QED BY <1>1, InvHolds, PTL

(* The counters of every allowance are the balance of its ledger and stay    *)
(* within quota.                                                             *)
THEOREM LedgersBalance == Spec => []LedgerBalances
<1>1. IInv => LedgerBalances
  BY DEF IInv, RowsInv, LedgerKnown
<1> QED BY <1>1, InvHolds, PTL

(* What an introduction charged is returned or spent once, on the allowance  *)
(* it was charged to, although releaseReservations and settle look it up     *)
(* again.                                                                    *)
THEOREM HoldsAreSettledOnce == Spec => []HoldsSettledOnce
<1>1. IInv => HoldsSettledOnce
  BY DEF IInv, RowsInv, LedgerKnown
<1> QED BY <1>1, InvHolds, PTL

(* The limit on live introductions holds although it is only checked before  *)
(* the transaction (matchsvc.Propose).                                       *)
THEOREM LimitsHold == Spec => []ActiveLimitHolds
<1>1. IInv => ActiveLimitHolds
  BY DEF IInv, RowsInv, LimitKnown, ActiveLimitHolds
<1> QED BY <1>1, InvHolds, PTL

(* No step leaves the state tables but for the two moves the code makes      *)
(* without them, whatever stale snapshot decided it.                         *)
THEOREM TransitionsAreKnown == Spec => OnlyKnownTransitions
<1> DEFINE Known ==
      /\ \A i \in Intro : match[i].state # "none" /\ match'[i].state # match[i].state
           => \/ MatchCanTransition(match[i].state, match'[i].state)
              \/ match[i].state = "scheduled" /\ match'[i].state = "consented"
      /\ \A u \in MeetupId : meetup[u].state # "none" /\ meetup'[u].state # meetup[u].state
           => \/ MeetupCanTransition(meetup[u].state, meetup'[u].state)
              \/ meetup[u].state = "checked_in" /\ meetup'[u].state = "cancelled"
<1>1. IInv /\ [Transaction]_rows => [Known]_vars
  <2>1. UNCHANGED rows => Known
    BY DEF rows
  <2>2. IInv /\ Transaction => Known
    BY KnownMoves
  <2> HIDE DEF Known
  <2> QED BY <2>1, <2>2
<1> HIDE DEF Known
<1>2. IInv /\ [Next]_vars => [Known]_vars
  BY <1>1, InvStep
<1>3. Spec => [][Known]_vars
  BY <1>2, InvHolds, PTL DEF Spec
<1> QED BY <1>3 DEF OnlyKnownTransitions, Known

(* The allowance path implements Allowances: an introduction charges one     *)
(* allowance of each of two owners within quota, and then spends everything  *)
(* it holds or gets everything back, once.                                   *)
THEOREM AllowancesImplemented == Spec => ImplementsAllowances
<1>1. IInv /\ [Next]_vars => [Promise!Next]_(Promise!ledgerVars)
  BY InvStep, PromiseKept
<1> QED BY <1>1, PromiseStarts, InvHolds, PTL DEF Spec, ImplementsAllowances, Promise!Spec
==============================================================================
