------------------------------- MODULE RowProofs -------------------------------
(***************************************************************************)
(* The transactions keep the rows of an introduction, of its answers, its  *)
(* meetups, its reports and its announcements in agreement.                *)
(***************************************************************************)
EXTENDS Transactions, FiniteSetTheorems, TLAPS

(* What the statements do to the rows they name, and that they leave the     *)
(* other rows alone.                                                         *)
LEMMA MatchGone ==
  ASSUME TypeOK, NEW i \in Intro, NEW from, NEW to, MatchGoes(i, from, to)
  PROVE  /\ match[i].state = from /\ match'[i].state = to
         /\ match'[i].pair = match[i].pair
         /\ match'[i].version = match[i].version + 1
         /\ \A j \in Intro \ {i} : match'[j] = match[j]
<1>1. match[i] \in MatchRow
  BY DEF TypeOK
<1>2. /\ MoveTo(match[i], to).state = to
      /\ MoveTo(match[i], to).pair = match[i].pair
      /\ MoveTo(match[i], to).version = match[i].version + 1
  BY <1>1 DEF MoveTo, MatchRow
<1>3. match'[i] = MoveTo(match[i], to) /\ \A j \in Intro \ {i} : match'[j] = match[j]
  BY DEF MatchGoes, TypeOK
<1> QED BY <1>2, <1>3 DEF MatchGoes

LEMMA MeetupGone ==
  ASSUME TypeOK, NEW u \in MeetupId, NEW from, NEW to, MeetupGoes(u, from, to)
  PROVE  /\ meetup[u].state = from /\ meetup'[u].state = to
         /\ meetup'[u].slot = meetup[u].slot
         /\ meetup'[u].version = meetup[u].version + 1
         /\ \A v \in MeetupId \ {u} : meetup'[v] = meetup[v]
<1>1. meetup[u] \in MeetupRow
  BY DEF TypeOK
<1>2. /\ MoveTo(meetup[u], to).state = to
      /\ MoveTo(meetup[u], to).slot = meetup[u].slot
      /\ MoveTo(meetup[u], to).version = meetup[u].version + 1
  BY <1>1 DEF MoveTo, MeetupRow
<1>3. meetup'[u] = MoveTo(meetup[u], to) /\ \A v \in MeetupId \ {u} : meetup'[v] = meetup[v]
  BY DEF MeetupGoes, TypeOK
<1> QED BY <1>2, <1>3 DEF MeetupGoes

LEMMA MatchMade ==
  ASSUME TypeOK, NEW i \in Intro, NEW pair, NEW deadline, CreateMatch(i, pair, deadline)
  PROVE  /\ match[i].state = "none"
         /\ match'[i].state = "pending_consent" /\ match'[i].pair = pair
         /\ match'[i].version = 1
         /\ \A j \in Intro \ {i} : match'[j] = match[j]
         /\ \A m \in Member : consent'[i][m] = "pending"
         /\ \A j \in Intro \ {i} : consent'[j] = consent[j]
BY DEF CreateMatch, TypeOK

LEMMA MeetupMade ==
  ASSUME TypeOK, NEW u \in MeetupId, NEW i \in Intro, NEW s, CreateMeetup(u, i, s)
  PROVE  /\ u[1] = i /\ meetup[u].state = "none" /\ ActiveMeetups(i) = {}
         /\ meetup'[u].state = "booked" /\ meetup'[u].slot = s /\ meetup'[u].version = 1
         /\ \A v \in MeetupId \ {u} : meetup'[v] = meetup[v]
BY DEF CreateMeetup, TypeOK

LEMMA AnswerGiven ==
  ASSUME TypeOK, NEW i \in Intro, NEW m \in Member, NEW answer, RecordDecision(i, m, answer)
  PROVE  /\ consent[i][m] = "pending" /\ consent'[i][m] = answer
         /\ consent'[i] = [consent[i] EXCEPT ![m] = answer]
         /\ \A n \in Member \ {m} : consent'[i][n] = consent[i][n]
         /\ \A j \in Intro \ {i} : consent'[j] = consent[j]
BY DEF RecordDecision, TypeOK

Told(kind, i, m) == [kind |-> kind, intro |-> i, member |-> m] \in outbox

LEMMA Announced ==
  ASSUME NEW kind, NEW i, NEW pair, Enqueue(kind, i, pair)
  PROVE  \A k, j, m : Told(k, j, m)' <=> Told(k, j, m) \/ (k = kind /\ j = i /\ m \in pair)
BY DEF Enqueue, Told

(* Meetups of other introductions do not matter to what is said of one.      *)
LEMMA MeetupsElsewhere ==
  ASSUME NEW j \in Intro, \A v \in MeetupId : v[1] = j => meetup'[v] = meetup[v]
  PROVE  /\ ActiveMeetups(j)' = ActiveMeetups(j)
         /\ CompletedMeetup(j)' <=> CompletedMeetup(j)
BY DEF ActiveMeetups, CompletedMeetup

-----------------------------------------------------------------------------
(* The moves of a match and of a meetup that exist.                          *)
MatchMoves  == MatchEdges \cup {<<"scheduled", "consented">>}
MeetupMoves == MeetupEdges \cup {<<"checked_in", "cancelled">>}

LEMMA MatchSteps ==
  ASSUME TypeOK, Transaction, NEW i \in Intro, match'[i] # match[i]
  PROVE  \/ \E pair \in SUBSET Member, es \in SUBSET EntId : Proposed(i, pair, es)
         \/ /\ match'[i].pair = match[i].pair
            /\ match'[i].version = match[i].version + 1
            /\ <<match[i].state, match'[i].state>> \in MatchMoves
<1> DEFINE Stepped(j) == /\ match'[j].pair = match[j].pair
                         /\ match'[j].version = match[j].version + 1
                         /\ <<match[j].state, match'[j].state>> \in MatchMoves
           Goal == (\E pair \in SUBSET Member, es \in SUBSET EntId : Proposed(i, pair, es)) \/ Stepped(i)
<1>1. ASSUME NEW j \in Intro, NEW from, NEW to, MatchGoes(j, from, to), <<from, to>> \in MatchMoves
      PROVE  Goal
  <2>1. i = j
    BY <1>1, MatchGone
  <2> QED BY <1>1, <2>1, MatchGone
<1>2. ASSUME NEW j \in Intro, NEW pair \in SUBSET Member, NEW es \in SUBSET EntId,
             Proposed(j, pair, es)
      PROVE  Goal
  <2>1. i = j
    BY <1>2, MatchMade DEF Proposed
  <2> QED BY <1>2, <2>1
<1>3. ASSUME NEW j \in Intro, NEW m, NEW answer, Answered(j, m, answer) PROVE Goal
  BY <1>1, <1>3 DEF Answered, RecordDecision, MatchMoves, MatchEdges
<1>4. ASSUME NEW j \in Intro, NEW from, NEW to, Withdrawn(j, from, to) PROVE Goal
  BY <1>1, <1>4 DEF Withdrawn, MatchMoves, MatchEdges
<1>5. ASSUME NEW j \in Intro, NEW u, NEW s, Scheduled(j, u, s) PROVE Goal
  BY <1>1, <1>5 DEF Scheduled, MatchMoves, MatchEdges
<1>6. ASSUME NEW u \in MeetupId, Met(u) \/ Unscheduled(u) \/ \E from : CalledOff(u, from)
      PROVE  Goal
  <2>1. u[1] \in Intro
    BY DEF MeetupId
  <2> QED BY <1>1, <1>6, <2>1 DEF Met, Unscheduled, CalledOff, MatchMoves, MatchEdges
<1>7. ASSUME NEW u \in MeetupId, NEW m, NEW intent, Reported(u, m, intent) PROVE Goal
  <2> DEFINE verdict == IF MutualContinue(ReportsOf(u, reports')) THEN "closed_success"
                                                                  ELSE "closed_failed"
  <2>1. u[1] \in Intro
    BY DEF MeetupId
  <2>2. UNCHANGED match \/ MatchGoes(u[1], "met", verdict)
    BY <1>7, Zenon DEF Reported
  <2>3. <<"met", verdict>> \in MatchMoves
    BY DEF MatchMoves, MatchEdges
  <2> HIDE DEF verdict
  <2> QED BY <1>1, <2>1, <2>2, <2>3
<1>8. (\E e \in EntId : GrantEntitlement(e)) \/ (\E u \in MeetupId : CheckedIn(u)) => FALSE
  BY DEF GrantEntitlement, CheckedIn
<1> QED BY <1>2, <1>3, <1>4, <1>5, <1>6, <1>7, <1>8 DEF Transaction

LEMMA MeetupSteps ==
  ASSUME TypeOK, Transaction, NEW u \in MeetupId, meetup'[u] # meetup[u]
  PROVE  \/ \E s \in Slot : Scheduled(u[1], u, s)
         \/ /\ meetup'[u].slot = meetup[u].slot
            /\ meetup'[u].version = meetup[u].version + 1
            /\ <<meetup[u].state, meetup'[u].state>> \in MeetupMoves
<1> DEFINE Goal == \/ \E s \in Slot : Scheduled(u[1], u, s)
                   \/ /\ meetup'[u].slot = meetup[u].slot
                      /\ meetup'[u].version = meetup[u].version + 1
                      /\ <<meetup[u].state, meetup'[u].state>> \in MeetupMoves
<1>1. ASSUME NEW v \in MeetupId, NEW from, NEW to, MeetupGoes(v, from, to), <<from, to>> \in MeetupMoves
      PROVE  Goal
  <2>1. u = v
    BY <1>1, MeetupGone
  <2> QED BY <1>1, <2>1, MeetupGone
<1>2. ASSUME NEW i \in Intro, NEW v \in MeetupId, NEW s \in Slot, Scheduled(i, v, s) PROVE Goal
  <2>1. u = v /\ u[1] = i
    BY <1>2, MeetupMade DEF Scheduled
  <2> QED BY <1>2, <2>1
<1>3. ASSUME NEW v \in MeetupId,
             CheckedIn(v) \/ Met(v) \/ Unscheduled(v) \/ \E from : CalledOff(v, from)
      PROVE  Goal
  BY <1>1, <1>3 DEF CheckedIn, Met, Unscheduled, CalledOff, MeetupMoves, MeetupEdges
<1>4. /\ \A e \in EntId : ~GrantEntitlement(e)
      /\ \A i, pair, es : ~Proposed(i, pair, es)
      /\ \A i, m, answer : ~Answered(i, m, answer)
      /\ \A i, from, to : ~Withdrawn(i, from, to)
      /\ \A v, m, intent : ~Reported(v, m, intent)
  BY DEF GrantEntitlement, Proposed, Answered, RecordDecision, Withdrawn, Reported, AddFeedback
<1> QED BY <1>2, <1>3, <1>4 DEF Transaction

-----------------------------------------------------------------------------
LEMMA PairsStay ==
  ASSUME RowsInv, TypeOK', Transaction
  PROVE  PairsKnown'
<1> USE DEF RowsInv
<1>1. ASSUME NEW i \in Intro, NEW from, NEW to, from # "none", to # "none", MatchGoes(i, from, to)
      PROVE  PairsKnown'
  BY <1>1, MatchGone DEF PairsKnown, Twosome
<1>2. CASE UNCHANGED match
  BY <1>2 DEF PairsKnown, Twosome
<1>3. ASSUME NEW i \in Intro, NEW pair \in SUBSET Member, NEW es \in SUBSET EntId,
             Proposed(i, pair, es)
      PROVE  PairsKnown'
  <2>1. Twosome(pair) /\ CreateMatch(i, pair, match'[i].deadline)
    BY <1>3 DEF Proposed
  <2>2. pair # {} /\ Twosome(pair)'
    BY <2>1 DEF Twosome
  <2>3. /\ match'[i].state = "pending_consent" /\ match'[i].pair = pair
        /\ \A j \in Intro \ {i} : match'[j] = match[j]
    BY <2>1, MatchMade
  <2> QED BY <2>2, <2>3 DEF PairsKnown, Twosome
<1>4. ASSUME NEW i \in Intro, NEW m \in Member, NEW answer, Answered(i, m, answer)
      PROVE  PairsKnown'
  BY <1>1, <1>2, <1>4 DEF Answered, RecordDecision
<1>5. ASSUME NEW i \in Intro, NEW from, NEW to, Withdrawn(i, from, to)
      PROVE  PairsKnown'
  BY <1>1, <1>5 DEF Withdrawn
<1>6. ASSUME NEW i \in Intro, NEW u \in MeetupId, NEW s \in Slot, Scheduled(i, u, s)
      PROVE  PairsKnown'
  BY <1>1, <1>6 DEF Scheduled
<1>7. ASSUME NEW u \in MeetupId, Met(u) \/ Unscheduled(u) \/ \E from : CalledOff(u, from)
      PROVE  PairsKnown'
  <2>1. u[1] \in Intro
    BY DEF MeetupId
  <2> QED BY <1>1, <1>7, <2>1 DEF Met, Unscheduled, CalledOff
<1>8. ASSUME NEW u \in MeetupId, NEW m \in Member, NEW intent \in Intent, Reported(u, m, intent)
      PROVE  PairsKnown'
  <2>1. u[1] \in Intro
    BY DEF MeetupId
  <2> DEFINE verdict == IF MutualContinue(ReportsOf(u, reports')) THEN "closed_success"
                                                                  ELSE "closed_failed"
  <2>2. UNCHANGED match \/ MatchGoes(u[1], "met", verdict)
    BY <1>8, Zenon DEF Reported
  <2>3. verdict # "none"
    OBVIOUS
  <2> HIDE DEF verdict
  <2> QED BY <1>1, <1>2, <2>1, <2>2, <2>3
<1>9. (\E e \in EntId : GrantEntitlement(e)) \/ (\E u \in MeetupId : CheckedIn(u)) => UNCHANGED match
  BY DEF GrantEntitlement, CheckedIn
<1> QED BY <1>2, <1>3, <1>4, <1>5, <1>6, <1>7, <1>8, <1>9 DEF Transaction

-----------------------------------------------------------------------------
FollowsAt(i) ==
  /\ \A u, v \in ActiveMeetups(i) : u = v
  /\ match[i].state = "scheduled" <=>
       \E u \in ActiveMeetups(i) : meetup[u].state \in {"booked", "checked_in"}
  /\ match[i].state \in {"met", "closed_success"} => CompletedMeetup(i)
  /\ CompletedMeetup(i) => match[i].state \in {"met", "closed_success", "closed_failed"}

SlotKnown(u) == /\ meetup[u].state = "none" => meetup[u].version = 0
                /\ meetup[u].state # "none" => meetup[u].slot \in Slot

LEMMA FollowsParts ==
  MeetupsFollow <=> (\A u \in MeetupId : SlotKnown(u)) /\ (\A i \in Intro : FollowsAt(i))
BY DEF MeetupsFollow, FollowsAt, SlotKnown

(* The match moves and no meetup does.                                       *)
LEMMA FollowsMatchOnly ==
  ASSUME TypeOK, MeetupsFollow, NEW i \in Intro, NEW from, NEW to, MatchGoes(i, from, to),
         UNCHANGED meetup,
         \/ from \in {"pending_consent", "consented"} /\ to \notin {"scheduled", "met", "closed_success"}
         \/ from = "met" /\ to \in {"closed_success", "closed_failed"}
  PROVE  MeetupsFollow'
<1>1. \A u \in MeetupId : SlotKnown(u)'
  BY DEF MeetupsFollow, SlotKnown
<1>2. ASSUME NEW j \in Intro PROVE FollowsAt(j)'
  <2>1. ActiveMeetups(j)' = ActiveMeetups(j) /\ (CompletedMeetup(j)' <=> CompletedMeetup(j))
    BY DEF ActiveMeetups, CompletedMeetup
  <2>2. FollowsAt(j)
    BY FollowsParts
  <2>3. CASE j # i
    BY <2>1, <2>2, <2>3, MatchGone DEF FollowsAt
  <2>4. CASE j = i
    BY <2>1, <2>2, <2>4, MatchGone DEF FollowsAt
  <2> QED BY <2>3, <2>4
<1>3. (MeetupsFollow <=> (\A u \in MeetupId : SlotKnown(u)) /\ (\A j \in Intro : FollowsAt(j)))'
  BY DEF MeetupsFollow, FollowsAt, SlotKnown
<1> QED BY <1>1, <1>2, <1>3

(* A meetup of u[1] moves, with or without its match.                        *)
LEMMA FollowsMeetup ==
  ASSUME TypeOK, MeetupsFollow, NEW u \in MeetupId, NEW from, NEW to, MeetupGoes(u, from, to),
         \A j \in Intro \ {u[1]} : match'[j] = match[j],
         \/ /\ from = "booked" /\ to = "checked_in" /\ UNCHANGED match
         \/ /\ from = "checked_in" /\ to = "completed"
            /\ match[u[1]].state = "scheduled" /\ match'[u[1]].state = "met"
         \/ /\ from \in {"booked", "checked_in"} /\ to = "cancelled"
            /\ match[u[1]].state = "scheduled" /\ match'[u[1]].state \in {"consented", "cancelled"}
  PROVE  MeetupsFollow'
<1>1. u[1] \in Intro
  BY DEF MeetupId
<1>2. /\ meetup[u].state = from /\ meetup'[u].state = to /\ meetup'[u].slot = meetup[u].slot
      /\ \A v \in MeetupId \ {u} : meetup'[v] = meetup[v]
  BY MeetupGone
<1>3. from \in HoldsSeat /\ from \in {"booked", "checked_in"}
  BY DEF HoldsSeat
<1>4. \A v \in MeetupId : SlotKnown(v)'
  BY <1>2 DEF MeetupsFollow, SlotKnown
<1>5. ASSUME NEW j \in Intro PROVE FollowsAt(j)'
  <2>1. FollowsAt(j)
    BY FollowsParts
  <2>2. CASE j # u[1]
    <3>1. \A v \in MeetupId : v[1] = j => meetup'[v] = meetup[v]
      BY <1>2, <2>2
    <3>2. match'[j] = match[j]
      BY <2>2
    <3>3. ActiveMeetups(j)' = ActiveMeetups(j) /\ (CompletedMeetup(j)' <=> CompletedMeetup(j))
      BY <3>1, MeetupsElsewhere
    <3>4. \A v \in ActiveMeetups(j) : meetup'[v] = meetup[v]
      BY <3>1 DEF ActiveMeetups
    <3> QED BY <2>1, <3>2, <3>3, <3>4 DEF FollowsAt
  <2>3. CASE j = u[1]
    <3>1. u \in ActiveMeetups(j) /\ ActiveMeetups(j) = {u}
      BY <1>2, <1>3, <2>1, <2>3 DEF FollowsAt, ActiveMeetups
    <3>2. \A v \in MeetupId : v[1] = j /\ v # u => meetup'[v].state \notin HoldsSeat
      BY <1>2, <3>1 DEF ActiveMeetups
    <3>3. ActiveMeetups(j)' = IF to \in HoldsSeat THEN {u} ELSE {}
      BY <1>2, <2>3, <3>2 DEF ActiveMeetups
    <3>4. CompletedMeetup(j)' <=> to = "completed"
      BY <1>2, <2>3, <3>2 DEF CompletedMeetup, HoldsSeat
    <3>5. match[j].state = "scheduled"
      BY <1>2, <1>3, <2>1, <3>1 DEF FollowsAt
    <3> QED BY <1>2, <2>3, <3>3, <3>4, <3>5 DEF FollowsAt, HoldsSeat
  <2> QED BY <2>2, <2>3
<1>6. (MeetupsFollow <=> (\A v \in MeetupId : SlotKnown(v)) /\ (\A j \in Intro : FollowsAt(j)))'
  BY DEF MeetupsFollow, FollowsAt, SlotKnown
<1> QED BY <1>4, <1>5, <1>6

LEMMA FollowsBooking ==
  ASSUME TypeOK, MeetupsFollow, NEW i \in Intro, NEW u \in MeetupId, NEW s \in Slot,
         Scheduled(i, u, s)
  PROVE  MeetupsFollow'
<1>1. /\ u[1] = i /\ ActiveMeetups(i) = {}
      /\ meetup'[u].state = "booked" /\ meetup'[u].slot = s
      /\ \A v \in MeetupId \ {u} : meetup'[v] = meetup[v]
  BY MeetupMade DEF Scheduled
<1>2. /\ match[i].state = "consented" /\ match'[i].state = "scheduled"
      /\ \A j \in Intro \ {i} : match'[j] = match[j]
  BY MatchGone DEF Scheduled
<1>3. \A v \in MeetupId : SlotKnown(v)'
  BY <1>1 DEF MeetupsFollow, SlotKnown
<1>4. ASSUME NEW j \in Intro PROVE FollowsAt(j)'
  <2>1. FollowsAt(j)
    BY FollowsParts
  <2>2. CASE j # i
    <3>1. \A v \in MeetupId : v[1] = j => meetup'[v] = meetup[v]
      BY <1>1, <2>2
    <3>2. match'[j] = match[j]
      BY <1>2, <2>2
    <3>3. ActiveMeetups(j)' = ActiveMeetups(j) /\ (CompletedMeetup(j)' <=> CompletedMeetup(j))
      BY <3>1, MeetupsElsewhere
    <3>4. \A v \in ActiveMeetups(j) : meetup'[v] = meetup[v]
      BY <3>1 DEF ActiveMeetups
    <3> QED BY <2>1, <3>2, <3>3, <3>4 DEF FollowsAt
  <2>3. CASE j = i
    <3>1. \A v \in MeetupId : v[1] = j /\ v # u => meetup'[v].state \notin HoldsSeat
      BY <1>1, <2>3 DEF ActiveMeetups
    <3>2. ActiveMeetups(j)' = {u} /\ ~CompletedMeetup(j)'
      BY <1>1, <2>3, <3>1 DEF ActiveMeetups, CompletedMeetup, HoldsSeat
    <3> QED BY <1>1, <1>2, <2>3, <3>2 DEF FollowsAt
  <2> QED BY <2>2, <2>3
<1>5. (MeetupsFollow <=> (\A v \in MeetupId : SlotKnown(v)) /\ (\A j \in Intro : FollowsAt(j)))'
  BY DEF MeetupsFollow, FollowsAt, SlotKnown
<1> QED BY <1>3, <1>4, <1>5

LEMMA FollowsUnchanged ==
  ASSUME MeetupsFollow, UNCHANGED <<match, meetup>>
  PROVE  MeetupsFollow'
BY DEF MeetupsFollow, ActiveMeetups, CompletedMeetup

LEMMA FollowsProposal ==
  ASSUME RowsInv, NEW i \in Intro, NEW pair, NEW es, Proposed(i, pair, es)
  PROVE  MeetupsFollow'
<1>1. /\ match[i].state = "none" /\ match'[i].state = "pending_consent"
      /\ \A j \in Intro \ {i} : match'[j] = match[j]
  BY MatchMade DEF Proposed, RowsInv
<1>2. UNCHANGED meetup
  BY DEF Proposed
<1>3. ASSUME NEW j \in Intro PROVE FollowsAt(j)'
  <2>1. FollowsAt(j)
    BY FollowsParts DEF RowsInv
  <2>2. ActiveMeetups(j)' = ActiveMeetups(j) /\ (CompletedMeetup(j)' <=> CompletedMeetup(j))
    BY <1>2 DEF ActiveMeetups, CompletedMeetup
  <2>3. CASE j = i
    BY <1>1, <1>2, <2>1, <2>2, <2>3 DEF FollowsAt
  <2>4. CASE j # i
    BY <1>1, <1>2, <2>1, <2>2, <2>4 DEF FollowsAt
  <2> QED BY <2>3, <2>4
<1>4. \A u \in MeetupId : SlotKnown(u)'
  BY <1>2 DEF SlotKnown, RowsInv, MeetupsFollow
<1>5. (MeetupsFollow <=> (\A v \in MeetupId : SlotKnown(v)) /\ (\A j \in Intro : FollowsAt(j)))'
  BY DEF MeetupsFollow, FollowsAt, SlotKnown
<1> QED BY <1>3, <1>4, <1>5

LEMMA MeetupsStay ==
  ASSUME RowsInv, Transaction
  PROVE  MeetupsFollow'
<1> USE DEF RowsInv
<1>1. ASSUME NEW i \in Intro, NEW pair, NEW es, Proposed(i, pair, es) PROVE MeetupsFollow'
  BY <1>1, FollowsProposal
<1>2. ASSUME NEW i \in Intro, NEW m \in Member, NEW answer, Answered(i, m, answer)
      PROVE  MeetupsFollow'
  BY <1>2, FollowsMatchOnly, FollowsUnchanged DEF Answered, RecordDecision
<1>3. ASSUME NEW i \in Intro, NEW from, NEW to, Withdrawn(i, from, to) PROVE MeetupsFollow'
  BY <1>3, FollowsMatchOnly DEF Withdrawn
<1>4. ASSUME NEW i \in Intro, NEW u \in MeetupId, NEW s \in Slot, Scheduled(i, u, s)
      PROVE  MeetupsFollow'
  BY <1>4, FollowsBooking
<1>5. ASSUME NEW u \in MeetupId, CheckedIn(u) PROVE MeetupsFollow'
  BY <1>5, FollowsMeetup DEF CheckedIn
<1>6. ASSUME NEW u \in MeetupId, Met(u) \/ Unscheduled(u) \/ \E from : CalledOff(u, from)
      PROVE  MeetupsFollow'
  <2>1. u[1] \in Intro
    BY DEF MeetupId
  <2>2. PICK from, to, target :
          /\ \/ from = "checked_in" /\ to = "completed" /\ target = "met"
             \/ from \in {"booked", "checked_in"} /\ to = "cancelled"
                /\ target \in {"consented", "cancelled"}
          /\ MeetupGoes(u, from, to) /\ MatchGoes(u[1], "scheduled", target)
    BY <1>6 DEF Met, Unscheduled, CalledOff
  <2>3. /\ match[u[1]].state = "scheduled" /\ match'[u[1]].state = target
        /\ \A j \in Intro \ {u[1]} : match'[j] = match[j]
    BY <2>1, <2>2, MatchGone
  <2> QED BY <2>2, <2>3, FollowsMeetup
<1>7. ASSUME NEW u \in MeetupId, NEW m \in Member, NEW intent \in Intent, Reported(u, m, intent)
      PROVE  MeetupsFollow'
  <2> DEFINE verdict == IF MutualContinue(ReportsOf(u, reports')) THEN "closed_success"
                                                                  ELSE "closed_failed"
  <2>1. u[1] \in Intro
    BY DEF MeetupId
  <2>2. UNCHANGED meetup /\ (UNCHANGED match \/ MatchGoes(u[1], "met", verdict))
    BY <1>7, Zenon DEF Reported
  <2>3. verdict \in {"closed_success", "closed_failed"}
    OBVIOUS
  <2> HIDE DEF verdict
  <2> QED BY <2>1, <2>2, <2>3, FollowsMatchOnly, FollowsUnchanged
<1>8. ASSUME NEW e \in EntId, GrantEntitlement(e) PROVE MeetupsFollow'
  BY <1>8, FollowsUnchanged DEF GrantEntitlement
<1> QED BY <1>1, <1>2, <1>3, <1>4, <1>5, <1>6, <1>7, <1>8 DEF Transaction

-----------------------------------------------------------------------------
(* A completed meetup stays completed.                                       *)
LEMMA CompletedStays ==
  ASSUME RowsInv, Transaction, NEW i \in Intro, CompletedMeetup(i)
  PROVE  CompletedMeetup(i)'
<1> USE DEF RowsInv
<1>1. PICK u \in MeetupId : u[1] = i /\ meetup[u].state = "completed"
  BY DEF CompletedMeetup
<1>2. CASE UNCHANGED meetup
  BY <1>1, <1>2 DEF CompletedMeetup
<1>3. ASSUME NEW v \in MeetupId, NEW from, NEW to, from # "completed", MeetupGoes(v, from, to)
      PROVE  CompletedMeetup(i)'
  <2>1. meetup'[u] = meetup[u]
    BY <1>1, <1>3, MeetupGone
  <2> QED BY <1>1, <2>1 DEF CompletedMeetup
<1>4. ASSUME NEW j \in Intro, NEW v \in MeetupId, NEW s \in Slot, Scheduled(j, v, s)
      PROVE  CompletedMeetup(i)'
  <2>1. meetup'[u] = meetup[u]
    BY <1>1, <1>4, MeetupMade DEF Scheduled
  <2> QED BY <1>1, <2>1 DEF CompletedMeetup
<1>5. \A e \in EntId : GrantEntitlement(e) => UNCHANGED meetup
  BY DEF GrantEntitlement
<1>6. \A j, pair, es : Proposed(j, pair, es) => UNCHANGED meetup
  BY DEF Proposed
<1>7. \A j, m, answer : Answered(j, m, answer) => UNCHANGED meetup
  BY DEF Answered, RecordDecision
<1>8. \A j, from, to : Withdrawn(j, from, to) => UNCHANGED meetup
  BY DEF Withdrawn
<1>9. \A v, m, intent : Reported(v, m, intent) => UNCHANGED meetup
  BY DEF Reported, AddFeedback
<1>10. \A v \in MeetupId : CheckedIn(v) \/ Met(v) \/ Unscheduled(v) \/ (\E from : CalledOff(v, from))
        => CompletedMeetup(i)'
  BY <1>3 DEF CheckedIn, Met, Unscheduled, CalledOff
<1> QED BY <1>2, <1>4, <1>5, <1>6, <1>7, <1>8, <1>9, <1>10 DEF Transaction

(* Answers and match agree, said of one introduction.                        *)
AnswersAt(i) ==
  /\ match[i].state \in {"pending_consent", "expired"} =>
       /\ \A m \in match[i].pair : consent[i][m] # "declined"
       /\ \E m \in match[i].pair : consent[i][m] = "pending"
  /\ match[i].state \in {"consented", "scheduled", "met", "closed_success"} =>
       \A m \in match[i].pair : consent[i][m] = "accepted"
  /\ match[i].state = "closed_failed" =>
       (\E m \in match[i].pair : consent[i][m] = "declined") \/ CompletedMeetup(i)

LEMMA AnswersParts ==
  ASSUME PairsKnown
  PROVE  AnswersMatchState <=> \A i \in Intro : AnswersAt(i)
<1>1. \A i \in Intro : match[i].state # "none" => \E m : m \in match[i].pair
  BY DEF PairsKnown, Twosome
<1>2. ASSUME NEW i \in Intro, NEW answers, answers = {consent[i][m] : m \in match[i].pair},
             match[i].state # "none"
      PROVE  /\ "declined" \in answers <=> \E m \in match[i].pair : consent[i][m] = "declined"
             /\ "pending" \in answers <=> \E m \in match[i].pair : consent[i][m] = "pending"
             /\ answers = {"accepted"} <=> \A m \in match[i].pair : consent[i][m] = "accepted"
  BY <1>1, <1>2
<1> QED BY <1>2 DEF AnswersMatchState, AnswersAt

LEMMA AnswersUntouched ==
  ASSUME RowsInv, Transaction, NEW i \in Intro,
         match'[i] = match[i], consent'[i] = consent[i]
  PROVE  AnswersAt(i)'
<1>1. AnswersAt(i)
  BY AnswersParts DEF RowsInv
<1>2. CompletedMeetup(i) => CompletedMeetup(i)'
  BY CompletedStays
<1> QED BY <1>1, <1>2 DEF AnswersAt

(* A match that moves without an answer.                                     *)
LEMMA AnswersMoved ==
  ASSUME RowsInv, Transaction, NEW i \in Intro, NEW from, NEW to, MatchGoes(i, from, to),
         UNCHANGED consent,
         \/ to = "cancelled"
         \/ from = "pending_consent" /\ to = "expired"
         \/ /\ from \in {"consented", "scheduled", "met"}
            /\ to \in {"consented", "scheduled", "met", "closed_success"}
         \/ to = "closed_failed" /\ CompletedMeetup(i)
  PROVE  \A j \in Intro : AnswersAt(j)'
<1>1. /\ match[i].state = from /\ match'[i].state = to /\ match'[i].pair = match[i].pair
      /\ \A j \in Intro \ {i} : match'[j] = match[j]
  BY MatchGone DEF RowsInv
<1>2. AnswersAt(i)
  BY AnswersParts DEF RowsInv
<1>3. CompletedMeetup(i) => CompletedMeetup(i)'
  BY CompletedStays
<1>4. AnswersAt(i)'
  BY <1>1, <1>2, <1>3 DEF AnswersAt
<1> QED BY <1>1, <1>4, AnswersUntouched

LEMMA AnswersGiven ==
  ASSUME RowsInv, Transaction, NEW i \in Intro, NEW m \in Member,
         NEW answer \in {"accepted", "declined"}, Answered(i, m, answer)
  PROVE  \A j \in Intro : AnswersAt(j)'
<1> USE DEF RowsInv
<1> DEFINE target == NextState([consent[i] EXCEPT ![m] = answer], match[i].pair)
<1>1. RecordDecision(i, m, answer) /\ m \in match[i].pair /\ UNCHANGED meetup
  BY DEF Answered, RecordDecision
<1>2. /\ consent[i][m] = "pending" /\ consent'[i][m] = answer
      /\ consent'[i] = [consent[i] EXCEPT ![m] = answer]
      /\ \A n \in Member \ {m} : consent'[i][n] = consent[i][n]
      /\ \A j \in Intro \ {i} : consent'[j] = consent[j]
  BY <1>1, AnswerGiven
<1>3. \/ target = "pending_consent" /\ UNCHANGED match
      \/ target \in {"consented", "closed_failed"} /\ MatchGoes(i, "pending_consent", target)
  BY DEF Answered, RecordDecision
<1>4. match[i].pair \subseteq Member /\ consent[i] \in [Member -> Decision]
  BY DEF TypeOK, PairsKnown, Twosome
<1>5. target = NextState(consent'[i], match[i].pair)
  BY <1>2
<1>6. \A n \in match[i].pair : consent'[i][n] \in Decision
  BY <1>2, <1>4 DEF Decision
<1>7. AnswersAt(i)
  BY AnswersParts
<1>8. CompletedMeetup(i) => CompletedMeetup(i)'
  BY CompletedStays
<1> HIDE DEF target
<1>9. CASE target = "pending_consent" /\ UNCHANGED match
  <2>1. /\ \A n \in match[i].pair : consent'[i][n] # "declined"
        /\ \E n \in match[i].pair : consent'[i][n] # "accepted"
    BY <1>5, <1>9 DEF NextState
  <2>2. \E n \in match[i].pair : consent'[i][n] = "pending"
    BY <1>6, <2>1 DEF Decision
  <2>3. match[i].state = "closed_failed" => CompletedMeetup(i)
    BY <1>2, <1>4, <1>7, <2>1 DEF AnswersAt
  <2>4. match[i].state \notin {"consented", "scheduled", "met", "closed_success"}
    BY <1>1, <1>2, <1>7 DEF AnswersAt
  <2>5. AnswersAt(i)'
    BY <1>8, <1>9, <2>1, <2>2, <2>3, <2>4 DEF AnswersAt
  <2> QED BY <1>2, <1>9, <2>5, AnswersUntouched
<1>10. CASE target \in {"consented", "closed_failed"} /\ MatchGoes(i, "pending_consent", target)
  <2>1. /\ match'[i].state = target /\ match'[i].pair = match[i].pair
        /\ \A j \in Intro \ {i} : match'[j] = match[j]
    BY <1>10, MatchGone
  <2>2. target = "consented" => \A n \in match[i].pair : consent'[i][n] = "accepted"
    BY <1>5 DEF NextState
  <2>3. target = "closed_failed" => \E n \in match[i].pair : consent'[i][n] = "declined"
    BY <1>5 DEF NextState
  <2>4. AnswersAt(i)'
    BY <1>10, <2>1, <2>2, <2>3 DEF AnswersAt
  <2> QED BY <1>2, <2>1, <2>4, AnswersUntouched
<1> QED BY <1>3, <1>9, <1>10

LEMMA AnswersStay ==
  ASSUME RowsInv, TypeOK', Transaction
  PROVE  AnswersMatchState'
<1> USE DEF RowsInv
<1> DEFINE Goal == \A j \in Intro : AnswersAt(j)'
<1>1. ASSUME UNCHANGED <<match, consent>> PROVE Goal
  BY <1>1, AnswersUntouched
<1>2. ASSUME NEW i \in Intro, NEW pair, NEW es, Proposed(i, pair, es) PROVE Goal
  <2>1. Twosome(pair) /\ CreateMatch(i, pair, match'[i].deadline)
    BY <1>2 DEF Proposed
  <2>2. /\ match'[i].state = "pending_consent" /\ match'[i].pair = pair
        /\ \A m \in Member : consent'[i][m] = "pending"
        /\ \A j \in Intro \ {i} : match'[j] = match[j] /\ consent'[j] = consent[j]
    BY <2>1, MatchMade
  <2>3. (\E m \in Member : m \in pair) /\ pair \subseteq Member
    BY <2>1 DEF Twosome
  <2>4. AnswersAt(i)'
    BY <2>2, <2>3 DEF AnswersAt
  <2> QED BY <2>2, <2>4, AnswersUntouched
<1>3. ASSUME NEW i \in Intro, NEW m \in Member, NEW answer \in {"accepted", "declined"},
             Answered(i, m, answer)
      PROVE  Goal
  BY <1>3, AnswersGiven
<1>4. ASSUME NEW i \in Intro, NEW from, NEW to, Withdrawn(i, from, to) PROVE Goal
  BY <1>4, AnswersMoved DEF Withdrawn
<1>5. ASSUME NEW i \in Intro, NEW u \in MeetupId, NEW s \in Slot, Scheduled(i, u, s) PROVE Goal
  BY <1>5, AnswersMoved DEF Scheduled
<1>6. ASSUME NEW u \in MeetupId, Met(u) \/ Unscheduled(u) \/ \E from : CalledOff(u, from)
      PROVE  Goal
  <2>1. u[1] \in Intro
    BY DEF MeetupId
  <2> QED BY <1>6, <2>1, AnswersMoved DEF Met, Unscheduled, CalledOff
<1>7. ASSUME NEW u \in MeetupId, NEW m \in Member, NEW intent, Reported(u, m, intent) PROVE Goal
  <2> DEFINE verdict == IF MutualContinue(ReportsOf(u, reports')) THEN "closed_success"
                                                                  ELSE "closed_failed"
  <2>1. u[1] \in Intro
    BY DEF MeetupId
  <2>2. UNCHANGED consent /\ (UNCHANGED match \/ MatchGoes(u[1], "met", verdict))
    BY <1>7, Zenon DEF Reported
  <2>3. verdict \in {"closed_success", "closed_failed"}
    OBVIOUS
  <2>4. CompletedMeetup(u[1])
    BY <1>7 DEF Reported, CompletedMeetup
  <2> HIDE DEF verdict
  <2> QED BY <1>1, <2>1, <2>2, <2>3, <2>4, AnswersMoved
<1>8. ASSUME NEW e \in EntId, GrantEntitlement(e) PROVE Goal
  BY <1>1, <1>8 DEF GrantEntitlement
<1>9. ASSUME NEW u \in MeetupId, CheckedIn(u) PROVE Goal
  BY <1>1, <1>9 DEF CheckedIn
<1>10. Goal
  BY <1>2, <1>3, <1>4, <1>5, <1>6, <1>7, <1>8, <1>9 DEF Transaction
<1>11. \A i \in Intro : match'[i].state # "none" => \E m : m \in match'[i].pair
  BY PairsStay DEF PairsKnown, Twosome
<1> QED BY <1>10, <1>11 DEF AnswersMatchState, AnswersAt

-----------------------------------------------------------------------------
LEMMA TwoElements ==
  ASSUME NEW x, NEW y, x # y
  PROVE  IsFiniteSet({x, y}) /\ Cardinality({x, y}) = 2
<1>1. IsFiniteSet({x}) /\ Cardinality({x}) = 1
  BY FS_Singleton
<1>2. /\ IsFiniteSet({x} \cup {y})
      /\ Cardinality({x} \cup {y}) = IF y \in {x} THEN Cardinality({x}) ELSE Cardinality({x}) + 1
  BY <1>1, FS_AddElement
<1>3. {x} \cup {y} = {x, y}
  OBVIOUS
<1> QED BY <1>1, <1>2, <1>3

(* Reports of two participants, one each, are two exactly when both have     *)
(* reported.                                                                 *)
LEMMA ReportsCounted ==
  ASSUME NEW pair, Twosome(pair), NEW rs, \A r \in rs : r.author \in pair,
         \A r, s \in rs : r.author = s.author => r = s
  PROVE  /\ Cardinality(rs) \in 0 .. 2
         /\ Complete(rs) <=> \A m \in pair : \E r \in rs : r.author = m
         /\ Cardinality(rs) = 2 <=> \A m \in pair : \E r \in rs : r.author = m
<1>1. PICK m, n : m # n /\ pair = {m, n}
  BY DEF Twosome
<1> DEFINE everybody == \A k \in pair : \E r \in rs : r.author = k
<1>2. ASSUME rs = {} PROVE Cardinality(rs) = 0 /\ ~everybody
  BY <1>1, <1>2, FS_EmptySet
<1>3. ASSUME NEW r, rs = {r} PROVE Cardinality(rs) = 1 /\ ~everybody
  BY <1>1, <1>3, FS_Singleton
<1>4. ASSUME NEW r, NEW s, r # s, rs = {r, s}
      PROVE  Cardinality(rs) = 2 /\ everybody
  <2>1. r.author # s.author /\ r.author \in pair /\ s.author \in pair
    BY <1>4
  <2> QED BY <1>1, <1>4, <2>1, TwoElements
<1>5. \/ rs = {} \/ (\E r : rs = {r}) \/ \E r, s : r # s /\ rs = {r, s}
  <2>1. CASE \E r, s \in rs : r # s
    <3>1. PICK r, s \in rs : r # s
      BY <2>1
    <3>2. r.author # s.author
      BY <3>1
    <3>3. \A t \in rs : t.author = r.author \/ t.author = s.author
      BY <1>1, <3>2
    <3>4. rs = {r, s}
      BY <3>3
    <3> QED BY <3>1, <3>4
  <2>2. CASE \A r, s \in rs : r = s
    BY <2>2
  <2> QED BY <2>1, <2>2
<1>6. \/ Cardinality(rs) \in {0, 1} /\ ~everybody
      \/ Cardinality(rs) = 2 /\ everybody
  BY <1>2, <1>3, <1>4, <1>5
<1> HIDE DEF everybody
<1>7. /\ Cardinality(rs) \in 0 .. 2
      /\ Cardinality(rs) >= 2 <=> everybody
      /\ Cardinality(rs) = 2 <=> everybody
  BY <1>6
<1> QED BY <1>7 DEF Complete, everybody

(* Only a report moves the match of a completed meetup.                      *)
LEMMA CompletedRowsKept ==
  ASSUME RowsInv, Transaction, NEW u \in MeetupId, meetup[u].state = "completed"
  PROVE  /\ meetup'[u] = meetup[u]
         /\ match'[u[1]].pair = match[u[1]].pair
         /\ \/ UNCHANGED reports /\ match'[u[1]] = match[u[1]]
            \/ \E v \in MeetupId, m \in Member, intent \in Intent : Reported(v, m, intent)
<1> USE DEF RowsInv
<1> DEFINE Kept == /\ meetup'[u] = meetup[u] /\ UNCHANGED reports
                   /\ match'[u[1]] = match[u[1]]
<1>1. u[1] \in Intro
  BY DEF MeetupId
<1>2. match[u[1]].state \in {"met", "closed_success", "closed_failed"}
  BY <1>1 DEF MeetupsFollow, CompletedMeetup
<1>3. ASSUME NEW i \in Intro, NEW from, NEW to, MatchGoes(i, from, to),
             from \in {"pending_consent", "consented", "scheduled"}
      PROVE  match'[u[1]] = match[u[1]]
  BY <1>1, <1>2, <1>3, MatchGone
<1>4. ASSUME NEW v \in MeetupId, NEW from, NEW to, MeetupGoes(v, from, to), from # "completed"
      PROVE  meetup'[u] = meetup[u]
  BY <1>4, MeetupGone
<1>5. ASSUME NEW i \in Intro, NEW pair, NEW es, Proposed(i, pair, es) PROVE Kept
  BY <1>1, <1>2, <1>5, MatchMade DEF Proposed
<1>6. ASSUME NEW i \in Intro, NEW m \in Member, NEW answer, Answered(i, m, answer) PROVE Kept
  BY <1>3, <1>6 DEF Answered, RecordDecision
<1>7. ASSUME NEW i \in Intro, NEW from, NEW to, Withdrawn(i, from, to) PROVE Kept
  BY <1>3, <1>7 DEF Withdrawn
<1>8. ASSUME NEW i \in Intro, NEW v \in MeetupId, NEW s \in Slot, Scheduled(i, v, s) PROVE Kept
  <2>1. meetup'[u] = meetup[u]
    BY <1>8, MeetupMade DEF Scheduled
  <2> QED BY <1>3, <1>8, <2>1 DEF Scheduled
<1>9. ASSUME NEW v \in MeetupId, Met(v) \/ Unscheduled(v) \/ \E from : CalledOff(v, from)
      PROVE  Kept
  <2>1. v[1] \in Intro
    BY DEF MeetupId
  <2> QED BY <1>3, <1>4, <1>9, <2>1 DEF Met, Unscheduled, CalledOff
<1>10. ASSUME NEW v \in MeetupId, CheckedIn(v) PROVE Kept
  BY <1>4, <1>10 DEF CheckedIn
<1>11. ASSUME NEW v \in MeetupId, NEW m, NEW intent, Reported(v, m, intent)
       PROVE  UNCHANGED meetup /\ match'[u[1]].pair = match[u[1]].pair
  <2> DEFINE verdict == IF MutualContinue(ReportsOf(v, reports')) THEN "closed_success"
                                                                  ELSE "closed_failed"
  <2>1. v[1] \in Intro
    BY DEF MeetupId
  <2>2. UNCHANGED meetup /\ (UNCHANGED match \/ MatchGoes(v[1], "met", verdict))
    BY <1>11, Zenon DEF Reported
  <2> HIDE DEF verdict
  <2> QED BY <1>1, <2>1, <2>2, MatchGone
<1>12. \A e \in EntId : GrantEntitlement(e) => Kept
  BY DEF GrantEntitlement
<1> QED BY <1>5, <1>6, <1>7, <1>8, <1>9, <1>10, <1>11, <1>12 DEF Transaction

(* A meetup is completed together with its match, and before any report.     *)
LEMMA NewlyCompleted ==
  ASSUME RowsInv, Transaction, NEW u \in MeetupId,
         meetup[u].state # "completed", meetup'[u].state = "completed"
  PROVE  Met(u)
<1> USE DEF RowsInv
<1>1. ASSUME NEW v \in MeetupId, NEW from, NEW to, to # "completed", MeetupGoes(v, from, to)
      PROVE  FALSE
  <2>1. CASE v = u
    BY <1>1, <2>1, MeetupGone
  <2>2. CASE v # u
    BY <1>1, <2>2, MeetupGone
  <2> QED BY <2>1, <2>2
<1>2. ASSUME NEW v \in MeetupId, Met(v) PROVE v = u
  BY <1>2, MeetupGone DEF Met
<1>3. ASSUME NEW i \in Intro, NEW v \in MeetupId, NEW s, Scheduled(i, v, s) PROVE FALSE
  <2>1. /\ meetup'[v].state = "booked"
        /\ \A w \in MeetupId \ {v} : meetup'[w] = meetup[w]
    BY <1>3, MeetupMade DEF Scheduled
  <2> QED BY <2>1
<1>4. ~UNCHANGED meetup
  OBVIOUS
<1>5. /\ \A e \in EntId : GrantEntitlement(e) => UNCHANGED meetup
      /\ \A i, pair, es : Proposed(i, pair, es) => UNCHANGED meetup
      /\ \A i, m, answer : Answered(i, m, answer) => UNCHANGED meetup
      /\ \A i, from, to : Withdrawn(i, from, to) => UNCHANGED meetup
      /\ \A v, m, intent : Reported(v, m, intent) => UNCHANGED meetup
  BY DEF GrantEntitlement, Proposed, Answered, RecordDecision, Withdrawn, Reported, AddFeedback
<1>6. \A v \in MeetupId : ~CheckedIn(v) /\ ~Unscheduled(v) /\ \A from : ~CalledOff(v, from)
  BY <1>1 DEF CheckedIn, Unscheduled, CalledOff
<1> QED BY <1>2, <1>3, <1>4, <1>5, <1>6 DEF Transaction

(* The verdict of the reports of one completed meetup.                       *)
Everybody(u) == \A m \in match[u[1]].pair : HasReported(u, m)

VerdictAt(u) ==
  /\ match[u[1]].state = "met" <=> ~Everybody(u)
  /\ match[u[1]].state = "closed_success" <=>
       Everybody(u) /\ MutualContinue(ReportsOf(u, reports))

LEMMA OneCompleted ==
  ASSUME MeetupsFollow, NEW u \in MeetupId, NEW v \in MeetupId, u[1] = v[1],
         meetup[u].state = "completed", meetup[v].state = "completed"
  PROVE  u = v
<1>1. u[1] \in Intro /\ u \in ActiveMeetups(u[1]) /\ v \in ActiveMeetups(u[1])
  BY DEF MeetupId, ActiveMeetups, HoldsSeat
<1> QED BY <1>1 DEF MeetupsFollow

LEMMA VerdictGiven ==
  ASSUME RowsInv, NEW u \in MeetupId, NEW m \in Member, NEW intent \in Intent,
         Reported(u, m, intent)
  PROVE  /\ \A r, s \in reports' : r.meetup = s.meetup /\ r.author = s.author => r = s
         /\ VerdictAt(u)'
<1> USE DEF RowsInv
<1> DEFINE all     == ReportsOf(u, reports')
           pair    == match[u[1]].pair
           report  == [meetup |-> u, author |-> m, intent |-> intent]
           verdict == IF MutualContinue(all) THEN "closed_success" ELSE "closed_failed"
<1>1. u[1] \in Intro
  BY DEF MeetupId
<1>2. /\ meetup[u].state = "completed" /\ m \in pair
      /\ \A r \in reports : r.meetup = u => r.author # m
      /\ reports' = reports \cup {report}
  BY DEF Reported, AddFeedback, ReportsOf
<1>3. \A r, s \in reports' : r.meetup = s.meetup /\ r.author = s.author => r = s
  BY <1>2 DEF ReportsKnown
<1>4. \A r \in all : r.author \in pair
  BY <1>2 DEF ReportsKnown, ReportsOf
<1>5. Twosome(pair)
  <2>1. match[u[1]].state # "none"
    BY <1>1, <1>2 DEF PairsKnown
  <2> QED BY <1>1, <2>1 DEF PairsKnown
<1>6. \A r, s \in all : r.author = s.author => r = s
  BY <1>3 DEF ReportsOf
<1>7. match[u[1]].state = "met"
  <2>1. ~HasReported(u, m)
    BY <1>2 DEF HasReported
  <2> QED BY <1>2, <2>1 DEF ReportsKnown
<1>8. Complete(all) <=> \A k \in pair : HasReported(u, k)'
  <2>1. Complete(all) <=> \A k \in pair : \E r \in all : r.author = k
    BY <1>4, <1>5, <1>6, ReportsCounted
  <2>2. \A k : HasReported(u, k)' <=> \E r \in all : r.author = k
    BY DEF HasReported, ReportsOf
  <2> QED BY <2>1, <2>2
<1>9. \/ ~Complete(all) /\ UNCHANGED match
      \/ Complete(all) /\ MatchGoes(u[1], "met", verdict)
  BY Zenon DEF Reported
<1>10. verdict = "closed_success" <=> MutualContinue(all)
  OBVIOUS
<1>11. verdict # "met"
  OBVIOUS
<1>12. match'[u[1]].pair = pair
  BY <1>1, <1>9, MatchGone
<1>13. Everybody(u)' <=> Complete(all)
  BY <1>8, <1>12 DEF Everybody
<1> HIDE DEF verdict
<1>14. ASSUME ~Complete(all), UNCHANGED match PROVE VerdictAt(u)'
  BY <1>7, <1>13, <1>14 DEF VerdictAt
<1>15. ASSUME Complete(all), MatchGoes(u[1], "met", verdict) PROVE VerdictAt(u)'
  <2>1. match'[u[1]].state = verdict
    BY <1>1, <1>15, MatchGone
  <2> QED BY <1>10, <1>11, <1>13, <1>15, <2>1 DEF VerdictAt
<1>16. VerdictAt(u)'
  BY <1>9, <1>14, <1>15
<1> QED BY <1>3, <1>16, Zenon

LEMMA VerdictStays ==
  ASSUME RowsInv, Transaction, NEW u \in MeetupId, meetup'[u].state = "completed"
  PROVE  VerdictAt(u)'
<1> USE DEF RowsInv
<1>1. u[1] \in Intro
  BY DEF MeetupId
<1>2. CASE meetup[u].state # "completed"
  <2>1. Met(u)
    BY <1>2, NewlyCompleted
  <2>2. match'[u[1]].state = "met" /\ match'[u[1]].pair = match[u[1]].pair
        /\ match[u[1]].state = "scheduled" /\ UNCHANGED reports
    BY <1>1, <2>1, MatchGone DEF Met
  <2>3. \A m : ~HasReported(u, m)'
    BY <1>2, <2>2 DEF HasReported, ReportsKnown
  <2>4. \E m : m \in match[u[1]].pair
    BY <1>1, <2>2 DEF PairsKnown, Twosome
  <2> QED BY <2>2, <2>3, <2>4 DEF VerdictAt, Everybody
<1>3. CASE meetup[u].state = "completed"
  <2>1. VerdictAt(u)
    BY <1>3 DEF ReportsKnown, VerdictAt, Everybody
  <2>2. CASE UNCHANGED reports /\ match'[u[1]] = match[u[1]]
    BY <2>1, <2>2 DEF VerdictAt, Everybody, HasReported
  <2>3. ASSUME NEW v \in MeetupId, NEW m \in Member, NEW intent \in Intent, Reported(v, m, intent)
        PROVE  VerdictAt(u)'
    <3>1. CASE v = u
      BY <2>3, <3>1, VerdictGiven
    <3>2. CASE v # u
      <4> DEFINE verdict == IF MutualContinue(ReportsOf(v, reports')) THEN "closed_success"
                                                                      ELSE "closed_failed"
      <4>1. v[1] \in Intro /\ meetup[v].state = "completed"
        BY <2>3 DEF MeetupId, Reported
      <4>2. v[1] # u[1]
        BY <1>3, <3>2, <4>1, OneCompleted
      <4>3. UNCHANGED match \/ MatchGoes(v[1], "met", verdict)
        BY <2>3, Zenon DEF Reported
      <4> HIDE DEF verdict
      <4>4. match'[u[1]] = match[u[1]]
        BY <1>1, <4>1, <4>2, <4>3, MatchGone
      <4>5. reports' = reports \cup {[meetup |-> v, author |-> m, intent |-> intent]}
        BY <2>3 DEF Reported, AddFeedback
      <4>6. ReportsOf(u, reports') = ReportsOf(u, reports)
        BY <3>2, <4>5 DEF ReportsOf
      <4>7. \A k : HasReported(u, k)' <=> HasReported(u, k)
        BY <3>2, <4>5 DEF HasReported
      <4> QED BY <2>1, <4>4, <4>6, <4>7 DEF VerdictAt, Everybody
    <3> QED BY <3>1, <3>2
  <2> QED BY <1>3, <2>2, <2>3, CompletedRowsKept
<1> QED BY <1>2, <1>3

LEMMA ReportsStay ==
  ASSUME RowsInv, Transaction
  PROVE  ReportsKnown'
<1> USE DEF RowsInv
<1>1. \A u \in MeetupId : meetup'[u].state = "completed" => VerdictAt(u)'
  BY VerdictStays
<1>2. \A r \in reports : /\ r.meetup \in MeetupId /\ meetup[r.meetup].state = "completed"
                         /\ r.author \in match[r.meetup[1]].pair
  BY DEF ReportsKnown, TypeOK, Report
<1>3. \A r \in reports : /\ meetup'[r.meetup].state = "completed"
                         /\ r.author \in match'[r.meetup[1]].pair
  BY <1>2, CompletedRowsKept
<1>4. CASE UNCHANGED reports
  BY <1>1, <1>3, <1>4 DEF ReportsKnown, VerdictAt, Everybody, HasReported
<1>5. ASSUME NEW u \in MeetupId, NEW m \in Member, NEW intent \in Intent, Reported(u, m, intent)
      PROVE  ReportsKnown'
  <2>1. /\ meetup[u].state = "completed" /\ m \in match[u[1]].pair
        /\ reports' = reports \cup {[meetup |-> u, author |-> m, intent |-> intent]}
    BY <1>5 DEF Reported, AddFeedback
  <2>2. meetup'[u].state = "completed" /\ m \in match'[u[1]].pair
    BY <2>1, CompletedRowsKept
  <2>3. \A r \in reports' : /\ meetup'[r.meetup].state = "completed"
                            /\ r.author \in match'[r.meetup[1]].pair
    BY <1>3, <2>1, <2>2
  <2>4. \A r, s \in reports' : r.meetup = s.meetup /\ r.author = s.author => r = s
    BY <1>5, VerdictGiven
  <2> QED BY <1>1, <2>3, <2>4 DEF ReportsKnown, VerdictAt, Everybody, HasReported
<1>6. \/ UNCHANGED reports
      \/ \E u \in MeetupId, m \in Member, intent \in Intent : Reported(u, m, intent)
  BY DEF Transaction, GrantEntitlement, Proposed, Answered, RecordDecision, Withdrawn, Scheduled,
         CheckedIn, Met, Unscheduled, CalledOff
<1> QED BY <1>4, <1>5, <1>6

(* The reports of a meetup are counted as the verdict counts them.           *)
LEMMA ReportsDecide ==
  ASSUME RowsInv
  PROVE  ReportsDecideOutcome
<1> USE DEF RowsInv
<1> SUFFICES ASSUME NEW u \in MeetupId
             PROVE  LET rs == ReportsOf(u, reports)
                        st == match[u[1]].state
                    IN  /\ rs # {} => meetup[u].state = "completed"
                        /\ meetup[u].state = "completed" =>
                             /\ (st = "met") <=> (Cardinality(rs) < 2)
                             /\ (st = "closed_success") <=> (Cardinality(rs) = 2 /\ MutualContinue(rs))
  BY DEF ReportsDecideOutcome
<1> DEFINE rs == ReportsOf(u, reports)
<1>1. rs # {} => meetup[u].state = "completed"
  BY DEF ReportsKnown, ReportsOf
<1>2. ASSUME meetup[u].state = "completed"
      PROVE  Cardinality(rs) \in 0 .. 2 /\ (Cardinality(rs) = 2 <=> Everybody(u))
  <2>1. u[1] \in Intro /\ match[u[1]].state # "none"
    BY <1>2 DEF MeetupId, MeetupsFollow, CompletedMeetup
  <2>2. Twosome(match[u[1]].pair)
    BY <2>1 DEF PairsKnown
  <2>3. /\ \A r \in rs : r.author \in match[u[1]].pair
        /\ \A r, s \in rs : r.author = s.author => r = s
    BY DEF ReportsKnown, ReportsOf
  <2>4. Everybody(u) <=> \A m \in match[u[1]].pair : \E r \in rs : r.author = m
    BY DEF Everybody, HasReported, ReportsOf
  <2> HIDE DEF rs
  <2> QED BY <2>2, <2>3, <2>4, ReportsCounted
<1>3. meetup[u].state = "completed" => VerdictAt(u)
  BY DEF ReportsKnown, VerdictAt, Everybody
<1>4. ASSUME meetup[u].state = "completed" PROVE Cardinality(rs) < 2 <=> ~Everybody(u)
  <2> HIDE DEF rs
  <2> QED BY <1>2, <1>4
<1> QED BY <1>1, <1>2, <1>3, <1>4 DEF VerdictAt

-----------------------------------------------------------------------------
(* What has been announced of one introduction.                              *)
AnnouncedAt(i) ==
  \A m \in match[i].pair :
    /\ Told("match_proposed", i, m)
    /\ Told("match_closed", i, m) <=> match[i].state \in Terminal
    /\ Told("meetup_completed", i, m) <=> CompletedMeetup(i)
    /\ match[i].state \in {"consented", "scheduled", "met"} => Told("meetup_booked", i, m)

LEMMA AnnouncedParts == OutcomeAnnounced <=> \A i \in Intro : AnnouncedAt(i)
BY DEF OutcomeAnnounced, AnnouncedAt, Told

LEMMA CompletedUnlessMet ==
  ASSUME RowsInv, Transaction, NEW i \in Intro, \A u \in MeetupId : u[1] = i => ~Met(u)
  PROVE  CompletedMeetup(i)' <=> CompletedMeetup(i)
<1>1. CompletedMeetup(i) => CompletedMeetup(i)'
  BY CompletedStays
<1>2. ASSUME NEW u \in MeetupId, u[1] = i, meetup'[u].state = "completed"
      PROVE  meetup[u].state = "completed"
  BY <1>2, NewlyCompleted
<1> QED BY <1>1, <1>2 DEF CompletedMeetup

LEMMA AnnouncedUntouched ==
  ASSUME RowsInv, Transaction, NEW i \in Intro, match'[i] = match[i],
         \A k, m : Told(k, i, m)' <=> Told(k, i, m)
  PROVE  AnnouncedAt(i)'
<1> USE DEF RowsInv
<1>1. AnnouncedAt(i)
  BY AnnouncedParts DEF AnnouncedKnown
<1>2. ASSUME NEW u \in MeetupId, u[1] = i PROVE ~Met(u)
  <2> SUFFICES ASSUME Met(u) PROVE FALSE
    OBVIOUS
  <2>1. match[i].state = "scheduled" /\ match'[i].state = "met"
    BY <1>2, MatchGone DEF Met
  <2> QED BY <2>1
<1>3. CompletedMeetup(i)' <=> CompletedMeetup(i)
  BY <1>2, CompletedUnlessMet
<1> QED BY <1>1, <1>3 DEF AnnouncedAt

LEMMA AnnouncedQuietly ==
  ASSUME RowsInv, Transaction, UNCHANGED <<match, outbox>>
  PROVE  \A i \in Intro : AnnouncedAt(i)'
<1>1. \A k, i, m : Told(k, i, m)' <=> Told(k, i, m)
  BY DEF Told
<1> QED BY <1>1, AnnouncedUntouched

(* The match moves and tells its participants.                               *)
LEMMA AnnouncedMove ==
  ASSUME RowsInv, Transaction, NEW i \in Intro, NEW from, NEW to, NEW kind,
         MatchGoes(i, from, to), Enqueue(kind, i, match[i].pair),
         from \in {"pending_consent", "consented", "scheduled", "met"},
         kind = "match_closed" <=> to \in Terminal,
         kind = "meetup_completed" => CompletedMeetup(i)',
         CompletedMeetup(i)' => CompletedMeetup(i) \/ kind = "meetup_completed",
         \/ to \notin {"consented", "scheduled", "met"} \/ kind = "meetup_booked"
         \/ from \in {"consented", "scheduled", "met"}
  PROVE  \A j \in Intro : AnnouncedAt(j)'
<1>1. /\ match[i].state = from /\ match'[i].state = to /\ match'[i].pair = match[i].pair
      /\ \A j \in Intro \ {i} : match'[j] = match[j]
  BY MatchGone DEF RowsInv
<1>2. \A k, j, m : Told(k, j, m)' <=> Told(k, j, m) \/ (k = kind /\ j = i /\ m \in match[i].pair)
  BY Announced
<1>3. AnnouncedAt(i)
  BY AnnouncedParts DEF RowsInv, AnnouncedKnown
<1>4. CompletedMeetup(i) => CompletedMeetup(i)'
  BY CompletedStays
<1>5. from \notin Terminal
  BY DEF Terminal
<1>6. ASSUME NEW m \in match[i].pair
      PROVE  /\ Told("match_proposed", i, m)'
             /\ Told("match_closed", i, m)' <=> to \in Terminal
             /\ Told("meetup_completed", i, m)' <=> CompletedMeetup(i)'
             /\ to \in {"consented", "scheduled", "met"} => Told("meetup_booked", i, m)'
  BY <1>1, <1>2, <1>3, <1>4, <1>5 DEF AnnouncedAt
<1>7. AnnouncedAt(i)'
  BY <1>1, <1>6 DEF AnnouncedAt
<1>8. ASSUME NEW j \in Intro \ {i} PROVE AnnouncedAt(j)'
  BY <1>1, <1>2, AnnouncedUntouched
<1> QED BY <1>7, <1>8

LEMMA AnnouncedOutcome ==
  ASSUME RowsInv, Transaction
  PROVE  \A i \in Intro : AnnouncedAt(i)'
<1> USE DEF RowsInv
<1> DEFINE Goal == \A j \in Intro : AnnouncedAt(j)'
<1>3. ASSUME NEW i \in Intro, NEW pair, NEW es, Proposed(i, pair, es) PROVE Goal
  <2>1. CreateMatch(i, pair, match'[i].deadline) /\ Enqueue("match_proposed", i, pair)
        /\ UNCHANGED meetup
    BY <1>3 DEF Proposed
  <2>2. /\ match[i].state = "none"
        /\ match'[i].state = "pending_consent" /\ match'[i].pair = pair
        /\ \A j \in Intro \ {i} : match'[j] = match[j]
    BY <2>1, MatchMade
  <2>3. \A k, j, m : Told(k, j, m)' <=> Told(k, j, m) \/ (k = "match_proposed" /\ j = i /\ m \in pair)
    BY <2>1, Announced
  <2>4. \A k, m : ~Told(k, i, m)
    BY <2>2 DEF Told, AnnouncedKnown
  <2>5. ~CompletedMeetup(i)'
    BY <2>1, <2>2 DEF MeetupsFollow, CompletedMeetup
  <2>6. AnnouncedAt(i)'
    BY <2>2, <2>3, <2>4, <2>5 DEF AnnouncedAt, Terminal
  <2>7. ASSUME NEW j \in Intro \ {i} PROVE AnnouncedAt(j)'
    BY <2>2, <2>3, AnnouncedUntouched
  <2> QED BY <2>6, <2>7
<1>4. ASSUME NEW i \in Intro, UNCHANGED meetup PROVE CompletedMeetup(i)' <=> CompletedMeetup(i)
  BY <1>4 DEF CompletedMeetup
<1>5. ASSUME NEW i \in Intro, NEW m \in Member, NEW answer, Answered(i, m, answer) PROVE Goal
  <2>1. UNCHANGED meetup
    BY <1>5 DEF Answered, RecordDecision
  <2>2. \/ UNCHANGED <<match, outbox>>
        \/ MatchGoes(i, "pending_consent", "consented") /\ Enqueue("meetup_booked", i, match[i].pair)
        \/ MatchGoes(i, "pending_consent", "closed_failed")
           /\ Enqueue("match_closed", i, match[i].pair)
    BY <1>5 DEF Answered, RecordDecision
  <2>3. CompletedMeetup(i)' <=> CompletedMeetup(i)
    BY <1>4, <2>1
  <2>4. CASE UNCHANGED <<match, outbox>>
    BY <2>4, AnnouncedQuietly
  <2>5. CASE MatchGoes(i, "pending_consent", "consented") /\ Enqueue("meetup_booked", i, match[i].pair)
    BY <2>3, <2>5, AnnouncedMove DEF Terminal
  <2>6. CASE MatchGoes(i, "pending_consent", "closed_failed")
             /\ Enqueue("match_closed", i, match[i].pair)
    <3>1. "closed_failed" \in Terminal
      BY DEF Terminal
    <3> QED BY <2>3, <2>6, <3>1, AnnouncedMove
  <2> QED BY <2>2, <2>4, <2>5, <2>6
<1>6. ASSUME NEW i \in Intro, NEW from, NEW to, Withdrawn(i, from, to) PROVE Goal
  <2>1. /\ from \in {"pending_consent", "consented"} /\ to \in {"expired", "cancelled"}
        /\ MatchGoes(i, from, to) /\ Enqueue("match_closed", i, match[i].pair)
    BY <1>6 DEF Withdrawn
  <2>2. CompletedMeetup(i)' <=> CompletedMeetup(i)
    BY <1>4, <1>6 DEF Withdrawn
  <2>3. to \in Terminal /\ to \notin {"consented", "scheduled", "met"}
    BY <2>1 DEF Terminal
  <2> QED BY <2>1, <2>2, <2>3, AnnouncedMove
<1>7. ASSUME NEW i \in Intro, NEW u \in MeetupId, NEW s \in Slot, Scheduled(i, u, s) PROVE Goal
  <2>1. MatchGoes(i, "consented", "scheduled") /\ Enqueue("meetup_booked", i, match[i].pair)
    BY <1>7 DEF Scheduled
  <2>2. match[i].state = "consented"
    BY <2>1 DEF MatchGoes
  <2>3. \A v \in MeetupId : v[1] = i => ~Met(v)
    BY <2>2 DEF Met, MatchGoes
  <2>4. CompletedMeetup(i)' <=> CompletedMeetup(i)
    BY <2>3, CompletedUnlessMet
  <2> QED BY <2>1, <2>4, AnnouncedMove DEF Terminal
<1>8. ASSUME NEW u \in MeetupId, CheckedIn(u) PROVE Goal
  BY <1>8, AnnouncedQuietly DEF CheckedIn
<1>9. ASSUME NEW u \in MeetupId, Met(u) PROVE Goal
  <2>1. u[1] \in Intro
    BY DEF MeetupId
  <2>2. meetup'[u].state = "completed"
    BY <1>9, MeetupGone DEF Met
  <2>3. CompletedMeetup(u[1])'
    BY <2>2 DEF CompletedMeetup
  <2> QED BY <1>9, <2>1, <2>3, AnnouncedMove DEF Met, Terminal
<1>10. ASSUME NEW u \in MeetupId, Unscheduled(u) PROVE Goal
  <2>1. u[1] \in Intro /\ MatchGoes(u[1], "scheduled", "consented") /\ UNCHANGED outbox
    BY <1>10 DEF MeetupId, Unscheduled
  <2>2. /\ match[u[1]].state = "scheduled" /\ match'[u[1]].state = "consented"
        /\ match'[u[1]].pair = match[u[1]].pair
        /\ \A j \in Intro \ {u[1]} : match'[j] = match[j]
    BY <2>1, MatchGone
  <2>3. \A k, j, m : Told(k, j, m)' <=> Told(k, j, m)
    BY <2>1 DEF Told
  <2>4. \A v \in MeetupId : v[1] = u[1] => ~Met(v)
    BY <2>1, <2>2, MatchGone DEF Met
  <2>5. CompletedMeetup(u[1])' <=> CompletedMeetup(u[1])
    BY <2>1, <2>4, CompletedUnlessMet
  <2>6. AnnouncedAt(u[1])
    BY <2>1, AnnouncedParts DEF AnnouncedKnown
  <2>7. AnnouncedAt(u[1])'
    BY <2>2, <2>3, <2>5, <2>6 DEF AnnouncedAt, Terminal
  <2>8. ASSUME NEW j \in Intro \ {u[1]} PROVE AnnouncedAt(j)'
    BY <2>2, <2>3, AnnouncedUntouched
  <2> QED BY <2>7, <2>8
<1>11. ASSUME NEW u \in MeetupId, NEW from, CalledOff(u, from) PROVE Goal
  <2>1. u[1] \in Intro /\ MatchGoes(u[1], "scheduled", "cancelled")
        /\ Enqueue("match_closed", u[1], match[u[1]].pair)
    BY <1>11 DEF MeetupId, CalledOff
  <2>2. match'[u[1]].state = "cancelled"
    BY <2>1, MatchGone
  <2>3. \A v \in MeetupId : v[1] = u[1] => ~Met(v)
    BY <2>1, <2>2, MatchGone DEF Met
  <2>4. CompletedMeetup(u[1])' <=> CompletedMeetup(u[1])
    BY <2>1, <2>3, CompletedUnlessMet
  <2>5. "cancelled" \in Terminal
    BY DEF Terminal
  <2> QED BY <2>1, <2>4, <2>5, AnnouncedMove
<1>12. ASSUME NEW u \in MeetupId, NEW m, NEW intent, Reported(u, m, intent) PROVE Goal
  <2> DEFINE verdict == IF MutualContinue(ReportsOf(u, reports')) THEN "closed_success"
                                                                  ELSE "closed_failed"
  <2>1. u[1] \in Intro /\ UNCHANGED meetup
    BY <1>12 DEF MeetupId, Reported, AddFeedback
  <2>2. \/ UNCHANGED <<match, outbox>>
        \/ MatchGoes(u[1], "met", verdict) /\ Enqueue("match_closed", u[1], match[u[1]].pair)
    BY <1>12, Zenon DEF Reported
  <2>4. CompletedMeetup(u[1])' <=> CompletedMeetup(u[1])
    BY <1>4, <2>1
  <2>5. verdict \in Terminal /\ verdict \notin {"consented", "scheduled", "met"}
    BY DEF Terminal
  <2> HIDE DEF verdict
  <2>6. ASSUME MatchGoes(u[1], "met", verdict), Enqueue("match_closed", u[1], match[u[1]].pair)
        PROVE  Goal
    BY <2>1, <2>4, <2>5, <2>6, AnnouncedMove
  <2> QED BY <2>2, <2>6, AnnouncedQuietly
<1>13. ASSUME NEW e \in EntId, GrantEntitlement(e) PROVE Goal
  BY <1>13, AnnouncedQuietly DEF GrantEntitlement
<1> QED BY <1>3, <1>5, <1>6, <1>7, <1>8, <1>9, <1>10, <1>11, <1>12, <1>13 DEF Transaction

(* A match that exists goes on existing, with the pair it was made of.       *)
LEMMA MatchLasts ==
  ASSUME RowsInv, Transaction, NEW i \in Intro, match[i].state # "none"
  PROVE  match'[i].state # "none" /\ match'[i].pair = match[i].pair
<1>1. ASSUME NEW pair, NEW es, Proposed(i, pair, es) PROVE FALSE
  BY <1>1 DEF Proposed, CreateMatch
<1> QED BY <1>1, MatchSteps DEF RowsInv, MatchMoves, MatchEdges

LEMMA AnnouncementsStay ==
  ASSUME RowsInv, Transaction, TypeOK'
  PROVE  AnnouncedKnown'
<1>1. (OutcomeAnnounced <=> \A i \in Intro : AnnouncedAt(i))'
  BY DEF OutcomeAnnounced, AnnouncedAt, Told
<1>2. OutcomeAnnounced'
  BY <1>1, AnnouncedOutcome
<1>3. \A n \in outbox : n.intro \in Intro /\ match'[n.intro].state # "none"
  BY MatchLasts DEF RowsInv, TypeOK, Announcement, AnnouncedKnown
<1>4. ASSUME NEW kind, NEW i \in Intro, NEW pair, Enqueue(kind, i, pair), match'[i].state # "none"
      PROVE  \A n \in outbox' : match'[n.intro].state # "none"
  BY <1>3, <1>4 DEF Enqueue
<1>5. CASE UNCHANGED outbox
  BY <1>2, <1>3, <1>5 DEF AnnouncedKnown
<1>6. ASSUME NEW kind, NEW i \in Intro, match[i].state # "none", Enqueue(kind, i, match[i].pair)
      PROVE  \A n \in outbox' : match'[n.intro].state # "none"
  BY <1>4, <1>6, MatchLasts
<1>7. ASSUME NEW i \in Intro, NEW pair, NEW es, Proposed(i, pair, es)
      PROVE  \A n \in outbox' : match'[n.intro].state # "none"
  BY <1>4, <1>7, MatchMade DEF Proposed, RowsInv
<1>8. \A u \in MeetupId : u[1] \in Intro
  BY DEF MeetupId
<1>9. \/ UNCHANGED outbox
      \/ \E i \in Intro : \E kind : match[i].state # "none" /\ Enqueue(kind, i, match[i].pair)
      \/ \E i \in Intro : \E pair, es : Proposed(i, pair, es)
  <2>1. ASSUME NEW u \in MeetupId, NEW m, NEW intent, Reported(u, m, intent), ~UNCHANGED outbox
        PROVE  match[u[1]].state # "none" /\ Enqueue("match_closed", u[1], match[u[1]].pair)
    <3> DEFINE verdict == IF MutualContinue(ReportsOf(u, reports')) THEN "closed_success"
                                                                    ELSE "closed_failed"
    <3>1. MatchGoes(u[1], "met", verdict) /\ Enqueue("match_closed", u[1], match[u[1]].pair)
      BY <2>1, Zenon DEF Reported
    <3> HIDE DEF verdict
    <3> QED BY <3>1 DEF MatchGoes
  <2> QED BY <1>8, <2>1 DEF Transaction, GrantEntitlement, Answered, RecordDecision, Withdrawn,
             Scheduled, CheckedIn, Met, Unscheduled, CalledOff, MatchGoes
<1> QED BY <1>2, <1>5, <1>6, <1>7, <1>9 DEF AnnouncedKnown

(* The match, the meetup and the seat move together.                         *)
LEMMA MeetupFollows ==
  ASSUME MeetupsFollow
  PROVE  MeetupFollowsMatch
<1>1. ASSUME NEW i \in Intro PROVE Cardinality(ActiveMeetups(i)) <= 1
  <2>1. ActiveMeetups(i) = {} \/ \E u : ActiveMeetups(i) = {u}
    BY DEF MeetupsFollow
  <2>2. Cardinality(ActiveMeetups(i)) \in {0, 1}
    BY <2>1, FS_EmptySet, FS_Singleton
  <2> QED BY <2>2
<1> QED BY <1>1 DEF MeetupsFollow, MeetupFollowsMatch
===============================================================================
