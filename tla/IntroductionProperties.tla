------------------------ MODULE IntroductionProperties ------------------------
(* What must hold of Introductions, and what its documentation says of it.   *)
EXTENDS Introductions

(* The shape of the rows and of the snapshots; counters are naturals, so no  *)
(* release goes below zero (the CHECK constraints of the schema).            *)
Announcement == [kind : {"match_proposed", "meetup_booked", "meetup_completed", "match_closed"},
                 intro : Intro, member : Member]
LedgerEntry  == [ent : EntId, intro : Intro, reason : {"reserve", "release", "consume"}]
Report       == [meetup : MeetupId, author : Member, intent : Intent]
Couple       == {{m, n} : m, n \in Member}
ProposeSnapshot == [op : {"propose"}, pair : Couple, at : Nat,
                    held : SUBSET [ent : EntId, version : Nat], counted : SUBSET Member]
DecideSnapshot  == [op : {"decide"}, intro : Intro, member : Member,
                    answer : {"accepted", "declined"}, version : Nat]
CancelSnapshot  == [op : {"cancel"}, intro : Intro, from : MatchState, version : Nat]
BookSnapshot    == [op : {"book"}, intro : Intro, slot : Slot, version : Nat,
                    clear : SUBSET Member]
CheckInSnapshot == [op : {"check_in"}, meetup : MeetupId, version : Nat]
CompleteSnapshot == [op : {"complete"}, meetup : MeetupId, version : Nat, matchVersion : Nat]
CancelMeetupSnapshot == [op : {"cancel_meetup"}, meetup : MeetupId, version : Nat,
                         from : MatchState, matchVersion : Nat]
FeedbackSnapshot == [op : {"feedback"}, meetup : MeetupId, member : Member, intent : Intent,
                     from : MatchState, matchVersion : Nat]
Snapshot == {Idle} \cup ProposeSnapshot \cup DecideSnapshot \cup CancelSnapshot
            \cup BookSnapshot \cup CheckInSnapshot \cup CompleteSnapshot
            \cup CancelMeetupSnapshot \cup FeedbackSnapshot

MatchRow       == [state : MatchState, pair : Couple \cup {{}}, version : Nat, deadline : Nat]
EntitlementRow == [state : EntitlementState, used : Nat, reserved : Nat,
                   version : Nat, from : Nat, until : Nat]
MeetupRow      == [state : MeetupState, slot : Slot \cup {NoSlot}, version : Nat]

TypeOK ==
  /\ now \in Nat
  /\ match \in [Intro -> MatchRow]
  /\ consent \in [Intro -> [Member -> Decision]]
  /\ entitlement \in [EntId -> EntitlementRow]
  /\ ledger \subseteq LedgerEntry
  /\ meetup \in [MeetupId -> MeetupRow]
  /\ booked \in [Slot -> Nat]
  /\ reports \subseteq Report
  /\ outbox \subseteq Announcement
  /\ request \in [Client -> Snapshot]
  /\ sweep \subseteq [intro : Intro, version : Nat]

Moved(e, i, reason) == [ent |-> e, intro |-> i, reason |-> reason] \in ledger
OpenHolds(e) == {i \in Intro : /\ Moved(e, i, "reserve")
                               /\ ~Moved(e, i, "release") /\ ~Moved(e, i, "consume")}
Spent(e)     == {i \in Intro : Moved(e, i, "consume")}

(* The counters of every allowance are the balance of its ledger: reserved   *)
(* is the number of introductions held and not yet returned or spent, used   *)
(* the number spent (entitlement.Balance), and an exhausted allowance holds  *)
(* nothing.                                                                  *)
LedgerBalances ==
  \A e \in EntId :
    /\ entitlement[e].reserved = Cardinality(OpenHolds(e))
    /\ entitlement[e].used = Cardinality(Spent(e))
    /\ entitlement[e].used + entitlement[e].reserved <= Total(e)
    /\ entitlement[e].state = "exhausted"
         => entitlement[e].reserved = 0 /\ entitlement[e].used = Total(e)

CompletedMeetup(i) == \E u \in MeetupId : u[1] = i /\ meetup[u].state = "completed"

(* Every introduction charged exactly one allowance of each participant; the *)
(* hold is open exactly while the match holds quota, is spent exactly when   *)
(* the meetup was completed, and is returned exactly when the match ended    *)
(* without one, on the same allowance although releaseReservations and       *)
(* settle look the allowance up again.                                       *)
HoldsSettledOnce ==
  \A i \in Intro : \A m \in match[i].pair :
    \E e \in EntId :
      /\ {f \in EntId : f[1] = m /\ \E r \in {"reserve", "release", "consume"} : Moved(f, i, r)} = {e}
      /\ (i \in OpenHolds(e)) <=> (match[i].state \in {"pending_consent", "consented", "scheduled"})
      /\ (i \in Spent(e)) <=> CompletedMeetup(i)
      /\ Moved(e, i, "release") <=> (match[i].state \in Terminal /\ ~CompletedMeetup(i))

(* The match, the meetup and the seat move together: a match is scheduled    *)
(* exactly while a meetup of it is booked or checked in, it met exactly when *)
(* one was completed, and it never has two live meetups.                     *)
MeetupFollowsMatch ==
  \A i \in Intro :
    /\ Cardinality(ActiveMeetups(i)) <= 1
    /\ match[i].state = "scheduled" <=>
         \E u \in ActiveMeetups(i) : meetup[u].state \in {"booked", "checked_in"}
    /\ match[i].state \in {"met", "closed_success"} => CompletedMeetup(i)
    /\ CompletedMeetup(i) => match[i].state \in {"met", "closed_success", "closed_failed"}

(* The booked count of a slot is the number of meetups that hold a seat in   *)
(* it, whichever way a booking was withdrawn, and stays within capacity.     *)
SeatsMatchMeetups ==
  \A s \in Slot :
    /\ booked[s] = Cardinality({u \in MeetupId : meetup[u].state \in HoldsSeat
                                                 /\ meetup[u].slot = s})
    /\ booked[s] <= Capacity[s]

(* Answers and match agree whatever order two members answer in: a pending   *)
(* or expired match has no decline and lacks an answer (nobody is left       *)
(* waiting on a finished collection), a match that went on has two accepts,  *)
(* and one that failed without a meetup has a decline.                       *)
AnswersMatchState ==
  \A i \in Intro :
    LET answers == {consent[i][m] : m \in match[i].pair}
    IN  /\ match[i].state \in {"pending_consent", "expired"}
             => "declined" \notin answers /\ "pending" \in answers
        /\ match[i].state \in {"consented", "scheduled", "met", "closed_success"}
             => answers = {"accepted"}
        /\ match[i].state = "closed_failed"
             => "declined" \in answers \/ CompletedMeetup(i)

(* No member ever takes part in more live introductions than the plan        *)
(* allows, although the limit is only checked before the transaction: the    *)
(* entitlement version read before the count stands for it.                  *)
ActiveLimitHolds == \A m \in Member : CountActiveByMember(m) <= Plan[m].maxActive

(* A committed outcome is announced to both participants and nothing that    *)
(* did not happen is announced.                                              *)
OutcomeAnnounced ==
  \A i \in Intro : \A m \in match[i].pair :
    LET told(kind) == [kind |-> kind, intro |-> i, member |-> m] \in outbox
    IN  /\ told("match_proposed")
        /\ told("match_closed") <=> match[i].state \in Terminal
        /\ told("meetup_completed") <=> CompletedMeetup(i)
        /\ match[i].state \in {"consented", "scheduled", "met"} => told("meetup_booked")

(* Two concurrent reports close the introduction exactly once: a match that  *)
(* is still met lacks a report, a closed one has both and carries their      *)
(* verdict.                                                                  *)
ReportsDecideOutcome ==
  \A u \in MeetupId :
    LET rs == ReportsOf(u, reports)
        st == match[u[1]].state
    IN  /\ rs # {} => meetup[u].state = "completed"
        /\ meetup[u].state = "completed" =>
             /\ (st = "met") <=> (Cardinality(rs) < 2)
             /\ (st = "closed_success") <=> (Cardinality(rs) = 2 /\ MutualContinue(rs))

(* A version stands for the state that was read with it: as long as a match  *)
(* still has the version a request or the sweeper holds, it is still in the  *)
(* state that request checked.  (The versions are all the transactions       *)
(* compare, see UpdateState.)                                                *)
Read(i, version, states) ==
  \/ version < match[i].version
  \/ version = match[i].version /\ match[i].state \in states

Cancellable == {s \in MatchState : MatchCanTransition(s, "cancelled")}

RequestFresh(r) ==
  /\ r.op = "decide"        => Read(r.intro, r.version, {"pending_consent"})
  /\ r.op = "cancel"        => /\ Read(r.intro, r.version, {r.from})
                              /\ r.from \in Cancellable
  /\ r.op = "book"          => Read(r.intro, r.version, {"consented"})
  /\ r.op = "complete"      => Read(r.meetup[1], r.matchVersion, {"scheduled"})
  /\ r.op = "cancel_meetup" => Read(r.meetup[1], r.matchVersion, {r.from})
  /\ r.op = "feedback"      => Read(r.meetup[1], r.matchVersion, {r.from})

VersionsStandForState ==
  /\ \A c \in Client : RequestFresh(request[c])
  /\ \A d \in sweep : Read(d.intro, d.version, {"pending_consent"})
  /\ \A i \in Intro : match[i].state = "none" => match[i].version = 0

(* Closed matches stay closed and a met match is never withdrawn, whatever   *)
(* stale snapshot a request still holds.                                     *)
OutcomeFinal ==
  [][\A i \in Intro :
       /\ match[i].state \in Terminal => match'[i] = match[i]
       /\ match[i].state = "met" => match'[i].state \in {"met", "closed_success", "closed_failed"}
    ]_vars

(* README.md:59 has every transition validated against the tables; two steps *)
(* of the code are outside them: schedulesvc.Cancel takes a match back to    *)
(* consented, and matchsvc.Cancel cancels a meetup that was checked in.  No  *)
(* decision taken on a stale snapshot adds a third.                          *)
OnlyKnownTransitions ==
  [][/\ \A i \in Intro : match[i].state # "none" /\ match'[i].state # match[i].state
          => \/ MatchCanTransition(match[i].state, match'[i].state)
             \/ match[i].state = "scheduled" /\ match'[i].state = "consented"
     /\ \A u \in MeetupId : meetup[u].state # "none" /\ meetup'[u].state # meetup[u].state
          => \/ MeetupCanTransition(meetup[u].state, meetup'[u].state)
             \/ meetup[u].state = "checked_in" /\ meetup'[u].state = "cancelled"]_vars

-----------------------------------------------------------------------------
(* What the documentation says and the code does not keep *)

(* schedulesvc/service.go:155: no member has two overlapping appointments.   *)
NoOverlappingAppointments ==
  \A m \in Member : \A u, v \in MemberBookings(m) :
    u # v => ~Overlaps(meetup[u].slot, meetup[v].slot)

-----------------------------------------------------------------------------
(* Liveness.  The sweeper runs on a ticker and lists again after a round     *)
(* that failed; a round may fail often but not every time, hence strong      *)
(* fairness of the transaction and weak fairness of the rest.  Clients are   *)
(* not fair: nobody has to answer.                                           *)

Fairness ==
  /\ WF_vars(Tick)
  /\ WF_vars(\E due \in SUBSET Overdue : SweepList(due))
  /\ \A i \in Intro : SF_vars(\E d \in sweep : d.intro = i /\ SweepExpire(d))
  /\ WF_vars(\E d \in sweep : SweepSkip(d))

FairSpec == Spec /\ Fairness

(* An introduction nobody answered in time ends, and its holds with it.      *)
OverdueEnds ==
  \A i \in Intro :
    (match[i].state = "pending_consent" /\ match[i].deadline <= now)
      ~> (match[i].state \notin {"pending_consent"})

(* README.md:55-56, entitlement.go:21: an allowance that passed its validity *)
(* window becomes expired.                                                   *)
AllowanceExpires ==
  \A e \in EntId :
    (entitlement[e].state = "active" /\ entitlement[e].until <= now)
      ~> (entitlement[e].state # "active")
==============================================================================
