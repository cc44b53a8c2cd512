----------------------------- MODULE Transactions -----------------------------
(***************************************************************************)
(* The transactions of Introductions without the requests around them.     *)
(* Each is stated on the rows as they are when it commits, although the    *)
(* request that runs it decided on rows it read earlier.  Below are the    *)
(* relations between the rows, and between a snapshot and the rows, that   *)
(* make the two agree: together they are inductive.                        *)
(***************************************************************************)
EXTENDS IntroductionProperties

Twosome(pair) == \E m, n \in Member : m # n /\ pair = {m, n}

MatchGoes(i, from, to) ==
  /\ match[i].state = from
  /\ match' = [match EXCEPT ![i] = MoveTo(match[i], to)]

MeetupGoes(u, from, to) ==
  /\ meetup[u].state = from
  /\ meetup' = [meetup EXCEPT ![u] = MoveTo(meetup[u], to)]

(* The allowances an introduction holds.                                     *)
Held(i) == {e \in EntId : i \in OpenHolds(e)}

ReturnHolds(i) == Release(Held(i)) /\ AppendLedger(Held(i), i, "release")

SpendHolds(i) == Consume(Held(i)) /\ AppendLedger(Held(i), i, "consume")

(* One allowance of each member of the pair, with room for one more hold.    *)
Chargeable(es, pair) ==
  /\ \A e \in es : /\ e[1] \in pair
                   /\ entitlement[e].state = "active"
                   /\ entitlement[e].used + entitlement[e].reserved < Total(e)
  /\ \A m \in pair : \E e \in es : {f \in es : f[1] = m} = {e}

Proposed(i, pair, es) ==
  /\ Twosome(pair)
  /\ \A m \in pair : CountActiveByMember(m) < Plan[m].maxActive
  /\ Chargeable(es, pair)
  /\ CreateMatch(i, pair, match'[i].deadline)
  /\ Reserve(es)
  /\ AppendLedger(es, i, "reserve")
  /\ Enqueue("match_proposed", i, pair)
  /\ UNCHANGED <<meetup, booked, reports>>

Answered(i, m, answer) ==
  LET target == NextState([consent[i] EXCEPT ![m] = answer], match[i].pair)
  IN  /\ m \in match[i].pair
      /\ RecordDecision(i, m, answer)
      /\ \/ /\ target = "pending_consent"
            /\ UNCHANGED <<match, entitlement, ledger, outbox>>
         \/ /\ target = "consented"
            /\ MatchGoes(i, "pending_consent", "consented")
            /\ Enqueue("meetup_booked", i, match[i].pair)
            /\ UNCHANGED <<entitlement, ledger>>
         \/ /\ target = "closed_failed"
            /\ MatchGoes(i, "pending_consent", "closed_failed")
            /\ ReturnHolds(i)
            /\ Enqueue("match_closed", i, match[i].pair)
      /\ UNCHANGED <<meetup, booked, reports>>

(* Cancelled before a meetup was booked, or expired.                         *)
Withdrawn(i, from, to) ==
  /\ <<from, to>> \in {<<"pending_consent", "expired">>, <<"pending_consent", "cancelled">>,
                       <<"consented", "cancelled">>}
  /\ MatchGoes(i, from, to)
  /\ ReturnHolds(i)
  /\ Enqueue("match_closed", i, match[i].pair)
  /\ UNCHANGED <<consent, meetup, booked, reports>>

Scheduled(i, u, s) ==
  /\ AllAccepted(i)
  /\ MatchGoes(i, "consented", "scheduled")
  /\ CreateMeetup(u, i, s)
  /\ TryBook(s)
  /\ Enqueue("meetup_booked", i, match[i].pair)
  /\ UNCHANGED <<consent, entitlement, ledger, reports>>

CheckedIn(u) ==
  /\ MeetupGoes(u, "booked", "checked_in")
  /\ UNCHANGED <<match, consent, entitlement, ledger, booked, reports, outbox>>

Met(u) ==
  /\ MeetupGoes(u, "checked_in", "completed")
  /\ MatchGoes(u[1], "scheduled", "met")
  /\ SpendHolds(u[1])
  /\ Enqueue("meetup_completed", u[1], match[u[1]].pair)
  /\ UNCHANGED <<consent, booked, reports>>

(* The meetup is cancelled and the match may be scheduled again.             *)
Unscheduled(u) ==
  /\ MeetupGoes(u, "booked", "cancelled")
  /\ MatchGoes(u[1], "scheduled", "consented")
  /\ FreeSeat(meetup[u].slot)
  /\ UNCHANGED <<consent, entitlement, ledger, reports, outbox>>

(* A scheduled match is cancelled, and its meetup with it.                   *)
CalledOff(u, from) ==
  /\ from \in {"booked", "checked_in"}
  /\ MeetupGoes(u, from, "cancelled")
  /\ MatchGoes(u[1], "scheduled", "cancelled")
  /\ FreeSeat(meetup[u].slot)
  /\ ReturnHolds(u[1])
  /\ Enqueue("match_closed", u[1], match[u[1]].pair)
  /\ UNCHANGED <<consent, reports>>

Reported(u, m, intent) ==
  LET all == ReportsOf(u, reports')
  IN  /\ meetup[u].state = "completed"
      /\ m \in match[u[1]].pair
      /\ AddFeedback(u, m, intent)
      /\ \/ ~Complete(all) /\ UNCHANGED <<match, outbox>>
         \/ /\ Complete(all)
            /\ MatchGoes(u[1], "met",
                 IF MutualContinue(all) THEN "closed_success" ELSE "closed_failed")
            /\ Enqueue("match_closed", u[1], match[u[1]].pair)
      /\ UNCHANGED <<consent, entitlement, ledger, meetup, booked>>

Transaction ==
  \/ \E e \in EntId : GrantEntitlement(e)
  \/ \E i \in Intro, pair \in SUBSET Member, es \in SUBSET EntId : Proposed(i, pair, es)
  \/ \E i \in Intro, m \in Member, answer \in {"accepted", "declined"} : Answered(i, m, answer)
  \/ \E i \in Intro, from, to \in MatchState : Withdrawn(i, from, to)
  \/ \E i \in Intro, u \in MeetupId, s \in Slot : Scheduled(i, u, s)
  \/ \E u \in MeetupId :
       \/ CheckedIn(u) \/ Met(u) \/ Unscheduled(u)
       \/ \E from \in MeetupState : CalledOff(u, from)
       \/ \E m \in Member, intent \in Intent : Reported(u, m, intent)

(* Whatever a request has read before, its transaction takes effect as if it *)
(* had checked everything at the moment it commits: the states of match and  *)
(* meetup, the limit on live introductions, the room in the allowances, and  *)
(* that what it releases or settles is what the introduction holds.  (Two    *)
(* checks are not repeated: Decide on a match that is no longer pending, and *)
(* the overlapping appointments of Book.)                                    *)
ActsOnCurrentRows == [][Transaction]_rows

-----------------------------------------------------------------------------
(* The rows *)

PairsKnown ==
  \A i \in Intro :
    /\ match[i].state = "none" <=> match[i].pair = {}
    /\ match[i].state # "none" => Twosome(match[i].pair)

MeetupsFollow ==
  /\ \A u \in MeetupId : /\ meetup[u].state = "none" => meetup[u].version = 0
                         /\ meetup[u].state # "none" => meetup[u].slot \in Slot
  /\ \A i \in Intro :
       /\ \A u, v \in ActiveMeetups(i) : u = v
       /\ match[i].state = "scheduled" <=>
            \E u \in ActiveMeetups(i) : meetup[u].state \in {"booked", "checked_in"}
       /\ match[i].state \in {"met", "closed_success"} => CompletedMeetup(i)
       /\ CompletedMeetup(i) => match[i].state \in {"met", "closed_success", "closed_failed"}

HasReported(u, m) == \E r \in reports : r.meetup = u /\ r.author = m

(* Reports are of the participants of a completed meetup, one each.          *)
ReportsKnown ==
  /\ \A r \in reports : /\ meetup[r.meetup].state = "completed"
                        /\ r.author \in match[r.meetup[1]].pair
  /\ \A r, s \in reports : r.meetup = s.meetup /\ r.author = s.author => r = s
  /\ \A u \in MeetupId : meetup[u].state = "completed" =>
       LET everybody == \A m \in match[u[1]].pair : HasReported(u, m)
       IN  /\ match[u[1]].state = "met" <=> ~everybody
           /\ match[u[1]].state = "closed_success" <=>
                everybody /\ MutualContinue(ReportsOf(u, reports))

AnnouncedKnown ==
  /\ OutcomeAnnounced
  /\ \A n \in outbox : match[n.intro].state # "none"

Seated(s) == {u \in MeetupId : meetup[u].state \in HoldsSeat /\ meetup[u].slot = s}

SeatsCounted ==
  \A s \in Slot : /\ IsFiniteSet(Seated(s))
                  /\ booked[s] = Cardinality(Seated(s))
                  /\ booked[s] <= Capacity[s]

(* Nothing expires an allowance, and a member has one active allowance.      *)
AllowancesKnown ==
  /\ \A e \in EntId : /\ entitlement[e].state = "none" => entitlement[e] = NoEntitlement
                      /\ entitlement[e].state # "expired"
  /\ \A e, f \in EntId : /\ e[1] = f[1]
                         /\ entitlement[e].state = "active" /\ entitlement[f].state = "active"
                         => e = f

(* What an introduction has charged.                                         *)
ChargedTo(i, m) ==
  {e \in EntId : e[1] = m /\ \E r \in {"reserve", "release", "consume"} : Moved(e, i, r)}

LedgerKnown ==
  /\ \A l \in ledger : l.ent[1] \in match[l.intro].pair
  /\ \A e \in EntId : IsFiniteSet(OpenHolds(e)) /\ IsFiniteSet(Spent(e))
  /\ LedgerBalances
  /\ HoldsSettledOnce

LimitKnown ==
  \A m \in Member : IsFiniteSet(ActiveMatches(m)) /\ CountActiveByMember(m) <= Plan[m].maxActive

RowsInv ==
  /\ TypeOK
  /\ PairsKnown
  /\ MeetupsFollow
  /\ AnswersMatchState
  /\ ReportsKnown
  /\ AnnouncedKnown
  /\ SeatsCounted
  /\ AllowancesKnown
  /\ LedgerKnown
  /\ LimitKnown

-----------------------------------------------------------------------------
(* A snapshot and the rows *)

ReadMeetup(u, version, states) ==
  \/ version < meetup[u].version
  \/ version = meetup[u].version /\ meetup[u].state \in states

(* An allowance that still has the version it was read with is still active, *)
(* and nothing was held on it since, so a limit that was checked after it    *)
(* was read still holds.                                                     *)
AllowanceStands(h, counted) ==
  \/ h.version < entitlement[h.ent].version
  \/ /\ h.version = entitlement[h.ent].version
     /\ entitlement[h.ent].state = "active"
     /\ h.ent[1] \in counted => CountActiveByMember(h.ent[1]) < Plan[h.ent[1]].maxActive

ProposalStands(r) ==
  /\ Twosome(r.pair)
  /\ r.counted \subseteq {h.ent[1] : h \in r.held}
  /\ \A h \in r.held : h.ent[1] \in r.pair /\ AllowanceStands(h, r.counted)
  /\ \A h, k \in r.held : h.ent[1] = k.ent[1] => h = k

FeedbackStands(r) ==
  /\ meetup[r.meetup].state = "completed"
  /\ r.member \in match[r.meetup[1]].pair
  /\ r.from # "met" => match[r.meetup[1]].state \notin {"met"}

SnapshotStands(r) ==
  /\ r.op = "propose"       => ProposalStands(r)
  /\ r.op = "decide"        => r.member \in match[r.intro].pair
  /\ r.op = "check_in"      => ReadMeetup(r.meetup, r.version, {"booked"})
  /\ r.op = "complete"      => ReadMeetup(r.meetup, r.version, {"checked_in"})
  /\ r.op = "cancel_meetup" => ReadMeetup(r.meetup, r.version, {"booked"}) /\ r.from = "scheduled"
  /\ r.op = "feedback"      => FeedbackStands(r)

SnapshotsStand == \A c \in Client : SnapshotStands(request[c])

IInv == RowsInv /\ VersionsStandForState /\ SnapshotsStand
===============================================================================
