--------------------------- MODULE MCIntroductions ---------------------------
(* Instances of Introductions for TLC. *)
EXTENDS AllowanceRefinement, Transactions, TLC

(* A plan with room to spare, so that only the limit on live introductions   *)
(* can refuse, and one whose quota is the scarce resource.                   *)
LimitPlan == [m \in Member |-> [quota |-> 2, maxActive |-> 1, window |-> 1, validFor |-> 2]]
AmplePlan == [m \in Member |-> [quota |-> 2, maxActive |-> 2, window |-> 1, validFor |-> 2]]
ShortPlan == [m \in Member |-> [quota |-> 2, maxActive |-> 2, window |-> 1, validFor |-> 1]]
QuotaPlan == [m \in Member |-> [quota |-> 1, maxActive |-> 2, window |-> 1, validFor |-> 2]]

OneSeat == [s \in Slot |-> 1]
AtTwo   == [s \in Slot |-> 2]
AtOne   == [s \in Slot |-> 1]

(* The state after every member was granted a plan and nothing else.         *)
GrantedInit ==
  /\ now = 0
  /\ match = [i \in Intro |-> NoMatch]
  /\ consent = [i \in Intro |-> [m \in Member |-> "pending"]]
  /\ entitlement = [e \in EntId |->
       [NoEntitlement EXCEPT !.state = "active", !.until = Plan[e[1]].validFor]]
  /\ ledger = {}
  /\ meetup = [u \in MeetupId |-> NoMeetup]
  /\ booked = [s \in Slot |-> 0]
  /\ reports = {}
  /\ outbox = {}
  /\ request = [c \in Client |-> Idle]
  /\ sweep = {}

GrantedSpec == GrantedInit /\ [][Next]_vars

GrantedFairSpec == GrantedSpec /\ Fairness

(* Every introduction consented, between distinct pairs: the state after     *)
(* proposals and answers that nothing interfered with.                       *)
ConsentedInit ==
  /\ now = 0
  /\ \E pair \in [Intro -> {{m, n} : m, n \in Member} \ {{m} : m \in Member}] :
       /\ \A i, j \in Intro : i # j => pair[i] # pair[j]
       /\ match = [i \in Intro |-> [state |-> "consented", pair |-> pair[i],
                                    version |-> 2, deadline |-> 1]]
       /\ consent = [i \in Intro |->
            [m \in Member |-> IF m \in pair[i] THEN "accepted" ELSE "pending"]]
       /\ entitlement = [e \in EntId |->
            LET held == Cardinality({i \in Intro : e[1] \in pair[i]})
            IN  [NoEntitlement EXCEPT !.state = "active", !.until = Plan[e[1]].validFor,
                                      !.reserved = held, !.version = held]]
       /\ ledger = {l \in LedgerEntry : l.reason = "reserve" /\ l.ent[1] \in pair[l.intro]}
       /\ outbox = {n \in Announcement : /\ n.kind \in {"match_proposed", "meetup_booked"}
                                         /\ n.member \in pair[n.intro]}
  /\ meetup = [u \in MeetupId |-> NoMeetup]
  /\ booked = [s \in Slot |-> 0]
  /\ reports = {}
  /\ request = [c \in Client |-> Idle]
  /\ sweep = {}

ConsentedSpec == ConsentedInit /\ [][Next]_vars

Symmetry == Permutations(Member) \cup Permutations(Intro) \cup Permutations(Client)
            \cup Permutations(Grant) \cup Permutations(Booking) \cup Permutations(Slot)
==============================================================================
