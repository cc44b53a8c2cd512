---------------------------- MODULE AllowanceProofs ----------------------------
(***************************************************************************)
(* The transactions keep the counters: the seats of a slot, the balance of *)
(* an allowance, what an introduction has charged and how many             *)
(* introductions a member has.                                             *)
(***************************************************************************)
EXTENDS RowProofs

(* Counting: what joins or leaves a finite set changes its size by one.      *)
LEMMA JoinCounted ==
  ASSUME NEW S, NEW T, NEW x, IsFiniteSet(S), x \notin S, T = S \cup {x}
  PROVE  IsFiniteSet(T) /\ Cardinality(T) = Cardinality(S) + 1
BY FS_AddElement

LEMMA LeaveCounted ==
  ASSUME NEW S, NEW T, NEW x, IsFiniteSet(S), x \in S, T = S \ {x}
  PROVE  IsFiniteSet(T) /\ Cardinality(T) = Cardinality(S) - 1
BY FS_RemoveElement

-----------------------------------------------------------------------------
(* Seats *)

SeatsAt(s) == /\ IsFiniteSet(Seated(s))
              /\ booked[s] = Cardinality(Seated(s))
              /\ booked[s] <= Capacity[s]

LEMMA SeatsUntouched ==
  ASSUME SeatsCounted, NEW s \in Slot, booked'[s] = booked[s],
         \A u \in MeetupId :
           /\ meetup'[u].state \in HoldsSeat <=> meetup[u].state \in HoldsSeat
           /\ meetup[u].state \in HoldsSeat => meetup'[u].slot = meetup[u].slot
  PROVE  SeatsAt(s)'
<1>1. Seated(s)' = Seated(s)
  BY DEF Seated
<1> QED BY <1>1 DEF SeatsCounted, SeatsAt

LEMMA SeatTaken ==
  ASSUME RowsInv, NEW i \in Intro, NEW u \in MeetupId, NEW s \in Slot, Scheduled(i, u, s)
  PROVE  \A t \in Slot : SeatsAt(t)'
<1> USE DEF RowsInv
<1>1. /\ meetup[u].state = "none" /\ meetup'[u].state = "booked" /\ meetup'[u].slot = s
      /\ \A v \in MeetupId \ {u} : meetup'[v] = meetup[v]
  BY MeetupMade DEF Scheduled
<1>2. /\ booked[s] < Capacity[s] /\ booked'[s] = booked[s] + 1
      /\ \A t \in Slot \ {s} : booked'[t] = booked[t]
  BY DEF Scheduled, TryBook, TypeOK
<1>3. booked[s] \in Nat /\ Capacity[s] \in Nat
  BY SlotAssumption DEF TypeOK
<1>4. SeatsAt(s)'
  <2>1. u \notin Seated(s) /\ Seated(s)' = Seated(s) \cup {u}
    BY <1>1 DEF Seated, HoldsSeat
  <2>2. IsFiniteSet(Seated(s)) /\ booked[s] = Cardinality(Seated(s))
    BY DEF SeatsCounted
  <2>3. IsFiniteSet(Seated(s)') /\ Cardinality(Seated(s)') = Cardinality(Seated(s)) + 1
    BY <2>1, <2>2, JoinCounted
  <2> QED BY <1>2, <1>3, <2>2, <2>3 DEF SeatsAt
<1>5. ASSUME NEW t \in Slot \ {s} PROVE SeatsAt(t)'
  <2>1. Seated(t)' = Seated(t)
    BY <1>1 DEF Seated, HoldsSeat
  <2> QED BY <1>2, <2>1 DEF SeatsCounted, SeatsAt
<1> QED BY <1>4, <1>5

LEMMA SeatFreed ==
  ASSUME RowsInv, NEW u \in MeetupId, NEW from \in {"booked", "checked_in"},
         MeetupGoes(u, from, "cancelled"), FreeSeat(meetup[u].slot)
  PROVE  \A t \in Slot : SeatsAt(t)'
<1> USE DEF RowsInv
<1>1. /\ meetup[u].state = from /\ meetup'[u].state = "cancelled"
      /\ \A v \in MeetupId \ {u} : meetup'[v] = meetup[v]
  BY MeetupGone
<1>2. PICK s \in Slot : s = meetup[u].slot
  BY <1>1 DEF MeetupsFollow
<1>3. /\ booked[s] > 0 /\ booked'[s] = booked[s] - 1
      /\ \A t \in Slot \ {s} : booked'[t] = booked[t]
  BY <1>2 DEF FreeSeat, TypeOK
<1>4. booked[s] \in Nat /\ Capacity[s] \in Nat
  BY <1>2, SlotAssumption DEF TypeOK
<1>5. SeatsAt(s)'
  <2>1. u \in Seated(s) /\ Seated(s)' = Seated(s) \ {u}
    BY <1>1, <1>2 DEF Seated, HoldsSeat
  <2>2. /\ IsFiniteSet(Seated(s)) /\ booked[s] = Cardinality(Seated(s))
        /\ booked[s] <= Capacity[s]
    BY <1>2 DEF SeatsCounted
  <2>3. IsFiniteSet(Seated(s)') /\ Cardinality(Seated(s)') = Cardinality(Seated(s)) - 1
    BY <2>1, <2>2, LeaveCounted
  <2>4. booked'[s] = Cardinality(Seated(s)') /\ booked'[s] <= Capacity[s]
    BY <1>3, <1>4, <2>2, <2>3
  <2> QED BY <2>3, <2>4 DEF SeatsAt
<1>6. ASSUME NEW t \in Slot \ {s} PROVE SeatsAt(t)'
  <2>1. Seated(t)' = Seated(t)
    BY <1>1, <1>2, <1>6 DEF Seated, HoldsSeat
  <2> QED BY <1>3, <2>1 DEF SeatsCounted, SeatsAt
<1> QED BY <1>5, <1>6

LEMMA SeatsStay ==
  ASSUME RowsInv, Transaction
  PROVE  SeatsCounted'
<1> USE DEF RowsInv
<1> DEFINE Goal == \A t \in Slot : SeatsAt(t)'
<1>1. ASSUME UNCHANGED <<meetup, booked>> PROVE Goal
  BY <1>1, SeatsUntouched
<1>2. ASSUME NEW i \in Intro, NEW u \in MeetupId, NEW s \in Slot, Scheduled(i, u, s) PROVE Goal
  BY <1>2, SeatTaken
<1>3. ASSUME NEW u \in MeetupId, CheckedIn(u) \/ Met(u) PROVE Goal
  <2>1. PICK from, to : from \in HoldsSeat /\ to \in HoldsSeat /\ MeetupGoes(u, from, to)
                        /\ UNCHANGED booked
    BY <1>3 DEF CheckedIn, Met, HoldsSeat
  <2>2. /\ meetup[u].state = from /\ meetup'[u].state = to /\ meetup'[u].slot = meetup[u].slot
        /\ \A v \in MeetupId \ {u} : meetup'[v] = meetup[v]
    BY <2>1, MeetupGone
  <2> QED BY <2>1, <2>2, SeatsUntouched
<1>4. ASSUME NEW u \in MeetupId, Unscheduled(u) \/ \E from : CalledOff(u, from) PROVE Goal
  BY <1>4, SeatFreed DEF Unscheduled, CalledOff
<1>5. /\ \A e \in EntId : GrantEntitlement(e) => UNCHANGED <<meetup, booked>>
      /\ \A i, pair, es : Proposed(i, pair, es) => UNCHANGED <<meetup, booked>>
      /\ \A i, m, answer : Answered(i, m, answer) => UNCHANGED <<meetup, booked>>
      /\ \A i, from, to : Withdrawn(i, from, to) => UNCHANGED <<meetup, booked>>
      /\ \A u, m, intent : Reported(u, m, intent) => UNCHANGED <<meetup, booked>>
  BY DEF GrantEntitlement, Proposed, Answered, RecordDecision, Withdrawn, Reported, AddFeedback
<1>6. Goal
  BY <1>1, <1>2, <1>3, <1>4, <1>5 DEF Transaction
<1> QED BY <1>6 DEF SeatsCounted, SeatsAt

-----------------------------------------------------------------------------
(* Allowances and ledger *)

LEMMA LedgerWritten ==
  ASSUME NEW es, NEW i, NEW reason, AppendLedger(es, i, reason)
  PROVE  \A e, j, r : Moved(e, j, r)' <=> Moved(e, j, r) \/ (e \in es /\ j = i /\ r = reason)
BY DEF AppendLedger, Moved

LEMMA ReserveRows ==
  ASSUME TypeOK, NEW es \in SUBSET EntId, Reserve(es), NEW e \in EntId
  PROVE  /\ e \notin es => entitlement'[e] = entitlement[e]
         /\ e \in es => /\ entitlement'[e].state = entitlement[e].state
                        /\ entitlement'[e].used = entitlement[e].used
                        /\ entitlement'[e].reserved = entitlement[e].reserved + 1
                        /\ entitlement'[e].version = entitlement[e].version + 1
<1>1. entitlement[e] \in EntitlementRow
  BY DEF TypeOK
<1> QED BY <1>1 DEF Reserve, EntitlementRow

LEMMA ReleaseRows ==
  ASSUME TypeOK, NEW es \in SUBSET EntId, Release(es), NEW e \in EntId
  PROVE  /\ e \notin es => entitlement'[e] = entitlement[e]
         /\ e \in es => /\ entitlement'[e].state = entitlement[e].state
                        /\ entitlement'[e].used = entitlement[e].used
                        /\ entitlement'[e].reserved = entitlement[e].reserved - 1
                        /\ entitlement'[e].version = entitlement[e].version + 1
<1>1. entitlement[e] \in EntitlementRow
  BY DEF TypeOK
<1>2. entitlement' = [f \in EntId |->
        IF f \in es THEN [entitlement[f] EXCEPT !.reserved = @ - 1, !.version = @ + 1]
        ELSE entitlement[f]]
  BY DEF Release
<1> QED BY <1>1, <1>2 DEF EntitlementRow

LEMMA ConsumeRows ==
  ASSUME TypeOK, NEW es \in SUBSET EntId, Consume(es), NEW e \in EntId
  PROVE  /\ e \notin es => entitlement'[e] = entitlement[e]
         /\ e \in es => /\ entitlement'[e].state =
                             IF entitlement[e].used + 1 >= Total(e) THEN "exhausted"
                                                                    ELSE entitlement[e].state
                        /\ entitlement'[e].used = entitlement[e].used + 1
                        /\ entitlement'[e].reserved = entitlement[e].reserved - 1
                        /\ entitlement'[e].version = entitlement[e].version + 1
<1>1. entitlement[e] \in EntitlementRow
  BY DEF TypeOK
<1>2. e \notin es => entitlement'[e] = entitlement[e]
  BY DEF Consume
<1>3. ASSUME e \in es
      PROVE  entitlement'[e] =
               [entitlement[e] EXCEPT
                  !.state = IF entitlement[e].used + 1 >= Total(e) THEN "exhausted" ELSE @,
                  !.reserved = @ - 1, !.used = @ + 1, !.version = @ + 1]
  BY <1>3, Zenon DEF Consume
<1> QED BY <1>1, <1>2, <1>3 DEF EntitlementRow

LEMMA QuotaIsNat ==
  ASSUME NEW e \in EntId
  PROVE  Total(e) \in Nat \ {0}
BY PlanAssumption DEF EntId, Total, PlanType

(* The counters of one allowance balance its ledger.                         *)
BalanceAt(e) ==
  /\ IsFiniteSet(OpenHolds(e)) /\ IsFiniteSet(Spent(e))
  /\ entitlement[e].reserved = Cardinality(OpenHolds(e))
  /\ entitlement[e].used = Cardinality(Spent(e))
  /\ entitlement[e].used + entitlement[e].reserved <= Total(e)
  /\ entitlement[e].state = "exhausted" => entitlement[e].reserved = 0
                                           /\ entitlement[e].used = Total(e)

Balanced == \A e \in EntId : BalanceAt(e)

LEMMA BalancedParts ==
  ASSUME LedgerKnown
  PROVE  Balanced
BY DEF LedgerKnown, LedgerBalances, Balanced, BalanceAt

LEMMA BalanceUntouched ==
  ASSUME Balanced, NEW e \in EntId, entitlement'[e] = entitlement[e],
         \A i, r : Moved(e, i, r)' <=> Moved(e, i, r)
  PROVE  BalanceAt(e)'
<1>1. OpenHolds(e)' = OpenHolds(e) /\ Spent(e)' = Spent(e)
  BY DEF OpenHolds, Spent
<1> QED BY <1>1 DEF Balanced, BalanceAt

LEMMA BalanceReserved ==
  ASSUME TypeOK, Balanced, NEW i \in Intro, NEW es \in SUBSET EntId,
         Reserve(es), AppendLedger(es, i, "reserve"),
         \A e \in es : /\ entitlement[e].state = "active"
                       /\ entitlement[e].used + entitlement[e].reserved < Total(e),
         \A e, r : ~Moved(e, i, r)
  PROVE  Balanced'
<1> SUFFICES ASSUME NEW e \in EntId PROVE BalanceAt(e)'
  BY DEF Balanced
<1>1. \A f, j, r : Moved(f, j, r)' <=> Moved(f, j, r) \/ (f \in es /\ j = i /\ r = "reserve")
  BY LedgerWritten
<1>2. CASE e \notin es
  BY <1>1, <1>2, ReserveRows, BalanceUntouched
<1>3. CASE e \in es
  <2>1. i \notin OpenHolds(e) /\ OpenHolds(e)' = OpenHolds(e) \cup {i} /\ Spent(e)' = Spent(e)
    BY <1>1, <1>3 DEF OpenHolds, Spent
  <2>2. BalanceAt(e)
    BY DEF Balanced
  <2>3. /\ entitlement[e].reserved \in Nat /\ entitlement[e].used \in Nat
        /\ Total(e) \in Nat
    BY QuotaIsNat DEF TypeOK, EntitlementRow
  <2>4. IsFiniteSet(OpenHolds(e)') /\ Cardinality(OpenHolds(e)') = Cardinality(OpenHolds(e)) + 1
    BY <2>1, <2>2, JoinCounted DEF BalanceAt
  <2>5. /\ entitlement'[e].state = "active"
        /\ entitlement'[e].used = entitlement[e].used
        /\ entitlement'[e].reserved = entitlement[e].reserved + 1
    BY <1>3, ReserveRows
  <2>6. entitlement'[e].used + entitlement'[e].reserved <= Total(e)
    BY <1>3, <2>3, <2>5
  <2> QED BY <2>1, <2>2, <2>4, <2>5, <2>6 DEF BalanceAt, Total
<1> QED BY <1>2, <1>3

(* What an introduction holds leaves its holds, and no other introduction's. *)
LEMMA HoldLeaves ==
  ASSUME NEW i \in Intro, NEW reason \in {"release", "consume"}, NEW e \in EntId,
         AppendLedger(Held(i), i, reason)
  PROVE  /\ e \in Held(i) => i \in OpenHolds(e) /\ OpenHolds(e)' = OpenHolds(e) \ {i}
         /\ e \notin Held(i) => \A j, r : Moved(e, j, r)' <=> Moved(e, j, r)
         /\ e \in Held(i) /\ reason = "consume" => i \notin Spent(e) /\ Spent(e)' = Spent(e) \cup {i}
         /\ reason = "release" => Spent(e)' = Spent(e)
<1>1. \A f, j, r : Moved(f, j, r)' <=> Moved(f, j, r) \/ (f \in Held(i) /\ j = i /\ r = reason)
  BY LedgerWritten
<1>2. e \in Held(i) <=> i \in OpenHolds(e)
  BY DEF Held
<1>3. e \notin Held(i) => \A j, r : Moved(e, j, r)' <=> Moved(e, j, r)
  BY <1>1
<1>4. e \in Held(i) => OpenHolds(e)' = OpenHolds(e) \ {i}
  BY <1>1, <1>2 DEF OpenHolds
<1>5. e \in Held(i) /\ reason = "consume" => i \notin Spent(e) /\ Spent(e)' = Spent(e) \cup {i}
  BY <1>1, <1>2 DEF OpenHolds, Spent
<1>6. reason = "release" => Spent(e)' = Spent(e)
  BY <1>1 DEF Spent
<1> QED BY <1>2, <1>3, <1>4, <1>5, <1>6

LEMMA BalanceReturned ==
  ASSUME TypeOK, Balanced, NEW i \in Intro, ReturnHolds(i)
  PROVE  Balanced'
<1> SUFFICES ASSUME NEW e \in EntId PROVE BalanceAt(e)'
  BY DEF Balanced
<1>1. Held(i) \in SUBSET EntId /\ Release(Held(i)) /\ AppendLedger(Held(i), i, "release")
  BY DEF Held, ReturnHolds
<1>2. CASE e \notin Held(i)
  BY <1>1, <1>2, HoldLeaves, ReleaseRows, BalanceUntouched
<1>3. CASE e \in Held(i)
  <2>1. i \in OpenHolds(e) /\ OpenHolds(e)' = OpenHolds(e) \ {i} /\ Spent(e)' = Spent(e)
    BY <1>1, <1>3, HoldLeaves
  <2>2. BalanceAt(e)
    BY DEF Balanced
  <2>3. /\ entitlement[e].reserved \in Nat /\ entitlement[e].used \in Nat
        /\ Total(e) \in Nat
    BY QuotaIsNat DEF TypeOK, EntitlementRow
  <2>4. IsFiniteSet(OpenHolds(e)') /\ Cardinality(OpenHolds(e)') = Cardinality(OpenHolds(e)) - 1
    BY <2>1, <2>2, LeaveCounted DEF BalanceAt
  <2>5. entitlement[e].reserved > 0
    BY <1>1, <1>3, Zenon DEF Release
  <2>6. /\ entitlement'[e].state = entitlement[e].state
        /\ entitlement'[e].used = entitlement[e].used
        /\ entitlement'[e].reserved = entitlement[e].reserved - 1
    BY <1>1, <1>3, ReleaseRows
  <2>7. entitlement[e].state # "exhausted"
    BY <2>2, <2>5 DEF BalanceAt
  <2>8. entitlement'[e].used + entitlement'[e].reserved <= Total(e)
    BY <2>2, <2>3, <2>6 DEF BalanceAt
  <2> QED BY <2>1, <2>2, <2>4, <2>6, <2>7, <2>8 DEF BalanceAt, Total
<1> QED BY <1>2, <1>3

LEMMA BalanceSpent ==
  ASSUME TypeOK, Balanced, NEW i \in Intro, SpendHolds(i)
  PROVE  Balanced'
<1> SUFFICES ASSUME NEW e \in EntId PROVE BalanceAt(e)'
  BY DEF Balanced
<1>1. Held(i) \in SUBSET EntId /\ Consume(Held(i)) /\ AppendLedger(Held(i), i, "consume")
  BY DEF Held, SpendHolds
<1>2. CASE e \notin Held(i)
  BY <1>1, <1>2, HoldLeaves, ConsumeRows, BalanceUntouched
<1>3. CASE e \in Held(i)
  <2>1. /\ i \in OpenHolds(e) /\ OpenHolds(e)' = OpenHolds(e) \ {i}
        /\ i \notin Spent(e) /\ Spent(e)' = Spent(e) \cup {i}
    BY <1>1, <1>3, HoldLeaves
  <2>2. BalanceAt(e)
    BY DEF Balanced
  <2>3. /\ entitlement[e].reserved \in Nat /\ entitlement[e].used \in Nat
        /\ Total(e) \in Nat
    BY QuotaIsNat DEF TypeOK, EntitlementRow
  <2>4. IsFiniteSet(OpenHolds(e)') /\ Cardinality(OpenHolds(e)') = Cardinality(OpenHolds(e)) - 1
    BY <2>1, <2>2, LeaveCounted DEF BalanceAt
  <2>5. IsFiniteSet(Spent(e)') /\ Cardinality(Spent(e)') = Cardinality(Spent(e)) + 1
    BY <2>1, <2>2, JoinCounted DEF BalanceAt
  <2>6. entitlement[e].reserved > 0
    BY <1>1, <1>3, Zenon DEF Consume
  <2>7. /\ entitlement'[e].state = IF entitlement[e].used + 1 >= Total(e) THEN "exhausted"
                                                                        ELSE entitlement[e].state
        /\ entitlement'[e].used = entitlement[e].used + 1
        /\ entitlement'[e].reserved = entitlement[e].reserved - 1
    BY <1>1, <1>3, ConsumeRows
  <2>8. entitlement[e].state # "exhausted"
    BY <2>2, <2>6 DEF BalanceAt
  <2>9. /\ entitlement'[e].used + entitlement'[e].reserved <= Total(e)
        /\ entitlement'[e].state = "exhausted" => entitlement'[e].reserved = 0
                                                  /\ entitlement'[e].used = Total(e)
    BY <2>2, <2>3, <2>6, <2>7, <2>8 DEF BalanceAt
  <2> QED BY <2>2, <2>4, <2>5, <2>7, <2>9 DEF BalanceAt, Total
<1> QED BY <1>2, <1>3

(* An allowance that no row uses yet has nothing on it, and a member has at  *)
(* most one active allowance.                                                *)
LEMMA AllowancesMoved ==
  ASSUME AllowancesKnown,
         \A e \in EntId : \/ entitlement'[e] = entitlement[e]
                          \/ /\ entitlement[e].state # "none" /\ entitlement'[e].state # "none"
                             /\ entitlement'[e].state = "active" => entitlement[e].state = "active"
                             /\ entitlement'[e].state \in {entitlement[e].state, "exhausted"}
  PROVE  AllowancesKnown'
<1>1. ASSUME NEW e \in EntId, entitlement'[e].state = "none" PROVE entitlement'[e] = NoEntitlement
  BY <1>1 DEF AllowancesKnown
<1>2. ASSUME NEW e \in EntId, entitlement'[e].state = "active" PROVE entitlement[e].state = "active"
  BY <1>2
<1>3. \A e, f \in EntId : /\ e[1] = f[1]
                          /\ entitlement'[e].state = "active" /\ entitlement'[f].state = "active"
                          => e = f
  BY <1>2 DEF AllowancesKnown
<1>4. ASSUME NEW e \in EntId PROVE entitlement'[e].state # "expired"
  <2>1. entitlement[e].state # "expired"
    BY DEF AllowancesKnown
  <2>2. entitlement'[e] = entitlement[e] \/ entitlement'[e].state \in {entitlement[e].state, "exhausted"}
    OBVIOUS
  <2> QED BY <2>1, <2>2
<1> QED BY <1>1, <1>3, <1>4 DEF AllowancesKnown, NoEntitlement

(* What an introduction holds is not unused.                                 *)
LEMMA HeldKnown ==
  ASSUME TypeOK, AllowancesKnown, NEW e \in EntId, entitlement[e].reserved > 0
  PROVE  entitlement[e].state # "none"
BY DEF AllowancesKnown, NoEntitlement

LEMMA AllowancesGranted ==
  ASSUME TypeOK, AllowancesKnown, NEW e \in EntId, GrantEntitlement(e)
  PROVE  AllowancesKnown'
<1> DEFINE row == [NoEntitlement EXCEPT !.state = "active", !.from = now,
                                        !.until = now + Plan[e[1]].validFor]
<1>1. row.state = "active"
  BY DEF NoEntitlement
<1>2. entitlement' = [entitlement EXCEPT ![e] = row] /\ ActiveEntitlements(e[1]) = {}
  BY DEF GrantEntitlement
<1> HIDE DEF row
<1>3. entitlement'[e].state = "active"
  BY <1>1, <1>2 DEF TypeOK
<1>4. \A f \in EntId \ {e} : entitlement'[f] = entitlement[f]
  BY <1>2 DEF TypeOK
<1>5. \A f \in EntId : f[1] = e[1] => entitlement[f].state # "active"
  BY <1>2 DEF ActiveEntitlements
<1>6. ASSUME NEW f \in EntId
      PROVE  /\ entitlement'[f].state = "none" => entitlement'[f] = NoEntitlement
             /\ entitlement'[f].state # "expired"
  <2>1. CASE f = e
    BY <1>3, <2>1
  <2>2. CASE f # e
    BY <1>4, <2>2 DEF AllowancesKnown
  <2> QED BY <2>1, <2>2
<1>7. \A f, g \in EntId : /\ f[1] = g[1]
                          /\ entitlement'[f].state = "active" /\ entitlement'[g].state = "active"
                          => f = g
  BY <1>3, <1>4, <1>5 DEF AllowancesKnown
<1> QED BY <1>6, <1>7 DEF AllowancesKnown, NoEntitlement

LEMMA AllowancesStay ==
  ASSUME RowsInv, Transaction
  PROVE  AllowancesKnown'
<1> USE DEF RowsInv
<1>1. CASE UNCHANGED entitlement
  BY <1>1, AllowancesMoved
<1>2. ASSUME NEW e \in EntId, GrantEntitlement(e) PROVE AllowancesKnown'
  BY <1>2, AllowancesGranted
<1>3. ASSUME NEW i, NEW pair, NEW es \in SUBSET EntId, Proposed(i, pair, es) PROVE AllowancesKnown'
  <2>1. Reserve(es) /\ \A e \in es : entitlement[e].state = "active"
    BY <1>3 DEF Proposed, Chargeable
  <2> QED BY <2>1, ReserveRows, AllowancesMoved
<1>4. ASSUME NEW i \in Intro, ReturnHolds(i) PROVE AllowancesKnown'
  <2>1. Held(i) \in SUBSET EntId /\ Release(Held(i))
    BY <1>4 DEF Held, ReturnHolds
  <2>2. \A e \in Held(i) : e \in EntId /\ entitlement[e].state # "none"
    BY <2>1, HeldKnown, Zenon DEF Release
  <2> QED BY <2>1, <2>2, ReleaseRows, AllowancesMoved
<1>5. ASSUME NEW i \in Intro, SpendHolds(i) PROVE AllowancesKnown'
  <2>1. Held(i) \in SUBSET EntId /\ Consume(Held(i))
    BY <1>5 DEF Held, SpendHolds
  <2>2. \A e \in Held(i) : e \in EntId /\ entitlement[e].state # "none"
    BY <2>1, HeldKnown, Zenon DEF Consume
  <2> QED BY <2>1, <2>2, ConsumeRows, AllowancesMoved
<1>6. \A u \in MeetupId : u[1] \in Intro
  BY DEF MeetupId
<1>7. /\ \A i \in Intro : \A m, answer : Answered(i, m, answer) => UNCHANGED entitlement \/ ReturnHolds(i)
      /\ \A i \in Intro : \A from, to : Withdrawn(i, from, to) => ReturnHolds(i)
      /\ \A i, u, s : Scheduled(i, u, s) => UNCHANGED entitlement
      /\ \A u : CheckedIn(u) \/ Unscheduled(u) => UNCHANGED entitlement
      /\ \A u : Met(u) => SpendHolds(u[1])
      /\ \A u, from : CalledOff(u, from) => ReturnHolds(u[1])
      /\ \A u, m, intent : Reported(u, m, intent) => UNCHANGED entitlement
  BY DEF Answered, RecordDecision, Withdrawn, Scheduled, CheckedIn, Unscheduled, Met, CalledOff,
         Reported, AddFeedback
<1> QED BY <1>1, <1>2, <1>3, <1>4, <1>5, <1>6, <1>7 DEF Transaction

-----------------------------------------------------------------------------
(* What a transaction means for the holds of the introductions: it charges   *)
(* one, returns or spends what one holds, or leaves all holds alone.         *)

HoldsOpen(i) == match[i].state \in {"pending_consent", "consented", "scheduled"}
HoldsBack(i) == match[i].state \in Terminal /\ ~CompletedMeetup(i)

SameHolds(i) == /\ match'[i].pair = match[i].pair
                /\ HoldsOpen(i)' <=> HoldsOpen(i)
                /\ HoldsBack(i)' <=> HoldsBack(i)
                /\ CompletedMeetup(i)' <=> CompletedMeetup(i)

Returned(i) == /\ ReturnHolds(i)
               /\ HoldsOpen(i) /\ HoldsBack(i)' /\ ~HoldsOpen(i)'
               /\ match'[i].pair = match[i].pair
               /\ ~CompletedMeetup(i) /\ ~CompletedMeetup(i)'
               /\ \A j \in Intro \ {i} : SameHolds(j)

Settled(i) == /\ SpendHolds(i)
              /\ HoldsOpen(i) /\ ~HoldsOpen(i)' /\ ~HoldsBack(i)'
              /\ match'[i].pair = match[i].pair
              /\ ~CompletedMeetup(i) /\ CompletedMeetup(i)'
              /\ \A j \in Intro \ {i} : SameHolds(j)

(* A match that moves while the completed meetups stay the same.             *)
LEMMA SameHoldsMoved ==
  ASSUME RowsInv, Transaction, NEW i \in Intro, NEW from, NEW to, MatchGoes(i, from, to),
         \A j \in Intro : CompletedMeetup(j)' <=> CompletedMeetup(j)
  PROVE  /\ \A j \in Intro \ {i} : SameHolds(j)
         /\ from \in {"pending_consent", "consented"} /\ to \in {"consented", "scheduled"} => SameHolds(i)
         /\ from = "scheduled" /\ to = "consented" => SameHolds(i)
         /\ from = "met" /\ to \in {"closed_success", "closed_failed"} => SameHolds(i)
<1> USE DEF RowsInv
<1>1. /\ match[i].state = from /\ match'[i].state = to /\ match'[i].pair = match[i].pair
      /\ \A j \in Intro \ {i} : match'[j] = match[j]
  BY MatchGone
<1>2. match[i].state = "met" => CompletedMeetup(i)
  BY DEF MeetupsFollow
<1> QED BY <1>1, <1>2 DEF SameHolds, HoldsOpen, HoldsBack, Terminal

LEMMA SameHoldsStill ==
  ASSUME UNCHANGED match, \A j \in Intro : CompletedMeetup(j)' <=> CompletedMeetup(j)
  PROVE  \A j \in Intro : SameHolds(j)
BY DEF SameHolds, HoldsOpen, HoldsBack

LEMMA ReturnedMoved ==
  ASSUME RowsInv, Transaction, NEW i \in Intro, NEW from, NEW to, MatchGoes(i, from, to),
         from \in {"pending_consent", "consented", "scheduled"}, to \in Terminal,
         ReturnHolds(i), \A j \in Intro : CompletedMeetup(j)' <=> CompletedMeetup(j)
  PROVE  Returned(i)
<1> USE DEF RowsInv
<1>1. match[i].state = from /\ match'[i].state = to /\ match'[i].pair = match[i].pair
  BY MatchGone
<1>2. ~CompletedMeetup(i)
  BY <1>1 DEF MeetupsFollow
<1>3. \A j \in Intro \ {i} : SameHolds(j)
  BY SameHoldsMoved
<1>4. HoldsOpen(i) /\ HoldsBack(i)' /\ ~HoldsOpen(i)'
  BY <1>1, <1>2 DEF HoldsOpen, HoldsBack, Terminal
<1> QED BY <1>1, <1>2, <1>3, <1>4 DEF Returned

LEMMA HoldSteps ==
  ASSUME RowsInv, Transaction
  PROVE  \/ \E e \in EntId : GrantEntitlement(e)
         \/ \E i \in Intro, pair \in SUBSET Member, es \in SUBSET EntId : Proposed(i, pair, es)
         \/ \E i \in Intro : Returned(i) \/ Settled(i)
         \/ UNCHANGED <<entitlement, ledger>> /\ \A i \in Intro : SameHolds(i)
<1> USE DEF RowsInv
<1> DEFINE Still == UNCHANGED <<entitlement, ledger>> /\ \A i \in Intro : SameHolds(i)
           Goal  == Still \/ \E i \in Intro : Returned(i) \/ Settled(i)
<1>1. ASSUME \A u \in MeetupId : ~Met(u)
      PROVE  \A j \in Intro : CompletedMeetup(j)' <=> CompletedMeetup(j)
  BY <1>1, CompletedUnlessMet
<1>2. ASSUME UNCHANGED meetup PROVE \A j \in Intro : CompletedMeetup(j)' <=> CompletedMeetup(j)
  BY <1>2 DEF CompletedMeetup
<1>3. ASSUME NEW i \in Intro, NEW m \in Member, NEW answer, Answered(i, m, answer) PROVE Goal
  <2>1. UNCHANGED meetup
    BY <1>3 DEF Answered, RecordDecision
  <2>2. \/ UNCHANGED <<match, entitlement, ledger>>
        \/ MatchGoes(i, "pending_consent", "consented") /\ UNCHANGED <<entitlement, ledger>>
        \/ MatchGoes(i, "pending_consent", "closed_failed") /\ ReturnHolds(i)
    BY <1>3 DEF Answered, RecordDecision
  <2>3. CASE UNCHANGED <<match, entitlement, ledger>>
    BY <1>2, <2>1, <2>3, SameHoldsStill
  <2>4. CASE MatchGoes(i, "pending_consent", "consented") /\ UNCHANGED <<entitlement, ledger>>
    BY <1>2, <2>1, <2>4, SameHoldsMoved
  <2>5. CASE MatchGoes(i, "pending_consent", "closed_failed") /\ ReturnHolds(i)
    BY <1>2, <2>1, <2>5, ReturnedMoved DEF Terminal
  <2> QED BY <2>2, <2>3, <2>4, <2>5
<1>4. ASSUME NEW i \in Intro, NEW from, NEW to, Withdrawn(i, from, to) PROVE Goal
  BY <1>2, <1>4, ReturnedMoved DEF Withdrawn, Terminal
<1>5. ASSUME NEW i \in Intro, NEW u \in MeetupId, NEW s \in Slot, Scheduled(i, u, s) PROVE Goal
  <2>1. MatchGoes(i, "consented", "scheduled") /\ UNCHANGED <<entitlement, ledger>>
    BY <1>5 DEF Scheduled
  <2>2. \A v \in MeetupId : ~Met(v)
    BY <1>5, MeetupMade, MeetupGone DEF Scheduled, Met
  <2> QED BY <1>1, <2>1, <2>2, SameHoldsMoved
<1>6. ASSUME NEW u \in MeetupId, CheckedIn(u) PROVE Goal
  <2>1. UNCHANGED <<match, entitlement, ledger>>
    BY <1>6 DEF CheckedIn
  <2>2. \A v \in MeetupId : ~Met(v)
    BY <1>6, MeetupGone DEF CheckedIn, Met
  <2> QED BY <1>1, <2>1, <2>2, SameHoldsStill
<1>7. ASSUME NEW u \in MeetupId, Met(u) PROVE Goal
  <2>1. u[1] \in Intro
    BY DEF MeetupId
  <2>2. SpendHolds(u[1]) /\ MatchGoes(u[1], "scheduled", "met")
    BY <1>7 DEF Met
  <2>3. /\ match[u[1]].state = "scheduled" /\ match'[u[1]].state = "met"
        /\ match'[u[1]].pair = match[u[1]].pair
        /\ \A j \in Intro \ {u[1]} : match'[j] = match[j]
    BY <2>1, <2>2, MatchGone
  <2>4. ~CompletedMeetup(u[1])
    BY <2>1, <2>3 DEF MeetupsFollow
  <2>5. CompletedMeetup(u[1])'
    BY <1>7, MeetupGone DEF Met, CompletedMeetup
  <2>6. ASSUME NEW j \in Intro \ {u[1]} PROVE SameHolds(j)
    <3>1. \A v \in MeetupId : v[1] = j => meetup'[v] = meetup[v]
      BY <1>7, MeetupGone DEF Met
    <3>2. CompletedMeetup(j)' <=> CompletedMeetup(j)
      BY <3>1, MeetupsElsewhere
    <3> QED BY <2>3, <3>2 DEF SameHolds, HoldsOpen, HoldsBack
  <2>7. HoldsOpen(u[1]) /\ ~HoldsOpen(u[1])' /\ ~HoldsBack(u[1])'
    BY <2>3 DEF HoldsOpen, HoldsBack, Terminal
  <2>8. Settled(u[1])
    BY <2>2, <2>3, <2>4, <2>5, <2>6, <2>7 DEF Settled
  <2> QED BY <2>1, <2>8
<1>8. ASSUME NEW u \in MeetupId, Unscheduled(u) \/ \E from : CalledOff(u, from) PROVE Goal
  <2>1. u[1] \in Intro
    BY DEF MeetupId
  <2>2. PICK from : MeetupGoes(u, from, "cancelled")
    BY <1>8 DEF Unscheduled, CalledOff
  <2>3. \A v \in MeetupId : ~Met(v)
    BY <2>2, MeetupGone DEF Met
  <2>4. \A j \in Intro : CompletedMeetup(j)' <=> CompletedMeetup(j)
    BY <1>1, <2>3
  <2>5. CASE Unscheduled(u)
    BY <2>1, <2>4, <2>5, SameHoldsMoved DEF Unscheduled
  <2>6. ASSUME NEW f, CalledOff(u, f) PROVE Goal
    <3>1. "cancelled" \in Terminal
      BY DEF Terminal
    <3> QED BY <2>1, <2>4, <2>6, <3>1, ReturnedMoved DEF CalledOff
  <2> QED BY <1>8, <2>5, <2>6
<1>9. ASSUME NEW u \in MeetupId, NEW m, NEW intent, Reported(u, m, intent) PROVE Goal
  <2> DEFINE verdict == IF MutualContinue(ReportsOf(u, reports')) THEN "closed_success"
                                                                  ELSE "closed_failed"
  <2>1. u[1] \in Intro /\ UNCHANGED <<meetup, entitlement, ledger>>
    BY <1>9 DEF MeetupId, Reported, AddFeedback
  <2>2. UNCHANGED match \/ MatchGoes(u[1], "met", verdict)
    BY <1>9, Zenon DEF Reported
  <2>3. verdict \in {"closed_success", "closed_failed"}
    OBVIOUS
  <2>4. \A j \in Intro : CompletedMeetup(j)' <=> CompletedMeetup(j)
    BY <1>2, <2>1
  <2> HIDE DEF verdict
  <2>5. CASE UNCHANGED match
    BY <2>1, <2>4, <2>5, SameHoldsStill
  <2>6. CASE MatchGoes(u[1], "met", verdict)
    <3>1. \A j \in Intro \ {u[1]} : SameHolds(j)
      BY <2>1, <2>4, <2>6, SameHoldsMoved
    <3>2. SameHolds(u[1])
      BY <2>1, <2>3, <2>4, <2>6, SameHoldsMoved
    <3> QED BY <2>1, <3>1, <3>2
  <2> QED BY <2>2, <2>5, <2>6
<1> QED BY <1>3, <1>4, <1>5, <1>6, <1>7, <1>8, <1>9 DEF Transaction

-----------------------------------------------------------------------------
(* What an introduction has charged, returned or spent of one participant.   *)
ChargeAt(i, m) ==
  \E e \in EntId : /\ ChargedTo(i, m) = {e}
                   /\ i \in OpenHolds(e) <=> HoldsOpen(i)
                   /\ i \in Spent(e) <=> CompletedMeetup(i)
                   /\ Moved(e, i, "release") <=> HoldsBack(i)

Charged == \A i \in Intro : \A m \in match[i].pair : ChargeAt(i, m)

LEMMA ChargedParts == HoldsSettledOnce <=> Charged
BY DEF HoldsSettledOnce, Charged, ChargeAt, ChargedTo, HoldsOpen, HoldsBack

LEMMA ChargeUntouched ==
  ASSUME NEW i \in Intro, NEW m, ChargeAt(i, m), SameHolds(i),
         \A e, r : Moved(e, i, r)' <=> Moved(e, i, r)
  PROVE  ChargeAt(i, m)'
<1>1. PICK e \in EntId : /\ ChargedTo(i, m) = {e}
                         /\ i \in OpenHolds(e) <=> HoldsOpen(i)
                         /\ i \in Spent(e) <=> CompletedMeetup(i)
                         /\ Moved(e, i, "release") <=> HoldsBack(i)
  BY DEF ChargeAt
<1>2. ChargedTo(i, m)' = {e}
  BY <1>1 DEF ChargedTo
<1>3. i \in OpenHolds(e)' <=> HoldsOpen(i)'
  BY <1>1 DEF OpenHolds, SameHolds
<1>4. i \in Spent(e)' <=> CompletedMeetup(i)'
  BY <1>1 DEF Spent, SameHolds
<1>5. Moved(e, i, "release")' <=> HoldsBack(i)'
  BY <1>1 DEF SameHolds
<1> QED BY <1>2, <1>3, <1>4, <1>5 DEF ChargeAt

LEMMA ChargeEnded ==
  ASSUME NEW i \in Intro, NEW m, ChargeAt(i, m), NEW reason \in {"release", "consume"},
         AppendLedger(Held(i), i, reason), HoldsOpen(i), ~HoldsOpen(i)', ~CompletedMeetup(i),
         ~HoldsBack(i),
         CompletedMeetup(i)' <=> reason = "consume",
         HoldsBack(i)' <=> reason = "release"
  PROVE  ChargeAt(i, m)'
<1>1. PICK e \in EntId : /\ ChargedTo(i, m) = {e}
                         /\ i \in OpenHolds(e) <=> HoldsOpen(i)
                         /\ i \in Spent(e) <=> CompletedMeetup(i)
                         /\ Moved(e, i, "release") <=> HoldsBack(i)
  BY DEF ChargeAt
<1>2. \A f, j, r : Moved(f, j, r)' <=> Moved(f, j, r) \/ (f \in Held(i) /\ j = i /\ r = reason)
  BY LedgerWritten
<1>3. e \in Held(i)
  BY <1>1 DEF Held
<1>4. \A f \in Held(i) : Moved(f, i, "reserve")
  BY DEF Held, OpenHolds
<1>5. ChargedTo(i, m)' = ChargedTo(i, m)
  BY <1>2, <1>4 DEF ChargedTo
<1>6. i \notin OpenHolds(e)'
  BY <1>2, <1>3 DEF OpenHolds
<1>7. i \in Spent(e)' <=> reason = "consume"
  BY <1>1, <1>2, <1>3 DEF Spent
<1>8. Moved(e, i, "release")' <=> reason = "release"
  BY <1>1, <1>2, <1>3
<1> QED BY <1>1, <1>5, <1>6, <1>7, <1>8 DEF ChargeAt

LEMMA ChargeMade ==
  ASSUME RowsInv, TypeOK', NEW i \in Intro, NEW pair \in SUBSET Member, NEW es \in SUBSET EntId,
         Proposed(i, pair, es), NEW m \in pair
  PROVE  ChargeAt(i, m)'
<1> USE DEF RowsInv
<1>1. /\ match[i].state = "none" /\ match'[i].state = "pending_consent" /\ match'[i].pair = pair
      /\ match[i].pair = {}
  BY MatchMade DEF Proposed, PairsKnown
<1>2. \A f, j, r : Moved(f, j, r)' <=> Moved(f, j, r) \/ (f \in es /\ j = i /\ r = "reserve")
  BY LedgerWritten DEF Proposed
<1>3. \A f, r : ~Moved(f, i, r)
  BY <1>1 DEF LedgerKnown, Moved
<1>4. PICK e \in es : {f \in es : f[1] = m} = {e}
  BY DEF Proposed, Chargeable
<1>5. ChargedTo(i, m)' = {f \in es : f[1] = m}
  BY <1>2, <1>3 DEF ChargedTo
<1>6. i \in OpenHolds(e)' /\ i \notin Spent(e)' /\ ~Moved(e, i, "release")'
  BY <1>2, <1>3, <1>4 DEF OpenHolds, Spent
<1>7. ~CompletedMeetup(i)'
  BY <1>1 DEF Proposed, MeetupsFollow, CompletedMeetup
<1>8. HoldsOpen(i)' /\ ~HoldsBack(i)'
  BY <1>1 DEF HoldsOpen, HoldsBack, Terminal
<1> QED BY <1>4, <1>5, <1>6, <1>7, <1>8 DEF ChargeAt

(* The movements of the ledger are of the participants.                      *)
LEMMA LedgerPairs ==
  ASSUME RowsInv, Transaction, TypeOK'
  PROVE  \A l \in ledger' : l.ent[1] \in match'[l.intro].pair
<1> USE DEF RowsInv
<1>1. ASSUME NEW l \in ledger PROVE l.ent[1] \in match'[l.intro].pair
  <2>1. l.intro \in Intro /\ l.ent[1] \in match[l.intro].pair
    BY DEF LedgerKnown, TypeOK, LedgerEntry
  <2>2. match[l.intro].state # "none"
    BY <2>1 DEF PairsKnown
  <2> QED BY <2>1, <2>2, MatchLasts
<1>2. ASSUME NEW i \in Intro, NEW reason, AppendLedger(Held(i), i, reason)
      PROVE  \A l \in ledger' : l.ent[1] \in match'[l.intro].pair
  <2>1. \A e \in Held(i) : [ent |-> e, intro |-> i, reason |-> "reserve"] \in ledger
    BY DEF Held, OpenHolds, Moved
  <2>2. \A e \in Held(i) : e[1] \in match'[i].pair
    BY <1>1, <2>1
  <2> QED BY <1>1, <1>2, <2>2 DEF AppendLedger
<1>3. ASSUME NEW i \in Intro, NEW pair \in SUBSET Member, NEW es \in SUBSET EntId,
             Proposed(i, pair, es)
      PROVE  \A l \in ledger' : l.ent[1] \in match'[l.intro].pair
  <2>1. match'[i].pair = pair
    BY <1>3, MatchMade DEF Proposed
  <2>2. \A e \in es : e[1] \in pair
    BY <1>3 DEF Proposed, Chargeable
  <2> QED BY <1>1, <1>3, <2>1, <2>2 DEF Proposed, AppendLedger
<1> QED BY <1>1, <1>2, <1>3, HoldSteps DEF Returned, Settled, ReturnHolds, SpendHolds,
           GrantEntitlement

LEMMA ChargesStay ==
  ASSUME RowsInv, Transaction, TypeOK'
  PROVE  Charged'
<1> USE DEF RowsInv
<1>1. \A i \in Intro : \A m \in match[i].pair : ChargeAt(i, m)
  BY ChargedParts DEF LedgerKnown, Charged
<1>2. ASSUME UNCHANGED ledger, \A i \in Intro : SameHolds(i) PROVE Charged'
  <2>1. \A i, e, r : Moved(e, i, r)' <=> Moved(e, i, r)
    BY <1>2 DEF Moved
  <2> QED BY <1>1, <1>2, <2>1, ChargeUntouched DEF Charged, SameHolds
<1>3. ASSUME NEW e \in EntId, GrantEntitlement(e) PROVE Charged'
  BY <1>2, <1>3 DEF GrantEntitlement, SameHolds, HoldsOpen, HoldsBack, CompletedMeetup
<1>4. ASSUME NEW i \in Intro, NEW pair \in SUBSET Member, NEW es \in SUBSET EntId,
             Proposed(i, pair, es)
      PROVE  Charged'
  <2>1. match'[i].pair = pair /\ \A j \in Intro \ {i} : match'[j] = match[j]
    BY <1>4, MatchMade DEF Proposed
  <2>2. \A f, j, r : j # i => (Moved(f, j, r)' <=> Moved(f, j, r))
    BY <1>4, LedgerWritten DEF Proposed
  <2>3. ASSUME NEW j \in Intro \ {i} PROVE SameHolds(j)
    BY <1>4, <2>1 DEF Proposed, SameHolds, HoldsOpen, HoldsBack, CompletedMeetup
  <2>4. ASSUME NEW j \in Intro \ {i}, NEW m \in match'[j].pair PROVE ChargeAt(j, m)'
    BY <1>1, <2>1, <2>2, <2>3, <2>4, ChargeUntouched
  <2> QED BY <1>4, <2>1, <2>4, ChargeMade DEF Charged
<1>5. ASSUME NEW i \in Intro, NEW reason \in {"release", "consume"},
             AppendLedger(Held(i), i, reason), HoldsOpen(i), ~HoldsOpen(i)', ~CompletedMeetup(i),
             CompletedMeetup(i)' <=> reason = "consume", HoldsBack(i)' <=> reason = "release",
             match'[i].pair = match[i].pair, \A j \in Intro \ {i} : SameHolds(j)
      PROVE  Charged'
  <2>1. ~HoldsBack(i)
    BY <1>5 DEF HoldsOpen, HoldsBack, Terminal
  <2>2. ASSUME NEW m \in match'[i].pair PROVE ChargeAt(i, m)'
    BY <1>1, <1>5, <2>1, <2>2, ChargeEnded
  <2>3. \A f, j, r : j # i => (Moved(f, j, r)' <=> Moved(f, j, r))
    BY <1>5, LedgerWritten
  <2>4. ASSUME NEW j \in Intro \ {i}, NEW m \in match'[j].pair PROVE ChargeAt(j, m)'
    BY <1>1, <1>5, <2>3, <2>4, ChargeUntouched DEF SameHolds
  <2> QED BY <2>2, <2>4 DEF Charged
<1>6. ASSUME NEW i \in Intro, Returned(i) PROVE Charged'
  BY <1>5, <1>6 DEF Returned, ReturnHolds
<1>7. ASSUME NEW i \in Intro, Settled(i) PROVE Charged'
  BY <1>5, <1>7 DEF Settled, SpendHolds
<1> QED BY <1>2, <1>3, <1>4, <1>6, <1>7, HoldSteps

LEMMA BalanceStays ==
  ASSUME RowsInv, Transaction
  PROVE  Balanced'
<1> USE DEF RowsInv
<1>1. Balanced
  BY BalancedParts
<1>2. CASE UNCHANGED <<entitlement, ledger>>
  BY <1>1, <1>2, BalanceUntouched DEF Balanced, Moved
<1>3. ASSUME NEW i \in Intro, NEW pair \in SUBSET Member, NEW es \in SUBSET EntId,
             Proposed(i, pair, es)
      PROVE  Balanced'
  <2>1. match[i].pair = {}
    BY <1>3, MatchMade DEF Proposed, PairsKnown
  <2>2. \A f, r : ~Moved(f, i, r)
    BY <2>1 DEF LedgerKnown, Moved
  <2> QED BY <1>1, <1>3, <2>2, BalanceReserved DEF Proposed, Chargeable
<1>4. ASSUME NEW e \in EntId, GrantEntitlement(e) PROVE Balanced'
  <2> DEFINE row == [NoEntitlement EXCEPT !.state = "active", !.from = now,
                                          !.until = now + Plan[e[1]].validFor]
  <2>1. row.state = "active" /\ row.used = 0 /\ row.reserved = 0
    BY DEF NoEntitlement
  <2>2. entitlement' = [entitlement EXCEPT ![e] = row] /\ UNCHANGED ledger
        /\ entitlement[e].state = "none"
    BY <1>4 DEF GrantEntitlement
  <2> HIDE DEF row
  <2>3. entitlement'[e] = row /\ \A f \in EntId \ {e} : entitlement'[f] = entitlement[f]
    BY <2>2 DEF TypeOK
  <2>4. \A f, i, r : Moved(f, i, r)' <=> Moved(f, i, r)
    BY <2>2 DEF Moved
  <2>5. OpenHolds(e)' = OpenHolds(e) /\ Spent(e)' = Spent(e)
    BY <2>4 DEF OpenHolds, Spent
  <2>6. entitlement[e].used = 0 /\ entitlement[e].reserved = 0
    BY <2>2 DEF AllowancesKnown, NoEntitlement
  <2>7. Total(e) \in Nat
    BY QuotaIsNat
  <2>8. BalanceAt(e)'
    BY <1>1, <2>1, <2>3, <2>5, <2>6, <2>7 DEF Balanced, BalanceAt, Total
  <2> QED BY <1>1, <2>3, <2>4, <2>8, BalanceUntouched DEF Balanced
<1> QED BY <1>1, <1>2, <1>3, <1>4, HoldSteps, BalanceReturned, BalanceSpent DEF Returned, Settled

LEMMA LedgerStays ==
  ASSUME RowsInv, Transaction, TypeOK'
  PROVE  LedgerKnown'
<1>1. (HoldsSettledOnce <=> Charged)'
  BY DEF HoldsSettledOnce, Charged, ChargeAt, ChargedTo, HoldsOpen, HoldsBack
<1>2. HoldsSettledOnce'
  BY <1>1, ChargesStay
<1>3. LedgerBalances' /\ \A e \in EntId : IsFiniteSet(OpenHolds(e)') /\ IsFiniteSet(Spent(e)')
  BY BalanceStays DEF Balanced, BalanceAt, LedgerBalances
<1>4. \A l \in ledger' : l.ent[1] \in match'[l.intro].pair
  BY LedgerPairs
<1> QED BY <1>2, <1>3, <1>4 DEF LedgerKnown

-----------------------------------------------------------------------------
(* The limit on live introductions *)

(* Only a proposal gives a member one more live introduction.                *)
LEMMA LiveMatches ==
  ASSUME RowsInv, Transaction, NEW m \in Member,
         \A i \in Intro, pair \in SUBSET Member, es \in SUBSET EntId :
           Proposed(i, pair, es) => m \notin pair
  PROVE  ActiveMatches(m)' \subseteq ActiveMatches(m)
<1> USE DEF RowsInv
<1>1. ASSUME NEW i \in ActiveMatches(m)' PROVE i \in ActiveMatches(m)
  <2>1. i \in Intro /\ match'[i].state \in ActiveStates /\ m \in match'[i].pair
    BY <1>1 DEF ActiveMatches
  <2>2. CASE match'[i] = match[i]
    BY <2>1, <2>2 DEF ActiveMatches
  <2>3. CASE match'[i] # match[i]
    <3>1. ASSUME NEW pair \in SUBSET Member, NEW es \in SUBSET EntId, Proposed(i, pair, es)
          PROVE  FALSE
      BY <2>1, <3>1, MatchMade DEF Proposed
    <3>2. /\ match'[i].pair = match[i].pair
          /\ <<match[i].state, match'[i].state>> \in MatchMoves
      BY <2>1, <2>3, <3>1, MatchSteps
    <3>3. match[i].state \in ActiveStates
      BY <2>1, <3>2 DEF MatchMoves, MatchEdges, ActiveStates
    <3> QED BY <2>1, <3>2, <3>3 DEF ActiveMatches
  <2> QED BY <2>2, <2>3
<1> QED BY <1>1

LEMMA LimitStays ==
  ASSUME RowsInv, Transaction
  PROVE  LimitKnown'
<1> USE DEF RowsInv
<1> SUFFICES ASSUME NEW m \in Member
             PROVE  /\ IsFiniteSet(ActiveMatches(m)')
                    /\ CountActiveByMember(m)' <= Plan[m].maxActive
  BY DEF LimitKnown
<1>1. /\ IsFiniteSet(ActiveMatches(m)) /\ Cardinality(ActiveMatches(m)) <= Plan[m].maxActive
      /\ Plan[m].maxActive \in Nat
  BY PlanAssumption DEF LimitKnown, CountActiveByMember, PlanType
<1>2. Cardinality(ActiveMatches(m)) \in Nat
  BY <1>1, FS_CardinalityType
<1>3. CASE ActiveMatches(m)' \subseteq ActiveMatches(m)
  <2>1. /\ IsFiniteSet(ActiveMatches(m)')
        /\ Cardinality(ActiveMatches(m)') <= Cardinality(ActiveMatches(m))
    BY <1>1, <1>3, FS_Subset
  <2>2. Cardinality(ActiveMatches(m)') \in Nat
    BY <2>1, FS_CardinalityType
  <2> QED BY <1>1, <1>2, <2>1, <2>2 DEF CountActiveByMember
<1>4. ASSUME NEW i \in Intro, NEW pair \in SUBSET Member, NEW es \in SUBSET EntId,
             Proposed(i, pair, es)
      PROVE  /\ IsFiniteSet(ActiveMatches(m)')
             /\ CountActiveByMember(m)' <= Plan[m].maxActive
  <2>1. /\ match[i].state = "none" /\ match'[i].state = "pending_consent" /\ match'[i].pair = pair
        /\ \A j \in Intro \ {i} : match'[j] = match[j]
    BY <1>4, MatchMade DEF Proposed
  <2>2. CASE m \in pair
    <3>1. i \notin ActiveMatches(m) /\ ActiveMatches(m)' = ActiveMatches(m) \cup {i}
      BY <2>1, <2>2 DEF ActiveMatches, ActiveStates
    <3>2. Cardinality(ActiveMatches(m)) < Plan[m].maxActive
      BY <1>4, <2>2 DEF Proposed, CountActiveByMember
    <3>3. /\ IsFiniteSet(ActiveMatches(m)')
          /\ Cardinality(ActiveMatches(m)') = Cardinality(ActiveMatches(m)) + 1
      BY <1>1, <3>1, JoinCounted
    <3> QED BY <1>1, <1>2, <3>2, <3>3 DEF CountActiveByMember
  <2>3. CASE m \notin pair
    <3>1. ActiveMatches(m)' \subseteq ActiveMatches(m)
      BY <2>1, <2>3 DEF ActiveMatches, ActiveStates
    <3> QED BY <1>3, <3>1
  <2> QED BY <2>2, <2>3
<1>5. ASSUME ~\E i \in Intro, pair \in SUBSET Member, es \in SUBSET EntId : Proposed(i, pair, es)
      PROVE  ActiveMatches(m)' \subseteq ActiveMatches(m)
  BY <1>5, LiveMatches
<1> QED BY <1>3, <1>4, <1>5

-----------------------------------------------------------------------------
(* A transaction keeps everything the rows say of each other.                *)
LEMMA RowsStay ==
  ASSUME RowsInv, TypeOK', Transaction
  PROVE  RowsInv'
BY PairsStay, MeetupsStay, AnswersStay, ReportsStay, AnnouncementsStay, SeatsStay,
   AllowancesStay, LedgerStays, LimitStays DEF RowsInv
===============================================================================
