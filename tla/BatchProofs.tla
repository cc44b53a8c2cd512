------------------------------ MODULE BatchProofs ------------------------------
(***************************************************************************)
(* The eligibility rules for every birth date and every day of the         *)
(* calendar; and batches that are cut off, repeated and run side by side   *)
(* on whatever rows all earlier requests have left.                        *)
(***************************************************************************)
EXTENDS Batches, TransactionProofs

(* Calendar order.                                                           *)
Before(d, e) ==
  \/ d.year < e.year
  \/ d.year = e.year /\ d.month < e.month
  \/ d.year = e.year /\ d.month = e.month /\ d.day < e.day

(* The n-th birthday; of a leap day it falls on the day after 28 February in *)
(* years without one.                                                        *)
Birthday(born, n) == [born EXCEPT !.year = @ + n]

(* What the rest uses of AgeAt: it is an integer and counts one year less    *)
(* before the birthday.                                                      *)
LEMMA AgeCases ==
  ASSUME NEW born \in Day, NEW at \in Day
  PROVE  /\ AgeAt(born, at) \in Nat
         /\ at.year - born.year >= 1 /\ BeforeBirthday(born, at) =>
              AgeAt(born, at) = at.year - born.year - 1
         /\ at.year - born.year >= 0 /\ ~BeforeBirthday(born, at) =>
              AgeAt(born, at) = at.year - born.year
         /\ at.year - born.year < 1 /\ BeforeBirthday(born, at) => AgeAt(born, at) = 0
         /\ at.year - born.year < 0 => AgeAt(born, at) = 0
<1>1. born.year \in Nat /\ at.year \in Nat
  BY DEF Day
<1>2. CASE BeforeBirthday(born, at)
  <2>1. AgeAt(born, at) = IF at.year - born.year - 1 < 0 THEN 0
                          ELSE at.year - born.year - 1
    BY <1>2 DEF AgeAt
  <2> QED BY <1>1, <1>2, <2>1
<1>3. CASE ~BeforeBirthday(born, at)
  <2>1. AgeAt(born, at) = IF at.year - born.year - 0 < 0 THEN 0
                          ELSE at.year - born.year - 0
    BY <1>3 DEF AgeAt
  <2> QED BY <1>1, <1>3, <2>1
<1> QED BY <1>2, <1>3

(* member.go:132-146: the age is the number of completed years: it has       *)
(* reached n exactly when the n-th birthday is not in the future.            *)
THEOREM AgeIsCompletedYears ==
  ASSUME NEW born \in Day, NEW at \in Day, NEW n \in Nat \ {0}
  PROVE  AgeAt(born, at) >= n <=> ~Before(at, Birthday(born, n))
<1>1. /\ born.year \in Nat /\ born.month \in Nat /\ born.day \in Nat
      /\ at.year \in Nat /\ at.month \in Nat /\ at.day \in Nat
  BY DEF Day
<1>2. /\ Birthday(born, n).year = born.year + n
      /\ Birthday(born, n).month = born.month
      /\ Birthday(born, n).day = born.day
  BY DEF Birthday, Day
<1>3. Before(at, Birthday(born, n)) <=>
        \/ at.year < born.year + n
        \/ at.year = born.year + n /\ BeforeBirthday(born, at)
  BY <1>1, <1>2 DEF Before, BeforeBirthday
<1>4. CASE BeforeBirthday(born, at)
  BY <1>1, <1>3, <1>4, AgeCases
<1>5. CASE ~BeforeBirthday(born, at)
  BY <1>1, <1>3, <1>5, AgeCases
<1> QED BY <1>4, <1>5

(* Nobody gets younger: a later day never gives a smaller age, so a range of *)
(* ages is left at its lower end only by entering it.                        *)
THEOREM AgeNeverFalls ==
  ASSUME NEW born \in Day, NEW at \in Day, NEW later \in Day, ~Before(later, at)
  PROVE  AgeAt(born, at) <= AgeAt(born, later)
<1>1. AgeAt(born, at) \in Nat /\ AgeAt(born, later) \in Nat
  BY AgeCases
<1>2. CASE AgeAt(born, at) = 0
  BY <1>1, <1>2
<1>3. CASE AgeAt(born, at) # 0
  <2> DEFINE n == AgeAt(born, at)
  <2>1. n \in Nat \ {0}
    BY <1>1, <1>3
  <2>2. ~Before(at, Birthday(born, n))
    BY <1>1, <2>1, AgeIsCompletedYears
  <2>3. Birthday(born, n).year \in Int /\ Birthday(born, n).month \in Int
          /\ Birthday(born, n).day \in Int
    BY <2>1 DEF Birthday, Day
  <2>4. ~Before(later, Birthday(born, n))
    <3> HIDE DEF n
    <3> QED BY <2>2, <2>3 DEF Before, Day
  <2> QED BY <2>1, <2>4, AgeIsCompletedYears
<1> QED BY <1>2, <1>3

(* preference.go:24-40 and 157-173: whatever criteria two members have       *)
(* registered, nobody is introduced before the eighteenth birthday, however  *)
(* the profiles and criteria are combined, and each has the gender the other *)
(* seeks.                                                                    *)
THEOREM NoMinorIntroduced ==
  ASSUME NEW left \in ProfileType, NEW leftPreference \in PreferenceType,
         NEW right \in ProfileType, NEW rightPreference \in PreferenceType,
         NEW at \in Day, Valid(leftPreference), Valid(rightPreference),
         MutuallyEligible(left, leftPreference, right, rightPreference, at)
  PROVE  /\ ~Before(at, Birthday(left.born, 18)) /\ ~Before(at, Birthday(right.born, 18))
         /\ left.gender = rightPreference.seeking /\ right.gender = leftPreference.seeking
<1>1. left.born \in Day /\ right.born \in Day
  BY DEF ProfileType
<1>2. AgeAt(left.born, at) \in Nat /\ AgeAt(right.born, at) \in Nat
  BY <1>1, AgeCases
<1>3. leftPreference.minAge \in Int /\ leftPreference.maxAge \in Int
        /\ rightPreference.minAge \in Int /\ rightPreference.maxAge \in Int
  BY DEF PreferenceType
<1>4. AgeAt(left.born, at) >= 18 /\ AgeAt(right.born, at) >= 18
  BY <1>2, <1>3 DEF MutuallyEligible, Accepts, Valid
<1>5. ~Before(at, Birthday(left.born, 18)) /\ ~Before(at, Birthday(right.born, 18))
  BY <1>1, <1>4, AgeIsCompletedYears
<1> QED BY <1>5 DEF MutuallyEligible, Accepts

-----------------------------------------------------------------------------
(* Batches start on rows that any number of earlier requests, sweeps and     *)
(* grants may have left behind: IInv holds of all of them (InvHolds), and so *)
(* does PairIntroducedOnce (LivePairsAreUnique, below).                      *)
BatchSpec ==
  /\ IInv /\ PairIntroducedOnce /\ BatchInit
  /\ [][BatchNext]_<<vars, batchVars>>

Verdict    == [pair : Member \X Member, intro : SUBSET Intro]
WorkType   == [todo : Seq(Member \X Member), verdicts : Seq(Verdict), fresh : SUBSET Intro,
               begun : BOOLEAN]
Outcome    == [key : Key, payload : Payload, by : Client, result : Seq(Verdict)]
Performing == [stage : {"perform"}, key : Key, payload : Payload]
Performed  == [stage : {"remember"}, key : Key, payload : Payload, outcome : Outcome]
Answer     == [stage : {"answered"}, key : Key, payload : Payload, outcome : Outcome,
               replayed : BOOLEAN]
CallType   == {Replay!NoCall} \cup Performing \cup Performed \cup Answer
RecordType == {Replay!NoRecord} \cup
              [state : {"stored"}, payload : Payload, outcome : Outcome, expires : Nat]

BatchType ==
  /\ stored \in [Key -> RecordType]
  /\ call \in [Client -> CallType]
  /\ work \in [Client -> WorkType]

Couples(p) == {p[1], p[2]}

Confirmed(v) == \A i \in v.intro : match[i].pair = Couples(v.pair)

(* A response tells the truth from the moment it is known, not only when it  *)
(* is sent.                                                                  *)
CallStands(k) == k.stage \in {"remember", "answered"} => Truthful(k.payload, k.outcome.result)

RecordStands(s) == s # Replay!NoRecord => Truthful(s.payload, s.outcome.result)

(* The verdicts so far and the pairs to do are the payload in its order.     *)
Divided(w, pairs) ==
  /\ Len(pairs) = Len(w.verdicts) + Len(w.todo)
  /\ \A x \in DOMAIN w.verdicts : w.verdicts[x].pair = pairs[x]
  /\ \A x \in DOMAIN w.todo : w.todo[x] = pairs[Len(w.verdicts) + x]

(* What a batch is at: the request under way is the proposal of the first    *)
(* pair to do, which has passed the rules, and what is committed is that     *)
(* pair.                                                                     *)
WorkStands(w, k, r) ==
  /\ w.begun => k.stage = "perform" /\ Divided(w, k.payload)
  /\ ~w.begun => w.todo = <<>>
  /\ w.todo = <<>> => w.fresh = {}
  /\ \A x \in DOMAIN w.verdicts : Confirmed(w.verdicts[x])
  /\ w.todo # <<>> => \A i \in w.fresh : match[i].pair = Couples(Head(w.todo))
  /\ w.todo # <<>> /\ r.op = "propose" =>
       /\ w.fresh = {}
       /\ r.pair = Couples(Head(w.todo)) /\ Eligible(Head(w.todo)[1], Head(w.todo)[2])

BatchInv ==
  /\ BatchType
  /\ \A c \in Client : CallStands(call[c]) /\ WorkStands(work[c], call[c], request[c])
  /\ \A k \in Key : RecordStands(stored[k])

-----------------------------------------------------------------------------
(* The rows under a batch *)

Legal == Transaction \/ UNCHANGED rows

LEMMA PairLasts ==
  ASSUME RowsInv, Legal, NEW i \in Intro, NEW p, match[i].pair = Couples(p)
  PROVE  match'[i].pair = Couples(p)
<1>1. match[i].state # "none"
  BY DEF RowsInv, PairsKnown, Couples
<1>2. CASE Transaction
  BY <1>1, <1>2, MatchLasts
<1>3. CASE UNCHANGED rows
  BY <1>3 DEF rows
<1> QED BY <1>2, <1>3 DEF Legal

LEMMA ConfirmedLasts ==
  ASSUME RowsInv, Legal, NEW v \in Verdict, Confirmed(v)
  PROVE  Confirmed(v)'
<1>1. v.intro \subseteq Intro
  BY DEF Verdict
<1> QED BY <1>1, PairLasts DEF Confirmed

LEMMA TruthfulParts ==
  ASSUME NEW pairs \in Payload, NEW verdicts \in Seq(Verdict)
  PROVE  Truthful(pairs, verdicts) <=>
           /\ Len(verdicts) = Len(pairs)
           /\ \A x \in DOMAIN verdicts : verdicts[x].pair = pairs[x] /\ Confirmed(verdicts[x])
BY DEF Truthful, Confirmed, Couples

LEMMA TruthLasts ==
  ASSUME RowsInv, Legal, NEW pairs \in Payload, NEW verdicts \in Seq(Verdict),
         Truthful(pairs, verdicts)
  PROVE  Truthful(pairs, verdicts)'
<1>1. \A x \in DOMAIN verdicts : verdicts[x] \in Verdict
  OBVIOUS
<1>2. \A x \in DOMAIN verdicts : Confirmed(verdicts[x])'
  BY <1>1, ConfirmedLasts, TruthfulParts
<1>3. \A x \in DOMAIN verdicts : \A i \in verdicts[x].intro :
        match'[i].pair = Couples(verdicts[x].pair)
  BY <1>2 DEF Confirmed
<1>4. \A x \in DOMAIN verdicts : verdicts[x].pair = pairs[x]
  BY TruthfulParts
<1> QED BY <1>3, <1>4, TruthfulParts DEF Truthful, Couples

LEMMA CallLasts ==
  ASSUME RowsInv, Legal, NEW k \in CallType, CallStands(k)
  PROVE  CallStands(k)'
<1>1. k.stage \in {"remember", "answered"} =>
        k.payload \in Payload /\ k.outcome.result \in Seq(Verdict)
  BY DEF CallType, Replay!NoCall, Performing, Performed, Answer, Outcome
<1> QED BY <1>1, TruthLasts DEF CallStands

LEMMA RecordLasts ==
  ASSUME RowsInv, Legal, NEW s \in RecordType, RecordStands(s)
  PROVE  RecordStands(s)'
<1>1. s # Replay!NoRecord => s.payload \in Payload /\ s.outcome.result \in Seq(Verdict)
  BY DEF RecordType, Outcome
<1> QED BY <1>1, TruthLasts DEF RecordStands, Replay!NoRecord

LEMMA WorkLasts ==
  ASSUME RowsInv, Legal, NEW w \in WorkType, NEW k, NEW r, WorkStands(w, k, r)
  PROVE  WorkStands(w, k, r)'
<1>1. \A x \in DOMAIN w.verdicts : w.verdicts[x] \in Verdict
  BY DEF WorkType
<1>2. \A x \in DOMAIN w.verdicts : Confirmed(w.verdicts[x])'
  BY <1>1, ConfirmedLasts DEF WorkStands
<1>3. w.todo # <<>> => \A i \in w.fresh : match'[i].pair = Couples(Head(w.todo))
  BY PairLasts DEF WorkStands, WorkType
<1> QED BY <1>2, <1>3 DEF WorkStands

-----------------------------------------------------------------------------
(* Steps of a batch *)

(* Everything a batch does to the rows, some request of Introductions does.  *)
LEMMA BatchStepsAreSteps == TypeOK /\ BatchType /\ [BatchNext]_<<vars, batchVars>> => [Next]_vars
<1> SUFFICES ASSUME TypeOK, BatchType, [BatchNext]_<<vars, batchVars>> PROVE [Next]_vars
  OBVIOUS
<1>1. ASSUME NEW c \in Client, Finish(c), UNCHANGED <<now, rows, sweep>> PROVE [Next]_vars
  <2>1. CASE request[c] = Idle
    <3>1. request' = request
      BY <1>1, <2>1 DEF Finish, TypeOK
    <3> QED BY <1>1, <3>1 DEF vars
  <2>2. CASE request[c] # Idle
    BY <1>1, <2>2 DEF Abandon, Next
  <2> QED BY <2>1, <2>2
<1>2. ASSUME NEW c \in Client, NEW k \in Key, NEW pairs \in Payload, Receive(c, k, pairs)
      PROVE  [Next]_vars
  BY <1>2 DEF Receive, Replay!Miss, Replay!Replayed, vars
<1>3. ASSUME NEW c \in Client, ProposePair(c) PROVE [Next]_vars
  <2>1. \/ \E a, b \in Member : ProposePrepare(c, a, b)
        \/ \E e \in EntId : ReadAllowance(c, e)
        \/ \E m \in Member : CheckActiveLimit(c, m)
        \/ \E i \in Intro : PersistProposal(c, i)
    <3>1. work[c].todo # <<>> => Pair(c)[1] \in Member /\ Pair(c)[2] \in Member
      BY DEF BatchType, WorkType, Pair
    <3> QED BY <1>3, <3>1 DEF ProposePair, Uncommitted
  <2> QED BY <2>1 DEF Propose, Next
<1>4. ASSUME NEW c \in Client, AcceptPair(c) \/ FinishWork(c) \/ Remember(c) PROVE [Next]_vars
  BY <1>4 DEF AcceptPair, FinishWork, Remember, Replay!Succeed, Replay!Remember, vars
<1>5. ASSUME NEW c \in Client, RejectPair(c) \/ Leave(c) PROVE [Next]_vars
  BY <1>1, <1>5 DEF RejectPair, Leave, Finish
<1>6. ASSUME NEW c \in Client, Others(c) PROVE [Next]_vars
  BY <1>6 DEF Others, Next
<1>7. CASE UNCHANGED <<vars, batchVars>>
  BY <1>7
<1> QED BY <1>2, <1>3, <1>4, <1>5, <1>6, <1>7 DEF BatchNext

(* A step that changes one call, its work and its request only.              *)
LEMMA OneCallMoves ==
  ASSUME RowsInv, Legal, BatchInv, NEW c \in Client, NEW k \in CallType, NEW w \in WorkType, NEW r,
         \A d \in Client \ {c} : request'[d] = request[d],
         call' = [call EXCEPT ![c] = k], work' = [work EXCEPT ![c] = w], request'[c] = r,
         stored' \in [Key -> RecordType], \A l \in Key : RecordStands(stored[l])',
         CallStands(k)', WorkStands(w, k, r)'
  PROVE  BatchInv'
<1>1. BatchType'
  BY DEF BatchInv, BatchType
<1>2. ASSUME NEW d \in Client
      PROVE  CallStands(call[d])' /\ WorkStands(work[d], call[d], request[d])'
  <2>1. CASE d = c
    <3>1. call'[d] = k /\ work'[d] = w /\ request'[d] = r
      BY <2>1 DEF BatchInv, BatchType
    <3> QED BY <3>1 DEF CallStands, WorkStands
  <2>2. CASE d # c
    <3>1. PICK l \in CallType, v \in WorkType : l = call[d] /\ v = work[d]
      BY DEF BatchInv, BatchType
    <3>2. PICK q : q = request[d]
      OBVIOUS
    <3>3. CallStands(l)' /\ WorkStands(v, l, q)'
      BY <3>1, <3>2, CallLasts, WorkLasts DEF BatchInv
    <3>4. call'[d] = l /\ work'[d] = v /\ request'[d] = q
      BY <2>2, <3>1, <3>2 DEF BatchInv, BatchType
    <3> QED BY <3>3, <3>4 DEF CallStands, WorkStands
  <2> QED BY <2>1, <2>2
<1> QED BY <1>1, <1>2 DEF BatchInv

LEMMA StoredLasts ==
  ASSUME RowsInv, Legal, BatchInv, UNCHANGED stored
  PROVE  stored' \in [Key -> RecordType] /\ \A l \in Key : RecordStands(stored[l])'
<1>1. ASSUME NEW l \in Key PROVE RecordStands(stored[l])'
  <2>1. PICK s \in RecordType : s = stored[l]
    BY DEF BatchInv, BatchType
  <2>2. RecordStands(s)'
    BY <2>1, RecordLasts DEF BatchInv
  <2> QED BY <2>1, <2>2 DEF RecordStands
<1> QED BY <1>1 DEF BatchInv, BatchType

LEMMA FreshCall ==
  ASSUME NEW r
  PROVE  CallStands(Replay!NoCall)' /\ WorkStands(NoWork, Replay!NoCall, r)' /\ NoWork \in WorkType
         /\ Replay!NoCall \in CallType
BY DEF CallStands, WorkStands, NoWork, Replay!NoCall, WorkType, CallType

(* The same, if it leaves the rows and the stored responses alone.           *)
LEMMA QuietMove ==
  ASSUME RowsInv, UNCHANGED rows, BatchInv, UNCHANGED stored,
         NEW c \in Client, NEW k \in CallType, NEW w \in WorkType, NEW r,
         \A d \in Client \ {c} : request'[d] = request[d],
         call' = [call EXCEPT ![c] = k], work' = [work EXCEPT ![c] = w], request'[c] = r,
         CallStands(k), WorkStands(w, k, r)
  PROVE  BatchInv'
<1>1. Legal
  BY DEF Legal
<1>2. CallStands(k)' /\ WorkStands(w, k, r)'
  BY <1>1, CallLasts, WorkLasts
<1> QED BY <1>1, <1>2, OneCallMoves, StoredLasts

LEMMA Received ==
  ASSUME IInv, BatchInv, NEW c \in Client, NEW key \in Key, NEW pairs \in Payload,
         Receive(c, key, pairs)
  PROVE  BatchInv'
<1>1. PICK w \in WorkType : w = work[c]
  BY DEF BatchInv, BatchType
<1>2. /\ RowsInv /\ UNCHANGED <<rows, request, stored>> /\ request[c] = Idle
      /\ call[c] = Replay!NoCall /\ WorkStands(w, call[c], request[c])
  BY <1>1 DEF IInv, Receive, Replay!Miss, Replay!Replayed, BatchInv
<1>3. pairs \in Seq(Member \X Member)
  BY PayloadAssumption
<1>4. CASE /\ Replay!Miss(c, key, pairs)
           /\ work' = [work EXCEPT ![c] = [NoWork EXCEPT !.todo = pairs, !.begun = TRUE]]
  <2>1. PICK v : v = [NoWork EXCEPT !.todo = pairs, !.begun = TRUE]
    OBVIOUS
  <2>2. v = [todo |-> pairs, verdicts |-> <<>>, fresh |-> {}, begun |-> TRUE]
    BY <2>1 DEF NoWork
  <2>3. v.todo = pairs /\ v.begun = TRUE /\ v.verdicts = <<>> /\ v.fresh = {}
    BY <2>2
  <2>4. v \in WorkType
    <3>1. <<>> \in Seq(Verdict)
      OBVIOUS
    <3> QED BY <1>3, <2>2, <3>1 DEF WorkType
  <2>5. PICK k : k = [stage |-> "perform", key |-> key, payload |-> pairs]
    OBVIOUS
  <2>6. k \in CallType /\ k.stage = "perform" /\ k.payload = pairs /\ CallStands(k)
    BY <2>5 DEF CallType, Performing, CallStands
  <2>7. Divided(v, pairs)
    BY <1>3, <2>3 DEF Divided
  <2>8. WorkStands(v, k, Idle)
    BY <2>6, <2>7, <2>3 DEF WorkStands, Idle
  <2>9. call' = [call EXCEPT ![c] = k] /\ work' = [work EXCEPT ![c] = v]
    BY <1>4, <2>1, <2>5 DEF Replay!Miss
  <2> HIDE <2>1, <2>5
  <2> QED BY <1>2, <2>6, <2>8, <2>9, <2>4, QuietMove
<1>5. CASE Replay!Replayed(c, key, pairs) /\ UNCHANGED work
  <2>1. PICK s \in RecordType : s = stored[key]
    BY DEF BatchInv, BatchType
  <2>2. s # Replay!NoRecord /\ s.payload = pairs /\ RecordStands(s)
    BY <1>5, <2>1 DEF Replay!Replayed, Replay!Matches, BatchInv
  <2>3. PICK k : k = [stage |-> "answered", key |-> key, payload |-> pairs,
                      outcome |-> s.outcome, replayed |-> TRUE]
    OBVIOUS
  <2>4. k \in CallType /\ k.stage = "answered" /\ k.payload = pairs /\ k.outcome = s.outcome
    BY <2>2, <2>3 DEF CallType, Answer, RecordType
  <2>5. CallStands(k)
    BY <2>2, <2>4 DEF CallStands, RecordStands
  <2>6. ~w.begun
    BY <1>2 DEF WorkStands, Replay!NoCall
  <2>7. WorkStands(w, k, Idle)
    BY <1>2, <2>6 DEF WorkStands, Idle
  <2>8. call' = [call EXCEPT ![c] = k] /\ work' = [work EXCEPT ![c] = w]
    <3>1. work' = [work EXCEPT ![c] = w]
      BY <1>1, <1>5 DEF BatchInv, BatchType
    <3> QED BY <1>5, <2>1, <2>3, <3>1 DEF Replay!Replayed, Replay!Respond
  <2> QED BY <1>2, <2>4, <2>5, <2>7, <2>8, QuietMove
<1> QED BY <1>4, <1>5 DEF Receive

WithVerdict(w, introduced) ==
  [w EXCEPT !.todo = Tail(@), !.fresh = {},
            !.verdicts = Append(@, [pair |-> Head(w.todo), intro |-> introduced])]

(* A verdict is the next one of the payload.                                 *)
LEMMA Judged ==
  ASSUME NEW w \in WorkType, w.todo # <<>>, NEW pairs, Divided(w, pairs),
         NEW introduced \in SUBSET Intro
  PROVE  \E v \in WorkType :
           /\ v = WithVerdict(w, introduced)
           /\ v.begun = w.begun /\ v.fresh = {}
           /\ Divided(v, pairs)
           /\ \A x \in DOMAIN v.verdicts :
                \/ x \in DOMAIN w.verdicts /\ v.verdicts[x] = w.verdicts[x]
                \/ v.verdicts[x] = [pair |-> Head(w.todo), intro |-> introduced]
<1>1. PICK verdict : verdict = [pair |-> Head(w.todo), intro |-> introduced]
  OBVIOUS
<1>2. /\ w.todo \in Seq(Member \X Member) /\ w.verdicts \in Seq(Verdict)
      /\ Head(w.todo) \in Member \X Member
  BY DEF WorkType
<1>3. verdict \in Verdict /\ verdict.pair = Head(w.todo)
  BY <1>1, <1>2 DEF Verdict
<1>4. PICK t, vs : t = Tail(w.todo) /\ vs = Append(w.verdicts, verdict)
  OBVIOUS
<1>5. /\ t \in Seq(Member \X Member) /\ Len(t) = Len(w.todo) - 1
      /\ \A x \in 1 .. Len(t) : t[x] = w.todo[x + 1]
  BY <1>2, <1>4
<1>6. /\ vs \in Seq(Verdict) /\ Len(vs) = Len(w.verdicts) + 1
      /\ \A x \in 1 .. Len(w.verdicts) : vs[x] = w.verdicts[x]
      /\ vs[Len(w.verdicts) + 1] = verdict
  BY <1>2, <1>3, <1>4
<1>7. PICK v : v = [w EXCEPT !.todo = t, !.fresh = {}, !.verdicts = vs]
  OBVIOUS
<1>8. /\ v \in WorkType /\ v.todo = t /\ v.verdicts = vs /\ v.fresh = {} /\ v.begun = w.begun
  BY <1>5, <1>6, <1>7 DEF WorkType
<1>9. PICK td, vd : td = w.todo /\ vd = w.verdicts
  OBVIOUS
<1>10. /\ td \in Seq(Member \X Member) /\ vd \in Seq(Verdict) /\ td # <<>>
       /\ Head(w.todo) = td[1] /\ Len(vd) \in Nat /\ Len(td) \in Nat \ {0}
  BY <1>2, <1>9
<1>11. /\ Len(pairs) = Len(vd) + Len(td)
       /\ \A x \in 1 .. Len(vd) : vd[x].pair = pairs[x]
       /\ \A x \in 1 .. Len(td) : td[x] = pairs[Len(vd) + x]
  <2>1. DOMAIN vd = 1 .. Len(vd) /\ DOMAIN td = 1 .. Len(td)
    BY <1>10
  <2> QED BY <1>9, <2>1 DEF Divided
<1>12. DOMAIN vs = 1 .. Len(vs) /\ DOMAIN t = 1 .. Len(t) /\ Len(vs) \in Nat /\ Len(t) \in Nat
  BY <1>5, <1>6
<1>13. Len(vs) = Len(vd) + 1 /\ Len(t) = Len(td) - 1
  BY <1>5, <1>6, <1>9, Zenon
<1>14. Divided(v, pairs)
  <2>1. Len(pairs) = Len(vs) + Len(t)
    BY <1>10, <1>11, <1>13
  <2>2. ASSUME NEW x \in 1 .. Len(vs) PROVE vs[x].pair = pairs[x]
    <3>1. CASE x \in 1 .. Len(vd)
      BY <1>6, <1>9, <1>11, <3>1
    <3>2. CASE x = Len(vd) + 1
      <4>1. td[1] = pairs[Len(vd) + 1]
        BY <1>10, <1>11
      <4>2. vs[x] = verdict
        BY <1>6, <1>9, <3>2
      <4> QED BY <1>3, <1>10, <3>2, <4>1, <4>2
    <3> QED BY <1>6, <1>9, <1>10, <3>1, <3>2
  <2>3. ASSUME NEW x \in 1 .. Len(t) PROVE t[x] = pairs[Len(vs) + x]
    <3>1. x + 1 \in 1 .. Len(td) /\ t[x] = td[x + 1]
      BY <1>5, <1>9, <1>10, <1>12
    <3>2. td[x + 1] = pairs[Len(vd) + (x + 1)]
      BY <1>11, <3>1
    <3>3. Len(vd) + (x + 1) = Len(vs) + x
      BY <1>10, <1>12, <1>13
    <3> QED BY <3>1, <3>2, <3>3
  <2> QED BY <1>8, <1>12, <2>1, <2>2, <2>3 DEF Divided
<1>15. ASSUME NEW x \in DOMAIN vs
       PROVE  (x \in DOMAIN w.verdicts /\ vs[x] = w.verdicts[x]) \/ vs[x] = verdict
  BY <1>6, <1>9, <1>10, <1>12
<1>16. v = WithVerdict(w, introduced)
  BY <1>1, <1>4, <1>7 DEF WithVerdict
<1> QED BY <1>1, <1>8, <1>14, <1>15, <1>16

(* What a call in flight and its batch are, and that they have their types.  *)
LEMMA Underway ==
  ASSUME BatchInv, NEW c \in Client
  PROVE  \E k \in CallType, w \in WorkType :
           /\ k = call[c] /\ w = work[c]
           /\ call = [call EXCEPT ![c] = k] /\ work = [work EXCEPT ![c] = w]
           /\ CallStands(k) /\ WorkStands(w, k, request[c])
BY DEF BatchInv, BatchType

LEMMA Proposing ==
  ASSUME IInv, BatchInv, Legal, NEW c \in Client, ProposePair(c)
  PROVE  BatchInv'
<1>1. PICK k \in CallType, w \in WorkType :
        /\ k = call[c] /\ w = work[c]
        /\ call = [call EXCEPT ![c] = k] /\ work = [work EXCEPT ![c] = w]
        /\ CallStands(k) /\ WorkStands(w, k, request[c])
  BY Underway
<1>2. RowsInv /\ TypeOK /\ UNCHANGED <<stored, call>>
  BY DEF IInv, RowsInv, ProposePair
<1>3. w.todo # <<>> /\ w.fresh = {} /\ Pair(c) = Head(w.todo)
  BY <1>1 DEF ProposePair, Uncommitted, Pair
<1>4. ASSUME NEW r, request' = [request EXCEPT ![c] = r], UNCHANGED <<rows, work>>,
             r.op = "propose" => /\ r.pair = Couples(Head(w.todo))
                                 /\ Eligible(Head(w.todo)[1], Head(w.todo)[2])
      PROVE  BatchInv'
  <2>1. request'[c] = r /\ \A d \in Client \ {c} : request'[d] = request[d]
    BY <1>2, <1>4 DEF TypeOK
  <2>2. WorkStands(w, k, r)
    BY <1>1, <1>3, <1>4 DEF WorkStands
  <2>3. call' = [call EXCEPT ![c] = k] /\ work' = [work EXCEPT ![c] = w]
    BY <1>1, <1>2, <1>4
  <2> QED BY <1>1, <1>2, <1>4, <2>1, <2>2, <2>3, QuietMove
<1>5. CASE /\ Eligible(Pair(c)[1], Pair(c)[2])
           /\ ProposePrepare(c, Pair(c)[1], Pair(c)[2])
           /\ UNCHANGED work
  <2>1. PICK r : r = [op |-> "propose", pair |-> {Pair(c)[1], Pair(c)[2]}, at |-> now,
                      held |-> {}, counted |-> {}]
    OBVIOUS
  <2>2. request' = [request EXCEPT ![c] = r] /\ UNCHANGED rows
    BY <1>5, <2>1 DEF ProposePrepare, Begin
  <2>3. r.pair = Couples(Head(w.todo))
    BY <1>3, <2>1 DEF Couples
  <2> QED BY <1>3, <1>4, <1>5, <2>2, <2>3
<1>6. CASE /\ request[c].op = "propose" /\ UNCHANGED work
           /\ \/ \E e \in EntId : ReadAllowance(c, e)
              \/ \E m \in Member : CheckActiveLimit(c, m)
  <2>1. PICK q \in Snapshot : q = request[c]
    BY <1>2 DEF TypeOK
  <2>2. q \in ProposeSnapshot
    BY <1>6, <2>1 DEF Snapshot, Idle, ProposeSnapshot, DecideSnapshot, CancelSnapshot, BookSnapshot, CheckInSnapshot,
                      CompleteSnapshot, CancelMeetupSnapshot, FeedbackSnapshot
  <2>3. PICK held, counted : request' = [request EXCEPT ![c] = [q EXCEPT !.held = held, !.counted = counted]]
    <3>1. CASE \E e \in EntId : ReadAllowance(c, e)
      <4>1. PICK e \in EntId : ReadAllowance(c, e)
        BY <3>1
      <4>2. PICK h : h = q.held \cup {[ent |-> e, version |-> entitlement[e].version]}
        OBVIOUS
      <4>3. request' = [request EXCEPT ![c] = [q EXCEPT !.held = h, !.counted = q.counted]]
        BY <1>2, <2>1, <2>2, <4>1, <4>2 DEF ReadAllowance, TypeOK, ProposeSnapshot
      <4> QED BY <4>3
    <3>2. CASE \E m \in Member : CheckActiveLimit(c, m)
      <4>1. PICK m \in Member : CheckActiveLimit(c, m)
        BY <3>2
      <4>2. request' = [request EXCEPT ![c] = [q EXCEPT !.held = q.held, !.counted = q.counted \cup {m}]]
        BY <1>2, <2>1, <2>2, <4>1 DEF CheckActiveLimit, TypeOK, ProposeSnapshot
      <4> QED BY <4>2
    <3> QED BY <1>6, <3>1, <3>2
  <2>4. PICK r : r = [q EXCEPT !.held = held, !.counted = counted]
    OBVIOUS
  <2>5. r.pair = q.pair
    BY <2>2, <2>4 DEF ProposeSnapshot
  <2>6. UNCHANGED rows
    BY <1>6 DEF ReadAllowance, CheckActiveLimit
  <2>7. r.pair = Couples(Head(w.todo)) /\ Eligible(Head(w.todo)[1], Head(w.todo)[2])
    BY <1>1, <1>3, <1>6, <2>1, <2>5 DEF WorkStands
  <2> QED BY <1>4, <1>6, <2>3, <2>4, <2>6, <2>7
<1>7. ASSUME NEW i \in Intro, PersistProposal(c, i), work' = [work EXCEPT ![c].fresh = {i}]
      PROVE  BatchInv'
  <2>1. match'[i].pair = Couples(Head(w.todo))
    <3>1. request[c].op = "propose" /\ match'[i].pair = request[c].pair
      BY <1>2, <1>7, MatchMade DEF PersistProposal
    <3> QED BY <1>1, <1>3, <3>1 DEF WorkStands
  <2>2. PICK v : v = [w EXCEPT !.fresh = {i}]
    OBVIOUS
  <2>3. /\ v \in WorkType /\ v.todo = w.todo /\ v.verdicts = w.verdicts /\ v.begun = w.begun
        /\ v.fresh = {i}
    BY <2>2 DEF WorkType
  <2>4. work' = [work EXCEPT ![c] = v] /\ call' = [call EXCEPT ![c] = k]
    BY <1>1, <1>2, <1>7, <2>2
  <2>5. request'[c] = Idle /\ \A d \in Client \ {c} : request'[d] = request[d]
    BY <1>2, <1>7 DEF PersistProposal, Finish, TypeOK
  <2>6. CallStands(k)'
    BY <1>1, <1>2, CallLasts
  <2>7. WorkStands(v, k, Idle)'
    <3>1. PICK q : q = request[c]
      OBVIOUS
    <3>2. WorkStands(w, k, q)'
      BY <1>1, <1>2, <3>1, WorkLasts
    <3> QED BY <1>3, <2>1, <2>3, <3>2 DEF WorkStands, Divided, Idle
  <2> QED BY <1>2, <2>3, <2>4, <2>5, <2>6, <2>7, OneCallMoves, StoredLasts
<1> QED BY <1>5, <1>6, <1>7 DEF ProposePair

(* A verdict is given: the pair is dropped, or what was committed is it.     *)
LEMMA VerdictGivenTo ==
  ASSUME IInv, BatchInv, NEW c \in Client, NEW introduced \in SUBSET Intro, work[c].todo # <<>>,
         introduced \subseteq work[c].fresh, Judge(c, introduced),
         Finish(c) \/ (UNCHANGED request /\ request[c].op # "propose"),
         UNCHANGED <<rows, stored, call>>
  PROVE  BatchInv'
<1>1. PICK k \in CallType, w \in WorkType :
        /\ k = call[c] /\ w = work[c]
        /\ call = [call EXCEPT ![c] = k] /\ work = [work EXCEPT ![c] = w]
        /\ CallStands(k) /\ WorkStands(w, k, request[c])
  BY Underway
<1>2. RowsInv /\ TypeOK
  BY DEF IInv, RowsInv
<1>3. k.stage = "perform" /\ Divided(w, k.payload) /\ w.begun /\ w.todo # <<>>
  BY <1>1 DEF WorkStands, WorkType
<1>4. PICK pairs : pairs = k.payload
  OBVIOUS
<1>5. PICK v \in WorkType :
        /\ v = WithVerdict(w, introduced)
        /\ v.begun = w.begun /\ v.fresh = {}
        /\ Divided(v, pairs)
        /\ \A x \in DOMAIN v.verdicts :
             \/ x \in DOMAIN w.verdicts /\ v.verdicts[x] = w.verdicts[x]
             \/ v.verdicts[x] = [pair |-> Head(w.todo), intro |-> introduced]
  <2>1. Divided(w, pairs) /\ w.todo # <<>>
    BY <1>3, <1>4
  <2> QED BY <2>1, Judged
<1>6. Confirmed([pair |-> Head(w.todo), intro |-> introduced])
  BY <1>1 DEF Confirmed, WorkStands
<1>7. \A x \in DOMAIN v.verdicts : Confirmed(v.verdicts[x])
  BY <1>1, <1>5, <1>6 DEF WorkStands
<1>8. PICK r : r = request'[c]
  OBVIOUS
<1>9. r.op # "propose" /\ \A d \in Client \ {c} : request'[d] = request[d]
  BY <1>2, <1>8 DEF Finish, Idle, TypeOK
<1>10. WorkStands(v, k, r)
  BY <1>3, <1>4, <1>5, <1>7, <1>9 DEF WorkStands
<1>11. work' = [work EXCEPT ![c] = v] /\ call' = [call EXCEPT ![c] = k]
  BY <1>1, <1>5 DEF Judge, Pair, WithVerdict
<1> QED BY <1>1, <1>2, <1>8, <1>9, <1>10, <1>11, QuietMove

LEMMA PairDone ==
  ASSUME IInv, BatchInv, NEW c \in Client, AcceptPair(c) \/ RejectPair(c)
  PROVE  BatchInv'
<1>1. PICK k \in CallType, w \in WorkType :
        /\ k = call[c] /\ w = work[c]
        /\ call = [call EXCEPT ![c] = k] /\ work = [work EXCEPT ![c] = w]
        /\ CallStands(k) /\ WorkStands(w, k, request[c])
  BY Underway
<1>2. CASE AcceptPair(c) /\ w.todo # <<>>
  <2>1. request[c].op # "propose" /\ UNCHANGED request
    BY <1>1, <1>2 DEF AcceptPair, WorkStands
  <2>2. w.fresh \in SUBSET Intro /\ Judge(c, w.fresh) /\ UNCHANGED <<rows, stored, call>>
    BY <1>1, <1>2 DEF AcceptPair, WorkType
  <2> QED BY <1>1, <1>2, <2>1, <2>2, VerdictGivenTo
<1>3. CASE RejectPair(c)
  <2>1. /\ {} \in SUBSET Intro /\ {} \subseteq work[c].fresh
        /\ work[c].todo # <<>> /\ Judge(c, {}) /\ Finish(c) /\ UNCHANGED <<rows, stored, call>>
    BY <1>3 DEF RejectPair
  <2> QED BY <2>1, VerdictGivenTo
<1>4. CASE AcceptPair(c) /\ w.todo = <<>>
  BY <1>1, <1>4 DEF AcceptPair, WorkStands
<1> QED BY <1>2, <1>3, <1>4

LEMMA WorkFinished ==
  ASSUME IInv, BatchInv, NEW c \in Client, FinishWork(c)
  PROVE  BatchInv'
<1>1. PICK k \in CallType, w \in WorkType :
        /\ k = call[c] /\ w = work[c]
        /\ call = [call EXCEPT ![c] = k] /\ work = [work EXCEPT ![c] = w]
        /\ CallStands(k) /\ WorkStands(w, k, request[c])
  BY Underway
<1>2. /\ RowsInv /\ UNCHANGED <<rows, request, stored>>
      /\ w.begun /\ w.todo = <<>> /\ k.stage = "perform"
      /\ work' = [work EXCEPT ![c] = NoWork] /\ Replay!Succeed(c, w.verdicts)
  BY <1>1 DEF IInv, FinishWork, Replay!Succeed
<1>3. k.key \in Key /\ k.payload \in Payload
  BY <1>2 DEF CallType, Replay!NoCall, Performing, Performed, Answer
<1>4. PICK outcome : outcome = [key |-> k.key, payload |-> k.payload, by |-> c, result |-> w.verdicts]
  OBVIOUS
<1>5. PICK l : l = [stage |-> "remember", key |-> k.key, payload |-> k.payload, outcome |-> outcome]
  OBVIOUS
<1>6. outcome \in Outcome /\ outcome.result = w.verdicts
  BY <1>3, <1>4 DEF Outcome, WorkType
<1>7. l \in CallType /\ l.payload = k.payload /\ l.outcome = outcome
  BY <1>3, <1>5, <1>6 DEF CallType, Performed
<1>8. Truthful(k.payload, w.verdicts)
  <2>1. PICK pairs, verdicts : pairs = k.payload /\ verdicts = w.verdicts
    OBVIOUS
  <2>2. verdicts \in Seq(Verdict) /\ pairs \in Payload
    BY <1>3, <2>1 DEF WorkType
  <2>3. Len(pairs) = Len(verdicts) + Len(w.todo) /\ \A x \in DOMAIN verdicts : verdicts[x].pair = pairs[x]
    BY <1>1, <1>2, <2>1 DEF WorkStands, Divided
  <2>4. Len(w.todo) = 0
    BY <1>2
  <2>5. Len(verdicts) = Len(pairs)
    BY <2>2, <2>3, <2>4
  <2>6. \A x \in DOMAIN verdicts : Confirmed(verdicts[x])
    BY <1>1, <2>1 DEF WorkStands
  <2> QED BY <2>1, <2>2, <2>3, <2>5, <2>6, TruthfulParts
<1>9. CallStands(l)
  BY <1>6, <1>7, <1>8 DEF CallStands
<1>10. PICK r : r = request[c]
  OBVIOUS
<1>11. WorkStands(NoWork, l, r) /\ NoWork \in WorkType
  <2>1. <<>> \in Seq(Member \X Member) /\ <<>> \in Seq(Verdict)
    OBVIOUS
  <2> QED BY <2>1 DEF WorkStands, NoWork, WorkType
<1>12. call' = [call EXCEPT ![c] = l]
  BY <1>1, <1>2, <1>4, <1>5 DEF Replay!Succeed
<1>13. request'[c] = r /\ \A d \in Client \ {c} : request'[d] = request[d]
  BY <1>2, <1>10
<1> QED BY <1>2, <1>7, <1>9, <1>11, <1>12, <1>13, QuietMove

LEMMA Remembered ==
  ASSUME IInv, BatchInv, NEW c \in Client, Remember(c)
  PROVE  BatchInv'
<1>1. PICK k \in CallType, w \in WorkType :
        /\ k = call[c] /\ w = work[c]
        /\ call = [call EXCEPT ![c] = k] /\ work = [work EXCEPT ![c] = w]
        /\ CallStands(k) /\ WorkStands(w, k, request[c])
  BY Underway
<1>2. /\ RowsInv /\ UNCHANGED <<rows, request, work>> /\ Legal /\ now \in Nat
      /\ k.stage = "remember"
  BY <1>1 DEF IInv, RowsInv, TypeOK, Remember, Replay!Remember, Legal
<1>3. /\ k.key \in Key /\ k.payload \in Payload /\ k.outcome \in Outcome
      /\ Truthful(k.payload, k.outcome.result)
  BY <1>1, <1>2 DEF CallType, Replay!NoCall, Performing, Performed, Answer, CallStands
<1>4. PICK l : l = [stage |-> "answered", key |-> k.key, payload |-> k.payload,
                    outcome |-> k.outcome, replayed |-> FALSE]
  OBVIOUS
<1>5. l \in CallType /\ CallStands(l)
  BY <1>3, <1>4 DEF CallType, Answer, CallStands
<1>6. PICK r : r = request[c]
  OBVIOUS
<1>7. ~w.begun
  BY <1>1, <1>2 DEF WorkStands
<1>8. WorkStands(w, l, r)
  BY <1>1, <1>6, <1>7 DEF WorkStands
<1>9. CallStands(l)' /\ WorkStands(w, l, r)'
  BY <1>2, <1>5, <1>8, CallLasts, WorkLasts
<1>10. call' = [call EXCEPT ![c] = l]
  BY <1>1, <1>4 DEF Remember, Replay!Remember, Replay!Respond
<1>11. PICK s : s = [state |-> "stored", payload |-> k.payload, outcome |-> k.outcome,
                     expires |-> now + KeyTTL]
  OBVIOUS
<1>12. s \in RecordType /\ RecordStands(s)
  BY <1>2, <1>3, <1>11, WindowAssumption DEF RecordType, RecordStands
<1>13. RecordStands(s)'
  BY <1>2, <1>12, RecordLasts
<1>14. stored' = [stored EXCEPT ![k.key] = s] \/ stored' = stored
  BY <1>1, <1>11 DEF Remember, Replay!Remember, Replay!Put
<1>15. stored' \in [Key -> RecordType]
  BY <1>3, <1>12, <1>14 DEF BatchInv, BatchType
<1>16. ASSUME NEW key \in Key PROVE RecordStands(stored[key])'
  <2>1. PICK t \in RecordType : t = stored[key]
    BY DEF BatchInv, BatchType
  <2>2. RecordStands(t)'
    BY <1>2, <2>1, RecordLasts DEF BatchInv
  <2>3. stored'[key] = s \/ stored'[key] = t
    BY <1>14, <2>1 DEF BatchInv, BatchType
  <2> QED BY <1>13, <2>2, <2>3 DEF RecordStands
<1>17. request'[c] = r /\ (\A d \in Client \ {c} : request'[d] = request[d])
       /\ work' = [work EXCEPT ![c] = w]
  BY <1>1, <1>2, <1>6
<1> QED BY <1>2, <1>5, <1>9, <1>10, <1>15, <1>16, <1>17, OneCallMoves

(* A call that is over, and a request outside any call.                      *)
LEMMA CallOver ==
  ASSUME IInv, BatchInv, Legal, NEW c \in Client, Leave(c) \/ Others(c)
  PROVE  BatchInv'
<1>1. PICK k \in CallType, w \in WorkType :
        /\ k = call[c] /\ w = work[c]
        /\ call = [call EXCEPT ![c] = k] /\ work = [work EXCEPT ![c] = w]
        /\ CallStands(k) /\ WorkStands(w, k, request[c])
  BY Underway
<1>2. RowsInv /\ TypeOK
  BY DEF IInv, RowsInv
<1>3. PICK r : r = request'[c]
  OBVIOUS
<1>4. \A d \in Client \ {c} : request'[d] = request[d]
  BY <1>2 DEF Leave, Others, Decide, DecideRead, DecideCommit, Abandon, Begin, Finish, TypeOK
<1>5. UNCHANGED stored
  BY DEF Leave, Others, Replay!Drop, batchVars
<1>6. CASE Leave(c)
  BY <1>2, <1>3, <1>4, <1>5, <1>6, FreshCall, OneCallMoves, StoredLasts DEF Leave, Replay!Drop
<1>7. CASE Others(c)
  <2>1. UNCHANGED <<call, work>> /\ k = Replay!NoCall
    BY <1>1, <1>7 DEF Others, batchVars
  <2>2. ~w.begun
    BY <1>1, <2>1 DEF WorkStands, Replay!NoCall
  <2>3. w.todo = <<>> /\ w.fresh = {} /\ \A x \in DOMAIN w.verdicts : Confirmed(w.verdicts[x])
    BY <1>1, <2>2 DEF WorkStands
  <2>4. WorkStands(w, k, r)
    BY <2>2, <2>3 DEF WorkStands
  <2>5. CallStands(k)' /\ WorkStands(w, k, r)'
    BY <1>1, <1>2, <2>4, CallLasts, WorkLasts
  <2> QED BY <1>1, <1>2, <1>3, <1>4, <1>5, <2>1, <2>5, OneCallMoves, StoredLasts
<1> QED BY <1>6, <1>7

LEMMA BatchInvStep == IInv /\ BatchInv /\ [BatchNext]_<<vars, batchVars>>
                        => IInv' /\ BatchInv' /\ Legal
<1> SUFFICES ASSUME IInv, BatchInv, [BatchNext]_<<vars, batchVars>>
             PROVE  IInv' /\ BatchInv' /\ Legal
  OBVIOUS
<1>1. IInv' /\ Legal
  BY BatchStepsAreSteps, InvStep DEF IInv, RowsInv, BatchInv, Legal
<1>2. ASSUME NEW c \in Client, NEW key \in Key, NEW pairs \in Payload, Receive(c, key, pairs)
      PROVE  BatchInv'
  BY <1>2, Received
<1>3. ASSUME NEW c \in Client,
             \/ ProposePair(c) \/ AcceptPair(c) \/ RejectPair(c) \/ FinishWork(c)
             \/ Remember(c) \/ Leave(c) \/ Others(c)
      PROVE  BatchInv'
  BY <1>1, <1>3, Proposing, PairDone, WorkFinished, Remembered, CallOver
<1>4. CASE UNCHANGED <<vars, batchVars>>
  <2>1. UNCHANGED <<rows, request, stored, call, work>>
    BY <1>4 DEF vars, batchVars
  <2>2. BatchType'
    BY <2>1 DEF BatchInv, BatchType
  <2>3. ASSUME NEW c \in Client PROVE CallStands(call[c])' /\ WorkStands(work[c], call[c], request[c])'
    BY <2>1 DEF BatchInv, CallStands, WorkStands, Truthful, Confirmed, rows
  <2> QED BY <1>1, <2>1, <2>2, <2>3, StoredLasts DEF BatchInv, IInv
<1> QED BY <1>1, <1>2, <1>3, <1>4 DEF BatchNext

LEMMA BatchesStart == BatchInit => BatchInv
<1>1. NoWork \in WorkType /\ Replay!NoCall \in CallType /\ Replay!NoRecord \in RecordType
  <2>1. <<>> \in Seq(Member \X Member) /\ <<>> \in Seq(Verdict)
    OBVIOUS
  <2> QED BY <2>1 DEF NoWork, WorkType, CallType, RecordType
<1>2. \A r : CallStands(Replay!NoCall) /\ WorkStands(NoWork, Replay!NoCall, r) /\ RecordStands(Replay!NoRecord)
  BY DEF CallStands, WorkStands, RecordStands, NoWork, Replay!NoCall
<1> QED BY <1>1, <1>2 DEF BatchInit, Replay!ReplayInit, BatchInv, BatchType

(* No transaction brings a second introduction of a pair to life.            *)
LEMMA OneIntroduction ==
  ASSUME IInv, Legal, PairIntroducedOnce
  PROVE  PairIntroducedOnce'
<1>1. CASE UNCHANGED rows
  BY <1>1 DEF rows, PairIntroducedOnce
<1>2. CASE Transaction
  <2>1. TypeOK /\ RowsInv
    BY DEF IInv, RowsInv
  <2> DEFINE Alive(i) == match[i].state \in ActiveStates
  <2>2. ASSUME NEW i \in Intro, match'[i].state \in ActiveStates,
               ~\E pair \in SUBSET Member, es \in SUBSET EntId : Proposed(i, pair, es)
        PROVE  Alive(i) /\ match'[i].pair = match[i].pair
    <3>1. match'[i] = match[i] \/ /\ match'[i].pair = match[i].pair
                                  /\ <<match[i].state, match'[i].state>> \in MatchMoves
      BY <1>2, <2>1, <2>2, MatchSteps
    <3> QED BY <2>2, <3>1 DEF MatchMoves, MatchEdges, ActiveStates
  <2>3. ASSUME NEW i \in Intro, NEW j \in Intro, i # j, NEW pair \in SUBSET Member, NEW es \in SUBSET EntId,
               Proposed(i, pair, es)
        PROVE  match'[j] = match[j] /\ match'[i].pair = pair /\ ~ActivePairExists(pair)
    <3>1. CreateMatch(i, pair, match'[i].deadline)
      BY <2>3 DEF Proposed
    <3>2. ~ActivePairExists(pair)
      BY <3>1 DEF CreateMatch
    <3>3. match'[i].pair = pair /\ \A k \in Intro \ {i} : match'[k] = match[k]
      BY <2>1, <3>1, MatchMade
    <3> QED BY <2>3, <3>2, <3>3
  <2>4. ASSUME NEW i \in Intro, NEW j \in Intro, i # j,
               match'[i].state \in ActiveStates, match'[j].state \in ActiveStates,
               match'[i].pair = match'[j].pair
        PROVE  FALSE
    <3>1. CASE \E pair \in SUBSET Member, es \in SUBSET EntId : Proposed(i, pair, es)
      BY <2>3, <2>4, <3>1 DEF ActivePairExists
    <3>2. CASE \E pair \in SUBSET Member, es \in SUBSET EntId : Proposed(j, pair, es)
      BY <2>3, <2>4, <3>2 DEF ActivePairExists
    <3> QED BY <2>2, <2>4, <3>1, <3>2 DEF PairIntroducedOnce
  <2> QED BY <2>4 DEF PairIntroducedOnce
<1> QED BY <1>1, <1>2 DEF Legal

LEMMA BatchInvHolds == BatchSpec => [](IInv /\ BatchInv /\ PairIntroducedOnce)
<1>1. IInv /\ PairIntroducedOnce /\ BatchInit => IInv /\ BatchInv /\ PairIntroducedOnce
  BY BatchesStart
<1>2. /\ IInv /\ BatchInv /\ PairIntroducedOnce
      /\ [BatchNext]_<<vars, batchVars>>
      => (IInv /\ BatchInv /\ PairIntroducedOnce)'
  BY BatchInvStep, OneIntroduction
<1> QED BY <1>1, <1>2, PTL DEF BatchSpec

-----------------------------------------------------------------------------
(* Theorems *)

(* Without batches, too: at no time do two live introductions join the same  *)
(* two members (the partial index on matches), so BatchSpec starts wherever  *)
(* Introductions may have come to.                                           *)
THEOREM LivePairsAreUnique == Spec => []PairIntroducedOnce
<1>1. Init => PairIntroducedOnce
  BY DEF Init, PairIntroducedOnce, NoMatch, ActiveStates
<1>2. IInv /\ PairIntroducedOnce /\ [Next]_vars => PairIntroducedOnce'
  BY InvStep, OneIntroduction DEF Legal
<1> QED BY <1>1, <1>2, InvHolds, PTL DEF Spec

(* A batch that is cut off after an effect and sent again, any number of     *)
(* times and side by side, never introduces a pair a second time             *)
(* (matchsvc.ProposeBatch behind idempotencysvc.Guard).                      *)
THEOREM PairsIntroducedOnce == BatchSpec => []PairIntroducedOnce
BY BatchInvHolds, PTL

(* Every response, sent at once or replayed, answers for each pair of its    *)
(* own request in order, and an accepted pair names an introduction of just  *)
(* that pair, for as long as the response exists.                            *)
THEOREM ResponsesAreTrue == BatchSpec => []ResponsesTellTruth
<1>1. BatchInv => ResponsesTellTruth
  BY DEF BatchInv, ResponsesTellTruth, CallStands, RecordStands
<1> QED BY <1>1, BatchInvHolds, PTL

NewlyIntroduced(i) == match[i].state = "none" /\ match'[i].state # "none"

OfAge(m) == ~Before(Today, Birthday(Profile[m].born, 18))

(* Whatever a batch introduces has passed the rules of eligibility, this     *)
(* pair and not another of the batch: two members who accept each other's    *)
(* criteria, and neither of them a minor (preference.go:24-40).              *)
OnlyEligibleIntroduced ==
  [][\A i \in Intro : NewlyIntroduced(i) =>
       \E m, n \in Member : /\ match'[i].pair = {m, n}
                            /\ Eligible(m, n) /\ OfAge(m) /\ OfAge(n)]_<<vars, batchVars>>

LEMMA EligibleAreOfAge ==
  ASSUME NEW m \in Member, NEW n \in Member, Eligible(m, n)
  PROVE  OfAge(m) /\ OfAge(n)
BY ProfileAssumption, NoMinorIntroduced DEF Eligible, OfAge

LEMMA IntroducedByProposal ==
  ASSUME IInv, BatchInv, NEW i \in Intro, NewlyIntroduced(i), [BatchNext]_<<vars, batchVars>>
  PROVE  \E m, n \in Member : match'[i].pair = {m, n} /\ Eligible(m, n)
<1>1. TypeOK
  BY DEF IInv, RowsInv
<1>2. match' # match
  BY DEF NewlyIntroduced
<1>3. ASSUME NEW c \in Client, Others(c) PROVE FALSE
  <2>1. DecideCommit(c)
    BY <1>2, <1>3 DEF Others, Decide, DecideRead, Abandon, rows
  <2>2. PICK j \in Intro, m \in Member, answer \in {"accepted", "declined"} : Answered(j, m, answer)
    BY <2>1, AnswerCommits
  <2>3. PICK to : MatchGoes(j, "pending_consent", to)
    BY <1>2, <2>2 DEF Answered
  <2> QED BY <1>1, <2>3, MatchGone DEF NewlyIntroduced
<1>4. ~UNCHANGED rows
  BY <1>2 DEF rows
<1>5. PICK c \in Client : ProposePair(c)
  BY <1>3, <1>4 DEF BatchNext, Receive, AcceptPair, RejectPair, FinishWork, Remember, Leave, vars
<1>6. PICK w \in WorkType : w = work[c] /\ WorkStands(w, call[c], request[c])
  BY DEF BatchInv, BatchType
<1>7. PICK j \in Intro : PersistProposal(c, j)
  BY <1>4, <1>5 DEF ProposePair, ProposePrepare, ReadAllowance, CheckActiveLimit
<1>8. i = j /\ match'[i].pair = request[c].pair /\ request[c].op = "propose"
  BY <1>1, <1>7, MatchMade DEF PersistProposal, NewlyIntroduced
<1>9. w.todo # <<>> /\ w.todo \in Seq(Member \X Member)
  BY <1>5, <1>6 DEF ProposePair, Uncommitted, WorkType
<1>10. PICK p \in Member \X Member : p = Head(w.todo)
  BY <1>9
<1> QED BY <1>6, <1>8, <1>9, <1>10 DEF WorkStands, Couples

(* The snapshot a proposal commits is always that of the pair the batch is   *)
(* at, so its rules were those of the introduced pair (matchsvc.Propose).    *)
THEOREM IntroducedAreEligible == BatchSpec => OnlyEligibleIntroduced
<1>1. IInv /\ BatchInv /\ [BatchNext]_<<vars, batchVars>> =>
        \A i \in Intro : NewlyIntroduced(i) =>
          \E m, n \in Member : /\ match'[i].pair = {m, n}
                               /\ Eligible(m, n) /\ OfAge(m) /\ OfAge(n)
  BY IntroducedByProposal, EligibleAreOfAge
<1> QED BY <1>1, BatchInvHolds, PTL DEF BatchSpec, OnlyEligibleIntroduced
================================================================================
