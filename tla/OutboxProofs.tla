----------------------------- MODULE OutboxProofs -----------------------------
(***************************************************************************)
(* Any number of jobs and dispatchers, any budget and batch size: a job is *)
(* finished once and with reason, whatever order late outcomes come in.    *)
(***************************************************************************)
EXTENDS Outbox, SequenceTheorems, WellFoundedInduction, TLAPS

State == {"none", "pending", "succeeded", "failed_permanent"}
Row   == [state : State, attempts : 0..MaxAttempts]
Entry == [job : Job, attempts : 0..(MaxAttempts - 1)]

(* The due jobs are pending, and each is due once.                           *)
DueOnce ==
  /\ \A k \in DOMAIN ready : job[ready[k]].state = "pending"
  /\ \A k, l \in DOMAIN ready : ready[k] = ready[l] => k = l

(* An attempt that was counted, in the row or in a list, was refused.        *)
Counted ==
  /\ \A j \in Job : job[j].state = "pending" => job[j].attempts <= failures[j]
  /\ \A d \in Dispatcher : \A k \in DOMAIN round[d] :
       round[d][k].attempts <= failures[round[d][k].job]

(* What Send returned is about the head of the round.                        *)
OutcomeOfHead ==
  \A d \in Dispatcher :
    /\ outcome[d] # "none" => round[d] # <<>>
    /\ outcome[d] = "sent" => Head(round[d]).job \in delivered
    /\ outcome[d] = "refused" => Head(round[d]).attempts + 1 <= failures[Head(round[d]).job]

IInv == TypeOK /\ FinalStateEarned /\ DueOnce /\ Counted /\ OutcomeOfHead
-----------------------------------------------------------------------------

(* A set of natural numbers has a least element, which is what Min chooses.  *)
LEMMA LeastNatural ==
  ASSUME NEW S \in SUBSET Nat, S # {}
  PROVE  Min(S) \in S /\ \A y \in S : Min(S) <= y
<1> DEFINE R == {pair \in Nat \X Nat : pair[1] < pair[2]}
<1>1. IsWellFoundedOn(R, Nat)
  BY NatLessThanWellFounded DEF OpToRel
<1> HIDE DEF R
<1>2. PICK x \in S : \A y \in S : ~(<<y, x>> \in R)
  BY <1>1, WFMin
<1>3. ASSUME NEW y \in S PROVE x <= y
  <2>1. y \in Nat /\ x \in Nat
    OBVIOUS
  <2>2. y < x => <<y, x>> \in R
    BY <2>1 DEF R
  <2> QED BY <1>2, <2>1, <2>2
<1> QED BY <1>3 DEF Min

LEMMA LesserOfTwo ==
  ASSUME NEW a \in Nat, NEW b \in Nat
  PROVE  Min({a, b}) = IF a <= b THEN a ELSE b
<1>1. Min({a, b}) \in {a, b} /\ \A y \in {a, b} : Min({a, b}) <= y
  BY LeastNatural
<1> QED BY <1>1

(* RemoveFirst takes one element out and keeps the order of the rest.        *)
LEMMA RemoveFirstKeeps ==
  ASSUME NEW S, NEW s \in Seq(S), NEW e
  PROVE  /\ RemoveFirst(s, e) \in Seq(S)
         /\ (\A k \in DOMAIN s : s[k] # e) => RemoveFirst(s, e) = s
         /\ \A k \in DOMAIN s : s[k] = e =>
              \E f \in DOMAIN s :
                /\ s[f] = e
                /\ Len(RemoveFirst(s, e)) = Len(s) - 1
                /\ \A n \in 1..(Len(s) - 1) :
                     RemoveFirst(s, e)[n] = IF n < f THEN s[n] ELSE s[n + 1]
<1>0. DOMAIN s = 1..Len(s) /\ Len(s) \in Nat
  OBVIOUS
<1>1. CASE \A k \in 1..Len(s) : s[k] # e
  <2>1. RemoveFirst(s, e) = s
    BY <1>1 DEF RemoveFirst
  <2> QED BY <1>0, <1>1, <2>1
<1>2. CASE \E k \in 1..Len(s) : s[k] = e
  <2> DEFINE I == {i \in 1..Len(s) : s[i] = e}
  <2>1. I \in SUBSET Nat /\ I # {}
    BY <1>2
  <2>2. PICK f \in I : f = Min(I)
    BY <2>1, LeastNatural
  <2>3. RemoveFirst(s, e) = RemoveAt(s, f)
    BY <1>2, <2>1, <2>2 DEF RemoveFirst, SelectInSeq
  <2>4. RemoveFirst(s, e) = SubSeq(s, 1, f - 1) \o SubSeq(s, f + 1, Len(s))
    BY <2>3 DEF RemoveAt
  <2>5. f \in 1..Len(s) /\ s[f] = e
    BY <2>2
  <2> HIDE DEF I
  <2>6. SubSeq(s, 1, f - 1) \in Seq(S) /\ SubSeq(s, f + 1, Len(s)) \in Seq(S)
    BY <2>5
  <2>7. Len(SubSeq(s, 1, f - 1)) = f - 1 /\ Len(SubSeq(s, f + 1, Len(s))) = Len(s) - f
    BY <2>5
  <2> DEFINE before == SubSeq(s, 1, f - 1)
             after  == SubSeq(s, f + 1, Len(s))
  <2>8. /\ \A n \in 1..(f - 1) : before[n] = s[n]
        /\ \A n \in 1..(Len(s) - f) : after[n] = s[f + n]
    BY <2>5
  <2> HIDE DEF before, after
  <2>9. /\ RemoveFirst(s, e) = before \o after
         /\ before \in Seq(S) /\ after \in Seq(S)
         /\ Len(before) = f - 1 /\ Len(after) = Len(s) - f
    BY <2>4, <2>6, <2>7 DEF before, after
  <2>10. /\ before \o after \in Seq(S)
        /\ Len(before \o after) = Len(before) + Len(after)
        /\ \A n \in 1..(Len(before) + Len(after)) :
             (before \o after)[n] = IF n <= Len(before) THEN before[n]
                                    ELSE after[n - Len(before)]
    BY <2>9, ConcatProperties
  <2>11. Len(before) + Len(after) = Len(s) - 1 /\ f \in Nat
    BY <1>0, <2>5, <2>9
  <2>12. ASSUME NEW n \in 1..(Len(s) - 1)
         PROVE  RemoveFirst(s, e)[n] = IF n < f THEN s[n] ELSE s[n + 1]
    <3>1. RemoveFirst(s, e)[n] = IF n <= f - 1 THEN before[n] ELSE after[n - (f - 1)]
      BY <2>9, <2>10, <2>11
    <3>2. CASE n <= f - 1
      BY <1>0, <2>8, <2>11, <3>1, <3>2
    <3>3. CASE ~(n <= f - 1)
      <4>1. n - (f - 1) \in 1..(Len(s) - f) /\ f + (n - (f - 1)) = n + 1
        BY <1>0, <2>5, <2>11, <3>3
      <4>2. after[n - (f - 1)] = s[n + 1]
        BY <2>8, <4>1
      <4> QED BY <1>0, <2>11, <3>1, <3>3, <4>2
    <3> QED BY <3>2, <3>3
  <2>13. RemoveFirst(s, e) \in Seq(S) /\ Len(RemoveFirst(s, e)) = Len(s) - 1
    BY <2>9, <2>10, <2>11
  <2> QED BY <1>0, <1>2, <2>5, <2>12, <2>13
<1> QED BY <1>1, <1>2

(* Of a list without repetition, RemoveFirst leaves one without e.           *)
LEMMA RemovedOnce ==
  ASSUME NEW S, NEW s \in Seq(S), NEW e,
         \A k, l \in DOMAIN s : s[k] = s[l] => k = l
  PROVE  \E t \in Seq(S) :
           /\ t = RemoveFirst(s, e)
           /\ \A k \in DOMAIN t : t[k] # e /\ \E l \in DOMAIN s : t[k] = s[l]
           /\ \A k, l \in DOMAIN t : t[k] = t[l] => k = l
<1>1. CASE \A k \in DOMAIN s : s[k] # e
  <2>1. RemoveFirst(s, e) = s
    BY <1>1, RemoveFirstKeeps
  <2> QED BY <1>1, <2>1
<1>2. CASE \E k \in DOMAIN s : s[k] = e
  <2>1. PICK t \in Seq(S) : t = RemoveFirst(s, e)
    BY RemoveFirstKeeps
  <2>2. PICK f \in DOMAIN s : /\ s[f] = e /\ Len(t) = Len(s) - 1
                              /\ \A n \in 1..(Len(s) - 1) :
                                   t[n] = IF n < f THEN s[n] ELSE s[n + 1]
    BY <1>2, <2>1, RemoveFirstKeeps
  <2>3. /\ DOMAIN t = 1..Len(t) /\ DOMAIN s = 1..Len(s) /\ Len(s) \in Nat /\ Len(t) \in Nat
        /\ f \in Nat
    OBVIOUS
  <2> DEFINE from(n) == IF n < f THEN n ELSE n + 1
  <2>4. ASSUME NEW n \in DOMAIN t
        PROVE  from(n) \in DOMAIN s /\ from(n) # f /\ t[n] = s[from(n)]
    BY <2>2, <2>3
  <2>5. \A m, n \in DOMAIN t : from(m) = from(n) => m = n
    BY <2>3
  <2> HIDE DEF from
  <2>6. \A k \in DOMAIN t : t[k] # e
    BY <2>2, <2>4
  <2>7. \A k, l \in DOMAIN t : t[k] = t[l] => k = l
    BY <2>4, <2>5
  <2> QED BY <2>1, <2>4, <2>6, <2>7
<1> QED BY <1>1, <1>2
-----------------------------------------------------------------------------
(* The parts of the invariant that only some of the variables concern.       *)

LEMMA Lists ==
  ASSUME IInv
  PROVE  /\ ready \in Seq(Job) /\ DOMAIN ready = 1..Len(ready) /\ Len(ready) \in Nat
         /\ \A d \in Dispatcher : /\ round[d] \in Seq(Entry) /\ Len(round[d]) \in Nat
                                  /\ DOMAIN round[d] = 1..Len(round[d])
         /\ MaxAttempts \in Nat \ {0}
         /\ \A j \in Job : job[j] \in Row /\ failures[j] \in 0..MaxAttempts
<1>1. /\ ready \in Seq(Job) /\ round \in [Dispatcher -> Seq(Entry)] /\ job \in [Job -> Row]
      /\ failures \in [Job -> 0..MaxAttempts]
  BY DEF IInv, TypeOK, Entry, Row, State
<1>2. \A d \in Dispatcher : round[d] \in Seq(Entry)
  BY <1>1
<1>3. \A d \in Dispatcher : Len(round[d]) \in Nat /\ DOMAIN round[d] = 1..Len(round[d])
  BY <1>2
<1> QED BY <1>1, <1>2, <1>3, BudgetAssumption

(* What happens to the rounds of dispatchers leaves the jobs alone.          *)
LEMMA RoundEnds ==
  ASSUME IInv, NEW d \in Dispatcher, EndRound(d),
         UNCHANGED <<job, ready, delivered, failures>>,
         loop' \in [Dispatcher -> {"running", "stopped"}],
         cancelled' \in [Dispatcher -> BOOLEAN]
  PROVE  IInv'
<1>1. /\ round' = [round EXCEPT ![d] = <<>>] /\ outcome' = [outcome EXCEPT ![d] = "none"]
      /\ job' = job /\ ready' = ready /\ delivered' = delivered /\ failures' = failures
  BY DEF EndRound
<1>2. TypeOK'
  <2>1. <<>> \in Seq([job : Job, attempts : 0..(MaxAttempts - 1)])
    OBVIOUS
  <2> QED BY <1>1, <2>1 DEF IInv, TypeOK
<1>3. FinalStateEarned' /\ DueOnce'
  BY <1>1 DEF IInv, FinalStateEarned, DueOnce
<1>4. \A c \in Dispatcher : round'[c] = round[c] \/ round'[c] = <<>>
  BY <1>1 DEF IInv, TypeOK
<1>5. Counted'
  BY <1>1, <1>4 DEF IInv, Counted
<1>6. OutcomeOfHead'
  BY <1>1 DEF IInv, TypeOK, OutcomeOfHead
<1> QED BY <1>2, <1>3, <1>5, <1>6 DEF IInv

LEMMA EnqueueKeeps ==
  ASSUME IInv, NEW j \in Job, Enqueue(j)
  PROVE  IInv'
<1> DEFINE row == [state |-> "pending", attempts |-> 0]
<1>1. /\ job[j] = NoJob /\ job' = [job EXCEPT ![j] = row] /\ ready' = Append(ready, j)
      /\ UNCHANGED <<loop, cancelled, round, outcome, delivered, failures>>
  BY DEF Enqueue
<1>2. /\ row \in [state : {"none", "pending", "succeeded", "failed_permanent"},
                  attempts : 0..MaxAttempts]
      /\ row.state = "pending" /\ row.attempts = 0
  BY Lists
<1>3. job[j].state = "none"
  BY <1>1 DEF NoJob
<1> HIDE DEF row
<1>4. /\ ready' \in Seq(Job) /\ DOMAIN ready' = 1..(Len(ready) + 1)
      /\ \A k \in DOMAIN ready : ready'[k] = ready[k]
      /\ ready'[Len(ready) + 1] = j
  BY <1>1, Lists, AppendProperties
<1>5. TypeOK'
  BY <1>1, <1>2, <1>4 DEF IInv, TypeOK
<1>6. FinalStateEarned'
  <2>1. \A i \in Job : job'[i] = IF i = j THEN row ELSE job[i]
    BY <1>1 DEF IInv, TypeOK
  <2> QED BY <1>1, <1>2, <2>1, BudgetAssumption DEF IInv, FinalStateEarned
<1>7. \A k \in DOMAIN ready : ready[k] \in Job /\ ready[k] # j
  BY <1>3, Lists DEF IInv, DueOnce
<1>8. \A k \in DOMAIN ready' : k \in DOMAIN ready \/ k = Len(ready) + 1
  BY <1>4, Lists
<1>9. DueOnce'
  BY <1>1, <1>2, <1>4, <1>7, <1>8 DEF IInv, TypeOK, DueOnce
<1>10. Counted'
  BY <1>1, <1>2, Lists DEF IInv, TypeOK, Counted
<1>11. OutcomeOfHead'
  BY <1>1 DEF IInv, OutcomeOfHead
<1> QED BY <1>5, <1>6, <1>9, <1>10, <1>11 DEF IInv

LEMMA BackoffKeeps ==
  ASSUME IInv, NEW j \in Job, BackoffElapses(j)
  PROVE  IInv'
<1>1. /\ job[j].state = "pending" /\ j \notin ToSet(ready) /\ ready' = Append(ready, j)
      /\ UNCHANGED <<job, loop, cancelled, round, outcome, delivered, failures>>
  BY DEF BackoffElapses, Pending
<1>2. /\ ready' \in Seq(Job) /\ DOMAIN ready' = 1..(Len(ready) + 1)
      /\ \A k \in DOMAIN ready : ready'[k] = ready[k]
      /\ ready'[Len(ready) + 1] = j
  BY <1>1, Lists, AppendProperties
<1>3. \A k \in DOMAIN ready : ready[k] # j
  BY <1>1 DEF ToSet
<1>4. \A k \in DOMAIN ready' : k \in DOMAIN ready \/ k = Len(ready) + 1
  BY <1>2, Lists
<1>5. DueOnce'
  BY <1>1, <1>2, <1>3, <1>4 DEF IInv, DueOnce
<1>6. TypeOK'
  BY <1>1, <1>2 DEF IInv, TypeOK
<1>7. FinalStateEarned' /\ Counted' /\ OutcomeOfHead'
  BY <1>1 DEF IInv, FinalStateEarned, Counted, OutcomeOfHead
<1> QED BY <1>5, <1>6, <1>7 DEF IInv

LEMMA ListDueKeeps ==
  ASSUME IInv, NEW d \in Dispatcher, ListDue(d)
  PROVE  IInv'
<1> DEFINE n == IF Len(ready) < Batch THEN Len(ready) ELSE Batch
           due == [k \in 1..n |-> [job |-> ready[k], attempts |-> job[ready[k]].attempts]]
<1>1. /\ round' = [round EXCEPT ![d] = due] /\ round[d] = <<>>
      /\ UNCHANGED <<job, ready, loop, cancelled, outcome, delivered, failures>>
  BY DEF ListDue
<1>2. n \in Nat /\ n <= Len(ready)
  BY Lists, BudgetAssumption
<1> HIDE DEF n
<1>3. ASSUME NEW k \in 1..n
      PROVE  /\ due[k] \in Entry /\ due[k].job \in Job
             /\ due[k].attempts <= failures[due[k].job]
  <2>1. ready[k] \in Job /\ k \in DOMAIN ready
    BY <1>2, Lists
  <2>2. job[ready[k]].state = "pending"
    BY <2>1 DEF IInv, DueOnce
  <2>3. job[ready[k]].attempts \in 0..MaxAttempts /\ job[ready[k]].attempts < MaxAttempts
    BY <2>1, <2>2, Lists DEF Row, IInv, FinalStateEarned
  <2>4. job[ready[k]].attempts \in 0..(MaxAttempts - 1)
    BY <2>3, Lists
  <2>5. job[ready[k]].attempts <= failures[ready[k]]
    BY <2>1, <2>2 DEF IInv, Counted
  <2> QED BY <2>1, <2>4, <2>5 DEF Entry
<1>4. due \in Seq(Entry) /\ DOMAIN due = 1..n
  BY <1>2, <1>3
<1> HIDE DEF due
<1>5. TypeOK'
  BY <1>1, <1>4 DEF IInv, TypeOK, Entry
<1>6. FinalStateEarned' /\ DueOnce'
  BY <1>1 DEF IInv, FinalStateEarned, DueOnce
<1>7. round'[d] = due /\ \A c \in Dispatcher : c # d => round'[c] = round[c]
  BY <1>1 DEF IInv, TypeOK
<1>8. Counted'
  BY <1>1, <1>3, <1>4, <1>7 DEF IInv, Counted
<1>9. outcome[d] = "none"
  BY <1>1 DEF IInv, OutcomeOfHead
<1>10. OutcomeOfHead'
  BY <1>1, <1>7, <1>9 DEF IInv, OutcomeOfHead
<1> QED BY <1>5, <1>6, <1>8, <1>10 DEF IInv

LEMMA HeadOfRound ==
  ASSUME IInv, NEW d \in Dispatcher, round[d] # <<>>
  PROVE  /\ Head(round[d]) \in Entry /\ Head(round[d]).job \in Job
         /\ Head(round[d]).attempts \in 0..(MaxAttempts - 1)
         /\ Head(round[d]).attempts <= failures[Head(round[d]).job]
         /\ Tail(round[d]) \in Seq(Entry)
         /\ \A k \in DOMAIN Tail(round[d]) :
              k + 1 \in DOMAIN round[d] /\ Tail(round[d])[k] = round[d][k + 1]
<1>1. PICK s \in Seq(Entry) : s = round[d]
  BY Lists
<1>2. s # <<>> /\ Head(s) \in Entry /\ Head(s) = s[1] /\ 1 \in DOMAIN s
  BY <1>1
<1>3. /\ Tail(s) \in Seq(Entry)
      /\ \A k \in DOMAIN Tail(s) : k + 1 \in DOMAIN s /\ Tail(s)[k] = s[k + 1]
  BY <1>2, HeadTailProperties
<1>4. s[1].attempts <= failures[s[1].job]
  BY <1>1, <1>2 DEF IInv, Counted
<1> QED BY <1>1, <1>2, <1>3, <1>4 DEF Entry

LEMMA SendKeeps ==
  ASSUME IInv, NEW d \in Dispatcher, Send(d)
  PROVE  IInv'
<1>1. /\ round[d] # <<>> /\ outcome[d] = "none"
      /\ UNCHANGED <<job, ready, loop, cancelled, round>>
  BY DEF Send
<1>2. PICK h \in Entry : h = Head(round[d])
  BY <1>1, HeadOfRound
<1>3. h.job \in Job /\ h.attempts \in 0..(MaxAttempts - 1) /\ h.attempts <= failures[h.job]
  BY <1>1, <1>2, HeadOfRound
<1>4. outcome \in [Dispatcher -> {"none", "sent", "refused", "deadline"}]
      /\ failures \in [Job -> 0..MaxAttempts] /\ delivered \subseteq Job
      /\ MaxAttempts \in Nat \ {0}
  BY Lists DEF IInv, TypeOK
<1>5. PICK result \in {"sent", "refused", "deadline"} :
        /\ outcome' = [outcome EXCEPT ![d] = result]
        /\ delivered' = IF result = "sent" THEN delivered \cup {h.job} ELSE delivered
        /\ result # "refused" => failures' = failures
        /\ result = "refused" =>
             failures' = [failures EXCEPT ![h.job] = Min({failures[h.job] + 1, MaxAttempts})]
  BY <1>2 DEF Send
<1>6. /\ failures' \in [Job -> 0..MaxAttempts]
      /\ \A j \in Job : failures[j] <= failures'[j]
      /\ result = "refused" => h.attempts + 1 <= failures'[h.job]
  <2>1. CASE result # "refused"
    BY <1>4, <1>5, <2>1
  <2>2. CASE result = "refused"
    <3>1. failures[h.job] \in 0..MaxAttempts /\ failures[h.job] + 1 \in Nat
      BY <1>3, <1>4
    <3>2. PICK f \in Nat : f = Min({failures[h.job] + 1, MaxAttempts})
      BY <1>4, <3>1, LesserOfTwo
    <3>3. f = IF failures[h.job] + 1 <= MaxAttempts THEN failures[h.job] + 1 ELSE MaxAttempts
      BY <1>4, <3>1, <3>2, LesserOfTwo
    <3>4. failures' = [failures EXCEPT ![h.job] = f]
      BY <1>5, <2>2, <3>2
    <3>5. f \in 0..MaxAttempts /\ failures[h.job] <= f /\ h.attempts + 1 <= f
      BY <1>3, <1>4, <3>1, <3>3
    <3> QED BY <1>3, <1>4, <3>4, <3>5
  <2> QED BY <2>1, <2>2
<1>7. delivered \subseteq delivered' /\ delivered' \subseteq Job
      /\ (result = "sent" => h.job \in delivered')
  BY <1>3, <1>4, <1>5
<1>8. TypeOK'
  BY <1>1, <1>4, <1>5, <1>6, <1>7 DEF IInv, TypeOK
<1>9. FinalStateEarned'
  <2>1. \A j \in Job : failures[j] = MaxAttempts => failures'[j] = MaxAttempts
    <3> SUFFICES ASSUME NEW j \in Job, failures[j] = MaxAttempts PROVE failures'[j] = MaxAttempts
      OBVIOUS
    <3>1. failures'[j] \in 0..MaxAttempts /\ failures[j] <= failures'[j]
      BY <1>6
    <3> QED BY <1>4, <3>1
  <2> QED BY <1>1, <1>7, <2>1 DEF IInv, FinalStateEarned
<1>10. DueOnce'
  BY <1>1 DEF IInv, DueOnce
<1>11. Counted'
  <2>1. ASSUME NEW j \in Job, job[j].state = "pending"
        PROVE  job[j].attempts <= failures'[j]
    <3>1. job[j].attempts <= failures[j] /\ job[j].attempts \in Nat
      BY <2>1, Lists DEF IInv, Counted, Row
    <3> QED BY <1>4, <1>6, <3>1
  <2>2. ASSUME NEW c \in Dispatcher, NEW k \in DOMAIN round[c]
        PROVE  round[c][k].attempts <= failures'[round[c][k].job]
    <3>1. round[c][k] \in Entry
      BY Lists
    <3>2. round[c][k].attempts \in Nat /\ round[c][k].job \in Job
      BY <3>1, <1>4 DEF Entry
    <3>3. round[c][k].attempts <= failures[round[c][k].job]
      BY DEF IInv, Counted
    <3> QED BY <1>4, <1>6, <3>2, <3>3
  <2> QED BY <1>1, <2>1, <2>2 DEF Counted
<1>12. OutcomeOfHead'
  <2> SUFFICES ASSUME NEW c \in Dispatcher
               PROVE  /\ outcome'[c] # "none" => round[c] # <<>>
                      /\ outcome'[c] = "sent" => Head(round[c]).job \in delivered'
                      /\ outcome'[c] = "refused" =>
                           Head(round[c]).attempts + 1 <= failures'[Head(round[c]).job]
    BY <1>1 DEF OutcomeOfHead
  <2>1. CASE c = d
    BY <1>1, <1>2, <1>4, <1>5, <1>6, <1>7, <2>1
  <2>2. CASE c # d
    <3>1. outcome'[c] = outcome[c]
      BY <1>4, <1>5, <2>2
    <3>2. CASE outcome[c] = "none"
      BY <3>1, <3>2
    <3>3. CASE outcome[c] # "none"
      <4>1. round[c] # <<>>
        BY <3>3 DEF IInv, OutcomeOfHead
      <4>2. PICK g \in Entry : g = Head(round[c])
        BY <4>1, HeadOfRound
      <4>3. g.attempts \in Nat /\ g.job \in Job
        BY <1>4, <4>2 DEF Entry
      <4>4. outcome[c] = "refused" => g.attempts + 1 <= failures[g.job]
        BY <4>2 DEF IInv, OutcomeOfHead
      <4>5. outcome[c] = "sent" => g.job \in delivered
        BY <4>2 DEF IInv, OutcomeOfHead
      <4>6. outcome[c] = "refused" => g.attempts + 1 <= failures'[g.job]
        BY <1>4, <1>6, <4>3, <4>4
      <4> QED BY <1>7, <3>1, <4>1, <4>2, <4>5, <4>6
    <3> QED BY <3>2, <3>3
  <2> QED BY <2>1, <2>2
<1> QED BY <1>8, <1>9, <1>10, <1>11, <1>12 DEF IInv

(* The rest of the round, after its head has been dealt with.                *)
LEMMA RestOfRound ==
  ASSUME IInv, NEW d \in Dispatcher, round[d] # <<>>,
         round' = [round EXCEPT ![d] = Tail(round[d])],
         outcome' = [outcome EXCEPT ![d] = "none"],
         UNCHANGED <<loop, cancelled, delivered, failures>>
  PROVE  /\ round' \in [Dispatcher -> Seq(Entry)]
         /\ outcome' \in [Dispatcher -> {"none", "sent", "refused", "deadline"}]
         /\ \A c \in Dispatcher : \A k \in DOMAIN round'[c] :
              round'[c][k].attempts <= failures'[round'[c][k].job]
         /\ OutcomeOfHead'
<1>1. Tail(round[d]) \in Seq(Entry)
  BY HeadOfRound
<1>2. round \in [Dispatcher -> Seq(Entry)]
      /\ outcome \in [Dispatcher -> {"none", "sent", "refused", "deadline"}]
  BY DEF IInv, TypeOK, Entry
<1>3. /\ round' \in [Dispatcher -> Seq(Entry)]
      /\ outcome' \in [Dispatcher -> {"none", "sent", "refused", "deadline"}]
  BY <1>1, <1>2
<1>4. /\ round'[d] = Tail(round[d]) /\ outcome'[d] = "none"
      /\ \A c \in Dispatcher : c # d => round'[c] = round[c] /\ outcome'[c] = outcome[c]
  BY <1>2
<1>5. \A k \in DOMAIN Tail(round[d]) :
        Tail(round[d])[k].attempts <= failures[Tail(round[d])[k].job]
  BY HeadOfRound DEF IInv, Counted
<1>6. \A c \in Dispatcher : \A k \in DOMAIN round'[c] :
              round'[c][k].attempts <= failures'[round'[c][k].job]
  BY <1>4, <1>5 DEF IInv, Counted
<1>7. OutcomeOfHead'
  BY <1>4 DEF IInv, OutcomeOfHead
<1> QED BY <1>3, <1>6, <1>7

LEMMA RecordKeeps ==
  ASSUME IInv, NEW d \in Dispatcher, Record(d)
  PROVE  IInv'
<1>1. /\ outcome[d] \in {"sent", "refused"}
      /\ round' = [round EXCEPT ![d] = Tail(round[d])]
      /\ outcome' = [outcome EXCEPT ![d] = "none"]
      /\ UNCHANGED <<loop, cancelled, delivered, failures>>
  BY DEF Record
<1>2. round[d] # <<>>
  BY <1>1 DEF IInv, OutcomeOfHead
<1>3. PICK h \in Entry : h = Head(round[d])
  BY <1>2, HeadOfRound
<1>4. PICK j \in Job : j = h.job
  BY DEF Entry
<1>5. PICK a \in Nat : a = h.attempts + 1 /\ a <= MaxAttempts
  BY Lists DEF Entry
<1>6. /\ outcome[d] = "sent" => j \in delivered
      /\ outcome[d] = "refused" => a <= failures[j]
  BY <1>3, <1>4, <1>5 DEF IInv, OutcomeOfHead
<1>7. PICK state \in {"pending", "succeeded", "failed_permanent"} :
        /\ Update(j, state, a)
        /\ state = "succeeded" => outcome[d] = "sent"
        /\ state # "succeeded" => outcome[d] = "refused"
        /\ state = "pending" <=> outcome[d] = "refused" /\ ~(a >= MaxAttempts)
  BY <1>3, <1>4, <1>5 DEF Record, Exhausted
<1>8. /\ round' \in [Dispatcher -> Seq(Entry)]
      /\ outcome' \in [Dispatcher -> {"none", "sent", "refused", "deadline"}]
      /\ \A c \in Dispatcher : \A k \in DOMAIN round'[c] :
           round'[c][k].attempts <= failures'[round'[c][k].job]
      /\ OutcomeOfHead'
  BY <1>1, <1>2, RestOfRound
<1>9. CASE UNCHANGED <<job, ready>>
  <2>1. TypeOK'
    BY <1>1, <1>8, <1>9 DEF IInv, TypeOK, Entry
  <2>2. FinalStateEarned' /\ DueOnce'
    BY <1>1, <1>9 DEF IInv, FinalStateEarned, DueOnce
  <2>3. Counted'
    BY <1>1, <1>8, <1>9 DEF IInv, Counted
  <2> QED BY <1>8, <2>1, <2>2, <2>3 DEF IInv
<1>10. CASE /\ job' = [job EXCEPT ![j] = [state |-> state, attempts |-> a]]
            /\ ready' = RemoveFirst(ready, j)
  <2>1. PICK row \in Row : row = [state |-> state, attempts |-> a]
    <3>1. a \in 0..MaxAttempts /\ state \in State
      BY <1>5, Lists DEF State
    <3>2. [state |-> state, attempts |-> a] \in Row
      BY <3>1 DEF Row
    <3> QED BY <3>2
  <2>2. row.state = state /\ row.attempts = a
    BY <2>1
  <2>3. job \in [Job -> Row]
    BY DEF IInv, TypeOK, Row, State
  <2>4. job' \in [Job -> Row] /\ job'[j] = row /\ \A i \in Job : i # j => job'[i] = job[i]
    BY <1>10, <2>1, <2>3
  <2>5. \A k, l \in DOMAIN ready : ready[k] = ready[l] => k = l
    BY DEF IInv, DueOnce
  <2>6. /\ ready' \in Seq(Job)
        /\ \A k \in DOMAIN ready' : ready'[k] # j /\ \E l \in DOMAIN ready : ready'[k] = ready[l]
        /\ \A k, l \in DOMAIN ready' : ready'[k] = ready'[l] => k = l
    <3>1. ready \in Seq(Job)
      BY Lists
    <3>2. PICK t \in Seq(Job) :
            /\ t = RemoveFirst(ready, j)
            /\ \A k \in DOMAIN t : t[k] # j /\ \E l \in DOMAIN ready : t[k] = ready[l]
            /\ \A k, l \in DOMAIN t : t[k] = t[l] => k = l
      BY <2>5, <3>1, RemovedOnce
    <3>3. ready' = t
      BY <1>10, <3>2
    <3> QED BY <3>2, <3>3
  <2>7. TypeOK'
    BY <1>1, <1>8, <2>4, <2>6 DEF IInv, TypeOK, Entry, Row, State
  <2>8. FinalStateEarned'
    <3>1. /\ state = "succeeded" => j \in delivered
          /\ state = "failed_permanent" => failures[j] = MaxAttempts
          /\ state = "pending" => a < MaxAttempts
      BY <1>5, <1>6, <1>7, Lists
    <3> QED BY <1>1, <2>2, <2>4, <3>1 DEF IInv, FinalStateEarned
  <2>9. \A k \in DOMAIN ready' : ready'[k] \in Job
    BY <2>6
  <2>10. DueOnce'
    BY <2>4, <2>6, <2>9 DEF IInv, DueOnce
  <2>11. Counted'
    BY <1>1, <1>6, <1>7, <1>8, <2>2, <2>4 DEF IInv, Counted
  <2> QED BY <1>8, <2>7, <2>8, <2>10, <2>11 DEF IInv
<1> QED BY <1>7, <1>9, <1>10 DEF Update

LEMMA NextKeeps ==
  ASSUME IInv, [Next]_vars
  PROVE  IInv'
<1>1. ASSUME NEW j \in Job, Enqueue(j) \/ BackoffElapses(j)
      PROVE  IInv'
  BY <1>1, EnqueueKeeps, BackoffKeeps
<1>2. ASSUME NEW d \in Dispatcher, ListDue(d) \/ Send(d) \/ Record(d)
      PROVE  IInv'
  BY <1>2, ListDueKeeps, SendKeeps, RecordKeeps
<1>3. ASSUME NEW d \in Dispatcher,
             StopOnDeadline(d) \/ RoundFails(d) \/ Shutdown(d) \/ Restart(d)
      PROVE  IInv'
  <2>1. /\ EndRound(d) /\ UNCHANGED <<job, ready, delivered, failures>>
        /\ loop' \in [Dispatcher -> {"running", "stopped"}]
        /\ cancelled' \in [Dispatcher -> BOOLEAN]
    BY <1>3 DEF StopOnDeadline, RoundFails, Shutdown, Restart, IInv, TypeOK
  <2> QED BY <2>1, RoundEnds
<1>4. CASE UNCHANGED vars
  BY <1>4 DEF vars, IInv, TypeOK, FinalStateEarned, DueOnce, Counted, OutcomeOfHead
<1> QED BY <1>1, <1>2, <1>3, <1>4 DEF Next

LEMMA InvHolds == Spec => []IInv
<1>1. Init => IInv
  <2> SUFFICES ASSUME Init PROVE IInv
    OBVIOUS
  <2>1. NoJob \in Row /\ NoJob.state = "none"
    BY BudgetAssumption DEF NoJob, Row, State
  <2>2. <<>> \in Seq(Job) /\ <<>> \in Seq(Entry) /\ DOMAIN <<>> = {} /\ 0 \in 0..MaxAttempts
    BY BudgetAssumption
  <2>3. TypeOK
    BY <2>1, <2>2 DEF Init, TypeOK, Row, Entry, State
  <2>4. FinalStateEarned /\ DueOnce /\ OutcomeOfHead
    BY <2>1, <2>2 DEF Init, FinalStateEarned, DueOnce, OutcomeOfHead
  <2>5. Counted
    BY <2>1, <2>2 DEF Init, Counted
  <2> QED BY <2>3, <2>4, <2>5 DEF IInv
<1>2. IInv /\ [Next]_vars => IInv'
  BY NextKeeps
<1> QED BY <1>1, <1>2, PTL DEF Spec
-----------------------------------------------------------------------------

(* Rows, lists and counters of the outbox keep their types; no attempt goes  *)
(* beyond the budget (job.go: attempts, max_attempts).                       *)
THEOREM TypeCorrect == Spec => []TypeOK
<1>1. IInv => TypeOK
  BY DEF IInv
<1> QED BY <1>1, InvHolds, PTL

(* deliver records success only after Send succeeded, and gives a job up     *)
(* only after as many refusals as its budget allows, with stale lists too.   *)
THEOREM FinalStatesAreEarned == Spec => []FinalStateEarned
<1>1. IInv => FinalStateEarned
  BY DEF IInv
<1> QED BY <1>1, InvHolds, PTL

LEMMA FinishedStays ==
  ASSUME IInv, [Next]_vars, NEW j \in Job, job[j].state \in {"succeeded", "failed_permanent"}
  PROVE  job'[j] = job[j]
<1>1. job \in [Job -> Row]
  BY DEF IInv, TypeOK, Row, State
<1>2. ASSUME NEW i \in Job, Enqueue(i)
      PROVE  job'[j] = job[j]
  BY <1>1, <1>2 DEF Enqueue, NoJob
<1>3. ASSUME NEW i, NEW state, NEW a, Update(i, state, a)
      PROVE  job'[j] = job[j]
  BY <1>1, <1>3 DEF Update, Pending
<1>4. ASSUME NEW d \in Dispatcher, Record(d)
      PROVE  job'[j] = job[j]
  BY <1>3, <1>4 DEF Record
<1> QED BY <1>2, <1>4 DEF Next, vars, BackoffElapses, ListDue, Send, StopOnDeadline, RoundFails,
                          Shutdown, Restart

(* updateOne touches only pending rows: the late outcome of a dispatcher     *)
(* that listed a job earlier never reopens it.                               *)
THEOREM FinishedJobsStay == Spec => FinishedOnce
<1>1. IInv /\ [Next]_vars =>
        [\A j \in Job : job[j].state \in {"succeeded", "failed_permanent"} => job'[j] = job[j]]_vars
  BY FinishedStays
<1> QED BY <1>1, InvHolds, PTL DEF Spec, FinishedOnce
==============================================================================
