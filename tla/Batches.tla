------------------------------- MODULE Batches --------------------------------
(***************************************************************************)
(* The batch endpoint as a client that retries meets it: replay protection *)
(* around a batch of proposals.  Every pair of a batch is a unit of work   *)
(* of its own; the request may be cut off between any two statements, and  *)
(* the client may then send it again, at the same time as others and with  *)
(* the same key.  (The endpoint of a single proposal is that of a batch of *)
(* one, except that its refusal is an error, of which nothing is stored.)  *)
(***************************************************************************)
EXTENDS IntroductionProperties, Eligibility, Sequences

CONSTANTS Key, Payload, KeyTTL,    \* see Replay; a payload is a sequence of pairs,
                                   \* each <<m, n>> in canonical order
          MaxBatchSize,
          Profile, Criteria,       \* of the members; they do not change here
          Today

ASSUME WindowAssumption  == KeyTTL \in Nat \ {0}    \* of Replay
ASSUME PayloadAssumption == Payload \subseteq Seq(Member \X Member)
ASSUME ProfileAssumption == /\ Profile \in [Member -> ProfileType]
                            /\ Criteria \in [Member -> PreferenceType]
                            /\ \A m \in Member : Valid(Criteria[m])
                            /\ Today \in Day

VARIABLES stored, call,   \* see Replay
          work            \* the progress of a request's operation

Replay == INSTANCE Replay

batchVars == <<stored, call, work>>

NoWork == [todo |-> <<>>, verdicts |-> <<>>, fresh |-> {}, begun |-> FALSE]

BatchInit == Replay!ReplayInit /\ work = [c \in Client |-> NoWork]

Eligible(m, n) == MutuallyEligible(Profile[m], Criteria[m], Profile[n], Criteria[n], Today)

(* The checks of ProposeBatch on its input alone.                            *)
Wellformed(pairs) ==
  /\ Len(pairs) \in 1..MaxBatchSize
  /\ \A x \in DOMAIN pairs : pairs[x][1] # pairs[x][2]
  /\ \A x, y \in DOMAIN pairs : pairs[x] = pairs[y] => x = y

(* The key is looked up; if it is unknown the operation begins.              *)
Receive(c, k, pairs) ==
  /\ request[c] = Idle
  /\ \/ /\ Replay!Miss(c, k, pairs)
        /\ Wellformed(pairs)
        /\ work' = [work EXCEPT ![c] = [NoWork EXCEPT !.todo = pairs, !.begun = TRUE]]
     \/ Replay!Replayed(c, k, pairs) /\ UNCHANGED work
  /\ UNCHANGED <<rows, request, sweep>>

Pair(c) == Head(work[c].todo)

(* The pair is between its statements: nothing of it has been committed.     *)
Uncommitted(c) == work[c].todo # <<>> /\ work[c].fresh = {}

(* The first member of the pair is dealt with before the second.             *)
InTurn(c, m) == m = Pair(c)[1] \/ Pair(c)[1] \in request[c].counted

(* Propose, statement by statement.                                          *)
ProposePair(c) ==
  /\ Uncommitted(c)
  /\ \/ /\ Eligible(Pair(c)[1], Pair(c)[2])
        /\ ProposePrepare(c, Pair(c)[1], Pair(c)[2])
        /\ UNCHANGED work
     \/ /\ request[c].op = "propose"
        /\ \/ \E e \in EntId : InTurn(c, e[1]) /\ ReadAllowance(c, e)
           \/ \E m \in Member : CheckActiveLimit(c, m)
        /\ UNCHANGED work
     \/ \E i \in Intro : PersistProposal(c, i) /\ work' = [work EXCEPT ![c].fresh = {i}]
  /\ UNCHANGED <<stored, call>>

(* The verdict on a pair names the introduction it became, if any.           *)
Judge(c, introduced) ==
  work' = [work EXCEPT ![c].todo = Tail(@), ![c].fresh = {},
                       ![c].verdicts = Append(@, [pair |-> Pair(c), intro |-> introduced])]

(* Propose reads back what its transaction has created and returns it.       *)
AcceptPair(c) ==
  /\ work[c].fresh # {}
  /\ Judge(c, work[c].fresh)
  /\ UNCHANGED <<now, rows, request, sweep, stored, call>>

(* Any error but that of a cancelled or timed out context is a verdict:       *)
(* a refusal, a lost race, a failing database; the pair is dropped where it  *)
(* stands, also when only the reading back has failed.                       *)
RejectPair(c) ==
  /\ work[c].todo # <<>>
  /\ Judge(c, {})
  /\ Finish(c)
  /\ UNCHANGED <<now, rows, sweep, stored, call>>

FinishWork_Early(c) ==
  /\ work[c].begun
  /\ Replay!Succeed(c, work[c].verdicts)
  /\ work' = [work EXCEPT ![c] = NoWork]
  /\ request' = [request EXCEPT ![c] = Idle]
  /\ UNCHANGED <<rows, sweep>>

(* All pairs have a verdict: the operation has succeeded.                    *)
FinishWork(c) ==
  /\ work[c].begun /\ work[c].todo = <<>>
  /\ Replay!Succeed(c, work[c].verdicts)
  /\ work' = [work EXCEPT ![c] = NoWork]
  /\ UNCHANGED <<rows, request, sweep>>

Remember(c) == Replay!Remember(c) /\ UNCHANGED <<rows, request, sweep, work>>

(* The answer is sent; or an error, a deadline or a crash ends the request   *)
(* wherever it is, and nothing is remembered of it.                          *)
Leave(c) ==
  /\ call[c] # Replay!NoCall
  /\ Replay!Drop(c)
  /\ work' = [work EXCEPT ![c] = NoWork]
  /\ request' = [request EXCEPT ![c] = Idle]
  /\ UNCHANGED <<now, rows, sweep>>

(* A client answers an introduction instead, or drops such a request.        *)
Others(c) ==
  /\ call[c] = Replay!NoCall
  /\ Decide(c) \/ Abandon(c)
  /\ UNCHANGED batchVars

BatchNext ==
  \E c \in Client :
    \/ \E k \in Key, pairs \in Payload : Receive(c, k, pairs)
    \/ ProposePair(c) \/ AcceptPair(c) \/ RejectPair(c) \/ FinishWork(c)
    \/ Remember(c) \/ Leave(c) \/ Others(c)

-----------------------------------------------------------------------------
(* However often a request is cut off, repeated or run twice at once, a pair *)
(* never has two introductions alive: the retry of an effect whose record    *)
(* was lost is refused by the index, not by replay protection.               *)
PairIntroducedOnce ==
  \A i, j \in Intro :
    /\ match[i].state \in ActiveStates /\ match[j].state \in ActiveStates
    /\ match[i].pair = match[j].pair
    => i = j

(* A response, the stored ones included, has a verdict for each pair of the  *)
(* request in its order, and an accepted pair names an introduction of just  *)
(* that pair: a batch that was cut off never answers for the rest, and no    *)
(* response is replayed to a request it does not belong to.                  *)
Truthful(pairs, verdicts) ==
  /\ Len(verdicts) = Len(pairs)
  /\ \A x \in DOMAIN verdicts :
       /\ verdicts[x].pair = pairs[x]
       /\ \A i \in verdicts[x].intro : match[i].pair = {pairs[x][1], pairs[x][2]}

ResponsesTellTruth ==
  /\ \A c \in Client : call[c].stage = "answered" =>
       Truthful(call[c].payload, call[c].outcome.result)
  /\ \A k \in Key : stored[k] # Replay!NoRecord =>
       Truthful(stored[k].payload, stored[k].outcome.result)
===============================================================================
