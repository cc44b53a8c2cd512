----------------------------- MODULE Allowances ------------------------------
(***************************************************************************)
(* What the allowance path promises, with no tables, versions, snapshots   *)
(* or meetups: an introduction is charged once, to one allowance of each   *)
(* of two owners, while each has room; afterwards everything it holds is   *)
(* spent together or returned together, once.                              *)
(***************************************************************************)
EXTENDS Naturals, FiniteSets

CONSTANTS Introduction, Allowance, Owner(_), Quota(_)

VARIABLES holds, spent, returned   \* sets of <<introduction, allowance>>

ledgerVars == <<holds, spent, returned>>

Init == holds = {} /\ spent = {} /\ returned = {}

Of(i, rows) == {r \in rows : r[1] = i}

Committed(e) == {i \in Introduction : <<i, e>> \in holds \cup spent}

Hold(i, e, f) ==
  /\ Of(i, holds \cup spent \cup returned) = {}
  /\ Owner(e) # Owner(f)
  /\ Cardinality(Committed(e)) < Quota(e)
  /\ Cardinality(Committed(f)) < Quota(f)
  /\ holds' = holds \cup {<<i, e>>, <<i, f>>}
  /\ UNCHANGED <<spent, returned>>

Spend(i) ==
  /\ Of(i, holds) # {}
  /\ spent' = spent \cup Of(i, holds)
  /\ holds' = holds \ Of(i, holds)
  /\ UNCHANGED returned

Return(i) ==
  /\ Of(i, holds) # {}
  /\ returned' = returned \cup Of(i, holds)
  /\ holds' = holds \ Of(i, holds)
  /\ UNCHANGED spent

Next ==
  \E i \in Introduction :
    \/ \E e, f \in Allowance : Hold(i, e, f)
    \/ Spend(i)
    \/ Return(i)

Spec == Init /\ [][Next]_ledgerVars
==============================================================================
