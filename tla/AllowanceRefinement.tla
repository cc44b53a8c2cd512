-------------------------- MODULE AllowanceRefinement --------------------------
(* Introductions implements Allowances: the three sets are read off the      *)
(* ledger, the order of the movements off the transactions.                  *)
EXTENDS IntroductionProperties

Promise == INSTANCE Allowances WITH
  Introduction <- Intro,
  Allowance    <- EntId,
  Owner        <- LAMBDA e : e[1],
  Quota        <- Total,
  holds        <- {p \in Intro \X EntId : p[1] \in OpenHolds(p[2])},
  spent        <- {p \in Intro \X EntId : p[1] \in Spent(p[2])},
  returned     <- {p \in Intro \X EntId : Moved(p[2], p[1], "release")}

(* Every transaction moves the ledger as Allowances allows: two holds of two *)
(* owners within quota, then all of them spent or all of them returned.      *)
ImplementsAllowances == Promise!Spec
==============================================================================
