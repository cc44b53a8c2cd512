------------------------------ MODULE MCBatches -------------------------------
(* Two women and two men; a and b may be in two introductions at a time, c   *)
(* in one, and requests share pairs and members.                             *)
EXTENDS Batches, MCIntroductions

CONSTANTS a, b, c, d, key, hangzhou

MCMember  == {a, b, c, d}
MCPayload == {<< <<a, b>>, <<c, d>> >>, << <<a, c>>, <<c, b>> >>, << <<a, b>>, <<a, b>> >>}
MCToday   == [year |-> 2026, month |-> 3, day |-> 2]
MCPlan    == [m \in MCMember |-> [quota |-> 2, maxActive |-> IF m = c THEN 1 ELSE 2,
                                  window |-> 1, validFor |-> 2]]

(* Everybody turned 30 today.                                                *)
Men == {b, d}
MCProfile ==
  [m \in MCMember |->
    [gender |-> IF m \in Men THEN "male" ELSE "female", city |-> hangzhou,
     born |-> [year |-> 1996, month |-> 3, day |-> 2],
     marital |-> "single", education |-> "bachelor", enrolled |-> "active"]]
MCCriteria ==
  [m \in MCMember |->
    [seeking |-> IF m \in Men THEN "female" ELSE "male", minAge |-> 30,
     maxAge |-> 40, cities |-> {hangzhou}, maritals |-> {"single"},
     minEducation |-> "college"]]

RetriesSpec == (GrantedInit /\ BatchInit) /\ [][BatchNext]_<<vars, batchVars>>

ClientsAlike == Permutations(Client) \cup Permutations(Intro)
===============================================================================
