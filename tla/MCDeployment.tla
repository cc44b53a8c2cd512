----------------------------- MODULE MCDeployment -----------------------------
(***************************************************************************)
(* Two processes and three builds: a release, its successor, and one whose *)
(* migration was edited after the release.                                 *)
(***************************************************************************)
EXTENDS Deployment

MCBuilds == {<<"x">>, <<"x", "x">>, <<"y">>}
MCPlans  == <<"starter", "premium">>
MCLoops  == {"dispatcher"}
===============================================================================
