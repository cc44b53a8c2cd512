-------------------------------- MODULE Clients -------------------------------
(***************************************************************************)
(* What the components behind the HTTP API share: the clients, each with   *)
(* at most one request in flight, and the clock of the service.            *)
(***************************************************************************)
EXTENDS Naturals

CONSTANTS Client, MaxTime

VARIABLE now

Tick == now < MaxTime /\ now' = now + 1
===============================================================================
