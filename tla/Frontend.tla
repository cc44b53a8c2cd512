-------------------------------- MODULE Frontend ------------------------------
(***************************************************************************)
(* The HTTP API around the matchmaking services.  A request authenticates  *)
(* its session, then performs one operation: one under replay protection,  *)
(* one on a profile, or a logout.  Requests interleave statement by        *)
(* statement, and the sweeper deletes sessions and replay records under    *)
(* them.                                                                   *)
(***************************************************************************)
EXTENDS Sessions, Replay, Profiles

(* Owner[s] is the profile of a member's session, {} for a staff session.    *)
(* The staff sessions are those of one account, so they share their keys.    *)
CONSTANT Owner

ASSUME OwnerAssumption == Owner \in [Session -> SUBSET Member]

VARIABLE performed   \* the outcomes of the operations that took effect (history)

vars == <<now, sessionVars, replayVars, profileVars, performed>>

Init == now = 0 /\ SessionInit /\ ReplayInit /\ ProfileInit /\ performed = {}

Staff(s) == Owner[s] = {}
Role(s)  == IF Staff(s) THEN "staff" ELSE "member"

(* Authenticated, and its operation not yet begun.                           *)
Ready(c) == visit[c].stage = "in" /\ call[c] = NoCall /\ edit[c] = NoEdit

Authentication(c) ==
  /\ \/ \E s \in Session : Arrive(c, s)
     \/ Authenticate(c)
     \/ TouchLastSeen(c)
     \/ Ready(c) /\ Logout(c)
  /\ UNCHANGED <<replayVars, profileVars, performed>>

(* Server.idempotent, which wraps operations of the staff only.              *)
Idempotent(c) ==
  /\ \/ /\ Ready(c) /\ Staff(visit[c].session)
        /\ \E k \in Key, payload \in Payload : Miss(c, k, payload) \/ Replayed(c, k, payload)
        /\ UNCHANGED performed
     \/ Succeed(c, "done") /\ performed' = performed \cup {call'[c].outcome}
     \/ Remember(c) /\ UNCHANGED performed
  /\ UNCHANGED <<sessionVars, profileVars>>

EditProfile(c) ==
  /\ \/ /\ Ready(c)
        /\ LET s == visit[c].session
           IN  \/ \E m \in Owner[s] : SaveRead(c, m)
               \/ \E m \in IF Staff(s) THEN Member ELSE Owner[s], target \in Status :
                    SetRead(c, m, Role(s), target)
        /\ UNCHANGED sessionVars
     \/ (SavePreference(c) \/ SetStatus(c)) /\ EndVisit(c)
  /\ UNCHANGED <<now, replayVars, performed>>

(* The response is written; or a refusal, an error, a timeout or a crash of  *)
(* the process ends the request early.                                       *)
Leave(c) ==
  /\ visit[c] # Away
  /\ EndVisit(c) /\ Drop(c) /\ Forget(c)
  /\ UNCHANGED <<now, performed>>

Next ==
  \/ \E m \in Member : RegisterMember(m) /\ UNCHANGED <<now, sessionVars, replayVars, performed>>
  \/ \E s \in Session :
       /\ \A m \in Owner[s] : status[m] # "none"
       /\ Login(s) /\ UNCHANGED <<replayVars, profileVars, performed>>
  \/ \E c \in Client : Authentication(c) \/ Idempotent(c) \/ EditProfile(c) \/ Leave(c)
  \/ PurgeExpiredSessions /\ UNCHANGED <<replayVars, profileVars, performed>>
  \/ Sweep /\ UNCHANGED <<sessionVars, profileVars, performed>>
  \/ Tick /\ UNCHANGED <<sessionVars, replayVars, profileVars, performed>>

Spec == Init /\ [][Next]_vars

(* A replay is the outcome of an operation that took effect for this very    *)
(* key and payload, never the response to something else.                    *)
ReplaysFaithful ==
  \A c \in Client :
    call[c].stage = "answered" =>
      call[c].outcome \in {p \in performed : p.key = call[c].key /\ p.payload = call[c].payload}
===============================================================================
