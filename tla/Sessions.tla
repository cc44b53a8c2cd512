------------------------------- MODULE Sessions -------------------------------
(***************************************************************************)
(* Server-side sessions: login, logout, the purge of the sweeper, and the  *)
(* authentication of every request.  Authentication reads the session row, *)
(* checks it, and stamps the row in a later statement; a logout or a purge *)
(* may come in between.                                                    *)
(***************************************************************************)
EXTENDS Clients

CONSTANTS Session, SessionTTL

ASSUME SessionAssumption == SessionTTL \in Nat \ {0}

VARIABLES session,   \* sessions; a nullable column is a set of at most one value
          visit      \* the request a client has in flight, and its actor

sessionVars == <<session, visit>>

NoSession == [state |-> "none", expires |-> 0, revoked |-> {}, seen |-> 0]
Away      == [stage |-> "away"]

SessionInit ==
  /\ session = [s \in Session |-> NoSession]
  /\ visit = [c \in Client |-> Away]

(* GetByTokenHash finds a row.                                               *)
Found(row) == row.state = "live"

Usable_ExpiryOnly(row) == now < row.expires

(* Session.Validate.                                                         *)
Usable(row) == row.revoked = {} /\ now < row.expires

(* sessions.Create.                                                          *)
CreateSession(s) ==
  /\ session[s] = NoSession
  /\ session' = [session EXCEPT ![s] =
       [state |-> "live", expires |-> now + SessionTTL, revoked |-> {}, seen |-> now]]

Login(s) == CreateSession(s) /\ UNCHANGED <<now, visit>>

(* A request arrives with the token of a session; `late' remembers that the  *)
(* session was already over then.                                            *)
Arrive(c, s) ==
  /\ visit[c] = Away
  /\ session[s].state # "none"
  /\ visit' = [visit EXCEPT ![c] = [stage |-> "arrived", session |-> s,
                 late |-> session[s].revoked # {} \/ now >= session[s].expires]]
  /\ UNCHANGED <<now, session>>

Authenticate(c) ==
  LET v == visit[c]
  IN  /\ v.stage = "arrived"
      /\ Found(session[v.session]) /\ Usable(session[v.session])
      /\ visit' = [visit EXCEPT ![c] = [stage |-> "checked", session |-> v.session,
                     late |-> v.late, row |-> session[v.session], at |-> now]]
      /\ UNCHANGED <<now, session>>

Touch_WholeRow(s, row, at) ==
  session' = [session EXCEPT ![s] = [row EXCEPT !.seen = at]]

(* TouchLastSeen: one column, of a row that may have been revoked or purged. *)
Touch(s, row, at) ==
  session' = IF Found(session[s]) THEN [session EXCEPT ![s].seen = at] ELSE session

TouchLastSeen(c) ==
  LET v == visit[c]
  IN  /\ v.stage = "checked"
      /\ Touch(v.session, v.row, v.at)
      /\ visit' = [visit EXCEPT ![c] =
                     [stage |-> "in", session |-> v.session, late |-> v.late]]
      /\ UNCHANGED now

(* A row is stamped once; another logout is refused.                         *)
Revoke(s) ==
  /\ Found(session[s]) /\ session[s].revoked = {}
  /\ session' = [session EXCEPT ![s].revoked = {now}]

Logout(c) ==
  LET s == visit[c].session
  IN  /\ visit[c].stage = "in"
      /\ Revoke(s)
      /\ visit' = [visit EXCEPT ![c] = Away]
      /\ UNCHANGED now

Stale(row) == Found(row) /\ row.expires < now

PurgeExpiredSessions ==
  /\ \E s \in Session : Stale(session[s])
  /\ session' = [s \in Session |->
       IF Stale(session[s]) THEN [NoSession EXCEPT !.state = "purged"] ELSE session[s]]
  /\ UNCHANGED <<now, visit>>

(* The response is sent, or the request is refused or lost.                  *)
EndVisit(c) == visit' = [visit EXCEPT ![c] = Away] /\ UNCHANGED session

(* A revoked session stays revoked, with its first timestamp, and only an    *)
(* expired one is deleted, whatever a concurrent authentication still writes *)
(* to the row.                                                               *)
SessionsOnlyEnd ==
  [][\A s \in Session : session[s].state = "live" =>
       \/ /\ session'[s].state = "live"
          /\ session'[s].expires = session[s].expires
          /\ session[s].revoked # {} => session'[s].revoked = session[s].revoked
       \/ session'[s].state = "purged" /\ session[s].expires < now]_<<now, sessionVars>>

(* README.md:40: a logout takes effect for every later request; no request   *)
(* that arrived after the end of its session gets an actor.                  *)
LogoutEffective == \A c \in Client : visit[c].stage \in {"checked", "in"} => ~visit[c].late
===============================================================================
