---------------------------- MODULE FrontendProofs ----------------------------
(***************************************************************************)
(* Sessions, replay protection and profiles under the HTTP API, for any    *)
(* number of clients, sessions, keys and members.  The API composes them   *)
(* so that each sees only steps of its own, and each is proved by itself.  *)
(***************************************************************************)
EXTENDS Frontend, TLAPS

SessionRow ==
  [state : {"none", "live", "purged"}, expires : Nat, revoked : SUBSET Nat, seen : Nat]

VisitType ==
       {Away}
  \cup [stage : {"arrived"}, session : Session, late : BOOLEAN]
  \cup [stage : {"checked"}, session : Session, late : BOOLEAN, row : SessionRow, at : Nat]
  \cup [stage : {"in"}, session : Session, late : BOOLEAN]

SessionTypeOK ==
  /\ now \in Nat
  /\ session \in [Session -> SessionRow]
  /\ visit \in [Client -> VisitType]

(* The session is over: no later authentication finds it usable.             *)
Over(row, at) == row.state = "purged" \/ row.revoked # {} \/ at >= row.expires

(* A request that came too late finds its session over from then on, and     *)
(* none that was authenticated came too late.                                *)
LateStaysLate ==
  \A c \in Client :
    /\ visit[c].stage = "arrived" =>
         /\ session[visit[c].session].state # "none"
         /\ visit[c].late => Over(session[visit[c].session], now)
    /\ visit[c].stage \in {"checked", "in"} => ~visit[c].late

SessionInv == SessionTypeOK /\ LateStaysLate

SessionNext ==
  \/ \E s \in Session : Login(s)
  \/ \E c \in Client :
       \/ \E s \in Session : Arrive(c, s)
       \/ Authenticate(c) \/ TouchLastSeen(c) \/ Logout(c)
       \/ EndVisit(c) /\ UNCHANGED now
  \/ PurgeExpiredSessions
  \/ Tick /\ UNCHANGED sessionVars

(* Whatever a request does, its session and visit see a step of Sessions.    *)
LEMMA SessionSteps ==
  ASSUME [Next]_vars
  PROVE  [SessionNext]_<<now, sessionVars>>
<1>1. CASE UNCHANGED vars
  BY <1>1 DEF vars
<1>2. ASSUME NEW c \in Client, Authentication(c)
      PROVE  SessionNext
  BY <1>2 DEF Authentication, SessionNext
<1>3. ASSUME NEW c \in Client, Idempotent(c)
      PROVE  UNCHANGED <<now, sessionVars>>
  BY <1>3 DEF Idempotent, Miss, Replayed, Succeed, Remember
<1>4. ASSUME NEW c \in Client, EditProfile(c)
      PROVE  SessionNext \/ UNCHANGED <<now, sessionVars>>
  BY <1>4 DEF EditProfile, SessionNext
<1>5. ASSUME NEW c \in Client, Leave(c)
      PROVE  SessionNext
  BY <1>5 DEF Leave, SessionNext
<1>6. CASE Sweep /\ UNCHANGED <<sessionVars, profileVars, performed>>
  BY <1>6 DEF Sweep
<1> QED BY <1>1, <1>2, <1>3, <1>4, <1>5, <1>6 DEF Next, SessionNext

LEMMA VisitFields ==
  ASSUME NEW v \in VisitType
  PROVE  /\ v.stage \in {"away", "arrived", "checked", "in"}
         /\ v = Away <=> v.stage = "away"
         /\ v.stage \in {"arrived", "checked", "in"} => v.session \in Session /\ v.late \in BOOLEAN
         /\ v.stage = "checked" => v.row \in SessionRow /\ v.at \in Nat
<1>1. CASE v = Away
  BY <1>1 DEF Away
<1>2. CASE v # Away
  BY <1>2 DEF VisitType, Away
<1> QED BY <1>1, <1>2

LEMMA VisitMembers ==
  ASSUME NEW s \in Session, NEW late \in BOOLEAN
  PROVE  /\ Away \in VisitType
         /\ [stage |-> "arrived", session |-> s, late |-> late] \in VisitType
         /\ [stage |-> "in", session |-> s, late |-> late] \in VisitType
         /\ \A row \in SessionRow, at \in Nat :
              [stage |-> "checked", session |-> s, late |-> late, row |-> row, at |-> at]
                \in VisitType
BY DEF VisitType

(* A session row that a step leaves in place, or that it ends.               *)
Kept(old, new) ==
  /\ old.state # "none" => new.state # "none"
  /\ old.state = "purged" => new.state = "purged"
  /\ new.state # "purged" /\ old.state # "none" => new.expires = old.expires
  /\ old.revoked # {} => new.revoked # {} \/ new.state = "purged"

LEMMA OverStays ==
  ASSUME NEW old \in SessionRow, NEW new \in SessionRow, Kept(old, new),
         now \in Nat, now' \in Nat, now' >= now, old.state # "none", Over(old, now)
  PROVE  Over(new, now')
BY DEF Over, Kept, SessionRow

LEMMA SessionInit_Inv ==
  ASSUME Init
  PROVE  SessionInv
<1>1. NoSession \in SessionRow /\ Away \in VisitType /\ Away.stage = "away"
  BY DEF NoSession, SessionRow, VisitType, Away
<1> QED BY <1>1 DEF Init, SessionInit, SessionInv, SessionTypeOK, LateStaysLate

(* A request that goes on or ends, while rows are kept.                      *)
LEMMA LateKept ==
  ASSUME SessionInv, now' \in Nat, now' >= now,
         session' \in [Session -> SessionRow],
         \A s \in Session : Kept(session[s], session'[s]),
         visit' \in [Client -> VisitType],
         \A c \in Client : \/ visit'[c] = visit[c]
                           \/ visit'[c].stage = "away"
                           \/ visit'[c].stage \in {"checked", "in"} /\ ~visit'[c].late
  PROVE  SessionInv'
<1>1. \A c \in Client : visit[c] \in VisitType
  BY DEF SessionInv, SessionTypeOK
<1>2. ASSUME NEW c \in Client, visit[c].stage = "arrived"
      PROVE  /\ session'[visit[c].session].state # "none"
             /\ visit[c].late => Over(session'[visit[c].session], now')
  <2>1. visit[c].session \in Session /\ visit[c].late \in BOOLEAN
    BY <1>1, <1>2, VisitFields
  <2>2. PICK old \in SessionRow : old = session[visit[c].session]
    BY <2>1 DEF SessionInv, SessionTypeOK
  <2>3. PICK new \in SessionRow : new = session'[visit[c].session]
    BY <2>1
  <2>4. Kept(old, new)
    BY <2>1, <2>2, <2>3
  <2>5. old.state # "none" /\ (visit[c].late => Over(old, now))
    BY <1>2, <2>2 DEF SessionInv, LateStaysLate
  <2>6. now \in Nat
    BY DEF SessionInv, SessionTypeOK
  <2>7. visit[c].late => Over(new, now')
    BY <2>4, <2>5, <2>6, OverStays
  <2>8. new.state # "none"
    BY <2>4, <2>5 DEF Kept
  <2> QED BY <2>3, <2>7, <2>8
<1>3. SessionTypeOK'
  BY DEF SessionInv, SessionTypeOK
<1>4. ASSUME NEW c \in Client, visit'[c].stage = "arrived"
      PROVE  /\ session'[visit'[c].session].state # "none"
             /\ visit'[c].late => Over(session'[visit'[c].session], now')
  BY <1>2, <1>4
<1>5. ASSUME NEW c \in Client, visit'[c].stage \in {"checked", "in"}
      PROVE  ~visit'[c].late
  BY <1>5 DEF SessionInv, LateStaysLate
<1>6. LateStaysLate'
  BY <1>4, <1>5 DEF LateStaysLate
<1> QED BY <1>3, <1>6 DEF SessionInv

LEMMA SessionNextKeeps ==
  ASSUME SessionInv, SessionNext
  PROVE  SessionInv'
<1>1. /\ now \in Nat /\ session \in [Session -> SessionRow]
      /\ visit \in [Client -> VisitType] /\ \A s \in Session : session[s] \in SessionRow
  BY DEF SessionInv, SessionTypeOK
<1>2. \A s \in Session : Kept(session[s], session[s])
  BY <1>1 DEF Kept
<1>3. ASSUME NEW s \in Session, Login(s)
      PROVE  SessionInv'
  <2>1. [state |-> "live", expires |-> now + SessionTTL, revoked |-> {}, seen |-> now] \in SessionRow
    BY <1>1, SessionAssumption DEF SessionRow
  <2>2. session' \in [Session -> SessionRow]
    BY <1>1, <1>3, <2>1 DEF Login, CreateSession
  <2>3. \A t \in Session : Kept(session[t], session'[t])
    BY <1>1, <1>2, <1>3 DEF Login, CreateSession, NoSession, Kept
  <2> QED BY <1>1, <1>3, <2>2, <2>3, LateKept DEF Login
<1>4. ASSUME NEW c \in Client, NEW s \in Session, Arrive(c, s)
      PROVE  SessionInv'
  <2>1. PICK late \in BOOLEAN :
           late = (session[s].revoked # {} \/ now >= session[s].expires)
    <3>1. (session[s].revoked # {} \/ now >= session[s].expires) \in BOOLEAN
      OBVIOUS
    <3> QED BY <3>1, Zenon
  <2>2. visit' = [visit EXCEPT ![c] = [stage |-> "arrived", session |-> s, late |-> late]]
        /\ now' = now /\ session' = session
    BY <1>4, <2>1, Zenon DEF Arrive
  <2>3. visit' \in [Client -> VisitType]
    BY <1>1, <2>2, VisitMembers
  <2>4. session[s].state # "none" /\ (late => Over(session[s], now))
    BY <1>4, <2>1 DEF Arrive, Over
  <2>5. LateStaysLate'
    BY <1>1, <2>2, <2>4 DEF SessionInv, LateStaysLate
  <2> QED BY <1>1, <2>2, <2>3, <2>5 DEF SessionInv, SessionTypeOK
<1>5. ASSUME NEW c \in Client, Authenticate(c)
      PROVE  SessionInv'
  <2>1. visit[c].session \in Session /\ visit[c].late \in BOOLEAN /\ visit[c].stage = "arrived"
    BY <1>1, <1>5, VisitFields DEF Authenticate
  <2>2. ~Over(session[visit[c].session], now) /\ ~visit[c].late
    BY <1>1, <1>5, <2>1 DEF Authenticate, Found, Usable, Over, SessionRow,
                            SessionInv, LateStaysLate
  <2>3. visit' = [visit EXCEPT ![c] = [stage |-> "checked", session |-> visit[c].session,
                     late |-> visit[c].late, row |-> session[visit[c].session], at |-> now]]
        /\ now' = now /\ session' = session
    BY <1>5 DEF Authenticate
  <2>4. visit' \in [Client -> VisitType]
    BY <1>1, <2>1, <2>3, VisitMembers
  <2>5. \A d \in Client : visit'[d] = visit[d] \/ (visit'[d].stage = "checked" /\ ~visit'[d].late)
    BY <1>1, <2>2, <2>3
  <2> QED BY <1>1, <1>2, <2>3, <2>4, <2>5, LateKept
<1>6. ASSUME NEW c \in Client, TouchLastSeen(c)
      PROVE  SessionInv'
  <2>1. /\ visit[c].session \in Session /\ visit[c].late \in BOOLEAN /\ ~visit[c].late
        /\ visit[c].at \in Nat
    BY <1>1, <1>6, VisitFields DEF TouchLastSeen, SessionInv, LateStaysLate
  <2>2. visit' = [visit EXCEPT ![c] =
                    [stage |-> "in", session |-> visit[c].session, late |-> visit[c].late]]
        /\ now' = now
    BY <1>6 DEF TouchLastSeen
  <2>3. visit' \in [Client -> VisitType]
    BY <1>1, <2>1, <2>2, VisitMembers
  <2>4. \A d \in Client : visit'[d] = visit[d] \/ (visit'[d].stage = "in" /\ ~visit'[d].late)
    BY <1>1, <2>1, <2>2
  <2>5. session' = session \/ session' = [session EXCEPT ![visit[c].session].seen = visit[c].at]
    BY <1>6 DEF TouchLastSeen, Touch
  <2>6. session' \in [Session -> SessionRow] /\ \A t \in Session : Kept(session[t], session'[t])
    BY <1>1, <1>2, <2>1, <2>5 DEF SessionRow, Kept
  <2> QED BY <1>1, <2>2, <2>3, <2>4, <2>6, LateKept
<1>7. ASSUME NEW c \in Client, Logout(c)
      PROVE  SessionInv'
  <2>1. /\ visit[c].session \in Session
        /\ visit' = [visit EXCEPT ![c] = Away] /\ now' = now
        /\ session' = [session EXCEPT ![visit[c].session].revoked = {now}]
    BY <1>1, <1>7, VisitFields DEF Logout, Revoke
  <2>2. visit' \in [Client -> VisitType] /\ Away.stage = "away"
    BY <1>1, <2>1, VisitMembers DEF Away, VisitType
  <2>3. \A d \in Client : visit'[d] = visit[d] \/ visit'[d].stage = "away"
    BY <1>1, <2>1, <2>2
  <2>4. session' \in [Session -> SessionRow] /\ \A t \in Session : Kept(session[t], session'[t])
    BY <1>1, <1>2, <2>1 DEF SessionRow, Kept
  <2> QED BY <1>1, <2>1, <2>2, <2>3, <2>4, LateKept
<1>8. ASSUME NEW c \in Client, EndVisit(c), UNCHANGED now
      PROVE  SessionInv'
  <2>1. visit' = [visit EXCEPT ![c] = Away] /\ session' = session
    BY <1>8 DEF EndVisit
  <2>2. visit' \in [Client -> VisitType] /\ Away.stage = "away"
    BY <1>1, <2>1 DEF Away, VisitType
  <2>3. \A d \in Client : visit'[d] = visit[d] \/ visit'[d].stage = "away"
    BY <1>1, <2>1, <2>2
  <2> QED BY <1>1, <1>2, <1>8, <2>1, <2>2, <2>3, LateKept
<1>9. CASE PurgeExpiredSessions
  <2>1. [NoSession EXCEPT !.state = "purged"] \in SessionRow
        /\ [NoSession EXCEPT !.state = "purged"].state = "purged"
    BY DEF NoSession, SessionRow
  <2>2. session' \in [Session -> SessionRow] /\ \A t \in Session : Kept(session[t], session'[t])
    BY <1>1, <1>2, <1>9, <2>1 DEF PurgeExpiredSessions, Kept
  <2> QED BY <1>1, <1>9, <2>2, LateKept DEF PurgeExpiredSessions
<1>10. CASE Tick /\ UNCHANGED sessionVars
  <2>1. now' \in Nat /\ now' >= now /\ session' = session /\ visit' = visit
    BY <1>1, <1>10 DEF Tick, sessionVars
  <2> QED BY <1>1, <1>2, <2>1, LateKept
<1> QED BY <1>3, <1>4, <1>5, <1>6, <1>7, <1>8, <1>9, <1>10 DEF SessionNext

LEMMA SessionInvHolds == Spec => []SessionInv
<1>1. Init => SessionInv
  BY SessionInit_Inv
<1>2. SessionInv /\ [Next]_vars => SessionInv'
  <2> SUFFICES ASSUME SessionInv, [Next]_vars PROVE SessionInv'
    OBVIOUS
  <2>1. CASE SessionNext
    BY <2>1, SessionNextKeeps
  <2>2. CASE UNCHANGED <<now, sessionVars>>
    BY <2>2 DEF sessionVars, SessionInv, SessionTypeOK, LateStaysLate, Over
  <2> QED BY <2>1, <2>2, SessionSteps
<1> QED BY <1>1, <1>2, PTL DEF Spec

(* README.md:40: nobody who came after a logout, an expiry or a purge is     *)
(* authenticated, although TouchLastSeen still writes to the row.            *)
THEOREM LogoutsTakeEffect == Spec => []LogoutEffective
<1>1. SessionInv => LogoutEffective
  BY DEF SessionInv, LateStaysLate, LogoutEffective
<1> QED BY <1>1, SessionInvHolds, PTL

(* What a step may do to the row of a session that is live.                  *)
Ends(old, new) ==
  \/ /\ new.state = "live" /\ new.expires = old.expires
     /\ old.revoked # {} => new.revoked = old.revoked
  \/ new.state = "purged" /\ old.expires < now

LEMMA SessionsEnd ==
  ASSUME SessionInv, [Next]_vars, NEW s \in Session, session[s].state = "live"
  PROVE  Ends(session[s], session'[s])
<1>1. /\ session \in [Session -> SessionRow] /\ session[s] \in SessionRow
      /\ visit \in [Client -> VisitType]
  BY DEF SessionInv, SessionTypeOK
<1>2. session'[s] = session[s] => Ends(session[s], session'[s])
  BY DEF Ends
<1>3. ASSUME NEW t \in Session, Login(t)
      PROVE  session'[s] = session[s]
  BY <1>1, <1>3 DEF Login, CreateSession, NoSession
<1>4. ASSUME NEW c \in Client, TouchLastSeen(c)
      PROVE  Ends(session[s], session'[s])
  BY <1>1, <1>4 DEF TouchLastSeen, Touch, Ends, SessionRow
<1>5. ASSUME NEW c \in Client, Logout(c)
      PROVE  Ends(session[s], session'[s])
  BY <1>1, <1>5 DEF Logout, Revoke, Ends, SessionRow
<1>6. CASE PurgeExpiredSessions
  BY <1>1, <1>2, <1>6 DEF PurgeExpiredSessions, Stale, Found, NoSession, Ends
<1>7. \/ UNCHANGED session \/ PurgeExpiredSessions
      \/ \E t \in Session : Login(t)
      \/ \E c \in Client : TouchLastSeen(c) \/ Logout(c)
  BY SessionSteps DEF SessionNext, Arrive, Authenticate, EndVisit, sessionVars
<1> QED BY <1>2, <1>3, <1>4, <1>5, <1>6, <1>7

(* A revoked session stays revoked, with its first timestamp, and only an    *)
(* expired one is deleted (sessions.Revoke, TouchLastSeen, PurgeExpired).    *)
THEOREM SessionsEndOnce == Spec => SessionsOnlyEnd
<1>1. SessionInv /\ [Next]_vars =>
        [\A s \in Session : session[s].state = "live" =>
           \/ /\ session'[s].state = "live"
              /\ session'[s].expires = session[s].expires
              /\ session[s].revoked # {} => session'[s].revoked = session[s].revoked
           \/ session'[s].state = "purged" /\ session[s].expires < now]_<<now, sessionVars>>
  BY SessionsEnd DEF Ends
<1> QED BY <1>1, SessionInvHolds, PTL DEF Spec, SessionsOnlyEnd
-----------------------------------------------------------------------------

ProfileType ==
       {NoEdit}
  \cup [op : {"save"}, member : Member, read : Status \cup {"none"}]
  \cup [op : {"set"}, member : Member, target : Status]

ProfileInv ==
  /\ status \in [Member -> Status \cup {"none"}]
  /\ edit \in [Client -> ProfileType]
  /\ ActiveHasCriteria

ProfileNext ==
  \/ \E m \in Member : RegisterMember(m)
  \/ \E c \in Client :
       \/ \E m \in Member : SaveRead(c, m)
       \/ \E m \in Member, role \in {"staff", "member"}, target \in Status :
            SetRead(c, m, role, target)
       \/ SavePreference(c) \/ SetStatus(c) \/ Forget(c)

LEMMA ProfileSteps ==
  ASSUME SessionInv, [Next]_vars
  PROVE  ProfileNext \/ UNCHANGED profileVars
<1>1. \A c \in Client : visit[c] \in VisitType
  BY DEF SessionInv, SessionTypeOK
<1>2. ASSUME NEW c \in Client, EditProfile(c)
      PROVE  ProfileNext
  <2>1. CASE SavePreference(c) \/ SetStatus(c)
    BY <2>1 DEF ProfileNext
  <2>2. CASE Ready(c)
    <3>1. visit[c].session \in Session
      BY <1>1, <2>2, VisitFields DEF Ready
    <3>2. Owner[visit[c].session] \subseteq Member
      BY <3>1, OwnerAssumption
    <3>3. Role(visit[c].session) \in {"staff", "member"}
      BY DEF Role
    <3> QED BY <1>2, <3>2, <3>3 DEF EditProfile, ProfileNext
  <2> QED BY <1>2, <2>1, <2>2 DEF EditProfile
<1>3. ASSUME NEW c \in Client, Leave(c)
      PROVE  ProfileNext
  BY <1>3 DEF Leave, ProfileNext
<1>4. ASSUME NEW m \in Member, RegisterMember(m)
      PROVE  ProfileNext
  BY <1>4 DEF ProfileNext
<1>5. CASE UNCHANGED vars
  BY <1>5 DEF vars
<1> QED BY <1>2, <1>3, <1>4, <1>5 DEF Next, Authentication, Idempotent

LEMMA EditFields ==
  ASSUME NEW e \in ProfileType
  PROVE  /\ e.op = "save" => e.member \in Member
         /\ e.op = "set" => e.member \in Member /\ e.target \in Status
         /\ NoEdit \in ProfileType
BY DEF ProfileType, NoEdit

LEMMA ProfileNextKeeps ==
  ASSUME ProfileInv, ProfileNext
  PROVE  ProfileInv'
<1>1. /\ status \in [Member -> Status \cup {"none"}] /\ edit \in [Client -> ProfileType]
      /\ \A c \in Client : edit[c] \in ProfileType
  BY DEF ProfileInv
<1>2. {"onboarding", "active"} \subseteq Status /\ NoEdit \in ProfileType
  BY DEF Status, ProfileType
<1>3. ASSUME NEW m \in Member, RegisterMember(m)
      PROVE  ProfileInv'
  BY <1>1, <1>2, <1>3 DEF RegisterMember, ProfileInv, ActiveHasCriteria
<1>4. ASSUME NEW c \in Client, NEW m \in Member, SaveRead(c, m)
      PROVE  ProfileInv'
  <2>1. [op |-> "save", member |-> m, read |-> status[m]] \in ProfileType
    BY <1>1 DEF ProfileType
  <2> QED BY <1>1, <1>4, <2>1 DEF SaveRead, ProfileInv, ActiveHasCriteria
<1>5. ASSUME NEW c \in Client, NEW m \in Member, NEW role \in {"staff", "member"},
             NEW target \in Status, SetRead(c, m, role, target)
      PROVE  ProfileInv'
  <2>1. [op |-> "set", member |-> m, target |-> target] \in ProfileType
    BY DEF ProfileType
  <2> QED BY <1>1, <1>5, <2>1 DEF SetRead, ProfileInv, ActiveHasCriteria
<1>6. ASSUME NEW c \in Client, SavePreference(c)
      PROVE  ProfileInv'
  <2>1. edit[c].member \in Member
    BY <1>1, <1>6, EditFields DEF SavePreference
  <2>2. edit' = [edit EXCEPT ![c] = NoEdit] /\ criteria' = criteria \cup {edit[c].member}
    BY <1>6 DEF SavePreference, SaveCriteria
  <2>3. \/ status' = [status EXCEPT ![edit[c].member] = "active"]
        \/ status' = status
    BY <1>6 DEF SavePreference, UpdateStatus
  <2> QED BY <1>1, <1>2, <2>1, <2>2, <2>3 DEF ProfileInv, ActiveHasCriteria
<1>7. ASSUME NEW c \in Client, SetStatus(c)
      PROVE  ProfileInv'
  <2>1. edit[c].member \in Member /\ edit[c].target \in Status
    BY <1>1, <1>7, EditFields DEF SetStatus
  <2>2. /\ edit' = [edit EXCEPT ![c] = NoEdit] /\ criteria' = criteria
        /\ status' = [status EXCEPT ![edit[c].member] = edit[c].target]
        /\ edit[c].target = "active" => edit[c].member \in criteria
    BY <1>7 DEF SetStatus, UpdateStatus, Activatable
  <2> QED BY <1>1, <1>2, <2>1, <2>2 DEF ProfileInv, ActiveHasCriteria
<1>8. ASSUME NEW c \in Client, Forget(c)
      PROVE  ProfileInv'
  BY <1>1, <1>2, <1>8 DEF Forget, ProfileInv, ActiveHasCriteria
<1> QED BY <1>3, <1>4, <1>5, <1>6, <1>7, <1>8 DEF ProfileNext

LEMMA ProfileInvHolds == Spec => []ProfileInv
<1>1. Init => ProfileInv
  BY DEF Init, ProfileInit, ProfileInv, ProfileType, Status, ActiveHasCriteria
<1>2. SessionInv /\ ProfileInv /\ [Next]_vars => ProfileInv'
  <2> SUFFICES ASSUME SessionInv, ProfileInv, [Next]_vars PROVE ProfileInv'
    OBVIOUS
  <2>1. CASE ProfileNext
    BY <2>1, ProfileNextKeeps
  <2>2. CASE UNCHANGED profileVars
    BY <2>2 DEF profileVars, ProfileInv, ActiveHasCriteria
  <2> QED BY <2>1, <2>2, ProfileSteps
<1> QED BY <1>1, <1>2, SessionInvHolds, PTL DEF Spec

(* A profile that takes part in matching has criteria, in whatever order     *)
(* SavePreference and SetStatus read and write it.                           *)
THEOREM ActiveProfilesHaveCriteria == Spec => []ActiveHasCriteria
<1>1. ProfileInv => ActiveHasCriteria
  BY DEF ProfileInv
<1> QED BY <1>1, ProfileInvHolds, PTL
-----------------------------------------------------------------------------

Outcome == [key : Key, payload : Payload, by : Client, result : {"done"}]

RecordType ==
       {NoRecord}
  \cup [state : {"stored"}, payload : Payload, outcome : Outcome, expires : Nat]

CallType ==
       {NoCall}
  \cup [stage : {"perform"}, key : Key, payload : Payload]
  \cup [stage : {"remember"}, key : Key, payload : Payload, outcome : Outcome]
  \cup [stage : {"answered"}, key : Key, payload : Payload, outcome : Outcome,
        replayed : BOOLEAN]

(* An outcome that took effect for this key and payload.                     *)
Effected(outcome, k, payload) ==
  outcome \in performed /\ outcome.key = k /\ outcome.payload = payload

(* What is in flight, recorded or answered took effect for its key.          *)
ReplayInv ==
  /\ now \in Nat
  /\ stored \in [Key -> RecordType]
  /\ call \in [Client -> CallType]
  /\ \A c \in Client : call[c].stage \in {"remember", "answered"} =>
       Effected(call[c].outcome, call[c].key, call[c].payload)
  /\ \A k \in Key : stored[k] # NoRecord =>
       Effected(stored[k].outcome, k, stored[k].payload)

LEMMA CallFields ==
  ASSUME NEW r \in CallType
  PROVE  /\ r.stage # "none" => r.key \in Key /\ r.payload \in Payload
         /\ r.stage \in {"remember", "answered"} => r.outcome \in Outcome
         /\ NoCall \in CallType /\ NoCall.stage = "none"
BY DEF CallType, NoCall

LEMMA RecordFields ==
  ASSUME NEW r \in RecordType, r # NoRecord
  PROVE  r.payload \in Payload /\ r.outcome \in Outcome /\ r.expires \in Nat
BY DEF RecordType, NoRecord

(* The steps of replay protection, and of the clock.                         *)
ReplayStep(c) ==
  \/ \E k \in Key, payload \in Payload :
       (Miss(c, k, payload) \/ Replayed(c, k, payload)) /\ UNCHANGED performed
  \/ Succeed(c, "done") /\ performed' = performed \cup {call'[c].outcome}
  \/ (Remember(c) \/ (Drop(c) /\ UNCHANGED now)) /\ UNCHANGED performed

ReplayNext ==
  \/ \E c \in Client : ReplayStep(c)
  \/ Sweep /\ UNCHANGED performed
  \/ now' \in {now, now + 1} /\ UNCHANGED <<stored, call, performed>>

LEMMA ReplaySteps ==
  ASSUME [Next]_vars
  PROVE  ReplayNext
<1>1. CASE UNCHANGED vars
  BY <1>1 DEF vars, replayVars, ReplayNext
<1>2. ASSUME NEW c \in Client, Authentication(c)
      PROVE  ReplayNext
  <2>1. now' = now
    BY <1>2 DEF Authentication, Arrive, Authenticate, TouchLastSeen, Logout
  <2> QED BY <1>2, <2>1 DEF Authentication, replayVars, ReplayNext
<1>3. ASSUME NEW c \in Client, Idempotent(c)
      PROVE  ReplayNext
  BY <1>3 DEF Idempotent, ReplayStep, ReplayNext
<1>4. ASSUME NEW c \in Client, EditProfile(c)
      PROVE  ReplayNext
  BY <1>4 DEF EditProfile, replayVars, ReplayNext
<1>5. ASSUME NEW c \in Client, Leave(c)
      PROVE  ReplayNext
  BY <1>5 DEF Leave, ReplayStep, ReplayNext
<1>6. CASE Sweep /\ UNCHANGED <<sessionVars, profileVars, performed>>
  BY <1>6 DEF ReplayNext
<1>7. CASE \E s \in Session : Login(s) /\ UNCHANGED <<replayVars, profileVars, performed>>
  BY <1>7 DEF Login, replayVars, ReplayNext
<1>8. CASE \E m \in Member : RegisterMember(m) /\ UNCHANGED <<now, sessionVars, replayVars, performed>>
  BY <1>8 DEF replayVars, ReplayNext
<1>9. CASE PurgeExpiredSessions /\ UNCHANGED <<replayVars, profileVars, performed>>
  BY <1>9 DEF PurgeExpiredSessions, replayVars, ReplayNext
<1>10. CASE Tick /\ UNCHANGED <<sessionVars, replayVars, profileVars, performed>>
  BY <1>10 DEF Tick, replayVars, ReplayNext
<1> QED BY <1>1, <1>2, <1>3, <1>4, <1>5, <1>6, <1>7, <1>8, <1>9, <1>10 DEF Next

LEMMA ReplayNextKeeps ==
  ASSUME ReplayInv, ReplayNext
  PROVE  ReplayInv'
<1>1. /\ now \in Nat /\ stored \in [Key -> RecordType] /\ call \in [Client -> CallType]
      /\ \A c \in Client : call[c] \in CallType
      /\ \A k \in Key : stored[k] \in RecordType
  BY DEF ReplayInv
<1>2. performed \subseteq performed' => \A o, k, payload :
        Effected(o, k, payload) => Effected(o, k, payload)'
  BY DEF Effected
<1>3. ASSUME NEW c \in Client, NEW k \in Key, NEW payload \in Payload,
             Miss(c, k, payload), UNCHANGED performed
      PROVE  ReplayInv'
  <2> DEFINE r == [stage |-> "perform", key |-> k, payload |-> payload]
  <2>1. r \in CallType /\ r.stage = "perform"
    BY DEF CallType
  <2>2. call' = [call EXCEPT ![c] = r] /\ now' = now /\ stored' = stored /\ performed' = performed
    BY <1>3 DEF Miss
  <2> HIDE DEF r
  <2> QED BY <1>1, <2>1, <2>2 DEF ReplayInv, Effected
<1>4. ASSUME NEW c \in Client, NEW k \in Key, NEW payload \in Payload,
             Replayed(c, k, payload), UNCHANGED performed
      PROVE  ReplayInv'
  <2> DEFINE r == [stage |-> "answered", key |-> k, payload |-> payload,
                   outcome |-> stored[k].outcome, replayed |-> TRUE]
  <2>1. stored[k] # NoRecord /\ stored[k].payload = payload
    BY <1>4 DEF Replayed, Matches
  <2>2. stored[k].outcome \in Outcome /\ Effected(stored[k].outcome, k, payload)
    BY <1>1, <2>1, RecordFields DEF ReplayInv
  <2>3. /\ r \in CallType /\ r.outcome = stored[k].outcome /\ r.key = k
        /\ r.payload = payload
    BY <2>2 DEF CallType
  <2>4. call' = [call EXCEPT ![c] = r] /\ now' = now /\ stored' = stored /\ performed' = performed
    BY <1>4 DEF Replayed, Respond
  <2> HIDE DEF r
  <2> QED BY <1>1, <2>2, <2>3, <2>4 DEF ReplayInv, Effected
<1>5. ASSUME NEW c \in Client, Succeed(c, "done"),
             performed' = performed \cup {call'[c].outcome}
      PROVE  ReplayInv'
  <2>1. PICK q \in CallType : q = call[c]
    BY <1>1
  <2>2. q.stage = "perform" /\ q.key \in Key /\ q.payload \in Payload
    BY <1>5, <2>1, CallFields DEF Succeed
  <2>3. PICK o \in Outcome : o = [key |-> q.key, payload |-> q.payload, by |-> c,
                                 result |-> "done"]
    BY <2>2 DEF Outcome
  <2>4. o.key = q.key /\ o.payload = q.payload
    BY <2>3
  <2>5. PICK r \in CallType : r = [stage |-> "remember", key |-> q.key,
                                  payload |-> q.payload, outcome |-> o]
    BY <2>2, <2>3 DEF CallType
  <2>6. r.outcome = o /\ r.key = q.key /\ r.payload = q.payload
    BY <2>5
  <2>7. call' = [call EXCEPT ![c] = r] /\ now' = now /\ stored' = stored
    BY <1>5, <2>1, <2>3, <2>5 DEF Succeed
  <2>8. call'[c] = r /\ performed' = performed \cup {o}
    BY <1>1, <1>5, <2>6, <2>7
  <2>9. Effected(r.outcome, r.key, r.payload)'
    BY <2>4, <2>6, <2>8 DEF Effected
  <2>10. ASSUME NEW d \in Client, call'[d].stage \in {"remember", "answered"}
         PROVE  Effected(call[d].outcome, call[d].key, call[d].payload)'
    BY <1>1, <2>7, <2>8, <2>9, <2>10 DEF ReplayInv, Effected
  <2>11. \A k \in Key : stored'[k] # NoRecord =>
          Effected(stored[k].outcome, k, stored[k].payload)'
    BY <1>1, <2>7, <2>8 DEF ReplayInv, Effected
  <2> QED BY <1>1, <2>7, <2>10, <2>11 DEF ReplayInv, Effected
<1>6. ASSUME NEW c \in Client, Remember(c), UNCHANGED performed
      PROVE  ReplayInv'
  <2>1. PICK q \in CallType : q = call[c]
    BY <1>1
  <2>2. /\ q.stage = "remember" /\ q.key \in Key /\ q.payload \in Payload /\ q.outcome \in Outcome
        /\ Effected(q.outcome, q.key, q.payload)
    BY <1>6, <2>1, CallFields DEF Remember, ReplayInv
  <2> DEFINE r == [stage |-> "answered", key |-> q.key, payload |-> q.payload,
                   outcome |-> q.outcome, replayed |-> FALSE]
             row == [state |-> "stored", payload |-> q.payload, outcome |-> q.outcome,
                     expires |-> now + KeyTTL]
  <2>3. /\ call' = [call EXCEPT ![c] = r] /\ now' = now /\ performed' = performed
        /\ \/ stored' = [stored EXCEPT ![q.key] = row]
           \/ stored' = stored
    BY <1>6, <2>1 DEF Remember, Put, Respond
  <2>4. r \in CallType /\ r.outcome = q.outcome /\ r.key = q.key /\ r.payload = q.payload
    BY <2>2 DEF CallType
  <2>5. row \in RecordType /\ row.outcome = q.outcome /\ row.payload = q.payload
    BY <1>1, <2>2, KeyAssumption DEF RecordType
  <2> HIDE DEF r, row
  <2>6. stored' \in [Key -> RecordType]
    BY <1>1, <2>2, <2>3, <2>5
  <2>7. \A k \in Key : stored'[k] # NoRecord =>
          Effected(stored'[k].outcome, k, stored'[k].payload)
    BY <1>1, <2>2, <2>3, <2>5 DEF ReplayInv
  <2>8. \A d \in Client : call'[d].stage \in {"remember", "answered"} =>
          Effected(call'[d].outcome, call'[d].key, call'[d].payload)
    BY <1>1, <2>2, <2>3, <2>4 DEF ReplayInv
  <2>9. call' \in [Client -> CallType]
    BY <1>1, <2>3, <2>4
  <2> QED BY <1>1, <2>3, <2>6, <2>7, <2>8, <2>9 DEF ReplayInv, Effected
<1>7. ASSUME NEW c \in Client, Drop(c), UNCHANGED <<now, performed>>
      PROVE  ReplayInv'
  <2>1. NoCall \in CallType /\ NoCall.stage = "none"
    BY DEF CallType, NoCall
  <2>2. call' = [call EXCEPT ![c] = NoCall] /\ stored' = stored
    BY <1>7 DEF Drop
  <2> QED BY <1>1, <1>7, <2>1, <2>2 DEF ReplayInv, Effected
<1>8. CASE Sweep /\ UNCHANGED performed
  <2>1. stored' = [k \in Key |-> IF Outdated(k) THEN NoRecord ELSE stored[k]]
        /\ now' = now /\ call' = call /\ performed' = performed
    BY <1>8 DEF Sweep
  <2>2. NoRecord \in RecordType
    BY DEF RecordType
  <2>3. stored' \in [Key -> RecordType]
        /\ \A k \in Key : stored'[k] # NoRecord => stored'[k] = stored[k]
    BY <1>1, <2>1, <2>2
  <2> QED BY <1>1, <2>1, <2>3 DEF ReplayInv, Effected
<1>9. CASE now' \in {now, now + 1} /\ UNCHANGED <<stored, call, performed>>
  BY <1>1, <1>9 DEF ReplayInv, Effected
<1> QED BY <1>3, <1>4, <1>5, <1>6, <1>7, <1>8, <1>9 DEF ReplayNext, ReplayStep

LEMMA ReplayInvHolds == Spec => []ReplayInv
<1>1. Init => ReplayInv
  BY DEF Init, ReplayInit, ReplayInv, RecordType, CallType, NoCall
<1>2. ReplayInv /\ [Next]_vars => ReplayInv'
  BY ReplaySteps, ReplayNextKeeps
<1> QED BY <1>1, <1>2, PTL DEF Spec

(* A replay is the outcome of an operation that took effect for this very    *)
(* key and payload (Guard.Lookup, Guard.Remember).                           *)
THEOREM ReplaysAreFaithful == Spec => []ReplaysFaithful
<1>1. ReplayInv => ReplaysFaithful
  BY DEF ReplayInv, Effected, ReplaysFaithful
<1> QED BY <1>1, ReplayInvHolds, PTL

LEMMA RecordsStay ==
  ASSUME ReplayInv, [Next]_vars, NEW k \in Key, stored[k] # NoRecord
  PROVE  stored'[k] = stored[k] \/ (stored'[k] = NoRecord /\ stored[k].expires < now)
<1>1. stored \in [Key -> RecordType]
  BY DEF ReplayInv
<1>2. ASSUME NEW c \in Client, Remember(c)
      PROVE  stored'[k] = stored[k]
  BY <1>1, <1>2 DEF Remember, Put
<1>3. CASE Sweep
  BY <1>1, <1>3 DEF Sweep, Outdated
<1>4. UNCHANGED stored \/ Sweep \/ \E c \in Client : Remember(c)
  BY ReplaySteps DEF ReplayNext, ReplayStep, Miss, Replayed, Succeed, Drop
<1> QED BY <1>2, <1>3, <1>4

(* The first outcome recorded under a key is the one every later call gets   *)
(* until it has expired: the insert of Remember does not overwrite.          *)
THEOREM FirstOutcomeStays == Spec => StoredOutcomeStable
<1>1. ReplayInv /\ [Next]_vars =>
        [\A k \in Key : stored[k] # NoRecord =>
           stored'[k] = stored[k] \/ (stored'[k] = NoRecord /\ stored[k].expires < now)
        ]_<<now, replayVars>>
  BY RecordsStay
<1> QED BY <1>1, ReplayInvHolds, PTL DEF Spec, StoredOutcomeStable
==============================================================================
