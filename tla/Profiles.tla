------------------------------- MODULE Profiles -------------------------------
(***************************************************************************)
(* The enrollment status of a member.  Both operations read the profile    *)
(* first and decide on what they read; the write that follows compares     *)
(* nothing.                                                                *)
(***************************************************************************)
EXTENDS Clients

CONSTANT Member

VARIABLES status,     \* members.status
          criteria,   \* the members with a member_preferences row
          edit        \* what an operation in flight has read

profileVars == <<status, criteria, edit>>

(* "none": not registered. *)
Status == {"onboarding", "active", "paused", "retired"}
NoEdit == [op |-> "none"]

ProfileInit ==
  /\ status = [m \in Member |-> "none"]
  /\ criteria = {}
  /\ edit = [c \in Client |-> NoEdit]

(* members.UpdateStatus: no condition on the row.                            *)
UpdateStatus(m, target) == status' = [status EXCEPT ![m] = target]

(* members.SavePreference: an upsert.                                        *)
SaveCriteria(m) == criteria' = criteria \cup {m}

(* RegisterMember: the account and its profile, in one transaction.          *)
RegisterMember(m) ==
  /\ status[m] = "none"
  /\ status' = [status EXCEPT ![m] = "onboarding"]
  /\ UNCHANGED <<criteria, edit>>

SaveRead(c, m) ==
  /\ edit[c] = NoEdit
  /\ status[m] # "retired"
  /\ edit' = [edit EXCEPT ![c] = [op |-> "save", member |-> m, read |-> status[m]]]
  /\ UNCHANGED <<status, criteria>>

(* SavePreference: the criteria, and with them the activation of a profile   *)
(* that was onboarding when it was read.                                     *)
SavePreference(c) ==
  LET e == edit[c]
  IN  /\ e.op = "save"
      /\ SaveCriteria(e.member)
      /\ IF e.read = "onboarding" THEN UpdateStatus(e.member, "active")
                                  ELSE UNCHANGED status
      /\ edit' = [edit EXCEPT ![c] = NoEdit]

(* A member may not retire a profile.                                        *)
Allowed(role, target) == role = "staff" \/ target # "retired"

SetRead(c, m, role, target) ==
  /\ edit[c] = NoEdit
  /\ target \in Status
  /\ Allowed(role, target)
  /\ status[m] \notin {target, "retired", "none"}
  /\ edit' = [edit EXCEPT ![c] = [op |-> "set", member |-> m, target |-> target]]
  /\ UNCHANGED <<status, criteria>>

Activatable_Always(m) == TRUE

(* GetPreference: only a profile with criteria can be activated.             *)
Activatable(m) == m \in criteria

SetStatus(c) ==
  LET e == edit[c]
  IN  /\ e.op = "set"
      /\ e.target = "active" => Activatable(e.member)
      /\ UpdateStatus(e.member, e.target)
      /\ edit' = [edit EXCEPT ![c] = NoEdit]
      /\ UNCHANGED criteria

Forget(c) ==
  /\ edit' = [edit EXCEPT ![c] = NoEdit]
  /\ UNCHANGED <<status, criteria>>

(* A profile that takes part in matching has criteria, in whatever order its *)
(* owner and the staff edit it.                                              *)
ActiveHasCriteria == \A m \in Member : status[m] = "active" => m \in criteria

(* membersvc/service.go:142: a retired profile cannot be reactivated.        *)
RetiredIsFinal ==
  [][\A m \in Member : status[m] = "retired" => status'[m] = "retired"]_profileVars
===============================================================================
