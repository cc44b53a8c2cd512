------------------------------ MODULE Lifecycle ------------------------------
(***************************************************************************)
(* The state tables of an introduction ("match"), of its consent rows, of  *)
(* a meetup and of its feedback: the pure decisions the services take.     *)
(* "none" is the state of an identifier no row uses yet.                   *)
(***************************************************************************)
EXTENDS Naturals, FiniteSets

MatchState == {"none", "pending_consent", "consented", "scheduled", "met",
               "closed_success", "closed_failed", "cancelled", "expired"}

MatchEdges ==
  { <<"pending_consent", "consented">>, <<"pending_consent", "cancelled">>,
    <<"pending_consent", "expired">>,   <<"pending_consent", "closed_failed">>,
    <<"consented", "scheduled">>,       <<"consented", "cancelled">>,
    <<"consented", "expired">>,
    <<"scheduled", "met">>,             <<"scheduled", "cancelled">>,
    <<"met", "closed_success">>,        <<"met", "closed_failed">> }

MatchCanTransition(from, to) == <<from, to>> \in MatchEdges

Terminal == {"closed_success", "closed_failed", "cancelled", "expired"}

HoldsQuota_NotScheduled == {"pending_consent", "consented"}

HoldsQuota == {"pending_consent", "consented", "scheduled"}

OccupiesSlot == {"scheduled"}

ActiveStates == {"pending_consent", "consented", "scheduled", "met"}

Decision == {"pending", "accepted", "declined"}

NextState_FirstAccept(answer, pair) ==
  IF \E m \in pair : answer[m] = "declined" THEN "closed_failed"
  ELSE IF \E m \in pair : answer[m] = "accepted" THEN "consented"
  ELSE "pending_consent"

(* SummarizeConsents and NextState of a match that is pending_consent, from *)
(* the answers of its participants.                                         *)
NextState(answer, pair) ==
  IF \E m \in pair : answer[m] = "declined" THEN "closed_failed"
  ELSE IF \A m \in pair : answer[m] = "accepted" THEN "consented"
  ELSE "pending_consent"

MeetupState == {"none", "booked", "checked_in", "completed", "cancelled", "no_show"}

MeetupEdges ==
  { <<"booked", "checked_in">>, <<"booked", "cancelled">>, <<"booked", "no_show">>,
    <<"checked_in", "completed">>, <<"checked_in", "no_show">> }

MeetupCanTransition(from, to) == <<from, to>> \in MeetupEdges

(* The meetups that hold a venue seat and block a second meetup.            *)
HoldsSeat == {"booked", "checked_in", "completed"}

Intent == {"continue", "stop"}

Complete_One(reports) == Cardinality(reports) >= 1

(* FeedbackOutcome.Complete and .MutualContinue of the reports of a meetup, *)
(* given as records with an intent.                                         *)
Complete(reports) == Cardinality(reports) >= 2

MutualContinue(reports) == \A r \in reports : r.intent = "continue"

EntitlementState == {"none", "active", "exhausted", "expired"}
==============================================================================
