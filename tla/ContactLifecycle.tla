-------------------------- MODULE ContactLifecycle --------------------------
(***************************************************************************)
(* The pure rules of a contact's life: the transition table and the        *)
(* predicates of mailer_agent/state_machine.py, and the scheduling rules   *)
(* of followup/conversation_aware.py.  next_action_at is one of "none",    *)
(* "due" (not in the future) and "later".                                  *)
(***************************************************************************)
EXTENDS Naturals, Sequences

Status == {"new", "active", "replied", "engaged", "qualifying", "evaluating",
           "meeting_requested", "meeting_scheduled", "negotiating", "nurture",
           "sequence_complete", "closed_won", "closed_lost", "suppressed",
           "paused", "needs_review"}

\* The edges out of each status: <<event, new status>>.
STATE_TRANSITIONS(s) ==
  CASE s = "new" ->
         {<<"initial_sent", "active">>, <<"manual_pause", "paused">>,
          <<"needs_human", "needs_review">>}
    [] s = "active" ->
         {<<"followup_sent", "active">>, <<"reply_received", "replied">>,
          <<"sequence_exhausted", "sequence_complete">>,
          <<"manual_pause", "paused">>, <<"manual_won", "closed_won">>,
          <<"manual_lost", "closed_lost">>, <<"needs_human", "needs_review">>}
    [] s = "replied" ->
         {<<"positive_interest", "engaged">>, <<"meeting_requested", "meeting_requested">>,
          <<"objection_raised", "engaged">>, <<"not_interested", "closed_lost">>,
          <<"unsubscribed", "suppressed">>, <<"out_of_office", "active">>,
          <<"needs_human", "needs_review">>, <<"followup_sent", "active">>}
    [] s = "engaged" ->
         {<<"reply_received", "replied">>, <<"meeting_requested", "meeting_requested">>,
          <<"pricing_discussed", "evaluating">>, <<"not_interested", "closed_lost">>,
          <<"unsubscribed", "suppressed">>, <<"objection_raised", "engaged">>,
          <<"manual_won", "closed_won">>, <<"manual_lost", "closed_lost">>}
    [] s = "evaluating" ->
         {<<"reply_received", "replied">>, <<"meeting_requested", "meeting_requested">>,
          <<"positive_interest", "negotiating">>, <<"not_interested", "closed_lost">>,
          <<"unsubscribed", "suppressed">>, <<"manual_won", "closed_won">>,
          <<"manual_lost", "closed_lost">>}
    [] s = "meeting_requested" ->
         {<<"meeting_confirmed", "meeting_scheduled">>, <<"reply_received", "replied">>,
          <<"not_interested", "closed_lost">>, <<"unsubscribed", "suppressed">>,
          <<"needs_human", "needs_review">>}
    [] s = "meeting_scheduled" ->
         {<<"positive_interest", "negotiating">>, <<"not_interested", "closed_lost">>,
          <<"manual_won", "closed_won">>, <<"manual_lost", "closed_lost">>}
    [] s = "negotiating" ->
         {<<"reply_received", "replied">>, <<"manual_won", "closed_won">>,
          <<"manual_lost", "closed_lost">>, <<"not_interested", "closed_lost">>}
    [] s = "nurture" ->
         {<<"reply_received", "replied">>, <<"positive_interest", "engaged">>,
          <<"manual_resume", "active">>, <<"not_interested", "closed_lost">>,
          <<"unsubscribed", "suppressed">>}
    [] s = "sequence_complete" ->
         {<<"reply_received", "replied">>, <<"manual_resume", "active">>,
          <<"manual_won", "closed_won">>, <<"manual_lost", "closed_lost">>}
    [] s = "needs_review" ->
         {<<"manual_resume", "active">>, <<"manual_won", "closed_won">>,
          <<"manual_lost", "closed_lost">>, <<"manual_pause", "paused">>}
    [] s = "paused" ->
         {<<"manual_resume", "active">>, <<"manual_won", "closed_won">>,
          <<"manual_lost", "closed_lost">>}
    [] s = "closed_lost" -> {<<"manual_resume", "active">>}
    [] OTHER -> {}

Allowed(s, event) == \E edge \in STATE_TRANSITIONS(s) : edge[1] = event

\* The status after the event: unchanged, without an error, where the table has no edge.
transition_contact_state(s, event) ==
  IF Allowed(s, event)
  THEN (CHOOSE edge \in STATE_TRANSITIONS(s) : edge[1] = event)[2]
  ELSE s

\* The first intent of this order that the reply has decides the event.
IntentEvents ==
  <<<<"unsubscribe", "unsubscribed">>, <<"not_interested", "not_interested">>,
    <<"out_of_office", "out_of_office">>, <<"meeting_request", "meeting_requested">>,
    <<"pricing_request", "pricing_discussed">>,
    <<"positive_interest", "positive_interest">>, <<"objection", "objection_raised">>>>

infer_event_from_semantic_intent(intents) ==
  LET known == {i \in DOMAIN IntentEvents : IntentEvents[i][1] \in intents}
  IN  IF known = {} THEN "reply_received"
      ELSE IntentEvents[CHOOSE i \in known : \A j \in known : i <= j][2]

should_cancel_scheduled_followup(s) ==
  s \in {"replied", "engaged", "evaluating", "meeting_requested", "meeting_scheduled",
         "negotiating", "needs_review", "closed_won", "closed_lost", "suppressed",
         "paused"}

\* The last follow-up of the cadence counts as used up before it was sent.
CadenceOneShort(s, index, cadence) ==
  IF should_cancel_scheduled_followup(s) \/ index + 1 >= cadence THEN "none" ELSE "later"

\* compute_next_followup: nothing once the conversation moved on or the cadence
\* (campaign.follow_up_days) is used up.
compute_next_followup(s, index, cadence) ==
  IF should_cancel_scheduled_followup(s) \/ index >= cadence THEN "none" ELSE "later"

\* reschedule_after_reply: a requested time is taken as it is, past ("due") or ahead, and
\* a long-term prospect waits ("later"); otherwise an active conversation is left to a
\* human, and anything else resumes the cadence.
reschedule_after_reply(intents, asked_for) ==
  IF asked_for \in {"due", "later"} THEN asked_for
  ELSE IF intents \cap {"positive_interest", "meeting_request", "pricing_request"} # {}
  THEN "none"
  ELSE "later"

can_send_followup(s, next) == s = "active" /\ next = "due"

\* should_send_followup_now adds that the prospect has not replied within a day.
should_send_followup_now(s, next, recent) == can_send_followup(s, next) /\ ~recent
=============================================================================
