------------------------------ MODULE ReplyTurn ------------------------------
(***************************************************************************)
(* One turn of the conversation: what happens to a contact after its reply *)
(* was stored (mail/reply_handler_v2.py _classify_and_apply_inbound).  The *)
(* classifier, the planner and the responder are calls of LlmProvider, an  *)
(* automatic answer is a call of SmtpSender, the contact moves along       *)
(* ContactLifecycle, and the whole turn is one database transaction that   *)
(* the caller commits ("stored") or rolls back ("raised").  The session    *)
(* does not autoflush: nothing of the turn reaches the database before the *)
(* flush at its end, which is after the answer was sent.                   *)
(*                                                                         *)
(* What a model says is a choice over what the code tells apart.  "odd"    *)
(* is well-formed JSON with a field of a type the code does not expect.    *)
(* Settings that are read once are chosen where they are read.             *)
(***************************************************************************)
EXTENDS SmtpSender, LlmProvider, ContactLifecycle

CONSTANT StartStatus   \* the statuses a contact may have when its reply arrives

ASSUME StartStatusAssumption == StartStatus \subseteq Status

VARIABLES turn,         \* where the turn stands
          mail,         \* [optout: an opt-out phrase in the body, auto: Auto-Submitted]
          contact,      \* [status, next]: the row as this session holds it
          managed,      \* contact_is_integration_managed
          sent_before,  \* an outbound message of the contact has status sent
          reading,      \* what the planner and the guardrails still use of the intent
          can_auto_send,
          action,       \* result["action"]
          opted_out,    \* this session has added a SuppressionEntry
          suppressed,   \* a committed SuppressionEntry exists
          answered,     \* history: the stages whose content a model supplied
          raised_by     \* history: what made the turn fail

turn_vars == <<turn, mail, contact, managed, sent_before, reading, can_auto_send, action,
               opted_out, suppressed, answered, raised_by>>
vars == <<turn_vars, llm_vars, smtp_vars>>
facts == <<mail, managed, sent_before>>

NoReading == [held |-> FALSE, pricing |-> FALSE]

TypeOK ==
  /\ SmtpTypeOK
  /\ LlmTypeOK
  /\ turn \in {"received", "classifying", "planning", "drafting", "sending", "finishing",
               "summarizing", "stored", "raised"}
  /\ mail \in [optout : BOOLEAN, auto : BOOLEAN]
  /\ contact \in [status : Status, next : {"none", "due", "later"}]
  /\ {managed, sent_before, can_auto_send, opted_out, suppressed} \subseteq BOOLEAN
  /\ reading \in [held : BOOLEAN, pricing : BOOLEAN]
  /\ answered \subseteq {"classifier", "planner", "responder"}
  /\ raised_by \in {"none", "model", "refused", "database"}

\* A native contact that is new or active may have a next action, due or ahead of it;
\* sent_before is only read for a managed contact.
Init ==
  /\ SmtpInit
  /\ LlmInit
  /\ turn = "received"
  /\ mail \in [optout : BOOLEAN, auto : BOOLEAN]
  /\ managed \in BOOLEAN
  /\ sent_before \in (IF managed THEN BOOLEAN ELSE {FALSE})
  /\ contact \in [status : StartStatus, next : {"none", "due", "later"}]
  /\ contact.next # "none" => contact.status \in {"new", "active"} /\ ~managed
  /\ reading = NoReading
  /\ can_auto_send = FALSE
  /\ action = "none"
  /\ opted_out = FALSE
  /\ suppressed = FALSE
  /\ answered = {}
  /\ raised_by = "none"

-----------------------------------------------------------------------------
\* The handler's ways to move on.

MovesTo(s, next) == contact' = [status |-> s, next |-> next]

\* Step 5 is done without an answer to draft.
Settles(a) ==
  /\ action' = a
  /\ turn' = "finishing"
  /\ can_auto_send' = FALSE
  /\ UNCHANGED <<reading, raised_by, suppressed>>

\* An exception leaves the handler and the caller rolls everything back.
Raises(cause) ==
  /\ turn' = "raised"
  /\ raised_by' = cause
  /\ opted_out' = FALSE
  /\ reading' = NoReading
  /\ UNCHANGED <<contact, can_auto_send, action, suppressed>>

\* NEEDS_HUMAN where the status has such an edge; engaged, evaluating, negotiating,
\* nurture and others have none and keep their status.
Escalated(s) == transition_contact_state(s, "needs_human")

\* _handle_unsubscribe.
Unsubscribes ==
  /\ opted_out' = TRUE
  /\ MovesTo(transition_contact_state(contact.status, "unsubscribed"), "none")
  /\ Settles("suppressed")

\* _advance_integration_contact: INITIAL_SENT first for a contact that was written to,
\* then the event, by way of REPLY_RECEIVED where it has no edge of its own.
advance_integration_contact(s, event) ==
  LET started == IF s = "new" /\ sent_before THEN transition_contact_state(s, "initial_sent") ELSE s
  IN  IF Allowed(started, event) THEN transition_contact_state(started, event)
      ELSE IF Allowed(started, "reply_received")
           THEN transition_contact_state(transition_contact_state(started, "reply_received"), event)
           ELSE started

-----------------------------------------------------------------------------
\* The deterministic checks, only once a model is known to be configured.
ScreenedWithModel ==
  IF key /\ mail.optout THEN "unsubscribe"
  ELSE IF key /\ mail.auto THEN "out_of_office" ELSE "none"

\* _check_unsubscribe_keywords, then _check_auto_submitted_metadata.
screened ==
  IF mail.optout THEN "unsubscribe" ELSE IF mail.auto THEN "out_of_office" ELSE "none"

\* An opt-out in so many words: no model is asked.
ScreenOptOut ==
  /\ turn = "received"
  /\ screened = "unsubscribe"
  /\ Unsubscribes
  /\ UNCHANGED <<facts, answered, llm_vars, smtp_vars>>

\* An autoresponder by its header: recorded, and nothing else.
ScreenAutoReply ==
  /\ turn = "received"
  /\ screened = "out_of_office"
  /\ Settles("ignored_oos")
  /\ UNCHANGED <<facts, contact, opted_out, answered, llm_vars, smtp_vars>>

CallClassifier ==
  /\ turn = "received"
  /\ screened = "none"
  /\ key
  /\ turn' = "classifying"
  /\ CallLlm(FALSE)
  /\ UNCHANGED <<facts, contact, reading, can_auto_send, action, opted_out, suppressed,
                 answered, raised_by, smtp_vars>>

\* What step 5 does with an intent of no terminal kind.
Handle(intents, r, asked_for, badReasoning) ==
  LET event == infer_event_from_semantic_intent(intents)
  IN  \* intent.reasoning[:100] of something that is not a string
      \/ badReasoning /\ Raises("model")
      \/ /\ ~badReasoning
         /\ managed
         /\ MovesTo(advance_integration_contact(contact.status, event), "none")
         /\ Settles("recorded_integration_managed")
         /\ UNCHANGED opted_out
      \/ /\ ~badReasoning
         /\ ~managed
         /\ MovesTo(transition_contact_state(contact.status, event),
                    reschedule_after_reply(intents, asked_for))
         /\ reading' = r
         /\ turn' = "planning"
         /\ UNCHANGED <<can_auto_send, action, opted_out, suppressed, raised_by>>

\* _fallback_classification: neutral, unsure, to be reviewed, yet a success.
FallbackClassification ==
  /\ turn = "received"
  /\ screened = "none"
  /\ ~key
  /\ Handle({"neutral"}, [held |-> TRUE, pricing |-> FALSE], "none", FALSE)
  /\ UNCHANGED <<facts, answered, llm_vars, smtp_vars>>

\* The caller has seen the result of its call.
Consume ==
  /\ llm_result' = "none"
  /\ our_fault' = "none"
  /\ UNCHANGED <<setup, router, position, asked>>

\* The call failed, or the answer is not an object, has none of the required keys or
\* a field that cannot be parsed: a failure, never a guess.
ClassificationFails ==
  /\ turn = "classifying"
  /\ llm_result # "none"
  /\ Consume
  /\ MovesTo(Escalated(contact.status), "none")
  /\ Settles("needs_review_classification_failed")
  /\ UNCHANGED <<facts, opted_out, answered, smtp_vars>>

\* The caller goes on with what a model said.
Takes(stage) ==
  /\ llm_result = "answer"
  /\ Consume
  /\ answered' = answered \cup {stage}

ReadsUnsubscribe ==
  /\ turn = "classifying"
  /\ Takes("classifier")
  /\ Unsubscribes
  /\ UNCHANGED <<facts, smtp_vars>>

ReadsNotInterested ==
  /\ turn = "classifying"
  /\ Takes("classifier")
  /\ MovesTo(transition_contact_state(contact.status, "not_interested"), "none")
  /\ Settles("closed_lost")
  /\ UNCHANGED <<facts, opted_out, smtp_vars>>

\* The code's comment: no state change, no action, just wait.
ReadsOutOfOffice ==
  /\ turn = "classifying"
  /\ Takes("classifier")
  /\ Settles("ignored_oos")
  /\ UNCHANGED <<facts, contact, opted_out, smtp_vars>>

RegularIntents ==
  {{"neutral"}, {"positive_interest"}, {"objection"}, {"meeting_request"}, {"pricing_request"}}

\* held: confidence below the minimum or a review requested.  A confidence that is
\* not a number compares as not below.
ReadsReply ==
  /\ turn = "classifying"
  /\ Takes("classifier")
  /\ \E intents \in RegularIntents, r \in [held : BOOLEAN, pricing : BOOLEAN],
        asked_for \in {"none", "due", "later"}, badReasoning \in BOOLEAN :
       Handle(intents, r, asked_for, badReasoning)
  /\ UNCHANGED <<facts, smtp_vars>>

-----------------------------------------------------------------------------
\* unresolved_items that are not strings cannot be joined into the prompt.
PlannerPromptFails ==
  /\ turn = "planning"
  /\ llm_result = "none"
  /\ router = "idle"
  /\ key
  /\ Raises("model")
  /\ UNCHANGED <<facts, answered, llm_vars, smtp_vars>>

CallPlanner ==
  /\ turn = "planning"
  /\ llm_result = "none"
  /\ key
  /\ CallLlm(FALSE)
  /\ UNCHANGED <<turn_vars, smtp_vars>>

\* A plan that trusts itself although no model made it.
HopefulProposal == [action |-> "answer", held |-> FALSE]

\* _FALLBACK_PROPOSAL: confidence 0, review required.
fallback_proposal == [action |-> "escalate", held |-> TRUE]

\* The actions that the guardrails tell apart; "answer" stands for the others.
ActionType == {"answer", "provide_requested_information", "address_objection", "escalate"}

\* authorize_action: every reason counts, from the settings, the classifier and the planner.
authorize_action(proposal, auto_reply_enabled) ==
  /\ auto_reply_enabled
  /\ ~reading.held
  /\ ~proposal.held
  /\ proposal.action \notin {"escalate", "address_objection"}
  /\ ~(proposal.action = "provide_requested_information" /\ reading.pricing)

\* The plan is made and authorized or not; drafting comes next in either case.
Plans(proposal) ==
  /\ \E auto_reply_enabled \in BOOLEAN :
       can_auto_send' = authorize_action(proposal, auto_reply_enabled)
  /\ reading' = NoReading
  /\ turn' = "drafting"
  /\ UNCHANGED <<facts, contact, action, opted_out, suppressed, raised_by>>

\* No model is configured.
PlansWithoutModel ==
  /\ turn = "planning"
  /\ ~key
  /\ Plans(fallback_proposal)
  /\ UNCHANGED <<answered, llm_vars, smtp_vars>>

\* The call failed, or the plan names an unknown action or no objective.
PlannerFails ==
  /\ turn = "planning"
  /\ llm_result # "none"
  /\ Consume
  /\ Plans(fallback_proposal)
  /\ UNCHANGED <<answered, smtp_vars>>

PlannerAnswers ==
  /\ turn = "planning"
  /\ Takes("planner")
  /\ \E proposal \in [action : ActionType, held : BOOLEAN] : Plans(proposal)
  /\ UNCHANGED smtp_vars

\* The plan is not an object, or its objective or confidence has another type: only
\* the provider's exceptions are caught.
PlannerAnswersOddly ==
  /\ turn = "planning"
  /\ Takes("planner")
  /\ Raises("model")
  /\ UNCHANGED <<facts, smtp_vars>>

-----------------------------------------------------------------------------
CallResponder ==
  /\ turn = "drafting"
  /\ llm_result = "none"
  /\ key
  /\ CallLlm(FALSE)
  /\ UNCHANGED <<turn_vars, smtp_vars>>

\* The hand-over to a human left out.
LeftForLater ==
  /\ Settles("reply_needs_manual_draft")
  /\ UNCHANGED <<contact, opted_out>>

\* ContextualFallbackUnavailable: a human drafts.  next_action_at stays as
\* reschedule_after_reply set it.
NeedsManualDraft ==
  /\ Settles("reply_needs_manual_draft")
  /\ MovesTo(Escalated(contact.status), contact.next)
  /\ UNCHANGED opted_out

DraftsWithoutModel ==
  /\ turn = "drafting"
  /\ ~key
  /\ NeedsManualDraft
  /\ UNCHANGED <<facts, answered, llm_vars, smtp_vars>>

\* The call failed, or the body is empty.
ResponderFails ==
  /\ turn = "drafting"
  /\ llm_result # "none"
  /\ Consume
  /\ NeedsManualDraft
  /\ UNCHANGED <<facts, answered, smtp_vars>>

ResponderAnswersOddly ==
  /\ turn = "drafting"
  /\ Takes("responder")
  /\ Raises("model")
  /\ UNCHANGED <<facts, smtp_vars>>

\* The gates behind the draft: authorization, grounding, and suppression as it is now.
may_send(grounded) == can_auto_send /\ grounded /\ ~suppressed

\* A draft is held for approval ...
HoldsDraft ==
  /\ turn = "drafting"
  /\ Takes("responder")
  /\ \E grounded \in BOOLEAN : ~may_send(grounded)
  /\ Settles("reply_drafted_awaiting_approval")
  /\ UNCHANGED <<facts, contact, opted_out, smtp_vars>>

\* ... or sent in the same breath.
SendsDraft ==
  /\ turn = "drafting"
  /\ Takes("responder")
  /\ \E grounded \in BOOLEAN : may_send(grounded)
  /\ CallSmtp
  /\ turn' = "sending"
  /\ UNCHANGED <<facts, contact, reading, can_auto_send, action, opted_out, suppressed,
                 raised_by>>

\* The answer's row gets the outcome; an unknown one is handed to a human.
RecordsOutcome ==
  /\ turn = "sending"
  /\ pc = "returned"
  /\ IF outcome = "unknown"
     THEN MovesTo(Escalated(contact.status), "none")
     ELSE UNCHANGED contact
  /\ Settles([sent |-> "auto_replied", failed |-> "auto_reply_failed",
               unknown |-> "auto_reply_unknown"][outcome])
  /\ UNCHANGED <<facts, opted_out, answered, llm_vars, smtp_vars>>

-----------------------------------------------------------------------------
\* The turn is flushed and committed.
Store ==
  /\ turn' = "stored"
  /\ suppressed' = (suppressed \/ opted_out)
  /\ UNCHANGED <<facts, contact, reading, can_auto_send, action, opted_out, answered,
                 raised_by>>

\* maybe_summarize_older_messages: a short thread is left alone ...
ShortThread ==
  /\ turn = "finishing"
  /\ Store
  /\ UNCHANGED <<llm_vars, smtp_vars>>

\* ... a long one is summarized, without asking whether a model is configured.
CallSummary ==
  /\ turn = "finishing"
  /\ turn' = "summarizing"
  /\ CallLlm(TRUE)
  /\ UNCHANGED <<facts, contact, reading, can_auto_send, action, opted_out, suppressed,
                 answered, raised_by, smtp_vars>>

\* Only one of the two exceptions caught.
SwallowsUnavailable == {"unavailable"}

\* What the summary's except clause names.
swallowed == {"unavailable", "output"}

\* The summary is written, or skipped on an error that is swallowed.
SummaryEnds ==
  /\ turn = "summarizing"
  /\ llm_result # "none"
  /\ Consume
  /\ IF llm_result \in {"answer"} \cup swallowed
     THEN Store
     ELSE Raises("model") /\ UNCHANGED <<facts, answered>>
  /\ UNCHANGED smtp_vars

\* The flush of the turn, or of its summary, refuses what a model said: a NaN that
\* json.loads and the guardrails let through, in a JSON column, or a NUL character in a
\* text column.
FlushRefused ==
  /\ \/ turn = "finishing" /\ answered # {} /\ UNCHANGED llm_vars
     \/ turn = "summarizing" /\ llm_result = "answer" /\ Consume
  /\ Raises("refused")
  /\ UNCHANGED <<facts, answered, smtp_vars>>

\* A flush, or the commit of the caller after either end of the turn, fails: the
\* database is gone.
DatabaseFails ==
  /\ \/ turn = "finishing" /\ UNCHANGED llm_vars
     \/ turn = "summarizing" /\ llm_result # "none" /\ Consume
  /\ Raises("database")
  /\ UNCHANGED <<facts, answered, smtp_vars>>

\* Another session suppresses the address; an entry that comes after the gate has
\* nothing left to stop.
Suppress ==
  /\ turn \in {"received", "classifying", "planning", "drafting"}
  /\ ~suppressed
  /\ suppressed' = TRUE
  /\ UNCHANGED <<facts, turn, contact, reading, can_auto_send, action, opted_out, answered,
                 raised_by, llm_vars, smtp_vars>>

\* The turn is over.
Over == turn \in {"stored", "raised"} /\ UNCHANGED vars

Turn ==
  \/ ScreenOptOut \/ ScreenAutoReply \/ CallClassifier \/ FallbackClassification
  \/ ClassificationFails \/ ReadsUnsubscribe \/ ReadsNotInterested \/ ReadsOutOfOffice
  \/ ReadsReply \/ PlannerPromptFails \/ CallPlanner \/ PlansWithoutModel \/ PlannerFails
  \/ PlannerAnswers \/ PlannerAnswersOddly \/ CallResponder \/ DraftsWithoutModel
  \/ ResponderFails \/ ResponderAnswersOddly \/ HoldsDraft \/ SendsDraft
  \/ RecordsOutcome \/ ShortThread \/ CallSummary \/ SummaryEnds \/ FlushRefused
  \/ DatabaseFails
  \/ Router /\ UNCHANGED <<turn_vars, smtp_vars>>
  \/ Conversation /\ UNCHANGED <<turn_vars, llm_vars>>

Next == Turn \/ Suppress \/ Over

\* The handler is one thread; every wait in it, for the provider or for SMTP, has a
\* timeout, so it is always able to go on and does.
Spec == Init /\ [][Next]_vars /\ WF_vars(Turn)
-----------------------------------------------------------------------------
\* Nothing goes out on the system's own word: an automatic answer is handed to SMTP
\* only when classification, plan and wording all came from a model, for a contact
\* of our own, whose mail neither opted out nor was automatic, and whose address
\* nobody had suppressed, however long the three calls took.
AnswersAreLicensed ==
  [][turn' = "sending" /\ turn # "sending" =>
       /\ answered' = {"classifier", "planner", "responder"}
       /\ ~managed /\ ~mail.optout /\ ~mail.auto
       /\ ~suppressed]_vars

\* Once the answer has left, the turn can only fail where it is written down, because the
\* database is gone or because it refuses what a model said (a NaN or a NUL is noticed at
\* the flush, after the mail): then the row that would stop a second answer to the same
\* mail is lost.  No failed call of a model, the summary's included, and no field of an
\* unexpected type gets that far.
OnlyWritesFailAfterSend ==
  turn = "raised" /\ pc # "idle" => raised_by \in {"refused", "database"}

\* A reply that somebody else answers takes the contact out of the native sequence: no
\* automatic follow-up is left for one handed to a human, because it could not be
\* classified or drafted or because nobody knows whether the answer left; and one that
\* LeadBoost manages is never scheduled and, once written to, is off new and active
\* although its dispatch worker never applied INITIAL_SENT.
TakenOverIsLeftAlone ==
  turn = "stored" =>
    /\ action \in {"needs_review_classification_failed", "reply_needs_manual_draft",
                   "auto_reply_unknown"}
         => ~(contact.status \in {"new", "active"} /\ contact.next # "none")
    /\ action = "recorded_integration_managed"
         => contact.next = "none" /\ (sent_before => contact.status \notin {"new", "active"})

\* Every turn ends, whatever fails and is retried on the way, and a request to be left
\* alone is honoured whatever state the models are in: it ends with the address on the
\* suppression list, unless the database fails or refuses the text of the summary, which
\* is written in the same transaction.
EndsWithOptOutHonoured ==
  <>(/\ turn \in {"stored", "raised"}
     /\ mail.optout => suppressed \/ raised_by \in {"refused", "database"})
=============================================================================
