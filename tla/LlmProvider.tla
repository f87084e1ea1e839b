----------------------------- MODULE LlmProvider -----------------------------
(***************************************************************************)
(* The model router of llm/provider_v2.py (call_llm_json, call_llm_text    *)
(* and the retry of _chat_with_retry) with the wrapper llm/provider.py: a  *)
(* call walks the configured models and, for JSON, the response modes of   *)
(* each, and returns what a model said or one of two exceptions.           *)
(*                                                                         *)
(* A request fails with an HTTP status ("none" when no response came) and  *)
(* a text of which only the phrases that _classify_error looks for matter. *)
(* Retries are not timed: _wait_strategy waits at most 30.5 seconds and    *)
(* every request has a timeout of 30 seconds, so each step ends.           *)
(* Like SmtpSender the module has no Next of its own: the caller starts a  *)
(* call with CallLlm and takes the steps of Router until llm_result is set.*)
(***************************************************************************)
EXTENDS Naturals, Sequences, FiniteSets

CONSTANTS StrictModel,       \* models registered with supports_strict_json_schema
          Configurations,    \* possible <<llm_model>> \o llm_fallback_models_list
          Failures,          \* the failures a request can meet
          MaxModels,         \* _MAX_MODELS_TO_TRY (3)
          MaxTries,          \* stop_after_attempt of _chat_with_retry (3)
          MaxTotalAttempts   \* _MAX_TOTAL_ATTEMPTS (12)

Phrase == {"model", "auth", "rate", "server", "schema", "bad_json", "bad_request", "timeout"}

ASSUME ConfigurationsAssumption == \A c \in Configurations : Len(c) \in Nat \ {0}
ASSUME FailuresAssumption == \A f \in Failures : f.text \subseteq Phrase
ASSUME LimitsAssumption == {MaxModels, MaxTries, MaxTotalAttempts} \subseteq Nat \ {0}

VARIABLES configured,      \* settings.llm_model followed by the fallback models
          key,             \* GROQ_API_KEY is set
          router,          \* "idle" or "request" (about to ask a model)
          text_call,       \* call_llm_text rather than call_llm_json
          model_index,     \* 1 is the primary model
          mode,            \* position in the model's attempt plan
          tries,           \* tenacity's attempt number
          total_attempts,
          llm_result,      \* "none", "answer", or the exception of llm/provider.py
          asked,           \* history: the models this call has sent a request to
          our_fault        \* history: what the caller did wrong, as this call was told

setup == <<configured, key>>
position == <<text_call, model_index, mode, tries, total_attempts>>
llm_vars == <<setup, router, position, llm_result, asked, our_fault>>

LlmTypeOK ==
  /\ configured \in Configurations
  /\ key \in BOOLEAN
  /\ router \in {"idle", "request"}
  /\ text_call \in BOOLEAN
  /\ model_index \in Nat \ {0}
  /\ mode \in 1..3
  /\ tries \in 1..MaxTries
  /\ total_attempts \in 0..MaxTotalAttempts
  /\ llm_result \in {"none", "answer", "unavailable", "output"}
  /\ our_fault \in {"none", "plain", "misread"}

LlmInit ==
  /\ configured \in Configurations
  /\ key \in BOOLEAN
  /\ router = "idle"
  /\ text_call = FALSE
  /\ model_index = 1
  /\ mode = 1
  /\ tries = 1
  /\ total_attempts = 0
  /\ llm_result = "none"
  /\ asked = {}
  /\ our_fault = "none"

-----------------------------------------------------------------------------
\* The first MaxModels of the list, repeated ones as often as they are listed.
TryRepeatedly == SubSeq(configured, 1, IF Len(configured) > MaxModels THEN MaxModels ELSE Len(configured))

\* Where a list names a model for the first time (the loop's `m not in seen`), and
\* those of these places that lie at i or before.
first_positions(list) == {i \in 1..Len(list) : \A j \in 1..i - 1 : list[j] # list[i]}
firsts_until(list, i) == {j \in first_positions(list) : j <= i}

\* The distinct models of a list, in order, and at most MaxModels of them: the n-th
\* is the one that follows n - 1 others.
first_models(list) ==
  LET size == Cardinality(first_positions(list))
      nth(n) == CHOOSE i \in first_positions(list) : Cardinality(firsts_until(list, i)) = n
  IN  [n \in 1..(IF size > MaxModels THEN MaxModels ELSE size) |-> list[nth(n)]]

models_to_try == first_models(configured)

Model == models_to_try[model_index]

\* Text has a single mode; JSON degrades from a strict schema (where the model is
\* registered for it) over json_object to no constraint.
attempt_plan ==
  IF text_call THEN <<"text">>
  ELSE (IF Model \in StrictModel THEN <<"strict_schema">> ELSE <<>>)
       \o <<"json_object", "lenient">>

\* Text without a usable status: the first phrase of this order decides.
TextClasses ==
  <<<<"model", "model_unavailable">>, <<"auth", "authentication">>,
    <<"rate", "rate_limit">>, <<"server", "unavailable">>, <<"schema", "validation">>,
    <<"bad_json", "malformed">>, <<"bad_request", "validation">>,
    <<"timeout", "timeout">>>>

classify_text(text) ==
  LET known == SelectSeq(TextClasses, LAMBDA p : p[1] \in text)
  IN  IF known = <<>> THEN "unknown" ELSE Head(known)[2]

\* The two checks of a 400 swapped: broken output before a rejected request.
OutputBeforeRequest(f) ==
  IF f.status = "404" \/ (f.status # "none" /\ "model" \in f.text) THEN "model_unavailable"
  ELSE CASE f.status = "401" -> "authentication"
         [] f.status = "429" -> "rate_limit"
         [] f.status = "503" -> "unavailable"
         [] f.status = "400" -> IF "bad_json" \in f.text THEN "malformed" ELSE "validation"
         [] OTHER -> classify_text(f.text)

\* _classify_error.  401 stands for 401 and 403, 503 for 500, 502, 503 and 504;
\* a status the code does not know falls through to the text.
classify_error(f) ==
  IF f.status = "404" \/ (f.status # "none" /\ "model" \in f.text) THEN "model_unavailable"
  ELSE CASE f.status = "401" -> "authentication"
         [] f.status = "429" -> "rate_limit"
         [] f.status = "503" -> "unavailable"
         [] f.status = "400" ->
              IF "bad_json" \in f.text /\ "schema" \notin f.text THEN "malformed" ELSE "validation"
         [] OTHER -> classify_text(f.text)

\* What is retried on the same model and then rotated away from.
Transient == {"rate_limit", "timeout", "unavailable"}

-----------------------------------------------------------------------------
\* A call starts with the first model in its first mode.
CallLlm(text) ==
  /\ router = "idle"
  /\ router' = "request"
  /\ text_call' = text
  /\ total_attempts' = 1
  /\ UNCHANGED <<setup, model_index, mode, tries, llm_result, asked, our_fault>>

\* The call returns or raises; its locals are gone.
Return(r) ==
  /\ llm_result' = r
  /\ router' = "idle"
  /\ text_call' = FALSE
  /\ model_index' = 1
  /\ mode' = 1
  /\ tries' = 1
  /\ total_attempts' = 0
  /\ asked' = {}

\* One more request of the same call.
Again ==
  /\ UNCHANGED <<router, text_call, llm_result>>
  /\ asked' = asked \cup (IF key THEN {Model} ELSE {})

WithinBudget == total_attempts < MaxTotalAttempts

\* tenacity: the same model, in the same mode.
Retries(class) == class \in Transient /\ tries < MaxTries

\* Malformed JSON: the next response mode, on the same model.
Degrades(class) ==
  /\ ~text_call
  /\ class = "malformed"
  /\ mode < Len(attempt_plan)
  /\ WithinBudget

\* An overloaded model, one that cannot produce JSON in any mode, and a fallback
\* that does not exist are left for the next one.
Rotates(class) ==
  /\ \/ class \in Transient /\ tries = MaxTries
     \/ class = "model_unavailable" /\ model_index > 1
     \/ ~text_call /\ class = "malformed" /\ mode = Len(attempt_plan)
  /\ model_index < Len(models_to_try)
  /\ WithinBudget

\* llm/provider.py: two exceptions for every class.
Wrapped(class) ==
  IF class \in {"unavailable", "authentication", "model_unavailable"}
  THEN "unavailable" ELSE "output"

\* The except clauses.  Everything that is neither retried nor worked around is
\* raised, and so is the last error when models or budget are used up.
Routes(class) ==
  \/ /\ Retries(class)
     /\ Again
     /\ tries' = tries + 1
     /\ UNCHANGED <<model_index, mode, total_attempts>>
  \/ /\ Degrades(class)
     /\ Again
     /\ mode' = mode + 1
     /\ tries' = 1
     /\ total_attempts' = total_attempts + 1
     /\ UNCHANGED model_index
  \/ /\ Rotates(class)
     /\ Again
     /\ model_index' = model_index + 1
     /\ mode' = 1
     /\ tries' = 1
     /\ total_attempts' = total_attempts + 1
  \/ /\ ~Retries(class) /\ ~Degrades(class) /\ ~Rotates(class)
     /\ Return(Wrapped(class))

\* _get_client raises before anything is sent; its error is retried like the provider's.
NoClient ==
  /\ router = "request"
  /\ ~key
  /\ Routes("unavailable")
  /\ UNCHANGED <<setup, our_fault>>

\* The model answers with something usable: text, or text that _parse_json understands.
Answers ==
  /\ router = "request"
  /\ key
  /\ Return("answer")
  /\ UNCHANGED <<setup, our_fault>>

\* It answers with nothing, or with text in which there is no JSON object.
Unusable ==
  /\ router = "request"
  /\ key
  /\ Routes("malformed")
  /\ UNCHANGED <<setup, our_fault>>

\* The provider rejects the key, the request's schema, or the primary model's name,
\* whatever else its text says.
BlamesUs(f) ==
  \/ f.status = "401"
  \/ f.status = "400" /\ "schema" \in f.text
  \/ model_index = 1 /\ (f.status = "404" \/ (f.status # "none" /\ "model" \in f.text))

\* The rejection reads as an unknown model, because _classify_error looks for that
\* phrase before it looks at a 401 or a 400, and an unknown fallback is rotated away from.
ReadsAsUnknownFallback(f) == model_index > 1 /\ "model" \in f.text

\* What the call has been told it did wrong, and whether _classify_error understood.
Verdict(f) ==
  IF ~BlamesUs(f) THEN our_fault
  ELSE IF ReadsAsUnknownFallback(f) THEN "misread" ELSE "plain"

\* The request fails, at the provider or on the way.
RequestFails ==
  /\ router = "request"
  /\ key
  /\ \E f \in Failures :
       /\ Routes(classify_error(f))
       /\ our_fault' = Verdict(f)
  /\ UNCHANGED setup

Router == NoClient \/ Answers \/ Unusable \/ RequestFails

-----------------------------------------------------------------------------
\* However many models are configured, a call asks at most MaxModels of them, each in
\* at most three modes and each mode at most MaxTries times: 27 requests, the bound
\* that the comment on _MAX_MODELS_TO_TRY derives.  And it never comes back to a model
\* that it has left, whatever the operator listed twice: an overloaded account is not
\* asked again in the same call.
BoundedCalls ==
  /\ Cardinality(asked) <= MaxModels
  /\ total_attempts <= 3 * MaxModels
  /\ tries <= MaxTries
  /\ \A k \in model_index + 1..Len(models_to_try) : models_to_try[k] \notin asked

\* Once the provider has rejected the key, the schema or the name of the primary model,
\* the call is over and its caller gets an exception: no retry, mode or model hides the
\* fault behind an answer.  With one exception, where the code departs from its comment
\* ("schema/request rejection must be checked FIRST (never eligible for model
\* rotation)"): a fallback's rejection whose text also says that something "does not
\* exist" is misread as an unknown model, and the next fallback may still answer.
OurFaultSurfaces ==
  our_fault = "plain" => router = "idle" /\ llm_result \in {"unavailable", "output"}
=============================================================================
