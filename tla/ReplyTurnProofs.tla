--------------------------- MODULE ReplyTurnProofs ---------------------------
(***************************************************************************)
(* A turn of the conversation, for any start status, any set of failures   *)
(* and any limits: what its SMTP call promises, how far its model calls go *)
(* and what the turn itself may do with their results.                     *)
(***************************************************************************)
EXTENDS ReplyTurn, FiniteSetTheorems, WellFoundedInduction, TLAPS

-----------------------------------------------------------------------------
(* send_email.  The contract speaks of the result; the reason it holds is   *)
(* what each place in the conversation knows about the transfer.            *)

Fresh == body_error = "none" /\ accepted = FALSE /\ escaped = "none"

\* Errors that reach the caller before anything was transferred.
Clean == {"transient", "refusal", "other"}

TransferKnown ==
  /\ pc \in {"idle", "start", "connect", "starttls", "login", "envelope", "data"} =>
       Fresh /\ data_sent = 0 /\ delivered = FALSE
  /\ pc = "reply" => Fresh
  /\ pc = "quit" =>
       /\ escaped = "none"
       /\ body_error = "none" => accepted /\ delivered
       /\ body_error \in Clean => data_sent = 0 /\ delivered = FALSE
  /\ pc = "escape" =>
       /\ escaped = "none" => delivered
       /\ escaped \in Clean => data_sent = 0 /\ delivered = FALSE
  /\ pc = "returned" <=> outcome # "none"
  /\ pc \notin {"idle", "start", "returned"} => live

SmtpInv == SmtpTypeOK /\ TransferKnown

\* The sender is idle at first.
LEMMA SmtpInitially == SmtpInit => SmtpInv
<1>1. 1 \in 1..MaxAttempts
  BY MaxAttemptsAssumption
<1>2. SmtpInit => SmtpTypeOK
  <2>1. 0 \in Nat
    OBVIOUS
  <2>2. QED
    BY <1>1, <2>1, Zenon DEF SmtpInit, SmtpTypeOK
<1>3. SmtpInit => TransferKnown
  BY DEF SmtpInit, TransferKnown, Fresh
<1>4. QED
  BY <1>2, <1>3 DEF SmtpInv

\* A call of the sender starts a fresh conversation, of which the contract sees nothing yet.
LEMMA SmtpCalled ==
  ASSUME SmtpInv, CallSmtp
  PROVE  SmtpInv' /\ UNCHANGED Contract!contractVars
<1>1. SmtpInv'
  BY DEF CallSmtp, SmtpInv, SmtpTypeOK, TransferKnown, Fresh
<1>2. outcome = "none" /\ UNCHANGED <<outcome, data_sent, delivered>>
  BY DEF CallSmtp, SmtpInv, TransferKnown
<1>3. QED
  BY <1>1, <1>2 DEF Contract!contractVars

\* A step of the agent that does not call the sender leaves both alone.
LEMMA SmtpIdles ==
  ASSUME SmtpInv, UNCHANGED smtp_vars
  PROVE  SmtpInv' /\ UNCHANGED Contract!contractVars
  BY DEF smtp_vars, SmtpInv, SmtpTypeOK, TransferKnown, Fresh, Contract!contractVars

\* Every step of the conversation, retries included, keeps what is known.
LEMMA ConversationKeeps ==
  ASSUME SmtpInv, Conversation
  PROVE  SmtpInv'
<1> USE DEF SmtpInv, config
<1>1. CASE DryRun \/ Begin \/ Connect
  <2>1. SmtpTypeOK'
    BY <1>1 DEF DryRun, Begin, Connect, SmtpTypeOK, Error
  <2>2. TransferKnown'
    BY <1>1 DEF DryRun, Begin, Connect, SmtpTypeOK, TransferKnown, Fresh, Clean
  <2>3. QED
    BY <2>1, <2>2
<1>2. CASE StartTls \/ Login
  <2>1. SmtpTypeOK'
    BY <1>2 DEF StartTls, Login, Raise, SmtpTypeOK, Error
  <2>2. TransferKnown'
    BY <1>2 DEF StartTls, Login, Raise, SmtpTypeOK, TransferKnown, Fresh, Clean
  <2>3. QED
    BY <2>1, <2>2
<1>3. CASE Envelope \/ DataFails \/ NoReply
  <2>1. SmtpTypeOK'
    BY <1>3 DEF Envelope, DataFails, NoReply, Raise, FromSendmail, SmtpTypeOK, Error
  <2>2. TransferKnown'
    <3>1. CASE Envelope
      BY <3>1 DEF Envelope, Raise, FromSendmail, TransferKnown, Fresh, Clean
    <3>2. CASE DataFails \/ NoReply
      BY <3>2 DEF DataFails, NoReply, Raise, FromSendmail, TransferKnown, Fresh, Clean
    <3>3. QED
      BY <1>3, <3>1, <3>2
  <2>3. QED
    BY <2>1, <2>2
<1>4. CASE Data \/ Reply
  <2>1. SmtpTypeOK'
    <3>1. data_sent' \in Nat
      <4>1. data_sent \in Nat
        BY Zenon DEF SmtpTypeOK
      <4>2. data_sent' = data_sent + 1 \/ data_sent' = data_sent
        BY <1>4, Zenon DEF Data, Reply
      <4>3. QED
        BY <4>1, <4>2, SMT
    <3>2. delivered' \in BOOLEAN
      <4>1. delivered \in BOOLEAN
        BY Zenon DEF SmtpTypeOK
      <4>2. delivered' = delivered \/ delivered' = TRUE
        BY <1>4, Zenon DEF Data, Reply
      <4>3. QED
        BY <4>1, <4>2
    <3>3. pc' \in {"reply", "quit"} /\ accepted' \in {accepted, TRUE}
          /\ UNCHANGED <<live, use_tls, attempt, body_error, escaped, outcome>>
      BY <1>4, Zenon DEF Data, Reply
    <3>4. QED
      BY <3>1, <3>2, <3>3, Zenon DEF SmtpTypeOK
  <2>2. TransferKnown'
    BY <1>4 DEF Data, Reply, SmtpTypeOK, TransferKnown, Fresh, Clean
  <2>3. QED
    BY <2>1, <2>2
<1>5. CASE Quit
  <2>1. PICK cleanup \in {"none", "transient"} : escaped' = Escaping(cleanup)
    BY <1>5 DEF Quit
  <2>2. /\ escaped' = body_error
        /\ body_error = "none" => delivered
        /\ body_error \in Clean => data_sent = 0 /\ delivered = FALSE
    BY <1>5, <2>1 DEF Quit, Escaping, TransferKnown
  <2>3. SmtpTypeOK'
    BY <1>5, <2>2 DEF Quit, SmtpTypeOK
  <2>4. outcome = "none" /\ live
    BY <1>5 DEF Quit, TransferKnown
  <2>5. pc' = "escape" /\ UNCHANGED <<outcome, live, data_sent, delivered>>
    BY <1>5 DEF Quit
  <2>6. TransferKnown'
    BY <2>2, <2>4, <2>5 DEF TransferKnown
  <2>7. QED
    BY <2>3, <2>6
<1>6. CASE Retry
  <2>1. SmtpTypeOK'
    <3>1. attempt' \in 1..MaxAttempts
      BY <1>6, MaxAttemptsAssumption DEF Retry, AttemptsLeft, SmtpTypeOK
    <3>2. QED
      BY <1>6, <3>1 DEF Retry, SmtpTypeOK
  <2>2. TransferKnown'
    BY <1>6 DEF Retry, is_retryable_smtp_error, SmtpTypeOK, TransferKnown, Fresh, Clean
  <2>3. QED
    BY <2>1, <2>2
<1>7. CASE Finish
  <2>1. SmtpTypeOK'
    <3>1. 1 \in 1..MaxAttempts
      BY MaxAttemptsAssumption
    <3>2. outcome' \in {"sent", "failed", "unknown"}
      BY <1>7 DEF Finish, OutcomeOf
    <3>3. QED
      BY <1>7, <3>1, <3>2, Zenon DEF Finish, SmtpTypeOK
  <2>2. TransferKnown'
    BY <1>7 DEF Finish, OutcomeOf, TransferKnown
  <2>3. QED
    BY <2>1, <2>2
<1>8. QED
  BY <1>1, <1>2, <1>3, <1>4, <1>5, <1>6, <1>7 DEF Conversation

\* The transfer is the contract's HandOver, a live return its Return, and every other
\* step of the conversation a step the contract does not see.
LEMMA ConversationMeetsContract ==
  ASSUME SmtpInv, Conversation
  PROVE  [Contract!ContractNext]_(Contract!contractVars)
<1> USE DEF SmtpInv, config
<1> DEFINE unseen == UNCHANGED <<live, outcome, data_sent, delivered>>
<1>0. unseen => UNCHANGED Contract!contractVars
  BY DEF Contract!contractVars
<1>1. CASE DryRun
  BY <1>1 DEF DryRun, Contract!contractVars
<1>2. CASE Begin \/ Connect \/ StartTls \/ Login \/ Envelope \/ DataFails \/ Reply \/ NoReply
           \/ Quit \/ Retry
  BY <1>0, <1>2 DEF Begin, Connect, StartTls, Login, Envelope, DataFails, Reply, NoReply, Quit,
                    Retry
<1>3. CASE Data
  <2>1. live /\ outcome = "none" /\ data_sent = 0 /\ delivered \in BOOLEAN
    BY <1>3 DEF Data, TransferKnown, SmtpTypeOK
  <2>2. Contract!HandOver
    <3>1. data_sent' = 1 /\ UNCHANGED <<live, outcome>>
      BY <1>3, <2>1 DEF Data
    <3>2. delivered' \in BOOLEAN
      BY <1>3, <2>1, Zenon DEF Data
    <3>3. QED
      BY <2>1, <3>1, <3>2 DEF Contract!HandOver
  <2>3. QED
    BY <2>2 DEF Contract!ContractNext
<1>4. CASE Finish
  <2>1. /\ live /\ outcome = "none"
        /\ escaped = "none" => delivered
        /\ escaped \in Clean => data_sent = 0
        /\ escaped \in Clean \cup {"none", "ambiguous"}
    BY <1>4 DEF Finish, TransferKnown, SmtpTypeOK, Clean, Error
  <2>2. /\ outcome' = "sent" => delivered
        /\ outcome' = "failed" => data_sent = 0
        /\ outcome' \in {"sent", "failed", "unknown"}
    BY <1>4, <2>1 DEF Finish, OutcomeOf, Clean
  <2>3. Contract!Return(outcome')
    BY <1>4, <2>1, <2>2 DEF Finish, Contract!Return
  <2>4. QED
    BY <2>2, <2>3 DEF Contract!ContractNext
<1>5. QED
  BY <1>1, <1>2, <1>3, <1>4 DEF Conversation

-----------------------------------------------------------------------------
(* The model router.                                                        *)

\* A plain fault of ours has ended the call with an exception, and the caller has not
\* seen it yet.
FaultShown ==
  our_fault = "plain" => router = "idle" /\ llm_result \in {"unavailable", "output"}

RouterInv == LlmTypeOK /\ FaultShown

\* The limits as facts of arithmetic.
LEMMA Limits == MaxModels \in Nat \ {0} /\ MaxTries \in Nat \ {0} /\ MaxTotalAttempts \in Nat \ {0}
  BY LimitsAssumption

\* A model is asked in at most three modes: strict schema, JSON object and lenient.
LEMMA PlanLength == Len(attempt_plan) \in 1..3
<1>1. CASE text_call
  BY <1>1 DEF attempt_plan
<1>2. CASE ~text_call
  BY <1>2 DEF attempt_plan
<1>3. QED
  BY <1>1, <1>2

\* The router is idle at first.
LEMMA RouterInitially == LlmInit => RouterInv
<1>1. 1 \in 1..MaxTries /\ 0 \in 0..MaxTotalAttempts /\ 1 \in Nat \ {0} /\ 1 \in 1..3
  BY Limits
<1>2. QED
  BY <1>1, Zenon DEF LlmInit, RouterInv, LlmTypeOK, FaultShown

\* A step elsewhere leaves the router alone.
LEMMA RouterIdles == RouterInv /\ UNCHANGED llm_vars => RouterInv'
  BY DEF RouterInv, LlmTypeOK, FaultShown, llm_vars, setup, position

\* Taking the answer keeps what is known of the call.
LEMMA RouterConsumed == RouterInv /\ Consume => RouterInv'
  BY DEF RouterInv, LlmTypeOK, FaultShown, Consume, setup, position

\* A call of the router starts with nothing tried and nothing answered.
LEMMA RouterCalled ==
  ASSUME RouterInv, NEW text \in BOOLEAN, CallLlm(text), llm_result = "none"
  PROVE  RouterInv'
<1>1. 1 \in 0..MaxTotalAttempts
  BY Limits
<1>2. UNCHANGED <<configured, key, model_index, mode, tries, llm_result, our_fault>>
      /\ total_attempts' = 1 /\ router' = "request" /\ text_call' = text
  BY DEF CallLlm, setup
<1>3. QED
  BY <1>1, <1>2, Zenon DEF RouterInv, LlmTypeOK, FaultShown

\* What the except clauses do to the position in the plan.
LEMMA RoutesKeep ==
  ASSUME LlmTypeOK, router = "request", llm_result = "none", NEW class, Routes(class),
         UNCHANGED setup
  PROVE  /\ configured' \in Configurations /\ key' \in BOOLEAN
         /\ router' \in {"idle", "request"} /\ text_call' \in BOOLEAN
         /\ model_index' \in Nat \ {0} /\ mode' \in 1..3 /\ tries' \in 1..MaxTries
         /\ total_attempts' \in 0..MaxTotalAttempts
         /\ llm_result' \in {"none", "answer", "unavailable", "output"}
         /\ router' = "idle" => llm_result' # "none"
<1>0. /\ configured' \in Configurations /\ key' \in BOOLEAN
      /\ model_index \in Nat \ {0} /\ mode \in 1..3 /\ tries \in 1..MaxTries
      /\ total_attempts \in 0..MaxTotalAttempts
  BY DEF LlmTypeOK, setup
<1>1. ASSUME Again,
             /\ model_index' \in Nat \ {0} /\ mode' \in 1..3 /\ tries' \in 1..MaxTries
             /\ total_attempts' \in 0..MaxTotalAttempts
      PROVE  /\ configured' \in Configurations /\ key' \in BOOLEAN
             /\ router' \in {"idle", "request"} /\ text_call' \in BOOLEAN
             /\ model_index' \in Nat \ {0} /\ mode' \in 1..3 /\ tries' \in 1..MaxTries
             /\ total_attempts' \in 0..MaxTotalAttempts
             /\ llm_result' \in {"none", "answer", "unavailable", "output"}
             /\ router' = "idle" => llm_result' # "none"
  <2>1. router' = "request" /\ text_call' = text_call /\ llm_result' = "none"
    BY <1>1 DEF Again
  <2>2. text_call \in BOOLEAN
    BY DEF LlmTypeOK
  <2>3. QED
    BY <1>0, <1>1, <2>1, <2>2
<1>3. CASE /\ Retries(class) /\ Again /\ tries' = tries + 1
           /\ UNCHANGED <<model_index, mode, total_attempts>>
  <2>1. tries' \in 1..MaxTries
    BY <1>0, <1>3, Limits DEF Retries
  <2>2. QED
    BY <1>0, <1>1, <1>3, <2>1
<1>4. CASE /\ Degrades(class) /\ Again /\ mode' = mode + 1 /\ tries' = 1
           /\ total_attempts' = total_attempts + 1 /\ UNCHANGED model_index
  <2>1. mode' \in 1..3 /\ total_attempts' \in 0..MaxTotalAttempts /\ tries' \in 1..MaxTries
    <3>1. mode < Len(attempt_plan) /\ total_attempts < MaxTotalAttempts
      BY <1>4, Zenon DEF Degrades, WithinBudget
    <3>2. mode' = mode + 1 /\ tries' = 1 /\ total_attempts' = total_attempts + 1
      BY <1>4, Zenon
    <3>3. mode' \in 1..3
      <4> DEFINE n == Len(attempt_plan)
      <4>1. n \in 1..3
        BY PlanLength
      <4>2. mode < n
        BY <3>1
      <4> HIDE DEF n
      <4>3. QED
        BY <1>0, <3>2, <4>1, <4>2
    <3>4. total_attempts' \in 0..MaxTotalAttempts /\ tries' \in 1..MaxTries
      BY <1>0, <3>1, <3>2, Limits
    <3>5. QED
      BY <3>3, <3>4
  <2>2. QED
    BY <1>0, <1>1, <1>4, <2>1
<1>5. CASE /\ Rotates(class) /\ Again /\ model_index' = model_index + 1 /\ mode' = 1
           /\ tries' = 1 /\ total_attempts' = total_attempts + 1
  <2>1. /\ model_index' \in Nat \ {0} /\ mode' \in 1..3 /\ tries' \in 1..MaxTries
        /\ total_attempts' \in 0..MaxTotalAttempts
    BY <1>0, <1>5, Limits DEF Rotates, WithinBudget
  <2>2. QED
    BY <1>1, <1>5, <2>1
<1>2. CASE Return(Wrapped(class))
  <2>1. 1 \in Nat \ {0} /\ 1 \in 1..3 /\ 1 \in 1..MaxTries /\ 0 \in 0..MaxTotalAttempts
    BY Limits
  <2>2. Wrapped(class) \in {"unavailable", "output"}
    BY DEF Wrapped
  <2>3. QED
    BY <1>0, <1>2, <2>1, <2>2, Zenon DEF Return
<1>6. QED
  BY <1>2, <1>3, <1>4, <1>5, Zenon DEF Routes

\* A rejected key, a rejected schema and an unknown primary model are neither retried
\* nor worked around, unless a fallback's rejection reads as an unknown model.
LEMMA FaultsAreFinal ==
  ASSUME NEW f, BlamesUs(f), ~ReadsAsUnknownFallback(f), model_index \in Nat \ {0}
  PROVE  /\ ~Retries(classify_error(f)) /\ ~Degrades(classify_error(f))
         /\ ~Rotates(classify_error(f))
<1>1. CASE f.status = "401" /\ "model" \notin f.text
  <2>1. classify_error(f) = "authentication"
    BY <1>1 DEF classify_error
  <2>2. QED
    BY <2>1 DEF Retries, Degrades, Rotates, Transient
<1>2. CASE f.status = "400" /\ "schema" \in f.text /\ "model" \notin f.text
  <2>1. classify_error(f) = "validation"
    BY <1>2 DEF classify_error
  <2>2. QED
    BY <2>1 DEF Retries, Degrades, Rotates, Transient
<1>3. CASE f.status # "none" /\ (f.status = "404" \/ "model" \in f.text) /\ model_index = 1
  <2>1. classify_error(f) = "model_unavailable"
    BY <1>3 DEF classify_error
  <2>2. QED
    BY <1>3, <2>1 DEF Retries, Degrades, Rotates, Transient
<1>4. "model" \in f.text => model_index = 1
  BY DEF ReadsAsUnknownFallback
<1>5. f.status # "none"
  BY DEF BlamesUs
<1>6. QED
  BY <1>1, <1>2, <1>3, <1>4, <1>5 DEF BlamesUs

\* Every step of the router, fallbacks and retries included, keeps what is known.
LEMMA RouterKeeps ==
  ASSUME RouterInv, Router, router = "request" => llm_result = "none"
  PROVE  RouterInv' /\ (router' = "request" => llm_result' = "none")
<1>0. LlmTypeOK /\ router = "request" /\ llm_result = "none" /\ our_fault # "plain"
  BY DEF RouterInv, FaultShown, LlmTypeOK, Router, NoClient, Answers, Unusable, RequestFails
<1>1. CASE Answers
  <2>1. 1 \in Nat \ {0} /\ 1 \in 1..3 /\ 1 \in 1..MaxTries /\ 0 \in 0..MaxTotalAttempts
    BY Limits
  <2>2. QED
    BY <1>0, <1>1, <2>1 DEF Answers, Return, RouterInv, LlmTypeOK, FaultShown, setup
<1>2. ASSUME NEW class, Routes(class), UNCHANGED setup,
             our_fault' \in {"none", "plain", "misread"},
             our_fault' = "plain" => Return(Wrapped(class))
      PROVE  RouterInv' /\ (router' = "request" => llm_result' = "none")
  <2>1. LlmTypeOK' /\ (router' = "idle" => llm_result' # "none")
    BY <1>0, <1>2, RoutesKeep, Zenon DEF LlmTypeOK
  <2>2. FaultShown'
    <3>1. Return(Wrapped(class)) => router' = "idle" /\ llm_result' \in {"unavailable", "output"}
      BY DEF Return, Wrapped
    <3>2. QED
      BY <1>2, <2>1, <3>1 DEF FaultShown
  <2>3. router' = "request" => llm_result' = "none"
    BY <1>0, <1>2 DEF Routes, Again, Return
  <2>4. QED
    BY <2>1, <2>2, <2>3 DEF RouterInv
<1>3. CASE NoClient \/ Unusable
  BY <1>0, <1>2, <1>3 DEF NoClient, Unusable, LlmTypeOK
<1>4. CASE RequestFails
  <2>1. PICK f \in Failures : Routes(classify_error(f)) /\ our_fault' = Verdict(f)
    BY <1>4, Zenon DEF RequestFails
  <2>2. our_fault' = "plain" => BlamesUs(f) /\ ~ReadsAsUnknownFallback(f)
    BY <1>0, <2>1 DEF Verdict
  <2>3. our_fault' = "plain" => Return(Wrapped(classify_error(f)))
    BY <1>0, <2>1, <2>2, FaultsAreFinal DEF Routes, LlmTypeOK
  <2>4. our_fault' \in {"none", "plain", "misread"}
    BY <1>0, <2>1 DEF Verdict, LlmTypeOK
  <2>5. UNCHANGED setup
    BY <1>4 DEF RequestFails
  <2>6. QED
    BY <1>2, <2>1, <2>3, <2>4, <2>5
<1>5. QED
  BY <1>1, <1>3, <1>4 DEF Router


-----------------------------------------------------------------------------
(* How far a call goes.  First what _models_to_try returns for any list: a   *)
(* model is kept where it is named first, and counting these places along    *)
(* the list meets every number up to their count (the least place with n of  *)
(* them is itself one), so the n-th model exists and differs from the others.*)

\* A set of numbers that is not empty has a least one.
LEMMA LeastNumber ==
  ASSUME NEW T, T \subseteq Nat, T # {}
  PROVE  \E x \in T : \A y \in T : ~(y < x)
<1>1. PICK x \in T : \A y \in T : ~(<<y, x>> \in OpToRel(<, Nat))
  BY NatLessThanWellFounded, WFMin
<1>2. \A y \in T : ~(y < x)
  BY <1>1 DEF OpToRel
<1>3. QED
  BY <1>2

\* The places where a model is first listed are finitely many, and so are those up to any place.
LEMMA FirstsFinite ==
  ASSUME NEW list, Len(list) \in Nat, NEW i \in Nat
  PROVE  /\ IsFiniteSet(first_positions(list))
         /\ IsFiniteSet(firsts_until(list, i))
         /\ Cardinality(first_positions(list)) \in Nat
         /\ Cardinality(firsts_until(list, i)) \in Nat
<1>1. IsFiniteSet(1..Len(list))
  BY FS_Interval
<1>2. first_positions(list) \subseteq 1..Len(list) /\ firsts_until(list, i) \subseteq 1..Len(list)
  BY DEF first_positions, firsts_until
<1>3. IsFiniteSet(first_positions(list)) /\ IsFiniteSet(firsts_until(list, i))
  BY <1>1, <1>2, FS_Subset
<1>4. QED
  BY <1>3, FS_CardinalityType

\* A list that has a model has a first place, so the loop keeps at least one model.
LEMMA SomeFirst ==
  ASSUME NEW list, Len(list) \in Nat \ {0}
  PROVE  Cardinality(first_positions(list)) \in Nat \ {0}
<1>1. 1 \in first_positions(list)
  BY DEF first_positions
<1>2. IsFiniteSet(first_positions(list)) /\ Cardinality(first_positions(list)) \in Nat
  BY FirstsFinite
<1>3. Cardinality(first_positions(list)) # 0
  BY <1>1, <1>2, FS_EmptySet
<1>4. QED
  BY <1>2, <1>3

\* Counting along the list, every number up to the count of first places is met at one of them.
LEMMA NthFirst ==
  ASSUME NEW list, Len(list) \in Nat, NEW n \in 1..Cardinality(first_positions(list))
  PROVE  \E i \in first_positions(list) : Cardinality(firsts_until(list, i)) = n
<1> DEFINE reached == {i \in Nat : Cardinality(firsts_until(list, i)) >= n}
<1>1. firsts_until(list, Len(list)) = first_positions(list)
  BY DEF firsts_until, first_positions
<1>2. Len(list) \in reached
  BY <1>1, FirstsFinite
<1>3. reached \subseteq Nat /\ reached # {}
  BY <1>2
<1>4. PICK i \in reached : \A k \in reached : ~(k < i)
  BY ONLY <1>3, LeastNumber
<1>5. i \in Nat /\ Cardinality(firsts_until(list, i)) >= n
  BY <1>4
<1>6. i # 0
  <2>1. firsts_until(list, 0) = {}
    BY DEF firsts_until, first_positions
  <2>2. Cardinality({}) = 0
    BY FS_EmptySet
  <2>3. Cardinality(firsts_until(list, 0)) = 0
    BY <2>1, <2>2
  <2>4. ASSUME i = 0 PROVE FALSE
    <3>1. Cardinality(firsts_until(list, i)) = 0
      BY <2>3, <2>4
    <3>2. n \in Nat /\ n >= 1
      BY FirstsFinite
    <3>3. QED
      BY <1>5, <3>1, <3>2
  <2>5. QED
    BY <2>4
<1>7. i - 1 \in Nat /\ i - 1 \notin reached
  BY <1>4, <1>5, <1>6
<1>8. Cardinality(firsts_until(list, i - 1)) \in Nat /\ Cardinality(firsts_until(list, i)) \in Nat
  BY <1>5, <1>7, FirstsFinite
<1>9. Cardinality(firsts_until(list, i - 1)) < n
  BY <1>7, <1>8
<1>10. i \in first_positions(list)
  <2>1. SUFFICES ASSUME i \notin first_positions(list) PROVE FALSE
    OBVIOUS
  <2>2. firsts_until(list, i) = firsts_until(list, i - 1)
    BY <1>5, <1>6, <2>1 DEF firsts_until, first_positions
  <2>3. QED
    BY <1>5, <1>8, <1>9, <2>2
<1>11. firsts_until(list, i) = firsts_until(list, i - 1) \cup {i} /\ i \notin firsts_until(list, i - 1)
  BY <1>5, <1>6, <1>10 DEF firsts_until, first_positions
<1>12. Cardinality(firsts_until(list, i)) = Cardinality(firsts_until(list, i - 1)) + 1
  BY <1>7, <1>11, FirstsFinite, FS_AddElement
<1>13. QED
  BY <1>5, <1>8, <1>9, <1>10, <1>12

\* Two first places of one model are the same place.
LEMMA FirstsDiffer ==
  ASSUME NEW list, Len(list) \in Nat, NEW i \in first_positions(list), NEW j \in first_positions(list),
         list[i] = list[j]
  PROVE  i = j
<1>1. i \in Nat /\ j \in Nat /\ i >= 1 /\ j >= 1
  BY DEF first_positions
<1>2. ~(i < j)
  BY <1>1 DEF first_positions
<1>3. ~(j < i)
  BY <1>1 DEF first_positions
<1>4. QED
  BY <1>1, <1>2, <1>3

\* What _models_to_try keeps of a list is not empty, not longer than the cap and free of repeats.
LEMMA FirstModels ==
  ASSUME NEW list, Len(list) \in Nat \ {0}
  PROVE  /\ Len(first_models(list)) \in 1..MaxModels
         /\ \A i, j \in 1..Len(first_models(list)) : first_models(list)[i] = first_models(list)[j] => i = j
<1> DEFINE size == Cardinality(first_positions(list))
           length == IF size > MaxModels THEN MaxModels ELSE size
           nth(n) == CHOOSE i \in first_positions(list) : Cardinality(firsts_until(list, i)) = n
<1>1. size \in Nat \ {0} /\ MaxModels \in Nat \ {0}
  BY SomeFirst, Limits
<1>2. length \in 1..MaxModels /\ 1..length \subseteq 1..size
  BY <1>1
<1>3. first_models(list) = [n \in 1..length |-> list[nth(n)]]
  BY DEF first_models
<1>4. \A n \in 1..length : nth(n) \in first_positions(list) /\ Cardinality(firsts_until(list, nth(n))) = n
  <2>1. SUFFICES ASSUME NEW n \in 1..length
                 PROVE  nth(n) \in first_positions(list) /\ Cardinality(firsts_until(list, nth(n))) = n
    OBVIOUS
  <2>2. \E i \in first_positions(list) : Cardinality(firsts_until(list, i)) = n
    BY <1>2, NthFirst
  <2>3. QED
    BY <2>2
<1> HIDE DEF size, length, nth
<1>5. Len(first_models(list)) = length
  BY <1>2, <1>3
<1>6. ASSUME NEW i \in 1..length, NEW j \in 1..length, first_models(list)[i] = first_models(list)[j]
      PROVE  i = j
  <2>1. list[nth(i)] = list[nth(j)]
    BY <1>3, <1>6
  <2>2. nth(i) = nth(j)
    BY <1>4, <2>1, FirstsDiffer
  <2>3. QED
    BY <1>4, <2>2
<1>7. QED
  BY <1>2, <1>5, <1>6
AskedSoFar == asked \subseteq {models_to_try[k] : k \in 1..model_index}

BoundInv ==
  /\ model_index \in 1..Len(models_to_try)
  /\ AskedSoFar
  /\ router = "idle" => asked = {} /\ total_attempts = 0 /\ model_index = 1 /\ mode = 1 /\ tries = 1
  /\ total_attempts <= 3 * (model_index - 1) + mode

\* The list of models to try is not empty, not longer than the cap and free of repeats.
LEMMA ModelList ==
  ASSUME LlmTypeOK
  PROVE  /\ Len(models_to_try) \in 1..MaxModels
         /\ \A i, j \in 1..Len(models_to_try) : models_to_try[i] = models_to_try[j] => i = j
  BY FirstModels, ConfigurationsAssumption DEF LlmTypeOK, models_to_try

\* Nothing has been asked at first.
LEMMA BoundInitially ==
  ASSUME LlmInit, LlmTypeOK
  PROVE  BoundInv
<1>1. Len(models_to_try) \in 1..MaxModels
  BY ModelList
<1>2. model_index = 1 /\ total_attempts = 0 /\ mode = 1 /\ tries = 1 /\ asked = {}
  BY DEF LlmInit
<1>3. QED
  BY <1>1, <1>2, Limits DEF BoundInv, AskedSoFar

\* A step that leaves the position in the plan alone keeps the bound.
LEMMA BoundIdles ==
  ASSUME BoundInv, UNCHANGED <<configured, router, model_index, mode, tries, total_attempts, asked>>
  PROVE  BoundInv'
<1>1. UNCHANGED models_to_try
  BY DEF models_to_try
<1>2. QED
  BY <1>1 DEF BoundInv, AskedSoFar

\* A new call starts counting from zero.
LEMMA BoundCalled ==
  ASSUME BoundInv, NEW text, CallLlm(text)
  PROVE  BoundInv'
<1>1. UNCHANGED models_to_try
  BY DEF models_to_try, CallLlm, setup
<1>2. /\ router = "idle" /\ router' = "request" /\ total_attempts' = 1
      /\ UNCHANGED <<model_index, mode, asked>>
  BY DEF CallLlm
<1>3. model_index = 1 /\ mode = 1
  BY <1>2 DEF BoundInv
<1>4. QED
  BY <1>1, <1>2, <1>3 DEF BoundInv, AskedSoFar

\* The request is counted against the model it went to, before the router moves on.
LEMMA AgainCounts ==
  ASSUME BoundInv, LlmTypeOK, Again, UNCHANGED configured,
         model_index' \in {model_index, model_index + 1}
  PROVE  AskedSoFar'
<1>1. UNCHANGED models_to_try
  BY DEF models_to_try
<1>2. asked' \subseteq asked \cup {models_to_try[model_index]}
  BY DEF Again, Model
<1>3. model_index \in 1..model_index' /\ 1..model_index \subseteq 1..model_index'
  BY DEF LlmTypeOK
<1>4. ASSUME NEW m \in asked' PROVE \E k \in 1..model_index' : m = models_to_try[k]
  <2>1. CASE m \in asked
    BY <1>3, <2>1 DEF BoundInv, AskedSoFar
  <2>2. CASE m = models_to_try[model_index]
    BY <1>3, <2>2
  <2>3. QED
    BY <1>2, <2>1, <2>2
<1>5. QED
  BY <1>1, <1>4 DEF AskedSoFar

\* Every request the router makes is one the position in the plan accounts for.
LEMMA RouterBounded ==
  ASSUME LlmTypeOK, BoundInv, Router
  PROVE  BoundInv'
<1> DEFINE n == Len(models_to_try)
<1>0. UNCHANGED configured /\ UNCHANGED models_to_try /\ router = "request"
  BY DEF Router, NoClient, Answers, Unusable, RequestFails, setup, models_to_try
<1>1. /\ n \in 1..MaxModels /\ model_index \in 1..n /\ mode \in 1..3
      /\ tries \in 1..MaxTries /\ total_attempts \in 0..MaxTotalAttempts
      /\ total_attempts <= 3 * (model_index - 1) + mode
  BY ModelList DEF BoundInv, LlmTypeOK
<1>n. n' = n
  BY <1>0
<1> HIDE DEF n
<1>2. ASSUME NEW r, Return(r) PROVE BoundInv'
  <2>1. /\ model_index' = 1 /\ mode' = 1 /\ tries' = 1 /\ total_attempts' = 0
        /\ asked' = {}
    BY <1>2 DEF Return
  <2>2. model_index' \in 1..n'
    BY <1>1, <1>n, <2>1, Limits
  <2>3. total_attempts' <= 3 * (model_index' - 1) + mode'
    BY <2>1
  <2>4. AskedSoFar'
    BY <2>1 DEF AskedSoFar
  <2>5. QED
    BY <2>1, <2>2, <2>3, <2>4 DEF BoundInv, n
<1>3. ASSUME NEW class, Routes(class) PROVE BoundInv'
  <2>1. ASSUME Again, model_index' \in {model_index, model_index + 1}, model_index' <= n,
               total_attempts' <= 3 * (model_index' - 1) + mode'
        PROVE  BoundInv'
    <3>1. AskedSoFar'
      BY <1>0, <2>1, AgainCounts
    <3>2. model_index' \in 1..n'
      BY <1>1, <1>n, <2>1, Limits
    <3>3. router' = "request"
      BY <1>0, <2>1 DEF Again
    <3>4. QED
      BY <2>1, <3>1, <3>2, <3>3 DEF BoundInv, n
  <2>2. CASE /\ Retries(class) /\ Again /\ tries' = tries + 1
             /\ UNCHANGED <<model_index, mode, total_attempts>>
    BY <1>1, <2>1, <2>2
  <2>3. CASE /\ Degrades(class) /\ Again /\ mode' = mode + 1 /\ tries' = 1
             /\ total_attempts' = total_attempts + 1 /\ UNCHANGED model_index
    <3>1. total_attempts' <= 3 * (model_index' - 1) + mode'
      BY <1>1, <2>3
    <3>2. QED
      BY <1>1, <2>1, <2>3, <3>1
  <2>4. CASE /\ Rotates(class) /\ Again /\ model_index' = model_index + 1 /\ mode' = 1
             /\ tries' = 1 /\ total_attempts' = total_attempts + 1
    <3>1. model_index < n
      BY <2>4, Zenon DEF Rotates, n
    <3>2. model_index' <= n
      BY <1>1, <2>4, <3>1, Limits
    <3>3. total_attempts' <= 3 * (model_index' - 1) + mode'
      BY <1>1, <2>4
    <3>4. QED
      BY <2>1, <2>4, <3>2, <3>3
  <2>5. QED
    BY <1>2, <1>3, <2>2, <2>3, <2>4, Zenon DEF Routes
<1>4. QED
  BY <1>2, <1>3 DEF Router, NoClient, Answers, Unusable, RequestFails

\* A set that a function on a finite set covers is finite and no larger.
LEMMA CoveredIsSmaller ==
  ASSUME NEW S, NEW T, NEW g \in [S -> T], \A t \in T : \E s \in S : g[s] = t, IsFiniteSet(S)
  PROVE  IsFiniteSet(T) /\ Cardinality(T) <= Cardinality(S)
<1>1. g \in Surjection(S, T)
  BY DEF Surjection
<1>2. QED
  BY <1>1, FS_Surjection

\* The bound of the comment on _MAX_MODELS_TO_TRY, and no way back to a model.
LEMMA BoundsImplied ==
  ASSUME LlmTypeOK, BoundInv
  PROVE  BoundedCalls
<1> DEFINE n == Len(models_to_try)
<1> DEFINE first == {models_to_try[k] : k \in 1..model_index}
<1>1. /\ n \in 1..MaxModels /\ model_index \in 1..n /\ mode \in 1..3 /\ tries \in 1..MaxTries
      /\ \A i, j \in 1..n : models_to_try[i] = models_to_try[j] => i = j
  BY ModelList DEF BoundInv, LlmTypeOK
<1>2. Cardinality(asked) <= MaxModels
  <2>1. IsFiniteSet(1..model_index) /\ Cardinality(1..model_index) = model_index
    BY <1>1, Limits, FS_Interval
  <2>2. IsFiniteSet(first) /\ Cardinality(first) <= model_index
    <3>1. PICK g : g = [k \in 1..model_index |-> models_to_try[k]]
      OBVIOUS
    <3>2. g \in [1..model_index -> first] /\ \A t \in first : \E s \in 1..model_index : g[s] = t
      BY <3>1
    <3>3. IsFiniteSet(first) /\ Cardinality(first) <= Cardinality(1..model_index)
      <4> HIDE DEF first
      <4>1. QED
        BY <2>1, <3>2, CoveredIsSmaller
    <3>4. QED
      BY <2>1, <3>3
  <2>3. asked \subseteq first
    BY DEF BoundInv, AskedSoFar
  <2>4. Cardinality(asked) <= Cardinality(first) /\ Cardinality(first) \in Nat
    BY <2>2, <2>3, FS_Subset, FS_CardinalityType
  <2>5. Cardinality(asked) \in Nat
    BY <2>2, <2>3, FS_Subset, FS_CardinalityType
  <2>6. QED
    BY <1>1, <2>2, <2>4, <2>5, Limits
<1>3. total_attempts <= 3 * MaxModels
  BY <1>1, Limits DEF BoundInv, LlmTypeOK
<1>4. tries <= MaxTries
  BY <1>1, Limits
<1>5. ASSUME NEW k \in model_index + 1..n PROVE models_to_try[k] \notin asked
  <2>1. \A j \in 1..model_index : models_to_try[k] # models_to_try[j]
    BY <1>1, <1>5, Limits
  <2>2. QED
    BY <2>1 DEF BoundInv, AskedSoFar
<1>6. QED
  BY <1>2, <1>3, <1>4, <1>5 DEF BoundedCalls


-----------------------------------------------------------------------------
(* The transition table.                                                    *)

\* The events after which a contact can be new or active.
Reactivating == {"initial_sent", "followup_sent", "out_of_office", "manual_resume"}

\* Where the edges of the transition table lead: never to new, and to active only by the events
\* that reactivate.
LEMMA Edges ==
  ASSUME NEW s, NEW edge \in STATE_TRANSITIONS(s)
  PROVE  /\ edge[2] \in Status
         /\ edge[2] # "new"
         /\ edge[2] = "active" => edge[1] \in Reactivating
<1> USE DEF STATE_TRANSITIONS, Status, Reactivating
<1>1. CASE s = "new"
  BY <1>1
<1>2. CASE s = "active"
  BY <1>2
<1>3. CASE s = "replied"
  BY <1>3
<1>4. CASE s = "engaged"
  BY <1>4
<1>5. CASE s = "evaluating"
  BY <1>5
<1>6. CASE s = "meeting_requested"
  BY <1>6
<1>7. CASE s = "meeting_scheduled"
  BY <1>7
<1>8. CASE s = "negotiating"
  BY <1>8
<1>9. CASE s = "nurture"
  BY <1>9
<1>10. CASE s = "sequence_complete"
  BY <1>10
<1>11. CASE s = "needs_review"
  BY <1>11
<1>12. CASE s = "paused"
  BY <1>12
<1>13. CASE s = "closed_lost"
  BY <1>13
<1>14. CASE s \notin {"new", "active", "replied", "engaged", "evaluating", "meeting_requested",
                      "meeting_scheduled", "negotiating", "nurture", "sequence_complete",
                      "needs_review", "paused", "closed_lost"}
  BY <1>14
<1>15. QED
  BY <1>1, <1>2, <1>3, <1>4, <1>5, <1>6, <1>7, <1>8, <1>9, <1>10, <1>11, <1>12, <1>13, <1>14

\* The same of transition_contact_state, which leaves a state alone where the event is not
\* allowed.
LEMMA Transitions ==
  ASSUME NEW s \in Status, NEW e
  PROVE  /\ transition_contact_state(s, e) \in Status
         /\ Allowed(s, e) => transition_contact_state(s, e) # "new"
         /\ Allowed(s, e) /\ e \notin Reactivating => transition_contact_state(s, e) # "active"
         /\ ~Allowed(s, e) => transition_contact_state(s, e) = s
<1>1. CASE Allowed(s, e)
  <2>1. PICK edge \in STATE_TRANSITIONS(s) :
          edge[1] = e /\ transition_contact_state(s, e) = edge[2]
    BY <1>1 DEF Allowed, transition_contact_state
  <2>2. QED
    BY <1>1, <2>1, Edges
<1>2. CASE ~Allowed(s, e)
  BY <1>2 DEF transition_contact_state
<1>3. QED
  BY <1>1, <1>2

\* The edges that the agent takes out of the sequence states.
LEMMA EdgesFromTheSequence ==
  /\ Allowed("new", "needs_human") /\ Allowed("active", "needs_human")
  /\ Allowed("new", "initial_sent") /\ Allowed("active", "reply_received")
<1>1. /\ <<"needs_human", "needs_review">> \in STATE_TRANSITIONS("new")
      /\ <<"needs_human", "needs_review">> \in STATE_TRANSITIONS("active")
      /\ <<"initial_sent", "active">> \in STATE_TRANSITIONS("new")
      /\ <<"reply_received", "replied">> \in STATE_TRANSITIONS("active")
  BY DEF STATE_TRANSITIONS
<1>2. QED
  BY <1>1 DEF Allowed

\* Handing a contact to a human takes it out of the native sequence.
LEMMA EscalationLeavesTheSequence ==
  ASSUME NEW s \in Status
  PROVE  Escalated(s) \in Status /\ Escalated(s) \notin {"new", "active"}
<1>1. "needs_human" \notin Reactivating
  BY DEF Reactivating
<1>2. QED
  BY <1>1, Transitions, EdgesFromTheSequence DEF Escalated

\* The events of a reply of no terminal kind.
LEMMA ReplyEvents ==
  ASSUME NEW intents \in RegularIntents
  PROVE  infer_event_from_semantic_intent(intents) \notin Reactivating
<1> DEFINE known == {i \in DOMAIN IntentEvents : IntentEvents[i][1] \in intents}
<1>1. DOMAIN IntentEvents = 1..7
  BY DEF IntentEvents
<1>2. \A i \in 1..7 : IntentEvents[i][1] \in intents => IntentEvents[i][2] \notin Reactivating
  BY DEF IntentEvents, RegularIntents, Reactivating
<1>3. \A i, j \in known : i = j
  BY <1>1 DEF IntentEvents, RegularIntents
<1>4. CASE known = {}
  BY <1>4 DEF infer_event_from_semantic_intent, Reactivating
<1>5. CASE known # {}
  <2>1. PICK k \in known : known = {k}
    BY <1>3, <1>5
  <2>2. k \in 1..7 /\ IntentEvents[k][1] \in intents
    BY <1>1, <2>1
  <2>3. (CHOOSE i \in known : \A j \in known : i <= j) = k
    BY <2>1, <2>2
  <2>4. infer_event_from_semantic_intent(intents) = IntentEvents[k][2]
    BY <1>5, <2>3 DEF infer_event_from_semantic_intent
  <2>5. QED
    BY <1>2, <2>2, <2>4
<1>6. QED
  BY <1>4, <1>5

\* A managed contact that was written to leaves new and active with its first reply,
\* although no worker ever applied INITIAL_SENT.
LEMMA ManagedContactAdvances ==
  ASSUME NEW s \in Status, NEW event, event \notin Reactivating
  PROVE  /\ advance_integration_contact(s, event) \in Status
         /\ sent_before => advance_integration_contact(s, event) \notin {"new", "active"}
<1> DEFINE started == IF s = "new" /\ sent_before
                      THEN transition_contact_state(s, "initial_sent") ELSE s
<1>1. started \in Status /\ (sent_before => started # "new")
  BY Transitions, EdgesFromTheSequence
<1>2. "reply_received" \notin Reactivating
  BY DEF Reactivating
<1> DEFINE next == transition_contact_state(started, "reply_received")
<1>3. advance_integration_contact(s, event) =
        IF Allowed(started, event) THEN transition_contact_state(started, event)
        ELSE IF Allowed(started, "reply_received") THEN transition_contact_state(next, event)
             ELSE started
  BY DEF advance_integration_contact
<1>4. next \in Status /\ (Allowed(started, "reply_received") => next \notin {"new", "active"})
  BY <1>1, <1>2, Transitions
<1>5. Allowed("active", "reply_received")
  BY EdgesFromTheSequence
<1> HIDE DEF started, next
<1>6. CASE Allowed(started, event)
  BY <1>1, <1>3, <1>6, Transitions
<1>7. CASE ~Allowed(started, event) /\ Allowed(started, "reply_received")
  BY <1>3, <1>4, <1>7, Transitions
<1>8. CASE ~Allowed(started, event) /\ ~Allowed(started, "reply_received")
  BY <1>1, <1>3, <1>5, <1>8
<1>9. QED
  BY <1>6, <1>7, <1>8


-----------------------------------------------------------------------------
(* The turn.                                                                *)

ContactRow == [status : Status, next : {"none", "due", "later"}]
Stage == {"classifier", "planner", "responder"}

TurnTyped ==
  /\ turn \in {"received", "classifying", "planning", "drafting", "sending", "finishing",
               "summarizing", "stored", "raised"}
  /\ mail \in [optout : BOOLEAN, auto : BOOLEAN]
  /\ contact \in ContactRow
  /\ managed \in BOOLEAN /\ sent_before \in BOOLEAN /\ can_auto_send \in BOOLEAN
  /\ opted_out \in BOOLEAN /\ suppressed \in BOOLEAN
  /\ reading \in [held : BOOLEAN, pricing : BOOLEAN]
  /\ answered \subseteq Stage
  /\ raised_by \in {"none", "model", "refused", "database"}

\* The turn waits for a model only where it has called one, and without a key only
\* for the summary.
Calling ==
  /\ router = "request" => llm_result = "none"
  /\ turn \in {"received", "sending", "finishing", "stored", "raised"} =>
       router = "idle" /\ llm_result = "none"
  /\ turn # "summarizing" /\ ~key => router = "idle" /\ llm_result = "none"

\* SMTP is called last, and from then on only writing the turn down can fail it.
SentIsLast ==
  pc # "idle" => /\ turn \in {"sending", "finishing", "summarizing", "stored", "raised"}
                 /\ turn = "raised" => raised_by \in {"refused", "database"}

\* What licenses an answer, stage by stage: without a model the fallbacks withhold it.
Licence ==
  /\ turn \in {"received", "classifying"} => answered = {}
  /\ turn \in {"classifying", "planning", "drafting"} => ~mail.optout /\ ~mail.auto
  /\ turn \in {"planning", "drafting"} => ~managed
  /\ turn = "planning" => reading.held \/ answered = {"classifier"}
  /\ turn = "drafting" => ~can_auto_send \/ answered = {"classifier", "planner"}

\* TakenOverIsLeftAlone, from the step that settles the turn on.
LeftAlone ==
  /\ action \in {"needs_review_classification_failed", "reply_needs_manual_draft",
                 "auto_reply_unknown"}
       => ~(contact.status \in {"new", "active"} /\ contact.next # "none")
  /\ action = "recorded_integration_managed"
       => contact.next = "none" /\ (sent_before => contact.status \notin {"new", "active"})
Settled == turn \in {"finishing", "summarizing", "stored"} => LeftAlone

TurnPart == TurnTyped /\ Calling /\ SentIsLast /\ Licence /\ Settled
TurnInv == SmtpInv /\ RouterInv /\ TurnPart

\* The invariant holds initially.
LEMMA TurnInitially == Init => TurnInv
<1> SUFFICES ASSUME Init PROVE TurnInv
  OBVIOUS
<1>1. SmtpInv /\ RouterInv
  BY SmtpInitially, RouterInitially DEF Init
<1>2. TurnTyped
  <2>1. contact \in ContactRow
    BY StartStatusAssumption DEF Init, ContactRow
  <2>2. sent_before \in BOOLEAN
    BY DEF Init
  <2>3. NoReading \in [held : BOOLEAN, pricing : BOOLEAN]
    BY DEF NoReading
  <2>4. QED
    BY <2>1, <2>2, <2>3, Zenon DEF Init, TurnTyped
<1>3. Calling /\ SentIsLast /\ Licence /\ Settled
  BY DEF Init, SmtpInit, LlmInit, Calling, SentIsLast, Licence, Settled
<1>4. QED
  BY <1>1, <1>2, <1>3 DEF TurnInv, TurnPart

\* Each step of the turn takes at most one step of each of its calls.
LEMMA Parts ==
  ASSUME TurnInv, [Next]_vars
  PROVE  /\ \/ UNCHANGED llm_vars
            \/ llm_result = "none" /\ \E text \in BOOLEAN : CallLlm(text)
            \/ Consume
            \/ Router
         /\ UNCHANGED smtp_vars \/ CallSmtp \/ Conversation
<1>1. turn = "received" \/ turn = "finishing" => llm_result = "none"
  BY DEF TurnInv, TurnPart, Calling
<1>2. CASE UNCHANGED vars
  BY <1>2 DEF vars
<1>3. CASE Suppress \/ Over
  BY <1>3 DEF Suppress, Over, vars
<1>4. CASE Turn
  <2>1. CASE CallClassifier \/ CallPlanner \/ CallResponder \/ CallSummary
    BY <1>1, <2>1 DEF CallClassifier, CallPlanner, CallResponder, CallSummary
  <2>2. CASE ScreenOptOut \/ ScreenAutoReply \/ FallbackClassification \/ PlannerPromptFails
             \/ PlansWithoutModel \/ DraftsWithoutModel \/ RecordsOutcome \/ ShortThread
    BY <2>2 DEF ScreenOptOut, ScreenAutoReply, FallbackClassification, PlannerPromptFails,
                PlansWithoutModel, DraftsWithoutModel, RecordsOutcome, ShortThread
  <2>3. CASE ClassificationFails \/ ReadsUnsubscribe \/ ReadsNotInterested \/ ReadsOutOfOffice
             \/ ReadsReply \/ PlannerFails \/ PlannerAnswers \/ PlannerAnswersOddly
             \/ ResponderFails \/ ResponderAnswersOddly \/ HoldsDraft \/ SendsDraft \/ SummaryEnds
             \/ FlushRefused \/ DatabaseFails
    BY <2>3 DEF ClassificationFails, ReadsUnsubscribe, ReadsNotInterested, ReadsOutOfOffice,
                ReadsReply, PlannerFails, PlannerAnswers, PlannerAnswersOddly, ResponderFails,
                ResponderAnswersOddly, HoldsDraft, SendsDraft, SummaryEnds, FlushRefused,
                DatabaseFails, Takes
  <2>4. QED
    BY <1>4, <2>1, <2>2, <2>3 DEF Turn
<1>5. QED
  BY <1>2, <1>3, <1>4 DEF Next

\* No step of the turn disturbs what is known of the two services it calls.
LEMMA CallsKeep ==
  ASSUME TurnInv, [Next]_vars
  PROVE  SmtpInv' /\ RouterInv'
<1>1. SmtpInv'
  BY Parts, SmtpCalled, SmtpIdles, ConversationKeeps DEF TurnInv
<1>2. RouterInv'
  BY Parts, RouterIdles, RouterCalled, RouterConsumed, RouterKeeps DEF TurnInv, TurnPart, Calling
<1>3. QED
  BY <1>1, <1>2

\* The turn settles on an action.
LEMMA Settling ==
  ASSUME TurnInv, NEW a, Settles(a), UNCHANGED facts, router' = "idle", llm_result' = "none",
         contact' \in ContactRow, opted_out' \in BOOLEAN, answered' \subseteq Stage, LeftAlone'
  PROVE  TurnPart'
<1>1. TurnTyped'
  BY Zenon DEF TurnInv, TurnPart, TurnTyped, Settles, facts
<1>2. Calling' /\ SentIsLast' /\ Licence' /\ Settled'
  BY DEF Settles, Calling, SentIsLast, Licence, Settled
<1>3. QED
  BY <1>1, <1>2 DEF TurnPart

\* The turn fails.
LEMMA Raising ==
  ASSUME TurnInv, NEW cause \in {"model", "refused", "database"}, Raises(cause), UNCHANGED facts,
         router' = "idle", llm_result' = "none", answered' \subseteq Stage,
         cause = "model" => pc' = "idle"
  PROVE  TurnPart'
<1>1. TurnTyped'
  <2>1. NoReading \in [held : BOOLEAN, pricing : BOOLEAN]
    BY DEF NoReading
  <2>2. QED
    BY <2>1, Zenon DEF TurnInv, TurnPart, TurnTyped, Raises, facts
<1>2. Calling' /\ SentIsLast' /\ Licence' /\ Settled'
  BY DEF Raises, Calling, SentIsLast, Licence, Settled
<1>3. QED
  BY <1>1, <1>2 DEF TurnPart

\* A call that has a result is over.
LEMMA Consumed ==
  ASSUME TurnInv, Consume, llm_result # "none"
  PROVE  router' = "idle" /\ llm_result' = "none" /\ UNCHANGED key
  BY DEF TurnInv, TurnPart, Calling, RouterInv, LlmTypeOK, Consume, setup


\* Before the answer is sent, SMTP has not been called.
LEMMA NotYetSent ==
  ASSUME TurnInv, turn \in {"received", "classifying", "planning", "drafting"}
  PROVE  pc = "idle"
  BY DEF TurnInv, TurnPart, SentIsLast

\* The deterministic handling of a classified reply.
LEMMA Handling ==
  ASSUME TurnInv, NEW intents \in RegularIntents, NEW r \in [held : BOOLEAN, pricing : BOOLEAN],
         NEW asked_for \in {"none", "due", "later"}, NEW bad \in BOOLEAN, Handle(intents, r, asked_for, bad),
         UNCHANGED facts, router' = "idle", llm_result' = "none", answered' \subseteq Stage,
         pc' = "idle", ~mail.optout, ~mail.auto, r.held \/ answered' = {"classifier"}
  PROVE  TurnPart'
<1> DEFINE event == infer_event_from_semantic_intent(intents)
<1>0. contact.status \in Status /\ event \notin Reactivating
  BY ReplyEvents DEF TurnInv, TurnPart, TurnTyped, ContactRow
<1> HIDE DEF event
<1>1. CASE Raises("model")
  BY <1>1, Raising
<1>2. CASE /\ managed
           /\ MovesTo(advance_integration_contact(contact.status, event), "none")
           /\ Settles("recorded_integration_managed")
           /\ UNCHANGED opted_out
  <2> DEFINE s == advance_integration_contact(contact.status, event)
  <2>1. s \in Status /\ (sent_before => s \notin {"new", "active"})
    BY <1>0, ManagedContactAdvances
  <2> HIDE DEF s
  <2>2. contact' = [status |-> s, next |-> "none"]
    BY <1>2 DEF MovesTo, s
  <2>3. contact' \in ContactRow /\ contact'.status = s /\ contact'.next = "none"
    BY <2>1, <2>2 DEF ContactRow
  <2>4. LeftAlone'
    BY <1>2, <2>1, <2>3 DEF LeftAlone, Settles, facts
  <2>5. opted_out' \in BOOLEAN
    BY <1>2 DEF TurnInv, TurnPart, TurnTyped
  <2>6. QED
    BY <1>2, <2>3, <2>4, <2>5, Settling
<1>3. CASE /\ ~managed
           /\ MovesTo(transition_contact_state(contact.status, event),
                      reschedule_after_reply(intents, asked_for))
           /\ reading' = r
           /\ turn' = "planning"
           /\ UNCHANGED <<can_auto_send, action, opted_out, suppressed, raised_by>>
  <2>1. contact' \in ContactRow
    <3>1. reschedule_after_reply(intents, asked_for) \in {"none", "due", "later"}
      BY DEF reschedule_after_reply
    <3>2. transition_contact_state(contact.status, event) \in Status
      BY <1>0, Transitions
    <3>3. QED
      BY <1>3, <3>1, <3>2 DEF MovesTo, ContactRow
  <2>2. TurnTyped'
    BY <1>3, <2>1, Zenon DEF TurnInv, TurnPart, TurnTyped, facts
  <2>3. Calling' /\ SentIsLast' /\ Licence' /\ Settled'
    BY <1>3 DEF Calling, SentIsLast, Licence, Settled, facts
  <2>4. QED
    BY <2>2, <2>3 DEF TurnPart
<1>4. QED
  BY <1>1, <1>2, <1>3, Zenon DEF Handle, event

\* The plan is made: an automatic answer needs a model at both stages.
LEMMA Planning ==
  ASSUME TurnInv, turn = "planning", NEW proposal \in [action : ActionType, held : BOOLEAN],
         Plans(proposal),
         router' = "idle", llm_result' = "none", pc' = "idle",
         answered' \subseteq Stage,
         proposal.held = TRUE \/ answered' = answered \cup {"planner"}
  PROVE  TurnPart'
<1>1. PICK enabled \in BOOLEAN : can_auto_send' = authorize_action(proposal, enabled)
  BY DEF Plans
<1>2. can_auto_send' \in BOOLEAN
  BY <1>1 DEF authorize_action
<1>3. can_auto_send' => ~reading.held /\ ~proposal.held
  BY <1>1 DEF authorize_action
<1>4. NoReading \in [held : BOOLEAN, pricing : BOOLEAN]
  BY DEF NoReading
<1>5. TurnTyped'
  BY <1>2, <1>4, Zenon DEF TurnInv, TurnPart, TurnTyped, Plans, facts
<1>6. ~can_auto_send' \/ answered' = {"classifier", "planner"}
  BY <1>3 DEF TurnInv, TurnPart, Licence
<1>7. Licence'
  BY <1>6 DEF TurnInv, TurnPart, Licence, Plans, facts
<1>8. Calling' /\ SentIsLast' /\ Settled'
  BY DEF Plans, Calling, SentIsLast, Settled
<1>9. QED
  BY <1>5, <1>7, <1>8 DEF TurnPart

\* A step that neither moves the turn nor touches what it knows.
LEMMA Waiting ==
  ASSUME TurnInv, UNCHANGED <<turn, mail, contact, managed, sent_before, reading, can_auto_send,
                              action, opted_out, answered, raised_by>>,
         suppressed' \in BOOLEAN, Calling', SentIsLast'
  PROVE  TurnPart'
<1>1. TurnTyped'
  BY ZenonT(60) DEF TurnInv, TurnPart, TurnTyped
<1>2. Licence' /\ Settled'
  BY DEF TurnInv, TurnPart, Licence, Settled, LeftAlone
<1>3. QED
  BY <1>1, <1>2 DEF TurnPart

\* Up to the draft: screening, classification and planning.
LEMMA EarlySteps ==
  ASSUME TurnInv,
         \/ ScreenOptOut \/ ScreenAutoReply \/ CallClassifier \/ FallbackClassification
         \/ ClassificationFails \/ ReadsUnsubscribe \/ ReadsNotInterested \/ ReadsOutOfOffice
         \/ ReadsReply \/ PlannerPromptFails \/ PlansWithoutModel \/ PlannerFails
         \/ PlannerAnswers \/ PlannerAnswersOddly
  PROVE  TurnPart'
<1>0. /\ contact \in ContactRow /\ contact.status \in Status /\ opted_out \in BOOLEAN
      /\ answered \subseteq Stage /\ suppressed \in BOOLEAN
      /\ router = "request" => llm_result = "none"
      /\ turn = "received" => router = "idle" /\ llm_result = "none"
      /\ turn = "planning" /\ ~key => router = "idle" /\ llm_result = "none"
  BY DEF TurnInv, TurnPart, TurnTyped, ContactRow, Calling
<1>u. \A s \in Status : \A e :
        [status |-> transition_contact_state(s, e), next |-> "none"] \in ContactRow
  BY Transitions DEF ContactRow
<1>1. CASE ScreenOptOut \/ ScreenAutoReply
  <2>1. /\ router' = "idle" /\ llm_result' = "none" /\ UNCHANGED <<facts, answered>>
    BY <1>0, <1>1 DEF ScreenOptOut, ScreenAutoReply, llm_vars
  <2>2. \/ Settles("suppressed") /\ opted_out' = TRUE
        \/ Settles("ignored_oos") /\ opted_out' = opted_out
    BY <1>1 DEF ScreenOptOut, ScreenAutoReply, Unsubscribes
  <2>3. contact' \in ContactRow
    BY <1>0, <1>1, <1>u DEF ScreenOptOut, ScreenAutoReply, Unsubscribes, MovesTo
  <2>4. LeftAlone'
    BY <2>2 DEF Settles, LeftAlone
  <2>5. QED
    BY <1>0, <2>1, <2>2, <2>3, <2>4, Settling
<1>2. CASE CallClassifier
  <2>1. /\ ~mail.optout /\ ~mail.auto /\ pc' = "idle" /\ key'
        /\ router' = "request" /\ llm_result' = "none"
    BY <1>0, <1>2, NotYetSent DEF CallClassifier, screened, CallLlm, setup, smtp_vars
  <2>2. TurnTyped'
    BY <1>2, Zenon DEF CallClassifier, TurnInv, TurnPart, TurnTyped, facts
  <2>3. Calling' /\ SentIsLast' /\ Settled'
    BY <1>2, <2>1 DEF CallClassifier, Calling, SentIsLast, Settled
  <2>4. Licence'
    BY <1>2, <2>1 DEF CallClassifier, TurnInv, TurnPart, Licence, facts
  <2>5. QED
    BY <2>2, <2>3, <2>4 DEF TurnPart
<1>3. CASE FallbackClassification
  <2>1. /\ ~mail.optout /\ ~mail.auto /\ pc' = "idle" /\ router' = "idle" /\ llm_result' = "none"
        /\ UNCHANGED <<facts, answered>>
    BY <1>0, <1>3, NotYetSent DEF FallbackClassification, screened, llm_vars, smtp_vars
  <2>2. {"neutral"} \in RegularIntents
    BY DEF RegularIntents
  <2> DEFINE unsure == [held |-> TRUE, pricing |-> FALSE]
  <2>3. unsure \in [held : BOOLEAN, pricing : BOOLEAN] /\ unsure.held
    OBVIOUS
  <2>4. Handle({"neutral"}, unsure, "none", FALSE)
    BY <1>3 DEF FallbackClassification
  <2> HIDE DEF unsure
  <2>5. QED
    BY <1>0, <2>1, <2>2, <2>3, <2>4, Handling
<1>4. CASE ClassificationFails
  <2>1. router' = "idle" /\ llm_result' = "none"
    BY <1>4, Consumed DEF ClassificationFails
  <2>2. contact' \in ContactRow /\ contact'.next = "none"
    BY <1>0, <1>4, <1>u DEF ClassificationFails, MovesTo, Escalated
  <2>3. LeftAlone'
    BY <1>4, <2>2 DEF ClassificationFails, Settles, LeftAlone
  <2>4. QED
    BY <1>0, <1>4, <2>1, <2>2, <2>3, Settling DEF ClassificationFails
<1>5. CASE ReadsUnsubscribe \/ ReadsNotInterested \/ ReadsOutOfOffice
  <2>1. Takes("classifier") /\ UNCHANGED facts
    BY <1>5 DEF ReadsUnsubscribe, ReadsNotInterested, ReadsOutOfOffice
  <2>2. router' = "idle" /\ llm_result' = "none" /\ answered' \subseteq Stage
    BY <1>0, <2>1, Consumed DEF Takes, Stage
  <2>3. \/ Settles("suppressed") /\ opted_out' = TRUE
        \/ Settles("closed_lost") /\ opted_out' = opted_out
        \/ Settles("ignored_oos") /\ opted_out' = opted_out
    BY <1>5 DEF ReadsUnsubscribe, ReadsNotInterested, ReadsOutOfOffice, Unsubscribes
  <2>4. contact' \in ContactRow
    BY <1>0, <1>5, <1>u DEF ReadsUnsubscribe, ReadsNotInterested, ReadsOutOfOffice, Unsubscribes,
                            MovesTo
  <2>5. LeftAlone'
    BY <2>3 DEF Settles, LeftAlone
  <2>6. QED
    BY <1>0, <2>1, <2>2, <2>3, <2>4, <2>5, Settling
<1>6. CASE ReadsReply
  <2>1. Takes("classifier") /\ UNCHANGED facts /\ UNCHANGED smtp_vars /\ turn = "classifying"
    BY <1>6 DEF ReadsReply
  <2>2. router' = "idle" /\ llm_result' = "none" /\ answered' = {"classifier"}
    BY <1>0, <2>1, Consumed DEF Takes, TurnInv, TurnPart, Licence
  <2>3. ~mail.optout /\ ~mail.auto /\ pc' = "idle"
    BY <2>1, NotYetSent DEF TurnInv, TurnPart, Licence, smtp_vars
  <2>4. PICK intents \in RegularIntents, r \in [held : BOOLEAN, pricing : BOOLEAN],
             asked_for \in {"none", "due", "later"}, bad \in BOOLEAN : Handle(intents, r, asked_for, bad)
    BY <1>6, Zenon DEF ReadsReply
  <2>5. answered' \subseteq Stage
    BY <2>2 DEF Stage
  <2>6. QED
    BY <2>1, <2>2, <2>3, <2>4, <2>5, Handling
<1>7. CASE PlannerPromptFails
  <2>1. router' = "idle" /\ llm_result' = "none" /\ pc' = "idle"
    BY <1>7, NotYetSent DEF PlannerPromptFails, llm_vars, smtp_vars
  <2>2. QED
    BY <1>0, <1>7, <2>1, Raising DEF PlannerPromptFails
<1>8. CASE PlansWithoutModel \/ PlannerFails
  <2>1. /\ turn = "planning" /\ pc' = "idle" /\ router' = "idle" /\ llm_result' = "none"
        /\ UNCHANGED answered /\ Plans(fallback_proposal)
    BY <1>0, <1>8, NotYetSent, Consumed DEF PlansWithoutModel, PlannerFails, llm_vars, smtp_vars
  <2>2. /\ fallback_proposal \in [action : ActionType, held : BOOLEAN]
        /\ fallback_proposal.held = TRUE
    BY DEF fallback_proposal, ActionType
  <2>3. answered' \subseteq Stage
    BY <1>0, <2>1
  <2>4. QED
    BY <2>1, <2>2, <2>3, Planning
<1>9. CASE PlannerAnswers
  <2>1. /\ turn = "planning" /\ pc' = "idle" /\ router' = "idle" /\ llm_result' = "none"
        /\ answered' = answered \cup {"planner"}
    BY <1>9, NotYetSent, Consumed DEF PlannerAnswers, Takes, smtp_vars
  <2>2. PICK proposal \in [action : ActionType, held : BOOLEAN] : Plans(proposal)
    BY <1>9, Zenon DEF PlannerAnswers
  <2>3. answered' \subseteq Stage
    BY <1>0, <2>1 DEF Stage
  <2>4. QED
    BY <2>1, <2>2, <2>3, Planning
<1>10. CASE PlannerAnswersOddly
  <2>1. /\ pc' = "idle" /\ router' = "idle" /\ llm_result' = "none" /\ answered' \subseteq Stage
    BY <1>0, <1>10, NotYetSent, Consumed DEF PlannerAnswersOddly, Takes, smtp_vars, Stage
  <2>2. QED
    BY <1>10, <2>1, Raising DEF PlannerAnswersOddly
<1>11. QED
  BY <1>1, <1>2, <1>3, <1>4, <1>5, <1>6, <1>7, <1>8, <1>9, <1>10


\* Drafting, sending and the end of the turn.
LEMMA LateSteps ==
  ASSUME TurnInv,
         \/ DraftsWithoutModel \/ ResponderFails \/ ResponderAnswersOddly \/ HoldsDraft
         \/ SendsDraft \/ RecordsOutcome \/ ShortThread \/ CallSummary \/ SummaryEnds
         \/ FlushRefused \/ DatabaseFails
  PROVE  TurnPart'
<1>0. /\ contact \in ContactRow /\ contact.status \in Status /\ contact.next \in {"none", "due", "later"}
      /\ opted_out \in BOOLEAN /\ suppressed \in BOOLEAN /\ answered \subseteq Stage
      /\ llm_result \in {"none", "answer", "unavailable", "output"}
      /\ turn \in {"sending", "finishing"} => router = "idle" /\ llm_result = "none"
      /\ turn = "drafting" /\ ~key => router = "idle" /\ llm_result = "none"
  BY DEF TurnInv, TurnPart, TurnTyped, ContactRow, Calling, RouterInv, LlmTypeOK
<1>1. ASSUME NeedsManualDraft, UNCHANGED <<facts, answered>>, router' = "idle", llm_result' = "none"
      PROVE  TurnPart'
  <2>1. contact' = [status |-> Escalated(contact.status), next |-> contact.next]
    BY <1>1 DEF NeedsManualDraft, MovesTo
  <2>2. Escalated(contact.status) \in Status /\ Escalated(contact.status) \notin {"new", "active"}
    BY <1>0, EscalationLeavesTheSequence
  <2>3. contact' \in ContactRow /\ contact'.status \notin {"new", "active"}
    BY <1>0, <2>1, <2>2 DEF ContactRow
  <2>4. LeftAlone'
    BY <1>1, <2>3 DEF NeedsManualDraft, Settles, LeftAlone
  <2>5. QED
    BY <1>0, <1>1, <2>3, <2>4, Settling DEF NeedsManualDraft
<1>2. CASE DraftsWithoutModel
  BY <1>0, <1>1, <1>2 DEF DraftsWithoutModel, llm_vars
<1>3. CASE ResponderFails
  BY <1>1, <1>3, Consumed DEF ResponderFails
<1>4. CASE ResponderAnswersOddly
  <2>1. /\ pc' = "idle" /\ router' = "idle" /\ llm_result' = "none" /\ answered' \subseteq Stage
    BY <1>0, <1>4, NotYetSent, Consumed DEF ResponderAnswersOddly, Takes, smtp_vars, Stage
  <2>2. QED
    BY <1>4, <2>1, Raising DEF ResponderAnswersOddly
<1>5. CASE HoldsDraft
  <2>1. /\ router' = "idle" /\ llm_result' = "none" /\ answered' \subseteq Stage
    BY <1>0, <1>5, Consumed DEF HoldsDraft, Takes, Stage
  <2>2. LeftAlone'
    BY <1>5 DEF HoldsDraft, Settles, LeftAlone
  <2>3. QED
    BY <1>0, <1>5, <2>1, <2>2, Settling DEF HoldsDraft
<1>6. CASE SendsDraft
  <2>1. /\ router' = "idle" /\ llm_result' = "none" /\ answered' \subseteq Stage
    BY <1>0, <1>6, Consumed DEF SendsDraft, Takes, Stage
  <2>2. TurnTyped'
    BY <1>6, <2>1, Zenon DEF SendsDraft, TurnInv, TurnPart, TurnTyped, facts
  <2>3. Calling' /\ SentIsLast' /\ Licence' /\ Settled'
    BY <1>6, <2>1 DEF SendsDraft, Calling, SentIsLast, Licence, Settled
  <2>4. QED
    BY <2>2, <2>3 DEF TurnPart
<1>7. CASE RecordsOutcome
  <2>1. outcome \in {"sent", "failed", "unknown"}
    BY <1>7 DEF RecordsOutcome, TurnInv, SmtpInv, SmtpTypeOK, TransferKnown
  <2>2. PICK a \in {"auto_replied", "auto_reply_failed", "auto_reply_unknown"} :
          Settles(a) /\ (a = "auto_reply_unknown" => outcome = "unknown")
    BY <1>7, <2>1 DEF RecordsOutcome
  <2>3. CASE outcome = "unknown"
    <3>1. contact' = [status |-> Escalated(contact.status), next |-> "none"]
      BY <1>7, <2>3 DEF RecordsOutcome, MovesTo
    <3>2. contact' \in ContactRow /\ contact'.next = "none"
      BY <1>0, <3>1, EscalationLeavesTheSequence DEF ContactRow
    <3>3. LeftAlone'
      BY <2>2, <3>2 DEF Settles, LeftAlone
    <3>4. QED
      BY <1>0, <1>7, <2>2, <3>2, <3>3, Settling DEF RecordsOutcome, llm_vars
  <2>4. CASE outcome # "unknown"
    <3>1. LeftAlone'
      BY <2>2, <2>4 DEF Settles, LeftAlone
    <3>2. UNCHANGED contact
      BY <1>7, <2>4 DEF RecordsOutcome
    <3>3. QED
      BY <1>0, <1>7, <2>2, <3>1, <3>2, Settling DEF RecordsOutcome, llm_vars
  <2>5. QED
    BY <2>3, <2>4
<1>8. ASSUME turn \in {"finishing", "summarizing"}, Store, router' = "idle", llm_result' = "none"
      PROVE  TurnPart'
  <2>1. suppressed' \in BOOLEAN
    BY <1>0, <1>8 DEF Store
  <2>2. TurnTyped'
    BY <1>8, <2>1, Zenon DEF Store, TurnInv, TurnPart, TurnTyped, facts
  <2>3. Settled'
    BY <1>8 DEF Store, TurnInv, TurnPart, Settled, LeftAlone, facts
  <2>4. Calling' /\ SentIsLast' /\ Licence'
    BY <1>8 DEF Store, Calling, SentIsLast, Licence
  <2>5. QED
    BY <2>2, <2>3, <2>4 DEF TurnPart
<1>9. CASE ShortThread
  BY <1>0, <1>8, <1>9 DEF ShortThread, llm_vars
<1>10. CASE CallSummary
  <2>1. router' = "request" /\ llm_result' = "none"
    BY <1>0, <1>10 DEF CallSummary, CallLlm
  <2>2. TurnTyped'
    BY <1>10, Zenon DEF CallSummary, TurnInv, TurnPart, TurnTyped, facts
  <2>3. Settled'
    BY <1>10 DEF CallSummary, TurnInv, TurnPart, Settled, LeftAlone, facts
  <2>4. Calling' /\ SentIsLast' /\ Licence'
    BY <1>10, <2>1 DEF CallSummary, Calling, SentIsLast, Licence
  <2>5. QED
    BY <2>2, <2>3, <2>4 DEF TurnPart
<1>11. CASE SummaryEnds
  <2>1. router' = "idle" /\ llm_result' = "none"
    BY <1>11, Consumed DEF SummaryEnds
  <2>2. llm_result \in {"answer"} \cup swallowed
    BY <1>0, <1>11 DEF SummaryEnds, swallowed
  <2>3. QED
    BY <1>8, <1>11, <2>1, <2>2 DEF SummaryEnds
<1>12. CASE FlushRefused \/ DatabaseFails
  <2>1. CASE turn = "finishing" /\ UNCHANGED llm_vars
    BY <1>0, <1>12, <2>1, Raising DEF FlushRefused, DatabaseFails, llm_vars
  <2>2. CASE llm_result # "none" /\ Consume
    <3>1. router' = "idle" /\ llm_result' = "none"
      BY <2>2, Consumed
    <3>2. QED
      BY <1>0, <1>12, <3>1, Raising DEF FlushRefused, DatabaseFails
  <2>3. QED
    BY <1>12, <2>1, <2>2 DEF FlushRefused, DatabaseFails
<1>13. QED
  BY <1>2, <1>3, <1>4, <1>5, <1>6, <1>7, <1>9, <1>10, <1>11, <1>12

\* The invariant is inductive.
LEMMA TurnStep == TurnInv /\ [Next]_vars => TurnInv'
<1> SUFFICES ASSUME TurnInv, [Next]_vars PROVE TurnInv'
  OBVIOUS
<1>1. SmtpInv' /\ RouterInv'
  BY CallsKeep
<1>2. TurnPart'
  <2>0. TurnTyped /\ Calling /\ SentIsLast /\ suppressed \in BOOLEAN
    BY DEF TurnInv, TurnPart, TurnTyped
  <2>1. CASE UNCHANGED vars \/ Over
    <3>1. UNCHANGED vars
      BY <2>1 DEF Over
    <3>2. Calling' /\ SentIsLast'
      BY <2>0, <3>1 DEF vars, turn_vars, llm_vars, smtp_vars, setup, Calling, SentIsLast
    <3>3. QED
      BY <2>0, <3>1, <3>2, Waiting DEF vars, turn_vars
  <2>2. CASE Suppress
    <3>1. Calling' /\ SentIsLast' /\ suppressed' \in BOOLEAN
      BY <2>0, <2>2 DEF Suppress, llm_vars, smtp_vars, setup, Calling, SentIsLast
    <3>2. QED
      BY <2>2, <3>1, Waiting DEF Suppress, facts
  <2>3. CASE CallPlanner \/ CallResponder
    <3>1. /\ UNCHANGED <<turn_vars, smtp_vars>> /\ turn \in {"planning", "drafting"}
          /\ llm_result' = "none" /\ key'
      BY <2>3 DEF CallPlanner, CallResponder, CallLlm, setup
    <3>2. Calling' /\ SentIsLast'
      BY <2>0, <3>1 DEF turn_vars, smtp_vars, Calling, SentIsLast
    <3>3. QED
      BY <2>0, <3>1, <3>2, Waiting DEF turn_vars
  <2>4. CASE Router /\ UNCHANGED <<turn_vars, smtp_vars>>
    <3>1. router = "request"
      BY <2>4 DEF Router, NoClient, Answers, Unusable, RequestFails
    <3>2. UNCHANGED key
      BY <2>4 DEF Router, NoClient, Answers, Unusable, RequestFails, setup
    <3>3. router' = "request" => llm_result' = "none"
      BY <2>0, <2>4, RouterKeeps DEF TurnInv, Calling
    <3>4. Calling' /\ SentIsLast'
      BY <2>0, <2>4, <3>1, <3>2, <3>3 DEF turn_vars, smtp_vars, Calling, SentIsLast
    <3>5. QED
      BY <2>0, <2>4, <3>4, Waiting DEF turn_vars
  <2>5. CASE Conversation /\ UNCHANGED <<turn_vars, llm_vars>>
    <3>1. pc # "idle"
      BY <2>5 DEF Conversation, DryRun, Begin, Connect, StartTls, Login, Envelope, DataFails, Data,
                  Reply, NoReply, Quit, Retry, Finish
    <3>2. Calling' /\ SentIsLast'
      BY <2>0, <2>5, <3>1 DEF turn_vars, llm_vars, setup, Calling, SentIsLast
    <3>3. QED
      BY <2>0, <2>5, <3>2, Waiting DEF turn_vars
  <2>6. QED
    BY <2>1, <2>2, <2>3, <2>4, <2>5, EarlySteps, LateSteps DEF Next, Turn
<1>3. QED
  BY <1>1, <1>2 DEF TurnInv

\* The inductive invariant of the turn, its type invariant included.
THEOREM Invariance == Spec => []TurnInv
<1>1. Init /\ [][Next]_vars => []TurnInv
  BY TurnInitially, TurnStep, PTL
<1>2. QED
  BY <1>1, PTL DEF Spec

\* Once the answer has left, _classify_and_apply_inbound fails only where the turn is
\* written down, at a flush or the commit: the exceptions of the model calls, the summary's
\* included, and fields of an unexpected type come before the answer or are swallowed.
THEOREM OnlyWritingRaisesAfterSending == Spec => []OnlyWritesFailAfterSend
<1>1. TurnInv => OnlyWritesFailAfterSend
  BY DEF TurnInv, TurnPart, SentIsLast, OnlyWritesFailAfterSend
<1>2. QED
  BY <1>1, Invariance, PTL

\* A reply that the handler hands to a human, or that belongs to LeadBoost, leaves no
\* automatic follow-up behind, whichever status the contact had.
THEOREM TakenOverStaysAlone == Spec => []TakenOverIsLeftAlone
<1>1. TurnInv => TakenOverIsLeftAlone
  BY DEF TurnInv, TurnPart, Settled, LeftAlone, TakenOverIsLeftAlone
<1>2. QED
  BY <1>1, Invariance, PTL

\* A fault of ours that the provider reports (key, schema, name of the primary model) ends
\* the call with an exception: _chat_with_retry, the modes and the fallback models never
\* hide it behind an answer. Not covered, because the code does rotate there: a fallback's
\* rejection whose text also reads as an unknown model ("misread").
THEOREM FaultsSurface == Spec => []OurFaultSurfaces
<1>1. TurnInv => OurFaultSurfaces
  BY DEF TurnInv, RouterInv, FaultShown, OurFaultSurfaces
<1>2. QED
  BY <1>1, Invariance, PTL

\* An automatic answer is handed to SMTP only when all three stages came from a model,
\* for a native contact whose mail neither opted out nor was automatic and whose
\* address is not suppressed at that moment.
THEOREM EveryAnswerIsLicensed == Spec => AnswersAreLicensed
<1> DEFINE Licensed ==
      turn' = "sending" /\ turn # "sending" =>
        /\ answered' = {"classifier", "planner", "responder"}
        /\ ~managed /\ ~mail.optout /\ ~mail.auto
        /\ ~suppressed
<1>1. ASSUME TurnInv, [Next]_vars PROVE [Licensed]_vars
  <2>1. CASE SendsDraft
    <3>1. can_auto_send /\ ~suppressed /\ turn = "drafting"
      BY <2>1 DEF SendsDraft, may_send
    <3>2. answered = {"classifier", "planner"} /\ ~managed /\ ~mail.optout /\ ~mail.auto
      BY <1>1, <3>1 DEF TurnInv, TurnPart, Licence
    <3>3. answered' = answered \cup {"responder"}
      BY <2>1 DEF SendsDraft, Takes
    <3>4. QED
      BY <3>1, <3>2, <3>3
  <2>2. ASSUME ~SendsDraft, ~UNCHANGED turn PROVE turn' # "sending"
    <3>1. ASSUME NEW intents, NEW r, NEW asked_for, NEW bad, Handle(intents, r, asked_for, bad)
          PROVE  turn' # "sending"
      BY <3>1 DEF Handle, Raises, Settles
    <3>2. ASSUME NEW proposal, Plans(proposal) PROVE turn' # "sending"
      BY <3>2 DEF Plans
    <3>3. CASE FallbackClassification \/ ReadsReply
      BY <3>1, <3>3 DEF FallbackClassification, ReadsReply
    <3>4. CASE PlansWithoutModel \/ PlannerFails \/ PlannerAnswers
      BY <3>2, <3>4 DEF PlansWithoutModel, PlannerFails, PlannerAnswers
    <3>5. CASE ScreenOptOut \/ ScreenAutoReply \/ CallClassifier \/ ClassificationFails
               \/ ReadsUnsubscribe \/ ReadsNotInterested \/ ReadsOutOfOffice
      BY <3>5 DEF ScreenOptOut, ScreenAutoReply, CallClassifier, ClassificationFails,
                  ReadsUnsubscribe, ReadsNotInterested, ReadsOutOfOffice, Unsubscribes, Settles
    <3>6. CASE PlannerPromptFails \/ PlannerAnswersOddly \/ DraftsWithoutModel \/ ResponderFails
               \/ ResponderAnswersOddly \/ HoldsDraft \/ RecordsOutcome
      BY <3>6 DEF PlannerPromptFails, PlannerAnswersOddly, DraftsWithoutModel, ResponderFails,
                  ResponderAnswersOddly, HoldsDraft, RecordsOutcome, NeedsManualDraft, Settles,
                  Raises
    <3>7. CASE ShortThread \/ CallSummary \/ SummaryEnds \/ FlushRefused
               \/ DatabaseFails
      BY <3>7 DEF ShortThread, CallSummary, SummaryEnds, FlushRefused, DatabaseFails, Store, Raises
    <3>8. CASE \/ CallPlanner \/ CallResponder \/ Suppress \/ Over \/ UNCHANGED vars
               \/ Router /\ UNCHANGED <<turn_vars, smtp_vars>>
               \/ Conversation /\ UNCHANGED <<turn_vars, llm_vars>>
      BY <2>2, <3>8 DEF CallPlanner, CallResponder, Suppress, Over, vars, turn_vars
    <3>9. QED
      BY <1>1, <2>2, <3>3, <3>4, <3>5, <3>6, <3>7, <3>8 DEF Next, Turn
  <2>3. QED
    BY <2>1, <2>2
<1>2. Init /\ [][Next]_vars => []TurnInv
  BY TurnInitially, TurnStep, PTL
<1>3. Init /\ [][Next]_vars => AnswersAreLicensed
  BY <1>1, <1>2, PTL DEF AnswersAreLicensed
<1>4. QED
  BY <1>3, PTL DEF Spec

\* send_email keeps the contract that the dispatch worker relies on, whatever fails and
\* is retried: content transferred at most once, SENT means accepted, FAILED means
\* never transferred.
THEOREM SenderMeetsContract == Spec => MeetsContract
<1>1. Init => Contract!ContractInit
  BY DEF Init, SmtpInit, Contract!ContractInit
<1>2. ASSUME TurnInv, [Next]_vars PROVE [Contract!ContractNext]_(Contract!contractVars)
  BY <1>2, Parts, SmtpCalled, SmtpIdles, ConversationMeetsContract DEF TurnInv
<1>3. Init /\ [][Next]_vars => []TurnInv
  BY TurnInitially, TurnStep, PTL
<1>4. Init /\ [][Next]_vars => Contract!ContractSpec
  BY <1>1, <1>2, <1>3, PTL DEF Contract!ContractSpec
<1>5. QED
  BY <1>4, PTL DEF Spec, MeetsContract

\* However many models the operator lists, and however the provider fails, a call asks
\* at most MaxModels of them within the budget and never returns to one it has left.
THEOREM CallsAreBounded == Spec => []BoundedCalls
<1>1. Init => TurnInv /\ BoundInv
  BY TurnInitially, BoundInitially DEF Init, TurnInv, RouterInv
<1>2. TurnInv /\ BoundInv /\ [Next]_vars => TurnInv' /\ BoundInv'
  <2> SUFFICES ASSUME TurnInv, BoundInv, [Next]_vars PROVE TurnInv' /\ BoundInv'
    OBVIOUS
  <2>1. TurnInv'
    BY TurnStep
  <2>2. BoundInv'
    BY Parts, BoundIdles, BoundCalled, RouterBounded
       DEF TurnInv, RouterInv, llm_vars, setup, position, Consume
  <2>3. QED
    BY <2>1, <2>2
<1>3. TurnInv /\ BoundInv => BoundedCalls
  BY BoundsImplied DEF TurnInv, RouterInv
<1>4. Init /\ [][Next]_vars => []BoundedCalls
  BY <1>1, <1>2, <1>3, PTL
<1>5. QED
  BY <1>4, PTL DEF Spec

-----------------------------------------------------------------------------
(* The safety half of EndsWithOptOutHonoured: wherever a turn about an      *)
(* opt-out stands, the entry is on its way, written, or lost because the    *)
(* turn could not be written down.  That the turn ends is left to TLC.      *)

OptOutHonoured ==
  turn \in {"stored", "raised"} /\ mail.optout
    => suppressed \/ raised_by \in {"refused", "database"}

OptOutInv ==
  mail.optout =>
    \/ turn = "received"
    \/ turn \in {"finishing", "summarizing"} /\ opted_out
    \/ turn = "stored" /\ suppressed
    \/ turn = "raised" /\ raised_by \in {"refused", "database"}

\* With an opt-out in the body nothing but the unsubscription, the summary and the end of the
\* turn can happen, and no failure of the summary's model call drops the entry.
LEMMA OptOutStep == TurnInv /\ OptOutInv /\ [Next]_vars => OptOutInv'
<1> SUFFICES ASSUME TurnInv, OptOutInv, [Next]_vars, mail'.optout PROVE OptOutInv'
  BY DEF OptOutInv
<1>0. ASSUME UNCHANGED <<turn, mail, opted_out, raised_by>>, suppressed' = TRUE \/ UNCHANGED suppressed
      PROVE  OptOutInv'
  BY <1>0 DEF OptOutInv
<1>1. CASE \/ CallPlanner \/ CallResponder \/ Suppress \/ Over \/ UNCHANGED vars
           \/ Router /\ UNCHANGED <<turn_vars, smtp_vars>>
           \/ Conversation /\ UNCHANGED <<turn_vars, llm_vars>>
  <2>1. CASE Suppress
    BY <1>0, <2>1 DEF Suppress, facts
  <2>2. CASE UNCHANGED turn_vars
    BY <1>0, <2>2 DEF turn_vars
  <2>3. QED
    BY <1>1, <2>1, <2>2 DEF CallPlanner, CallResponder, Over, vars
<1>2. CASE \/ ClassificationFails \/ ReadsUnsubscribe \/ ReadsNotInterested \/ ReadsOutOfOffice
           \/ ReadsReply \/ PlannerPromptFails \/ PlansWithoutModel \/ PlannerFails
           \/ PlannerAnswers \/ PlannerAnswersOddly \/ DraftsWithoutModel \/ ResponderFails
           \/ ResponderAnswersOddly \/ HoldsDraft \/ SendsDraft \/ RecordsOutcome
  <2>1. turn \in {"classifying", "planning", "drafting", "sending"}
    BY <1>2 DEF ClassificationFails, ReadsUnsubscribe, ReadsNotInterested, ReadsOutOfOffice,
                ReadsReply, PlannerPromptFails, PlansWithoutModel, PlannerFails, PlannerAnswers,
                PlannerAnswersOddly, DraftsWithoutModel, ResponderFails, ResponderAnswersOddly,
                HoldsDraft, SendsDraft, RecordsOutcome
  <2>2. UNCHANGED mail
    BY <1>2 DEF ClassificationFails, ReadsUnsubscribe, ReadsNotInterested, ReadsOutOfOffice,
                ReadsReply, PlannerPromptFails, PlansWithoutModel, PlannerFails, PlannerAnswers,
                PlannerAnswersOddly, DraftsWithoutModel, ResponderFails, ResponderAnswersOddly,
                HoldsDraft, SendsDraft, RecordsOutcome, Plans, facts
  <2>3. QED
    BY <2>1, <2>2 DEF OptOutInv
<1>3. CASE ScreenOptOut
  BY <1>3 DEF ScreenOptOut, Unsubscribes, Settles, OptOutInv
<1>4. CASE ScreenAutoReply \/ CallClassifier \/ FallbackClassification
  <2>1. UNCHANGED mail /\ screened # "unsubscribe"
    BY <1>4 DEF ScreenAutoReply, CallClassifier, FallbackClassification, facts
  <2>2. QED
    BY <2>1 DEF screened
<1>5. CASE ShortThread \/ CallSummary
  BY <1>5 DEF ShortThread, CallSummary, Store, facts, OptOutInv
<1>6. CASE SummaryEnds
  <2>1. llm_result \in {"answer"} \cup swallowed
    BY <1>6 DEF SummaryEnds, swallowed, TurnInv, RouterInv, LlmTypeOK
  <2>2. Store /\ turn = "summarizing"
    BY <1>6, <2>1 DEF SummaryEnds
  <2>3. QED
    BY <2>2 DEF Store, facts, OptOutInv
<1>7. CASE FlushRefused \/ DatabaseFails
  BY <1>7 DEF FlushRefused, DatabaseFails, Raises, OptOutInv
<1>8. QED
  BY <1>1, <1>2, <1>3, <1>4, <1>5, <1>6, <1>7 DEF Next, Turn

\* A reply that asks in so many words to be left alone never ends its turn with the address off
\* the suppression list, unless the database failed or refused the text of the summary: no
\* failed model call before or after _handle_unsubscribe, the summary's included, undoes it.
THEOREM OptOutsAreHonoured == Spec => []OptOutHonoured
<1>1. Init => TurnInv /\ OptOutInv
  BY TurnInitially DEF Init, OptOutInv
<1>2. TurnInv /\ OptOutInv /\ [Next]_vars => TurnInv' /\ OptOutInv'
  BY TurnStep, OptOutStep
<1>3. OptOutInv => OptOutHonoured
  BY DEF OptOutInv, OptOutHonoured
<1>4. Init /\ [][Next]_vars => []OptOutHonoured
  BY <1>1, <1>2, <1>3, PTL
<1>5. QED
  BY <1>4, PTL DEF Spec

=============================================================================
