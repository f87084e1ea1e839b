----------------------------- MODULE SmtpSender -----------------------------
(***************************************************************************)
(* One call of mail/sender.py send_email: the SMTP conversation, smtplib's *)
(* QUIT on the way out of the `with` block, the exception that escapes it, *)
(* and tenacity's retry of the whole function.                             *)
(*                                                                         *)
(* Exceptions are abstracted to the classes the code tells apart:          *)
(*   "transient"  in _TRANSIENT_SMTP_ERRORS and not an explicit refusal    *)
(*   "refusal"    in _EXPLICIT_REFUSAL_ERRORS                              *)
(*   "ambiguous"  AmbiguousSendError                                       *)
(*   "other"      anything else                                            *)
(* Every socket operation has a timeout of 30 seconds, so each step ends.  *)
(* The module has no Next of its own: the caller calls CallSmtp and takes  *)
(* the steps of Conversation until pc = "returned".                        *)
(***************************************************************************)
EXTENDS Naturals

CONSTANT MaxAttempts   \* stop_after_attempt (3 in the code)

ASSUME MaxAttemptsAssumption == MaxAttempts \in Nat \ {0}

VARIABLES live,        \* settings.live_sending_enabled
          use_tls,     \* cfg.use_tls
          pc,
          attempt,     \* tenacity's attempt number
          body_error,  \* what the body of the with block raised
          accepted,    \* the local flag: sendmail() returned
          escaped,     \* what leaves _smtp_send_with_retry
          outcome,     \* SendResult.outcome
          data_sent,   \* how often the content was transferred
          delivered    \* a server accepted the content

smtp_vars == <<live, use_tls, pc, attempt, body_error, accepted, escaped, outcome, data_sent, delivered>>
config == <<live, use_tls>>

Error == {"transient", "refusal", "ambiguous", "other"}

SmtpTypeOK ==
  /\ live \in BOOLEAN
  /\ use_tls \in BOOLEAN
  /\ pc \in {"idle", "start", "connect", "starttls", "login", "envelope", "data", "reply",
             "quit", "escape", "returned"}
  /\ attempt \in 1..MaxAttempts
  /\ body_error \in Error \cup {"none"}
  /\ accepted \in BOOLEAN
  /\ escaped \in Error \cup {"none"}
  /\ outcome \in {"none", "sent", "failed", "unknown"}
  /\ data_sent \in Nat
  /\ delivered \in BOOLEAN

SmtpInit ==
  /\ live = FALSE
  /\ use_tls = FALSE
  /\ pc = "idle"
  /\ attempt = 1
  /\ body_error = "none"
  /\ accepted = FALSE
  /\ escaped = "none"
  /\ outcome = "none"
  /\ data_sent = 0
  /\ delivered = FALSE

-----------------------------------------------------------------------------
\* send_email is called and reads its settings (SmtpConfig).
CallSmtp ==
  /\ pc = "idle"
  /\ live' \in BOOLEAN
  /\ use_tls' \in BOOLEAN
  /\ pc' = "start"
  /\ UNCHANGED <<attempt, body_error, accepted, escaped, outcome, data_sent, delivered>>

\* LIVE_SENDING_ENABLED is off: SENT is returned and nothing is transmitted.
DryRun ==
  /\ pc = "start"
  /\ ~live
  /\ pc' = "returned"
  /\ outcome' = "sent"
  /\ UNCHANGED <<config, attempt, body_error, accepted, escaped, data_sent, delivered>>

Begin ==
  /\ pc = "start"
  /\ live
  /\ pc' = "connect"
  /\ UNCHANGED <<config, attempt, body_error, accepted, escaped, outcome, data_sent, delivered>>

\* smtplib.SMTP(host, port): a failure leaves no connection to clean up.
Connect ==
  /\ pc = "connect"
  /\ \/ pc' = (IF use_tls THEN "starttls" ELSE "login") /\ UNCHANGED escaped
     \/ pc' = "escape" /\ escaped' \in {"transient", "other"}
  /\ UNCHANGED <<config, attempt, body_error, accepted, outcome, data_sent, delivered>>

\* The body raises e: remembered, then smtplib's __exit__ runs.
Raise(e) ==
  /\ body_error' = e
  /\ pc' = "quit"

StartTls ==
  /\ pc = "starttls"
  /\ \/ pc' = "login" /\ UNCHANGED body_error
     \/ \E e \in {"transient", "refusal", "other"} : Raise(e)
  /\ UNCHANGED <<config, attempt, accepted, escaped, outcome, data_sent, delivered>>

Login ==
  /\ pc = "login"
  /\ \/ pc' = "envelope" /\ UNCHANGED body_error
     \/ \E e \in {"transient", "refusal", "other"} : Raise(e)
  /\ UNCHANGED <<config, attempt, accepted, escaped, outcome, data_sent, delivered>>

\* except _EXPLICIT_REFUSAL_ERRORS: raise; except Exception: AmbiguousSendError
FromSendmail(e) == IF e = "refusal" THEN "refusal" ELSE "ambiguous"

\* sendmail(): msg.as_string(), EHLO, MAIL and RCPT.
Envelope ==
  /\ pc = "envelope"
  /\ \/ pc' = "data" /\ UNCHANGED body_error
     \/ \E e \in {"transient", "refusal", "other"} : Raise(FromSendmail(e))
  /\ UNCHANGED <<config, attempt, accepted, escaped, outcome, data_sent, delivered>>

\* sendmail(): DATA.  The server refuses the command or the connection drops
\* (neither SMTPDataError nor a disconnect is an explicit refusal) ...
DataFails ==
  /\ pc = "data"
  /\ Raise(FromSendmail("transient"))
  /\ UNCHANGED <<config, attempt, accepted, escaped, outcome, data_sent, delivered>>

\* ... or the content is transferred and the server accepts it or not.
Data ==
  /\ pc = "data"
  /\ data_sent' = data_sent + 1
  /\ delivered' \in {delivered, TRUE}
  /\ pc' = "reply"
  /\ UNCHANGED <<config, attempt, body_error, accepted, escaped, outcome>>

\* 250: sendmail() returns.
Reply ==
  /\ pc = "reply"
  /\ delivered
  /\ accepted' = TRUE
  /\ pc' = "quit"
  /\ UNCHANGED <<config, attempt, body_error, escaped, outcome, data_sent, delivered>>

\* The reply is an error (SMTPDataError) or never arrives.
NoReply ==
  /\ pc = "reply"
  /\ Raise(FromSendmail("transient"))
  /\ UNCHANGED <<config, attempt, accepted, escaped, outcome, data_sent, delivered>>

\* Python's rule: an exception raised by __exit__ replaces the one in flight.
CleanupReplaces(cleanup) ==
  IF cleanup # "none" THEN cleanup ELSE body_error

\* The except clause: the body's error wins; an accepted message never fails.
Escaping(cleanup) ==
  IF body_error # "none" THEN body_error
  ELSE IF accepted THEN "none" ELSE cleanup

\* QUIT and close; a non-221 reply or a socket error raises.
Quit ==
  /\ pc = "quit"
  /\ \E cleanup \in {"none", "transient"} : escaped' = Escaping(cleanup)
  /\ pc' = "escape"
  /\ UNCHANGED <<config, attempt, body_error, accepted, outcome, data_sent, delivered>>

is_retryable_smtp_error(e) == e = "transient"

AttemptsLeft == attempt < MaxAttempts

\* tenacity runs the function again, with fresh locals.
Retry ==
  /\ pc = "escape"
  /\ is_retryable_smtp_error(escaped)
  /\ AttemptsLeft
  /\ attempt' = attempt + 1
  /\ pc' = "connect"
  /\ body_error' = "none"
  /\ accepted' = FALSE
  /\ escaped' = "none"
  /\ UNCHANGED <<config, outcome, data_sent, delivered>>

\* send_email's result for what escaped.
OutcomeOf(e) ==
  CASE e = "none" -> "sent" [] e = "ambiguous" -> "unknown" [] OTHER -> "failed"

\* The call returns; its locals are gone.
Finish ==
  /\ pc = "escape"
  /\ ~(is_retryable_smtp_error(escaped) /\ AttemptsLeft)
  /\ outcome' = OutcomeOf(escaped)
  /\ pc' = "returned"
  /\ attempt' = 1
  /\ body_error' = "none"
  /\ accepted' = FALSE
  /\ escaped' = "none"
  /\ UNCHANGED <<config, data_sent, delivered>>

Conversation ==
  \/ DryRun \/ Begin \/ Connect \/ StartTls \/ Login \/ Envelope \/ DataFails \/ Data
  \/ Reply \/ NoReply \/ Quit \/ Retry \/ Finish

-----------------------------------------------------------------------------
\* The contract that the dispatch worker relies on, for live sending: whatever
\* fails when, including QUIT while another error propagates, the content is
\* transferred at most once, SENT means accepted and FAILED means never transferred.
Contract ==
  INSTANCE SmtpContract WITH
    returned <- IF live THEN outcome ELSE "none",
    handed <- data_sent,
    kept <- delivered

MeetsContract == Contract!ContractSpec

=============================================================================
