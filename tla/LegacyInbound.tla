--------------------------- MODULE LegacyInbound ---------------------------
(***************************************************************************)
(* The deployment-global inbound paths: followup/scheduler.poll_replies_job *)
(* fetches every Unseen message (imap_reader.fetch_unseen_replies), which  *)
(* marks each one Seen as it is parsed, and then processes the batch in    *)
(* one session; api/webhooks.py processes one message per request.  Both   *)
(* run reply_handler_v2.process_inbound_email_v2, whose duplicate check is *)
(* backed by a unique index on the Message-ID of rows without a mailbox.   *)
(*                                                                         *)
(* A message stands for its normalised Message-ID, or for itself when it   *)
(* has none: then there is no duplicate check, and NULL is never equal to  *)
(* NULL in the index.  Several requests for one message (a provider's      *)
(* retry) are several webhook calls.                                       *)
(***************************************************************************)
EXTENDS Naturals, FiniteSets

CONSTANTS Mail,
          Matched,     \* the messages that correlate to a contact
          Anonymous,   \* the messages without a Message-ID
          Hook,        \* webhook calls
          Null,
          MaxFaults,   \* bound on IMAP failures
          MaxDeaths    \* bound on deaths of the job and failed webhook calls

ASSUME LegacyAssumption ==
  /\ Matched \subseteq Mail
  /\ Anonymous \subseteq Mail
  /\ Null \notin Mail
  /\ MaxFaults \in Nat /\ MaxDeaths \in Nat

VARIABLES delivered, seen,   \* the INBOX
          rows,              \* committed inbound Message rows per message
          phase,             \* of poll_replies_job
          left,              \* UIDs of the SEARCH not yet fetched
          batch,             \* InboundEmails fetched and not yet processed
          cur,               \* the one past its duplicate check
          pending,           \* rows flushed in the job's open session
          hookpc, hookmail,  \* the webhook calls
          again,             \* history, for mail without a Message-ID: its failed STOREs
                             \* and the rows that webhook calls added
          faults, deaths

inbox == <<delivered, seen>>
job == <<phase, left, batch, cur, pending>>
hooks == <<hookpc, hookmail>>
bounds == <<faults, deaths>>
vars == <<inbox, rows, job, hooks, again, bounds>>

\* Every variable has its type.
TypeOK ==
  /\ delivered \in SUBSET Mail
  /\ seen \in SUBSET delivered
  /\ rows \in [Mail -> Nat]
  /\ phase \in {"idle", "fetch", "process", "flush"}
  /\ left \in SUBSET (Mail \ batch)
  /\ batch \in SUBSET Mail
  /\ cur \in Mail \cup {Null}
  /\ pending \in SUBSET Matched
  /\ hookpc \in [Hook -> {"new", "check", "flush", "commit", "done"}]
  /\ hookmail \in [Hook -> Mail \cup {Null}]
  /\ again \in [Anonymous -> Nat]
  /\ faults \in 0..MaxFaults
  /\ deaths \in 0..MaxDeaths

Init ==
  /\ delivered = {}
  /\ seen = {}
  /\ rows = [m \in Mail |-> 0]
  /\ phase = "idle"
  /\ left = {}
  /\ batch = {}
  /\ cur = Null
  /\ pending = {}
  /\ hookpc = [h \in Hook |-> "new"]
  /\ hookmail = [h \in Hook |-> Null]
  /\ again = [m \in Anonymous |-> 0]
  /\ faults = 0
  /\ deaths = 0

Again(m) == again' = [a \in Anonymous |-> IF a = m THEN again[a] + 1 ELSE again[a]]

Fault == faults < MaxFaults /\ faults' = faults + 1 /\ UNCHANGED deaths
Death == deaths < MaxDeaths /\ deaths' = deaths + 1 /\ UNCHANGED faults

-----------------------------------------------------------------------------
(* The duplicate check, and the unique index uq_messages_message_id_no_mailbox. *)

Identified(m) == m \notin Anonymous

\* Step 1 of process_inbound_email_v2, `if email_in.message_id`.
IsDuplicate(m) == Identified(m) /\ rows[m] > 0

\* Another open transaction holds an uncommitted row: an insert waits for it.
HeldByHook(m) == Identified(m) /\ \E h \in Hook : hookpc[h] = "commit" /\ hookmail[h] = m
HeldByJob(m) == Identified(m) /\ m \in pending

\* No unique index: the duplicate check alone decides.
AlwaysFree(m) == TRUE

IndexIsFree(m) == Identified(m) => rows[m] = 0

\* _find_contact_by_message_id, else _find_contact_by_email
Correlates(m) == m \in Matched

-----------------------------------------------------------------------------
(* poll_replies_job                                                        *)

\* SEARCH UNSEEN
Search ==
  /\ phase = "idle"
  /\ delivered # seen
  /\ phase' = "fetch"
  /\ left' = delivered \ seen
  /\ UNCHANGED <<inbox, rows, batch, cur, pending, hooks, again, bounds>>

\* FETCH (BODY.PEEK[]), parse, append to the results, STORE +FLAGS \Seen; a failing
\* STORE leaves the message both in the results and Unseen.
FetchOne(m, stored) ==
  /\ phase = "fetch"
  /\ m \in left
  /\ left' = left \ {m}
  /\ batch' = batch \cup {m}
  /\ seen' = IF stored THEN seen \cup {m} ELSE seen
  /\ IF stored THEN UNCHANGED <<again, bounds>> ELSE Fault /\ Again(m)
  /\ UNCHANGED <<delivered, rows, phase, cur, pending, hooks>>

\* A plain RFC822 fetch, which sets the Seen flag by itself.
FlaggedByFetch(m) == seen' = seen \cup {m}

\* BODY.PEEK[] does not.
NotFlagged(m) == seen' = seen

\* FETCH or parsing fails: left Unseen, not in the results.
ParseFails(m) ==
  /\ phase = "fetch"
  /\ m \in left
  /\ left' = left \ {m}
  /\ NotFlagged(m)
  /\ Fault
  /\ UNCHANGED <<delivered, rows, phase, batch, cur, pending, hooks, again>>

\* The function returns what it has, also after a broken connection.
EndFetch ==
  /\ phase = "fetch"
  /\ IF left = {} THEN UNCHANGED bounds ELSE Fault
  /\ left' = {}
  /\ phase' = IF batch = {} THEN "idle" ELSE "process"
  /\ UNCHANGED <<inbox, rows, batch, cur, pending, hooks, again>>

\* A duplicate or an uncorrelated message: skipped, nothing is written.
Skip(m) ==
  /\ phase = "process"
  /\ m \in batch
  /\ IsDuplicate(m) \/ ~Correlates(m)
  /\ batch' = batch \ {m}
  /\ UNCHANGED <<inbox, rows, phase, left, cur, pending, hooks, again, bounds>>

\* Not a duplicate, and correlated.
Check(m) ==
  /\ phase = "process"
  /\ m \in batch
  /\ ~IsDuplicate(m) /\ Correlates(m)
  /\ batch' = batch \ {m}
  /\ cur' = m
  /\ phase' = "flush"
  /\ UNCHANGED <<inbox, rows, left, pending, hooks, again, bounds>>

\* db.flush(): the row joins the session, or the unique index raises and
\* db.rollback() drops every row this session has flushed so far.
Flush ==
  /\ phase = "flush"
  /\ ~HeldByHook(cur)
  /\ pending' = IF IndexIsFree(cur) THEN pending \cup {cur} ELSE {}
  /\ cur' = Null
  /\ phase' = "process"
  /\ UNCHANGED <<inbox, rows, left, batch, hooks, again, bounds>>

CommitPending == rows' = [m \in Mail |-> IF m \in pending THEN rows[m] + 1 ELSE rows[m]]

\* session_scope commits when the loop is over.
CommitBatch ==
  /\ phase = "process"
  /\ batch = {}
  /\ CommitPending
  /\ pending' = {}
  /\ phase' = "idle"
  /\ UNCHANGED <<inbox, left, batch, cur, hooks, again, bounds>>

\* The process dies, or a database error aborts the session's transaction (the
\* statements after it and the COMMIT fail too).
JobDies ==
  /\ phase # "idle"
  /\ phase' = "idle"
  /\ left' = {}
  /\ batch' = {}
  /\ cur' = Null
  /\ pending' = {}
  /\ Death
  /\ UNCHANGED <<inbox, rows, hooks, again>>

-----------------------------------------------------------------------------
(* receive_inbound_email: one message, one session, one transaction.       *)

HookGoto(h, l) == hookpc' = [hookpc EXCEPT ![h] = l]

HookStart(h, m) ==
  /\ hookpc[h] = "new"
  /\ hookmail' = [hookmail EXCEPT ![h] = m]
  /\ HookGoto(h, "check")
  /\ UNCHANGED <<inbox, rows, job, again, bounds>>

HookCheck(h) ==
  /\ hookpc[h] = "check"
  /\ HookGoto(h, IF IsDuplicate(hookmail[h]) \/ ~Correlates(hookmail[h]) THEN "done" ELSE "flush")
  /\ UNCHANGED <<inbox, rows, job, hookmail, again, bounds>>

\* A conflict is rolled back and answered as a duplicate.
HookFlush(h) ==
  /\ hookpc[h] = "flush"
  /\ ~HeldByJob(hookmail[h]) /\ ~HeldByHook(hookmail[h])
  /\ HookGoto(h, IF IndexIsFree(hookmail[h]) THEN "commit" ELSE "done")
  /\ UNCHANGED <<inbox, rows, job, hookmail, again, bounds>>

HookCommit(h) ==
  /\ hookpc[h] = "commit"
  /\ rows' = [rows EXCEPT ![hookmail[h]] = @ + 1]
  /\ Again(hookmail[h])
  /\ HookGoto(h, "done")
  /\ UNCHANGED <<inbox, job, hookmail, bounds>>

\* The request fails (an exception answers 500): rolled back.
HookFails(h) ==
  /\ hookpc[h] \in {"check", "flush", "commit"}
  /\ HookGoto(h, "done")
  /\ Death
  /\ UNCHANGED <<inbox, rows, job, hookmail, again>>

-----------------------------------------------------------------------------
Deliver(m) ==
  /\ m \notin delivered
  /\ delivered' = delivered \cup {m}
  /\ UNCHANGED <<seen, rows, job, hooks, again, bounds>>

Next ==
  \/ Search \/ EndFetch \/ Flush \/ CommitBatch \/ JobDies
  \/ \E m \in Mail : ParseFails(m) \/ Skip(m) \/ Check(m) \/ Deliver(m)
  \/ \E m \in Mail, stored \in BOOLEAN : FetchOne(m, stored)
  \/ \E h \in Hook : HookCheck(h) \/ HookFlush(h) \/ HookCommit(h) \/ HookFails(h)
  \/ \E h \in Hook, m \in Mail : HookStart(h, m)

\* The scheduler starts the job every interval, and a started one runs on.
Job ==
  \/ Search \/ Flush \/ CommitBatch
  \/ left = {} /\ EndFetch
  \/ \E m \in Mail : FetchOne(m, TRUE) \/ Skip(m) \/ Check(m)

Spec ==
  /\ Init
  /\ [][Next]_vars
  /\ WF_vars(Job)
  /\ \A h \in Hook : WF_vars(HookCheck(h) \/ HookFlush(h) \/ HookCommit(h))

-----------------------------------------------------------------------------
(* Properties.                                                             *)

\* An email with a Message-ID is recorded once although the webhook, its retries and the
\* poll may all carry it at the same time: it has at most one committed row, and a row
\* that the job is about to commit has no committed twin.  One without a Message-ID is
\* recorded again whenever it is handed in again, and only then: besides the rows of
\* webhook calls the poll adds one, and one more for each STORE that failed to flag it,
\* however often the job dies or runs.
RecordedOnce ==
  /\ \A m \in Mail \ Anonymous : rows[m] <= 1
  /\ \A m \in pending \ Anonymous : rows[m] = 0
  /\ \A m \in Anonymous : rows[m] <= 1 + again[m]

\* While the job does not die and no webhook call interferes, every correlated message
\* is recorded: one that could not be fetched, parsed or flagged, and the ones behind
\* it in the batch, are offered again or are duplicates by then.
EventuallyRecorded ==
  [](deaths = 0 /\ \A h \in Hook : hookpc[h] = "new")
    => \A m \in Matched : m \in delivered ~> rows[m] > 0

\* fetch_unseen_replies: polling "survives this process restarting without losing or
\* double-processing mail": between polls every correlated Seen message is recorded.
SeenIsRecorded == phase = "idle" => \A m \in seen \cap Matched : rows[m] > 0

=============================================================================
