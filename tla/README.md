# LeadBoost mail agent: a TLA+ development

The mail agent accepts outreach operations over HTTP, executes them
asynchronously in worker processes, and turns inbound mail into conversations.
What makes it hard to get right is that every external effect (an SMTP
transfer, an IMAP flag, an LLM call) happens outside the database transaction
that records it, that several processes work on the same tables, and that any
of them may be stopped between two steps.  This directory models those parts,
checks them with TLC and proves the central results with TLAPS.

Contents: [1 System](#1-the-system) · [2 Modules](#2-the-modules-and-the-code)
· [3 Runs](#3-the-runs) · [4 Bounds](#4-bounds) · [5 Fairness](#5-fairness)
· [6 Proofs](#6-what-is-proved) · [7 Findings](#7-findings)
· [8 Left out](#8-what-is-not-modelled) · [9 Plan](#9-plan).

## 1. The system

An API process (FastAPI) and any number of worker processes (APScheduler jobs
and a main thread) share one PostgreSQL database; locally both run in one
process on SQLite.

| Component | State | Operations | What makes it correct |
|---|---|---|---|
| Acceptance API (`api/integrations.py`, `api/integrations_generated.py`) | `Campaign`, `Contact`, `Message`, `ExternalDispatch` rows | POST exact message, POST generated outreach; each a sequence of queries and up to three commits | one operation per organization and key; answers never lie; no orphan Message; rows of one tenant only |
| Claiming and leases (`followup/work_claiming.py`) | `state`, `claimed_by`, `claimed_at`, `locked_until` of a row | claim (FOR UPDATE SKIP LOCKED), fenced outcome, note, two sweeps | only the exact holder, or expiry, ends a claim |
| Send worker (`mail/external_dispatch_worker.py`) | `DispatchRuntime`: stopping flag, claim attempts, in-flight claims | Transaction B, SMTP, Transaction C, drain | at most one transfer; recorded outcomes are true |
| Generation worker (`mail/outreach_generation_worker.py`) | thread state between G1 and G2 | G1, LLM, G2 | one Message per dispatch; a lost lease writes nothing |
| SMTP sender (`mail/sender.py`) | attempt number, local flags | connect .. QUIT, retry | nothing is sent twice; SENT and FAILED are facts |
| Mailbox inbound (`mail/mailbox_inbound.py`, `imap_reader.drain_unseen`, `reply_handler_v2.process_mailbox_inbound`) | Seen flags, inbound Messages, retained unmatched messages | poll, correlate, insert or retain, commit, mark Seen | Seen implies stored; stored once; right tenant |
| Legacy inbound (`poll_replies_job`, `fetch_unseen_replies`, webhook) | Seen flags, one session per batch | fetch all, process all, one commit | recorded once, if there is a Message-ID to tell by |
| Worker process (`worker.py`) | signal flag, liveness row | signal, drain, resolve, exit | "stopped" is reported only when idle |
| Mailbox administration (`api/mailboxes.py`) | mailbox status, credentials | create, patch, disable | a disabled mailbox is neither sent through nor polled |
| Suppression list (`suppression.py`, `reply_handler_v2.py`) | `SuppressionEntry` rows | add, look up | a suppressed recipient is not mailed |
| Native outreach (`followup/scheduler.py`, `engine_v2.py`, the contact half of `work_claiming.py`) | `status`, `next_action_at`, `claimed_by`, `claimed_at`, `follow_up_index` of a contact; claims of a batch in an open transaction | sweep, claim, initial outreach, follow-up cycle, release | no step of the sequence is mailed twice; what is started is worked; claims come back |
| Contact state machine and schedule (`state_machine.py`, `conversation_aware.py`) | none: pure rules over a contact | transition, infer event, next follow-up | an unsubscribed contact stays silent |
| Reply actions and contact endpoints (`reply_handler_v2.py`, `api/contacts.py`, `api/campaigns.py`) | a session's copy of the contact | classify and apply, pause, resume, mark won, force follow-up, start | follow-ups are decided on the current contact |
| Draft approval (`api/messages.py`) | `Message.status` | approve and send | a draft is sent once |
| LLM provider (`llm/provider_v2.py`, `llm/provider.py`) | position in models, response modes and retries | JSON call, text call | a bounded number of requests; our own faults surface |
| Classifier, planner, guardrails, responder, memory (`semantic/`, `policy/`, `llm/agent.py`, `memory/store.py`) | what the stages of one turn said | classify, plan, authorize, draft, summarize | an automatic answer never exceeds what policy authorizes; an opt-out needs no model |
| Worker status (`worker_status.py`, `operator_metrics.py`) | `worker_runtime_status` and `worker_cycle_status` rows, `_stopped`, last cleanup | heartbeat, record cycle, mark stopped, clean up | "stopped" is true and final; the living are kept, the gone are noticed and purged |
| Conversation view, metrics | none of their own | reads | the public vocabulary of states |

**Interaction.**  The two POST routes insert a `QUEUED` row.  A row without a
Message is claimed by a generation job (`GENERATING`), which writes a draft and
requeues it; a row with a draft is claimed by a send job, which commits
`SENDING` with the Message-ID (Transaction B), closes its session, talks to the
SMTP server, and writes the outcome under a fence on state, worker and claim
time (Transaction C).  Sweeps in every worker resolve rows whose lease ran out:
`GENERATING` is requeued, `SENDING` becomes `UNKNOWN` and is never retried.
Shutdown drains the send thread and resolves what it could not drain.  Replies
arrive through a tenant's mailbox, the global mailbox, or the webhook, and are
stored as Messages that later generated requests may answer.

Native campaigns do not use dispatches.  `start_campaign` makes contacts due;
two jobs in every worker claim due contacts with a lease on the contact row, and
mail them from inside a transaction: the initial job commits after each contact,
the follow-up cycle once at its end.  The same rows are written by the contact
endpoints, force-followup, draft approval, and the replies of the prospect, each
from its own, possibly old, copy.

A reply that was stored is then worked in the same transaction: deterministic
checks, a classification by a model, a transition of the contact, a plan, its
authorization, a draft, three gates, possibly an SMTP transfer, and a summary of
the thread.  Each of the four model calls walks the configured models and, for
JSON, up to three response modes of each.  Contacts that LeadBoost manages are
only moved and never answered.

Every process with a scheduler keeps a liveness row, which its heartbeat job
refreshes, its graceful shutdown closes, and other processes delete once it has
been silent for the retention window.

**What is hard** (each is in `PROJECT.json` under `hazards`, at its line):
a crash or a lost acknowledgement between a commit and the effect it announces;
a lease that runs out under a live worker; several processes with one
`WORKER_ID`; a signal between the admission of a claim and its registration;
QUIT failing after DATA succeeded; two requests with one key; a Seen flag
without a row or a row without a flag; the webhook and the poll delivering one
message together; a rollback that drops the claims of a batch whose mail goes on
leaving; a contact changed under the session that is about to mail it; a model
that fails, or says something of an unexpected type, before and after the mail it
wrote has left; a heartbeat that outlives the stop of its process.

## 2. The modules and the code

| Module | Models | Composition |
|---|---|---|
| `WorkClaiming` | the `external_dispatches` table with its Message, one operator per statement of `work_claiming.py` | state and operators used by `ExternalDispatch` |
| `ExternalDispatch` | send job, generation job, sweeps, shutdown, crash, restart, database faults | EXTENDS `WorkClaiming`; instantiates `DispatchLifecycle` |
| `DispatchLifecycle` | the five-state lifecycle promised to clients | abstract specification |
| `ExternalDispatchLiveness` | the same with a budget of disturbances and fairness | EXTENDS `ExternalDispatch` |
| `ExternalDispatchProofs` | theorems: transfers, outcomes, the Message | EXTENDS `ExternalDispatch`, TLAPS |
| `DispatchPromisesProofs` | theorems: claims, fence, notes, shutdown, suppression, the lifecycle refinement | EXTENDS `ExternalDispatchProofs` |
| `SmtpSender` | one call of `send_email` | instantiates `SmtpContract`; used by `ReplyTurn` |
| `SmtpContract` | what a caller may rely on: SENT was kept by a server, FAILED never handed over, at most one hand-over | abstract specification |
| `Acceptance` | both POST routes, mailbox status, replies, follow-ups | |
| `AcceptanceProofs` | theorems | EXTENDS `Acceptance`, TLAPS |
| `MailboxInbound` | mailbox polls from SEARCH to the Seen flag | |
| `MailboxInboundProofs` | theorems | EXTENDS `MailboxInbound`, TLAPS |
| `LegacyInbound` | global poll and webhook | |
| `LegacyInboundProofs` | theorems | EXTENDS `LegacyInbound`, TLAPS |
| `ContactLifecycle` | transition table, intents, scheduling rules, as operators | used by `NativeOutreach` and `ReplyTurn` |
| `LlmProvider` | one call of `call_llm_json` or `call_llm_text` | used by `ReplyTurn` |
| `ReplyTurn` | one reply from classification to commit | EXTENDS `LlmProvider`, `SmtpSender`, `ContactLifecycle` |
| `ReplyTurnProofs` | theorems about the turn, the router and the sender | EXTENDS `ReplyTurn`, TLAPS |
| `WorkerStatus` | liveness and cycle rows, the shutdown's order, retention | |
| `WorkerStatusProofs` | theorems | EXTENDS `WorkerStatus`, TLAPS |
| `NativeOutreach` | both native jobs, contact claims, force-followup, draft approval, campaign and contact endpoints, reply actions, suppression | EXTENDS `ContactLifecycle` |
| `NativeOutreachProofs` | theorems | EXTENDS `NativeOutreach`, TLAPS |
| `MC*` | constants for TLC | |

How steps correspond to code:

- **`ExternalDispatch`.**  A process has a send thread, a generation thread,
  sweeps and a main thread; both jobs run with `max_instances=1`.  A step is one
  database transaction, one critical section of `DispatchRuntime`, or one
  observable point of the SMTP conversation.  `begin_claim_attempt`,
  `ClaimDispatch` (claim and registration), `PassGates`/`GateRefuses`/`Defer`,
  `CommitB` are Transaction B; `Transfer`, `AfterTransfer`, `NoTransfer` are
  `send_email` as its contract describes it; `CommitC`, `LostFence`,
  `AnnotateLateOutcome`, `EndDispatch` are Transaction C.  `ClaimGeneration` ..
  `DiscardGeneration` are G1 and G2.  `RequestShutdown`, `Drain`,
  `SnapshotInflight`, `ResolveClaim`, `ExitMain`, `Exit` are
  `graceful_shutdown`.  `Rollback*`, `Error*` and `LoseAckB` are the database
  failing before or after the commit took effect; `Crash` is the process dying
  at any point, with its open transactions rolled back.
  Row locks are explicit (`locked`), since the claim is held from the SELECT to
  the commit.  Time is reduced to "this lease has run out" (`lease_expired`),
  which may happen to any claim at any moment: no property depends on the ratio
  between lease and work.  `claimed_at` is a token that distinguishes the claims
  of one row.  Gates other than suppression are a free choice.
- **`SmtpSender`.**  Exceptions are the four classes the code tells apart.  The
  `with` block's QUIT may raise and replace the body's exception; tenacity runs
  the whole function again for transient errors.
- **`Acceptance`.**  One step per query or commit of a request's session, so two
  requests interleave between lookup and insert.  Unique indexes are guards of
  the inserting step.  The fingerprint is the record of the hashed fields.
- **`MailboxInbound`.**  One step per query, insert and commit; an uncommitted
  insert blocks a second insert of its key, as the unique index does.  The
  auto-reply is sent in `Apply`, inside the open transaction, as in the code.
  Whether the LLM decides to answer, and whether the reply unsubscribes the
  contact, is a free choice.
- **`LegacyInbound`.**  `FetchOne` marks Seen while parsing; `Check`, `Flush`
  and `CommitBatch` process the batch in one session, in which a lost insert
  race rolls back everything flushed so far.

- **`NativeOutreach`.**  `row` is the committed contact, `tx[w]` what `w`'s open
  transaction has written and locked.  A sender loads a contact (`Begin`, with
  the gates), mails it (`Send`) or holds the draft (`Hold`), and flushes its copy
  (`Write*`) column by column (`Written`), as the ORM does.  `Sweep` and `Claim`
  are two steps because the sweep's UPDATE waits for locks while the claim skips
  them.  `RolledBack` is the exception handler of the initial job, which goes on
  with the batch; `Finish` the one commit of the follow-up cycle.  Endpoint and
  reply sessions are two steps, load with decision and write with commit, since
  `autoflush` is off and nothing is locked between them.  Dates are "none",
  "due" or "later" and `TimePasses` moves them on.
- **`LlmProvider`.**  A step is one request.  A failure is an HTTP status and the
  set of phrases in its text that `_classify_error` looks for, so that the order of
  its tests is part of the model; `Routes` are the `except` clauses of the two
  calls, `Retries` tenacity's policy.  Like `SmtpSender` it has no `Next`: a caller
  starts a call and takes its steps.
- **`ReplyTurn`.**  `_classify_and_apply_inbound` with everything it calls.  A
  stage is the start of a model call, the router's steps, and one action per way
  the stage may end: failed (`ClassificationFails`, `PlannerFails`,
  `ResponderFails`), answered, or answered with a field of a type the code does not
  expect, where it raises (`PlannerAnswersOddly` and others).  Reading an answer
  and failing on it are both enabled for every answer, since only its text decides.
  The contact moves by `ContactLifecycle`.  Nothing is written to the database
  before `Store`: the session does not autoflush, and its flush follows the send.
  That flush, or the summary's, fails because the database is gone (`DatabaseFails`)
  or because it refuses what a model said (`FlushRefused`); the commit of the caller
  counts among the former.
- **`WorkerStatus`.**  The heartbeat job is one step per statement (`update`,
  `insert`, three `DELETE`s), on PostgreSQL at READ COMMITTED: `marked` are rows
  deleted by an open transaction, which stay locked until it ends.  Timestamps are
  ages in three classes (fresh, stale, expired), and `Tick` ages all of them, those
  that a thread has read and not yet written included.  `Shutdown`, then
  `MarkStopped` or `LeaveUnmarked`, are `graceful_shutdown`, complete or not; what it
  drains is in `ExternalDispatch`.

`PROJECT.json` maps each definition to its lines.

## 3. The runs

| Run | States | Question |
|---|---|---|
| `two_workers` | 867,428 | Two processes that share one `WORKER_ID`, one generated dispatch, every fault, crash, expiry and a graceful shutdown |
| `liveness` | 170,408 | One process, two dispatches (one of each route), sweeps of one row: does everything end, and is suppression honoured |
| `reply_turn` | 98,902 | One reply, with every failure of the models, of SMTP and of the database |
| `acceptance` | 2,727,776 | Two calls, eleven requests, both routes, a new and an old tenant, replies of three contacts and a native follow-up |
| `worker_status` | 37,794 | One process that works and ends, one that keeps running: who looks alive, who is deleted |
| `inbound_overlap` | 2.2 million | Two pollers, two tenants that received one Message-ID |
| `inbound_single` | 46,000 | One poller: progress, and resolution of retained copies |
| `legacy_race` | 767,896 | Poll and webhook calls with the same messages, one of them without a Message-ID; retry of failed fetches |
| `native_requests` | 85,213 | One native contact under every actor that may mail or change it |
| `inbound_repeat` | violation | Is a repeated offer harmless? (finding 1) |
| `legacy_loss` | violation | Does the global poll survive a restart? (finding 2) |
| `native_double` | violation | Do claims keep two workers from mailing one contact? (finding 3) |

What they show:

- **`two_workers`.**  `AtMostOneTransfer`: no dispatch's content goes out twice.
  `HonestOutcome`: SENT was accepted, FAILED was never transferred.
  `MessageIdDurable`: what was on the wire carries the stored Message-ID.
  `MessageMirrorsDispatch`: the two rows never disagree.  `ClaimedIffOwned`: no
  settled row keeps a claim, no owned row lacks one.  `StoppedMeansIdle`: the
  liveness row does not say "stopped" over an external send in flight or a claim
  attempt of the send thread (it says nothing of generation or native sends).
  `LateNotesTruthful`: notes written after a lost fence sit on UNKNOWN rows and
  are true.  `OnlyHolderOrExpiryReleases`: a claim comes off a row by a step of the
  thread that holds exactly this claim, or by a sweep, which is a step of no thread,
  after the lease expired.  The fence on claim time so keeps a late thread from writing
  over its successor, alive or not, although the worker names are equal.
- **`liveness`.**  `EventuallySettled`: every accepted dispatch ends as SENT,
  FAILED or UNKNOWN, although the sweep takes fewer rows than may have expired.
  `SuppressionHonoured`: an address suppressed before the gates read the list is
  never mailed, however often the row is deferred and claimed again.
  `ImplementsLifecycle`: the workers refine `DispatchLifecycle`, with `GENERATING`
  reported as queued.
- **`reply_turn`.**  Of the handler: `AnswersAreLicensed`: an automatic answer
  leaves only if classification, plan and wording came from a model and not from a
  fallback, for an unmanaged contact, to an address that is not suppressed when the
  gates look.  `EndsWithOptOutHonoured`: every turn ends, and one whose mail opts out
  in so many words ends with the address on the suppression list, whatever state the
  provider is in, unless the transaction that holds the entry is lost (section 7).
  `OnlyWritesFailAfterSend`: once the answer has left, the turn fails only where it is
  written down; no failed model call and no field of an unexpected type gets that
  far.  `TakenOverIsLeftAlone`: a reply that a human or LeadBoost
  answers leaves no native follow-up, and moves a managed contact although its worker
  never applied `INITIAL_SENT`.  Of the router: `BoundedCalls` is the bound that the
  comment on `_MAX_MODELS_TO_TRY` derives, with no model asked again once left;
  `OurFaultSurfaces` that a rejected key, schema or primary model ends the call with an
  exception, with the one exception of a rejection that the code misreads (section 7).  Of
  `send_email`: `MeetsContract` is the assumption `ExternalDispatch` makes of SMTP: the
  content is handed over at most once, across all retries, SENT means kept and FAILED
  never handed over.
- **`acceptance`.**  `OneOperationPerKey`, `AnswersAreConsistent`,
  `MessagesOwnedByOperations`.  `WiredToTenant`: mailbox, campaign and contact are the
  organization's own and belong together, for any reply reference a client names, and
  concurrent first uses converge on one campaign and one contact.
  `NoDispatchIntoFollowup`: no operation for a contact with a native follow-up at the
  moment of the commit.
- **`worker_status`.**  `StopIsFinal`: no late heartbeat touches a closed row.
  `HeardOfIsKept`: cleanup deletes no runtime row of a process heard of within the
  window, even one that comes back between two of its statements.  `GoneIsPurged`: the
  rows of a process that is gone are deleted in the end.  That "stopped" is not
  recorded over a send in flight is `StoppedMeansIdle` of `two_workers`.
- **`inbound_overlap`, `inbound_single`.**  `SeenMeansDurable`,
  `AttachedOnceInTenant`, `RetainedCopyResolved`, `EventuallyDurable`.
  The third holds for one poller only: with two, a slow poller may retain a
  message after another one attached it.
- **`legacy_race`.**  `RecordedOnce`: a mail with a Message-ID gets one row; one
  without gets a row for each time it is handed in, which for the poll is once, plus
  once for each STORE that failed.  `EventuallyRecorded` as long as no job dies and no
  webhook call interferes.
- **`native_requests`.**  `RepeatsAreLicensed`: a step of the sequence is mailed
  once, plus once for each event after which the code accepts a repeat (a
  rolled-back transaction that had mailed, a claim lost under an initial job by
  expiry, rollback or shutdown, a forced follow-up, a resume); anything else,
  such as retrying an ambiguous send, breaks it.  `DraftSentOnce`: approvals
  racing each other send a draft once.  `FollowUpsOnCurrentRow`: when the
  follow-up cycle mails, the committed contact is still active, due and without
  a recent reply.  `SuppressedNotMailed`: after an unsubscribe or POST /suppress
  only sessions already past their gate mail, once.  `StartedIsWorked` and
  `ClaimsComeBack`: progress for contacts of active campaigns.
  `ActiveIsScheduled`: in a campaign that has follow-ups, an active contact without
  a next action has answered, was resumed, is suppressed, or had two initial jobs
  at work on it after one lost its claim; no failed send, lost update, forced
  follow-up or pause loses the schedule of another.

Every module states the shape of its variables as a type invariant.  They are parts
of the inductive invariants of section 6 and proved there; the one of
`ExternalDispatch`, which also bounds its retry loops, is checked by a run too.

Every property has a mutant of the code in `PROJECT.json` that it catches: a
fence on the worker's name only, a sweep that requeues SENDING rows, a drain
that ignores claim attempts, a cleanup error that replaces the body's, a
duplicate check without the mailbox, and so on.

## 4. Bounds

- Two processes suffice for every race on one row: a holder and a successor or
  sweeper.  One dispatch suffices for the row properties because rows interact
  only through the sweep's limit and the order of claims, and `liveness` has two
  dispatches for those.
- Claim tokens are recycled once nobody refers to them: five suffice for two
  processes (each may hold one in its send thread, its generation thread, or its
  shutdown list, and the row one), three for one process.  Worker names are
  shared, which is the harder case.
- `TxnAttempts` is 2 instead of 3: a retry after a failure and after a commit
  whose acknowledgement was lost both occur.  `MaxAttempts` of SMTP is the
  code's 3.
- Symmetry is used for Message-IDs, calls and pollers, and only in runs without
  liveness properties.
- Two calls suffice for a winner and a loser, and for an operation whose answer
  was lost and its retry, each with every request of the set.  The requests cover:
  equal, different content, other route, other context under the same fingerprint,
  another key, a new and an old tenant, an answer to each stored reply and one to the wrong
  recipient.  A reply without a Message-ID is not among them: `ReplyParent` refuses
  it like an unknown one.
- `reply_turn` has the code's limits (three attempts, three models, three tries,
  twelve attempts in all) with two configurations of models, one with a repeated
  name and one with a model too many and a primary that is not registered for strict
  schemas; the failures are each status alone and the combinations of phrases whose
  order matters; contacts start in a status of each kind that the events treat
  differently.
- `worker_status` has one process that may end and one that does not: a race is
  between the records of one process and the cleanup of another.  `Observed` is the
  bound: a process outside it sends nothing and does not stop.
- `FaultBudget` (2), `MaxFaults` (1 or 2) and `MaxDeaths` (1) limit failures in
  the inbound and liveness runs; in `two_workers` failures are unlimited.
- `native_requests` has one contact, two initial jobs, one follow-up cycle, one
  forced follow-up, two approvals and one endpoint or reply session, a cadence
  of one follow-up, one bounded request, one fault and one lease outlived by its
  job; that is each pair of actors on one row.  Contacts of one batch interact
  only through the batch's transaction: with one contact a job that rolls back has
  nothing left to mail, so that a claim is lost under a working job only by expiry
  or shutdown.  `native_double` has the batch of two, and the theorems about
  `NativeOutreach` hold for any number.
  `MCReplies` has one reply of each kind the code treats differently for a
  contact: an unsubscribe among other intents, one to answer, one that asks for a date
  that has already passed, one that could not be classified.
- Deadlock is checked, except in the `LegacyInbound` and `NativeOutreach` runs,
  where all bounded inputs may be used up.

## 5. Fairness

- `ExternalDispatchLiveness`: weak fairness of each thread, each sweep, the main
  thread, exit and restart of each process, and of the ageing of abandoned
  claims.  The scheduler fires its interval jobs for as long as the process
  runs; a started job continues, since sockets, the LLM client and the database
  have timeouts; the platform restarts a worker that exited (`render.yaml`,
  `Procfile`).  Nothing is assumed of requests, signals, faults or outcomes.
  Faults, signals and leases outlived by their work share the budget: without a
  bound a row could be deferred for ever.
- `MailboxInbound`: weak fairness of a started poll and strong fairness of the
  start of a poll of each mailbox, since every cycle goes through all eligible
  mailboxes; the progress property concerns mailboxes that stay eligible.
- `LegacyInbound`: weak fairness of the job and of started webhook calls.
- `NativeOutreach`: weak fairness of each job and of an approval that holds its
  lock, and of the expiry of leases.  Requests, replies, deaths and the passing
  of days are not fair.
- `ReplyTurn`: weak fairness of the turn, which is one thread: each socket
  operation and each model request has a timeout, and the waits between tries are
  bounded.  A suppression by another session is not fair.
- `WorkerStatus`: weak fairness of time.  Of the process that keeps running, weak
  fairness of its start and of the beginning of its heartbeat (an interval job), and
  strong fairness of each statement: it may fail any number of times, but not every
  time.  Of the process that may end, only that a started job goes on.

## 6. What is proved

For every number of dispatches, processes, tokens, attempts, calls, requests,
tenants, existing rows, pollers, messages, contacts, jobs and sessions:

| Theorem | Statement |
|---|---|
| `ExternalDispatchProofs!Invariance` | `Spec => []IndInv` |
| `ExternalDispatchProofs!TypeCorrectness` | `Spec => []TypeOK` |
| `ExternalDispatchProofs!NoDoubleSend` | `Spec => []AtMostOneTransfer` |
| `ExternalDispatchProofs!OutcomesAreHonest` | `Spec => []HonestOutcome` |
| `ExternalDispatchProofs!MessageFollowsDispatch` | `Spec => []MessageMirrorsDispatch` |
| `DispatchPromisesProofs!Promises` | `Spec => []PromiseInv` |
| `DispatchPromisesProofs!ClaimsAreOwned` | `Spec => []ClaimedIffOwned` |
| `DispatchPromisesProofs!MessageIdsAreDurable` | `Spec => []MessageIdDurable` |
| `DispatchPromisesProofs!NotesAreTruthful` | `Spec => []LateNotesTruthful` |
| `DispatchPromisesProofs!StoppedIsIdle` | `Spec => []StoppedMeansIdle` |
| `DispatchPromisesProofs!FenceHolds` | `Spec => OnlyHolderOrExpiryReleases` |
| `DispatchPromisesProofs!SuppressionIsHonoured` | `Spec => SuppressionHonoured` |
| `DispatchPromisesProofs!LifecycleRefinement` | `Spec => ImplementsLifecycle` |
| `AcceptanceProofs!IdempotencyInvariance` | `Spec => []IdempotencyInv` |
| `AcceptanceProofs!AcceptanceIsIdempotent` | `Spec => []OneOperationPerKey` |
| `AcceptanceProofs!AnswersNeverLie` | `Spec => []AnswersAreConsistent` |
| `AcceptanceProofs!NoOrphanMessages` | `Spec => []MessagesOwnedByOperations` |
| `AcceptanceProofs!WiringInvariance` | `Spec => []WiringInv` |
| `AcceptanceProofs!OperationsAreWiredToTheirTenant` | `Spec => []WiredToTenant` |
| `AcceptanceProofs!FollowupsAreLeftAlone` | `Spec => NoDispatchIntoFollowup` |
| `MailboxInboundProofs!Invariance` | `Spec => []InboundInv` |
| `MailboxInboundProofs!SeenIsDurable` | `Spec => []SeenMeansDurable` |
| `MailboxInboundProofs!AttachedOnce` | `Spec => []AttachedOnceInTenant` |
| `MailboxInboundProofs!CopiesAreResolved` | `OnePoller` gives `Spec => []RetainedCopyResolved` |
| `LegacyInboundProofs!Invariance` | `Spec => []LegacyInv` |
| `LegacyInboundProofs!NoDoubleRecord` | `Spec => []RecordedOnce` |
| `WorkerStatusProofs!Invariance` | `Spec => []StatusInv` |
| `WorkerStatusProofs!StopsAreFinal` | `Spec => StopIsFinal` |
| `WorkerStatusProofs!HeardOfProcessesAreKept` | `Spec => HeardOfIsKept` |
| `ReplyTurnProofs!Invariance` | `Spec => []TurnInv` |
| `ReplyTurnProofs!OnlyWritingRaisesAfterSending` | `Spec => []OnlyWritesFailAfterSend` |
| `ReplyTurnProofs!TakenOverStaysAlone` | `Spec => []TakenOverIsLeftAlone` |
| `ReplyTurnProofs!EveryAnswerIsLicensed` | `Spec => AnswersAreLicensed` |
| `ReplyTurnProofs!SenderMeetsContract` | `Spec => MeetsContract` |
| `ReplyTurnProofs!FaultsSurface` | `Spec => []OurFaultSurfaces` |
| `ReplyTurnProofs!CallsAreBounded` | `Spec => []BoundedCalls` |
| `ReplyTurnProofs!OptOutsAreHonoured` | `Spec => []OptOutHonoured` |
| `NativeOutreachProofs!TypeCorrectness` | `Spec => []TypeOK` |
| `NativeOutreachProofs!DraftsAreSentOnce` | `Spec => []DraftSentOnce` |
| `NativeOutreachProofs!FollowUpsAreCurrent` | `Spec => FollowUpsOnCurrentRow` |
| `NativeOutreachProofs!SuppressedIsNotMailed` | `Spec => SuppressedNotMailed` |
| `NativeOutreachProofs!SchedulesAreKept` | `Spec => []ActiveIsScheduled` |
| `NativeOutreachProofs!RepeatsNeedALicence` | `Spec => []RepeatsAreLicensed` |

Assumptions are the named ones of the modules: at least one transaction attempt
and one row per sweep; ids and tokens are naturals, so that "oldest" means
something; `Null` is none of them; every process has a worker id, not
necessarily its own; the rows that predate the calls satisfy the unique indexes; a
request has the fields of its route; the limits of sender and router are positive;
the kinds of native sessions are disjoint sets; a configured list names at least one
model.  One theorem has a premise of its own.  `OnePoller` (a single worker process
polls) is not a convenience: with two pollers `RetainedCopyResolved` is false (section 3).

**Transfers and outcomes (`IndInv`).**  "At most one transfer" is not inductive: a thread
in state "prepared" is about to transfer, and nothing in the statement says
that no other thread is.  `IndInv` adds

- `OpenTransactions`: a thread before its commit holds the lock of a row that is
  still QUEUED with a draft (or, for generation, without a Message);
- `OneSender`: no two processes work on one row on the same side of the commit;
- `AfterCommit`: a thread past the commit works on a row that will never be
  QUEUED again; until it transfers the content, nobody has, and the row is
  SENDING or was given up as UNKNOWN; afterwards its outcome is true;
- `ThreadValues`: what a thread remembers at each point.

The fence is needed for `HonestOutcome` (C must not overwrite UNKNOWN), the lock
for `OneSender`, and the rule that expired SENDING rows become UNKNOWN for
`AfterCommit`.  `TypeStep` proves types and thread values for each action,
`SafetyStep` the rest, with `SafetyFrame` for the actions that touch none of the
state it is about.

**Promises of the dispatch worker (`PromiseInv`, on top of `IndInv`).**  The claim
columns, the header, the notes and the counters each need the others between
commits: `ClaimColumns` ties owner and lease to the state for committed rows,
`HeaderKept` says that a thread about to transfer carries the stored Message-ID,
`NotesComeLast` that a note is the last word of its thread, and `RuntimeCounts` that
attempts and in-flight claims cover every thread at work and that a drain which
succeeded found none, from which `StoppedMeansIdle` follows.  `Statement` classifies each step by the one
statement of `work_claiming.py` it executes; the fence theorem and the lifecycle
refinement are read off that classification: every step of the detailed worker is one
step of `DispatchLifecycle` or leaves what it shows unchanged.  For the fence
`Statement` also says whose step it is: a statement that takes a claim off a row is
executed by the thread whose token it compares, and that thread moves on
(`WriterMoves`), or by a sweep, with every thread where it was.

**Acceptance.**  `IdempotencyInv` is the three properties together
with `Control` (a call that has not answered carries no answer; one that passed
the lookup has a request).  `Moves` covers the steps that change neither
operations nor answers, `Refusals` the ones that answer without an operation,
`Replays` the lookups, `Commits` the final commit.  `WiringInv` adds what a call has
resolved at each of its statements (mailbox, campaign, contact) and that it is still
true at the commit: rows are only added, the unique indexes keep campaign and contact
single, and the schedules on integration contacts predate the calls and are only ever
cleared (`FollowupsPredate`), so that a check made several queries earlier still holds.

**Inbound.**  `InboundInv`: what a poller found retained is retained, its target is
in the mailbox's tenant, an insert it has open has no committed twin, and what it
reports as handled is committed; the last is why Seen implies stored.  `CopyInv` adds
that from the duplicate check on nobody attaches the message in hand, which a second
poller breaks.  `LegacyInv`: a webhook call's uncommitted row has no twin, committed,
in the job's session or in another call, so that any order of commits is safe although
the duplicate check is stale by then.  For mail without a Message-ID it counts instead
(`AnonymousBound`): the rows, the one in the job's hands and the one the server may
still offer are together at most one more than the failed STOREs and webhook rows.

**Worker status.**  `StatusInv`: a row that a cleanup has marked for deletion stays
expired while its process does not write, and a process writes only its own row.  Both
action properties follow from it, statement by statement of the heartbeat job.

**Reply turn.**  `TurnInv` is `SmtpInv` (before hand-over nothing was transferred, after
it the outcome known to the body is the true one, whatever QUIT raises), `RouterInv` (a
fault of ours, once shown, is the result) and what the handler knows at each stage:
which stages a model answered, that an opt-out or a managed contact never reaches the
draft, where the contact stands.  The composition is proved from the parts: `CallsKeep`
says that no step of the turn disturbs the two services, and the transition table enters
through `Transitions` alone.  `BoundInv` bounds the attempts by the position in
models and modes.  It needs a list of models without repeats, whatever the operator
configured: `first_models` says which model is the n-th by counting the places where a
model is named first, and `FirstModels` proves from it, without an induction over the
list, that the result is not empty, within the cap and free of repeats.  That the loop
of `_models_to_try` returns this list is an assumption that TLC evaluates in
`reply_turn`, on every list of up to five of four models.  `OptOutInv` follows an opt-out
through the turn (the entry is on its way, written, or lost with its transaction), which is
the part of `EndsWithOptOutHonoured` that is not liveness.

**Native outreach.**  `NativeInv` has four layers.

- Gates: `SendersPassed` and `RepliesPassed` say that a session that may still mail a
  suppressed contact was past its gate when the entry was committed.
  `SuppressedNotMailed` follows step by step.
- Locks: `Exclusive` (a row is locked by one transaction), `Places`, `Knowledge`,
  `Pending` (what an endpoint's session is about to write) and `Copies` (a locked copy
  is the committed row with its owner's changes).  `LockedRows` then shows that, claims
  apart, nobody writes a row that another session waits on.  The force-followup
  endpoint writes without a lock, which is why its steps need a case of their own.
- `Follows` and `Decided`: what the follow-up cycle still means to mail is locked and as
  committed, and the gates' decision still stands.  With the locks this gives
  `FollowUpsOnCurrentRow`.
- `Approvals` and `Spent`: each approved mail is accounted for by a handled draft, a
  rolled-back transaction, or the one approval that is about to commit; the row lock
  makes it the only one, and `DraftSentOnce` follows.

`ScheduleInv` adds, for `ActiveIsScheduled`: `Fresh` (a new contact has step index 0,
so that a campaign with follow-ups has a next date for it), and `Owned`: an initial
job that has lost no claim holds it, is alone with its contact, and nobody has moved
the contact into the sequence.  Without `Owned` an older copy could clear the date
that another job set; with a lost claim it does (section 7), which is why
the property excepts those contacts.

`RepeatInv`, for `RepeatsAreLicensed`, adds a potential to `NativeInv` and
`Fresh`.  A mail that has left says nothing about the ones on their way, so for each contact c and step
k the invariant `AllPaid` bounds the sum of

- the mails of step k that have left;
- one, if the committed row still promises a mail (`Prospect`): it is new and no
  initial job owns its claim (`Open`), or it is active, its index is below k and the
  follow-up cycle has not mailed that step in a transaction still open (`Grant`);
- the initial jobs and forced follow-ups that may still mail step k or write a row from
  which such a mail comes (`Hands`)

by `Credit(c)`, one plus the rolled-back, dropped and waived events.  A claim
turns the promise into a hand, a mail turns a hand into a mail, a commit turns a hand back
into the promise of the next step; whatever adds to the sum without taking from it is counted in the credit.
Four facts make the cases go through: `Revived` (only a resume is about to make a
contact active), `Sending` (an open transaction has mailed a contact at most once),
`LocksLevel` (a locked copy is on its row's step, or one ahead once that step's mail left)
and `Loaded` (a contact still new was new when the job loaded it).

**Only model-checked.**  Liveness (`EventuallySettled`, `EventuallyDurable`,
`EventuallyRecorded`, `StartedIsWorked`, `ClaimsComeBack`,
`EndsWithOptOutHonoured`, `GoneIsPurged`) is outside the prover's reach, as is the fold
of the loop in `_models_to_try` (above).  Every safety invariant and every action
property that a passing run checks is proved.

## 7. Findings

1. **A repeat is not harmless** (`inbound_repeat`).  `imap_reader.py` says of a
   message left Unseen that "the database dedupe identity makes a repeat
   harmless".  The auto-reply is sent inside the transaction that stores the
   message; if its commit fails or the process dies, the next poll sends a
   second auto-reply.
2. **The global poll can lose mail** (`legacy_loss`).  `imap_reader.py` says
   UNSEEN "survives this process restarting without losing or double-processing
   mail".  `fetch_unseen_replies` marks messages Seen while it reads them, and
   the batch is committed once at the end; a death in between, or the rollback
   after one lost insert race, loses correlated messages.
3. **Two workers can send one initial outreach** (`native_double`).
   `dispatch_new_contacts_job` says that claiming makes "concurrent workers never
   double-send the initial outreach to the same contact".  The claims of a batch
   are committed with the first contact's commit; if that contact fails instead,
   `db.rollback()` drops all of them, the loop goes on mailing, and another worker
   claims and mails the same contacts.  A batch that outlives its 300 s lease
   has the same effect; the run needs neither an expiry nor a death.

Further divergences, met while modelling and without a run of their own:

- `llm/provider_v2.py` `_classify_error` says at 413-417 that a rejected schema "must be
  checked FIRST (never eligible for model rotation)", but line 401 tests for an unknown
  model before it, with phrases as general as "does not exist": a rejection with such a
  text is rotated away from on a fallback model, and so is a rejected key.  The model has
  these texts (`ReadsAsUnknownFallback`), and `OurFaultSurfaces` names them as its
  exception: without it the property is violated by a 400 or a 401 of a fallback whose
  text also contains the phrase, followed by an answer of the next model.
- `policy/next_action.py` says of `plan_next_action` "Never raises".  A plan that is
  not an object, or an objective or confidence of another type, raises and rolls the
  whole turn back (`PlannerAnswersOddly`); the mail is then offered again.
- `docs/OPERATOR_OBSERVABILITY.md` and `worker.py` say that "stopped" is never shown
  while a send is in flight.  That holds for external dispatches
  (`StoppedMeansIdle`); a native send is not tracked by the drain, and the
  scheduler is stopped without waiting for its jobs.
- `worker_status.py` says of cleanup that cycle rows go if they "are themselves older
  than the window"; the cycle rows of a silent process go whatever their age.
- `api/campaigns.py` says that `ingest_leads` reports "Per-item failures"
  individually "rather than failing the whole batch"; the rollback for one lost
  insert race drops every lead flushed before it, which are still reported as
  created.

- `memory/store.py` 327 and the handler guard the record of a sent answer against failing
  model calls, not against what the models say: a NaN confidence passes `json.loads`
  and the range check of `guardrails.py`, the answer leaves, and the flush
  (`reply_handler_v2.py` 479) refuses the JSON column; a NUL character in the summary does the same at
  `memory/store.py` 326.  Mail and opt-out entry are then rolled back together
  (`FlushRefused`), and the mail is offered again.
- Mail without a Message-ID, which `imap_reader.py` passes on as None, skips the
  duplicate check (`reply_handler_v2.py` 171) and lies outside the unique index.  After a
  failed STORE, or by the retry of a webhook, it is recorded, and may be answered,
  again; the third part of `RecordedOnce` says how often.
- `worker_status.py` 277 says that "a stopped process never heartbeats again".  No late
  heartbeat touches a closed row (`StopIsFinal`), but the first heartbeat of a process
  that stops meanwhile finds no row, closed or open, and inserts a live one.

Observations without a document to set against them: a contact paused and resumed
keeps an empty `next_action_at` and is never due again; so does a contact on which two
initial jobs worked after one lost its claim, when a pause and a start come between
their copies: the older copy's write clears the date the newer one set, and only the
attempt to prove `ActiveIsScheduled` for several contacts showed it; a campaign with an
empty `follow_up_days`, which the schema accepts, leaves every mailed contact `active`
without a date, since only a follow-up completes a sequence; contacts of an inactive
campaign are swept and claimed again by every cycle; `NEEDS_HUMAN` has no edge from
engaged, evaluating, negotiating and nurture and is skipped there, and `active` has
none for most replies, so that the status of such a contact does not show what
happened; a reply that needs a manual draft keeps the date `reschedule_after_reply`
gave it; the summary asks a provider that has no key, with all retries; a first
heartbeat that is past its `_stopped` check inserts a live row after `mark_stopped`
found none to close, which then only ages.

## 8. What is not modelled

- Texts: prompts, drafts, the extraction of facts, the grounding rules, threading
  headers.  Where a decision depends on text it is a free choice (`GateRefuses`,
  `Generate`, `Apply`, the stages of `ReplyTurn`) or a constant (`ThreadOf`,
  `SenderOf`, `Matched`).
- Invalid HTTP payloads: refused by the request models before any state is read.
- The SQLite path of claiming: the guarded UPDATE gives the same atomic claim.
- One over-approximation is deliberate: in `MailboxInbound` a message may both
  be answered and lead to the suppression of its sender.
- Wall-clock lengths of leases and intervals.
- Schema migrations, configuration parsing, authentication; the counters of a cycle
  row and the aggregation of metrics, which are reads.
- In `ReplyTurn`: two turns of one contact at once (their races on the contact are in
  `NativeOutreach`, those on the message in the inbound modules), and the death of the
  process (the inbound modules have it).
- In `WorkerStatus`: the duplicate-key branch of `heartbeat`, which needs two
  heartbeats of one process at once, and the embedded scheduler's second start.
- In `NativeOutreach`: the LIMIT of a cycle, the SQLite claim, the key-share
  lock a Message insert takes on its contact, lost unique-index races of
  `ingest_leads`, and tenants (the native gates read the list of all tenants).

## 9. Plan

Done, in this order: `WorkClaiming` and `ExternalDispatch` with the lifecycle
refinement, liveness, `SmtpSender`, `Acceptance`, `MailboxInbound`,
`LegacyInbound`, `ContactLifecycle` and `NativeOutreach`, `LlmProvider`,
`ReplyTurn`, `WorkerStatus`, and the proofs of section 6.

Models that would be worth having next: the per-item loop of `ingest_leads`, and
`NativeOutreach` with two contacts and all actors, which is beyond the present bounds
of TLC.
