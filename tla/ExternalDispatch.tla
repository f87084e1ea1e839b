-------------------------- MODULE ExternalDispatch --------------------------
(***************************************************************************)
(* Asynchronous execution of accepted dispatches by several worker         *)
(* processes: the send job (mail/external_dispatch_worker.py), the         *)
(* generation job (mail/outreach_generation_worker.py), the two lease      *)
(* sweeps, graceful shutdown (worker.py) and process crashes, over the     *)
(* table of WorkClaiming.                                                  *)
(*                                                                         *)
(* Each process runs ONE send thread and ONE generation thread (both jobs  *)
(* have max_instances = 1), its sweeps, and the main thread that shuts it  *)
(* down.  A step is one database transaction, one critical section of      *)
(* DispatchRuntime, or one observable point of the SMTP conversation.      *)
(***************************************************************************)
EXTENDS WorkClaiming

CONSTANTS Proc,        \* worker processes
          WorkerOf,    \* the worker_id of each process; WORKER_ID may be shared
          TxnAttempts, \* _TXN_C_ATTEMPTS and _TXN_G2_ATTEMPTS (3 in the code)
          Generated,   \* dispatches accepted without a Message (generated outreach)
          Stoppable    \* processes that a signal stops gracefully

ASSUME TxnAttemptsAssumption == TxnAttempts \in Nat \ {0}
ASSUME GeneratedAssumption == Generated \subseteq Dispatch
ASSUME StoppableAssumption == Stoppable \subseteq Proc
ASSUME WorkerOfAssumption == WorkerOf \in [Proc -> WorkerId]

VARIABLES alive,       \* the process runs
          stopping,    \* DispatchRuntime._stopping
          attempts,    \* DispatchRuntime._claim_attempts
          inflight,    \* DispatchRuntime._inflight, as a set of claims
          main,        \* where the main thread is in graceful_shutdown
          drained,     \* what runtime.drain() returned
          resolve,     \* claims the shutdown still has to resolve
          stopped,     \* the liveness row says "stopped"
          sender,      \* the send thread
          generator,   \* the generation thread
          suppressed,  \* dispatches whose recipient is on the suppression list
          wire,        \* Message-IDs whose content reached an SMTP server, per dispatch
          transfers,   \* how often the content of a dispatch was transferred
          accepted     \* dispatches the SMTP server accepted

runtime == <<alive, stopping, attempts, inflight, main, drained, resolve, stopped>>
smtp == <<wire, transfers, accepted>>
vars == <<table, runtime, sender, generator, suppressed, smtp>>

-----------------------------------------------------------------------------
Claim == [d : Dispatch, tok : Token]

\* Thread states: a pc and the values the thread keeps across transactions.
Sender ==
  [pc : {"idle", "claiming", "claimed", "minted", "prepared", "transferred",
         "finalize", "annotate", "unregister"},
   d : Dispatch \cup {Null}, tok : Token \cup {Null}, id : MsgId \cup {Null},
   out : Outcome \cup {Null}, tries : 0..TxnAttempts]
Generator ==
  [pc : {"idle", "claimed", "llm", "write"},
   d : Dispatch \cup {Null}, tok : Token \cup {Null},
   out : {"draft", "failed", Null}, tries : 0..TxnAttempts]

\* The state of a thread, by its fields.
SenderAt(pc, d, tok, id, out, tries) ==
  [pc |-> pc, d |-> d, tok |-> tok, id |-> id, out |-> out, tries |-> tries]
GeneratorAt(pc, d, tok, out, tries) ==
  [pc |-> pc, d |-> d, tok |-> tok, out |-> out, tries |-> tries]

IdleSender == SenderAt("idle", Null, Null, Null, Null, 0)
IdleGenerator == GeneratorAt("idle", Null, Null, Null, 0)

\* The send thread of p goes on to pc with the values it has.
SendStep(p, pc) ==
  LET s == sender[p] IN
  sender' = [sender EXCEPT ![p] = SenderAt(pc, s.d, s.tok, s.id, s.out, s.tries)]

RuntimeTypeOK ==
  /\ alive \in [Proc -> BOOLEAN]
  /\ stopping \in [Proc -> BOOLEAN]
  /\ attempts \in [Proc -> 0..1]
  /\ inflight \in [Proc -> SUBSET Claim]
  /\ main \in [Proc -> {"run", "draining", "snapshot", "resolving", "exited"}]
  /\ drained \in [Proc -> BOOLEAN]
  /\ resolve \in [Proc -> SUBSET Claim]
  /\ stopped \in [Proc -> BOOLEAN]

SmtpTypeOK ==
  /\ wire \in [Dispatch -> SUBSET MsgId]
  /\ transfers \in [Dispatch -> Nat]
  /\ accepted \in SUBSET Dispatch

\* Every variable has its type.
TypeOK ==
  /\ TableTypeOK
  /\ RuntimeTypeOK
  /\ sender \in [Proc -> Sender]
  /\ generator \in [Proc -> Generator]
  /\ suppressed \in SUBSET Dispatch
  /\ SmtpTypeOK

Init ==
  /\ TableInit
  /\ alive = [p \in Proc |-> TRUE]
  /\ stopping = [p \in Proc |-> FALSE]
  /\ attempts = [p \in Proc |-> 0]
  /\ inflight = [p \in Proc |-> {}]
  /\ main = [p \in Proc |-> "run"]
  /\ drained = [p \in Proc |-> FALSE]
  /\ resolve = [p \in Proc |-> {}]
  /\ stopped = [p \in Proc |-> FALSE]
  /\ sender = [p \in Proc |-> IdleSender]
  /\ generator = [p \in Proc |-> IdleGenerator]
  /\ suppressed = {}
  /\ wire = [d \in Dispatch |-> {}]
  /\ transfers = [d \in Dispatch |-> 0]
  /\ accepted = {}

-----------------------------------------------------------------------------
(* Environment.                                                            *)

Accept(d) ==
  /\ InsertDispatch(d, IF d \in Generated THEN "none" ELSE "draft")
  /\ UNCHANGED <<runtime, sender, generator, suppressed, smtp>>

Suppress(d) ==
  /\ d \notin suppressed
  /\ suppressed' = suppressed \cup {d}
  /\ UNCHANGED <<table, runtime, sender, generator, smtp>>

Expire(d) ==
  /\ LeaseExpires(d)
  /\ UNCHANGED <<runtime, sender, generator, suppressed, smtp>>

-----------------------------------------------------------------------------
(* claimed_at tokens.  Two claims of one row never share a claimed_at: the *)
(* row is claimable again only after the earlier claim was rolled back or  *)
(* its lease expired.  Names are canonical: the least one not in use.      *)

TokensOf(d) ==
  {claimed_at[d]}
  \cup {sender[p].tok : p \in {q \in Proc : sender[q].d = d}}
  \cup {generator[p].tok : p \in {q \in Proc : generator[q].d = d}}
  \cup {c.tok : c \in {e \in UNION {inflight[p] \cup resolve[p] : p \in Proc} : e.d = d}}

FreshToken(d, t) ==
  /\ t \in Token \ TokensOf(d)
  /\ \A u \in Token \ TokensOf(d) : t <= u

-----------------------------------------------------------------------------
(* DispatchRuntime.                                                        *)

\* begin_claim_attempt: admitted atomically with respect to request_shutdown.
begin_claim_attempt(p) ==
  /\ alive[p]
  /\ sender[p].pc = "idle"
  /\ ~stopping[p]
  /\ attempts' = [attempts EXCEPT ![p] = 1]
  /\ SendStep(p, "claiming")
  /\ UNCHANGED <<table, alive, stopping, inflight, main, drained, resolve, stopped,
                 generator, suppressed, smtp>>

\* The thread drops whatever it worked on and becomes idle.
Unregister(p) ==
  /\ sender' = [sender EXCEPT ![p] = IdleSender]
  /\ inflight' = [inflight EXCEPT ![p] = {c \in @ : c.d # sender[p].d}]
  /\ UNCHANGED <<alive, stopping, attempts, main, drained, resolve, stopped>>

-----------------------------------------------------------------------------
(* Transaction B.                                                          *)

\* end_claim_attempt: the attempt ends without in-flight work.
EndAttempt(p) ==
  /\ attempts' = [attempts EXCEPT ![p] = 0]
  /\ sender' = [sender EXCEPT ![p] = IdleSender]
  /\ UNCHANGED <<table, alive, stopping, inflight, main, drained, resolve, stopped,
                 generator, suppressed, smtp>>

\* runtime.stopping is read once more, then the oldest sendable row is claimed.
\* A shutdown requested after that read does not prevent the claim.
NothingToClaim(p) ==
  /\ sender[p].pc = "claiming"
  /\ stopping[p] \/ Sendable = {}
  /\ EndAttempt(p)

\* register_claim_attempt: the attempt becomes in-flight work in one critical section.
register_claim_attempt(p, c) == inflight' = [inflight EXCEPT ![p] = @ \cup {c}]

ClaimDispatch(p) ==
  /\ sender[p].pc = "claiming"
  /\ \E d \in Dispatch, t \in Token :
       /\ claim_next_external_dispatch(d)
       /\ FreshToken(d, t)
       /\ register_claim_attempt(p, [d |-> d, tok |-> t])
       /\ sender' = [sender EXCEPT ![p] = SenderAt("claimed", d, t, Null, Null, 0)]
  /\ attempts' = [attempts EXCEPT ![p] = 0]
  /\ UNCHANGED <<alive, stopping, main, drained, resolve, stopped, generator, suppressed, smtp>>

\* A gate refuses (tenant, wiring, mailbox, suppression, grounding,
\* LIVE_SENDING_ENABLED, undecryptable credential): FAILED inside B.
GateRefuses(p) ==
  /\ sender[p].pc = "claimed"
  /\ CommitRefused(sender[p].d)
  /\ Unregister(p)
  /\ UNCHANGED <<generator, suppressed, smtp>>

\* Whether the gates let the dispatch through when the suppression list is not consulted.
GatesIgnoreSuppression(d) == TRUE

\* Every other gate passes or refuses by data this model does not carry.
GatesMayPass(d) == d \notin suppressed

\* All gates pass: the Message-ID is minted and written in the open transaction.
PassGates(p) ==
  /\ sender[p].pc = "claimed"
  /\ GatesMayPass(sender[p].d)
  /\ ~stopping[p]
  /\ \E id \in MsgId :
       sender' = [sender EXCEPT ![p] = SenderAt("minted", sender[p].d, sender[p].tok, id, Null, 0)]
  /\ UNCHANGED <<table, runtime, generator, suppressed, smtp>>

\* Shutdown was requested before the Message-ID was flushed: roll back, stay QUEUED.
Defer(p) ==
  /\ sender[p].pc = "claimed"
  /\ GatesMayPass(sender[p].d)
  /\ stopping[p]
  /\ Rollback(sender[p].d)
  /\ Unregister(p)
  /\ UNCHANGED <<generator, suppressed, smtp>>

CommitB(p) ==
  /\ sender[p].pc = "minted"
  /\ CommitSending(sender[p].d, WorkerOf[p], sender[p].tok, sender[p].id)
  /\ SendStep(p, "prepared")
  /\ UNCHANGED <<runtime, generator, suppressed, smtp>>

-----------------------------------------------------------------------------
(* SMTP.  No session, transaction or lock is held.                         *)

\* The Message-ID on the wire when the sender mints its own.
OwnMessageId(p) == CHOOSE id \in MsgId : id # sender[p].id

\* send_email(message_id_header = the persisted value)
WireMessageId(p) == sender[p].id

\* The content is transferred (DATA); the server may or may not accept it.
Transfer(p) ==
  /\ sender[p].pc = "prepared"
  /\ LET d == sender[p].d IN
     /\ transfers' = [transfers EXCEPT ![d] = @ + 1]
     /\ wire' = [wire EXCEPT ![d] = @ \cup {WireMessageId(p)}]
     /\ accepted' \in {accepted, accepted \cup {d}}
  /\ SendStep(p, "transferred")
  /\ UNCHANGED <<table, runtime, generator, suppressed>>

\* send_email returns; Transaction C is next.
SmtpReturns(p, out) ==
  LET s == sender[p] IN
  sender' = [sender EXCEPT ![p] = SenderAt("finalize", s.d, s.tok, s.id, out, 0)]

\* How send_email's result classifies what the server did with the content.
ClassifyOptimistically(d, out) == out \in {"sent", "unknown"}
ClassifyTransferred(d, out) == out = "unknown" \/ (out = "sent" /\ d \in accepted)

\* sendmail() returned (SENT), or raised without an explicit refusal (UNKNOWN).
AfterTransfer(p) ==
  /\ sender[p].pc = "transferred"
  /\ \E out \in Outcome :
       /\ ClassifyTransferred(sender[p].d, out)
       /\ SmtpReturns(p, out)
  /\ UNCHANGED <<table, runtime, generator, suppressed, smtp>>

\* Connect, TLS or login failed or the server refused sender or recipient
\* (FAILED), or the failure is ambiguous although nothing was transferred (UNKNOWN).
NoTransfer(p) ==
  /\ sender[p].pc = "prepared"
  /\ \E out \in {"failed", "unknown"} :
       SmtpReturns(p, out)
  /\ UNCHANGED <<table, runtime, generator, suppressed, smtp>>

-----------------------------------------------------------------------------
(* Transaction C.                                                          *)

MyRow(p) == SendFence(sender[p].d, WorkerOf[p], sender[p].tok)

CommitC(p) ==
  /\ sender[p].pc = "finalize"
  /\ MyRow(p)
  /\ finish_external_dispatch(sender[p].d, sender[p].out)
  /\ SendStep(p, "unregister")
  /\ UNCHANGED <<runtime, generator, suppressed, smtp>>

\* The fence matches nothing: recovery or a shutdown resolved the row.
LostFence(p) ==
  /\ sender[p].pc = "finalize"
  /\ ~MyRow(p)
  /\ SendStep(p, "annotate")
  /\ UNCHANGED <<table, runtime, generator, suppressed, smtp>>

AnnotateLateOutcome(p) ==
  /\ sender[p].pc = "annotate"
  /\ annotate_unknown_dispatch(sender[p].d, sender[p].out)
  /\ SendStep(p, "unregister")
  /\ UNCHANGED <<runtime, generator, suppressed, smtp>>

EndDispatch(p) ==
  /\ sender[p].pc = "unregister"
  /\ Unregister(p)
  /\ UNCHANGED <<table, generator, suppressed, smtp>>


-----------------------------------------------------------------------------
(* Generation: Transaction G1, the LLM call, Transaction G2.               *)

GenerationStep(p, pc, d, t, out) ==
  generator' = [generator EXCEPT ![p] = GeneratorAt(pc, d, t, out, 0)]

IdleGeneration(p) ==
  /\ generator' = [generator EXCEPT ![p] = IdleGenerator]
  /\ UNCHANGED <<runtime, sender, suppressed, smtp>>

ClaimGeneration(p) ==
  /\ alive[p]
  /\ generator[p].pc = "idle"
  /\ ~stopping[p]
  /\ \E d \in Dispatch, t \in Token :
       /\ claim_next_generation_dispatch(d)
       /\ FreshToken(d, t)
       /\ GenerationStep(p, "claimed", d, t, Null)
  /\ UNCHANGED <<runtime, sender, suppressed, smtp>>

\* _prepare refuses (missing snapshot, tenant mismatch, malformed reply parent).
RefuseGeneration(p) ==
  /\ generator[p].pc = "claimed"
  /\ CommitRefused(generator[p].d)
  /\ IdleGeneration(p)

\* _prepare succeeded but a shutdown was requested: no LLM call, leave it QUEUED.
DeferGeneration(p) ==
  /\ generator[p].pc = "claimed"
  /\ stopping[p]
  /\ Rollback(generator[p].d)
  /\ IdleGeneration(p)

CommitG1(p) ==
  /\ generator[p].pc = "claimed"
  /\ ~stopping[p]
  /\ CommitGenerating(generator[p].d, WorkerOf[p], generator[p].tok)
  /\ GenerationStep(p, "llm", generator[p].d, generator[p].tok, Null)
  /\ UNCHANGED <<runtime, sender, suppressed, smtp>>

\* The LLM returns a grounded draft, raises, or is hard-blocked.
Generate(p) ==
  /\ generator[p].pc = "llm"
  /\ \E out \in {"draft", "failed"} :
       GenerationStep(p, "write", generator[p].d, generator[p].tok, out)
  /\ UNCHANGED <<table, runtime, sender, suppressed, smtp>>

MyGeneration(p) == GenerationFence(generator[p].d, WorkerOf[p], generator[p].tok)

\* The fenced G2 write: attach the Message and requeue, or fail the row.
WriteGeneration(p) ==
  IF generator[p].out = "draft" THEN complete_generation(generator[p].d)
                                ELSE fail_generation(generator[p].d)

CommitG2(p) ==
  /\ generator[p].pc = "write"
  /\ MyGeneration(p)
  /\ WriteGeneration(p)
  /\ IdleGeneration(p)

\* The fence is lost: the Message insert is rolled back.
DiscardGeneration(p) ==
  /\ generator[p].pc = "write"
  /\ ~MyGeneration(p)
  /\ IdleGeneration(p)
  /\ UNCHANGED table

-----------------------------------------------------------------------------
(* Lease sweeps (scheduler jobs).                                          *)

Sweeping(p) == alive[p] /\ main[p] # "exited"

RecoverSending(p) ==
  /\ Sweeping(p)
  /\ recover_expired_external_dispatches
  /\ UNCHANGED <<runtime, sender, generator, suppressed, smtp>>

RecoverGenerating(p) ==
  /\ Sweeping(p)
  /\ recover_expired_generations
  /\ UNCHANGED <<runtime, sender, generator, suppressed, smtp>>

-----------------------------------------------------------------------------
(* Graceful shutdown (worker.graceful_shutdown, the main thread).          *)

\* begin_external_dispatch_shutdown, then stop_scheduler.
RequestShutdown(p) ==
  /\ p \in Stoppable
  /\ alive[p]
  /\ main[p] = "run"
  /\ stopping' = [stopping EXCEPT ![p] = TRUE]
  /\ main' = [main EXCEPT ![p] = "draining"]
  /\ UNCHANGED <<table, alive, attempts, inflight, drained, resolve, stopped,
                 sender, generator, suppressed, smtp>>

\* drain() before claim attempts were counted.
QuietIgnoringAttempts(p) == inflight[p] = {}

Quiet(p) == inflight[p] = {} /\ attempts[p] = 0

\* runtime.drain(timeout): TRUE once quiet, FALSE when the deadline passes first.
Drain(p) ==
  /\ main[p] = "draining"
  /\ drained' = [drained EXCEPT ![p] = Quiet(p)]
  /\ main' = [main EXCEPT ![p] = "snapshot"]
  /\ UNCHANGED <<table, alive, stopping, attempts, inflight, resolve, stopped,
                 sender, generator, suppressed, smtp>>

\* for claim in runtime.inflight()
SnapshotInflight(p) ==
  /\ main[p] = "snapshot"
  /\ resolve' = [resolve EXCEPT ![p] = inflight[p]]
  /\ main' = [main EXCEPT ![p] = "resolving"]
  /\ UNCHANGED <<table, alive, stopping, attempts, inflight, drained, stopped,
                 sender, generator, suppressed, smtp>>

\* One in-flight claim: SENDING -> UNKNOWN if the fence still matches.
ResolveClaim(p) ==
  /\ main[p] = "resolving"
  /\ \E c \in resolve[p] :
       /\ resolve' = [resolve EXCEPT ![p] = @ \ {c}]
       /\ \/ /\ SendFence(c.d, WorkerOf[p], c.tok)
             /\ finish_external_dispatch(c.d, "unknown")
          \/ /\ ~SendFence(c.d, WorkerOf[p], c.tok)
             /\ UNCHANGED table
  /\ UNCHANGED <<alive, stopping, attempts, inflight, main, drained, stopped,
                 sender, generator, suppressed, smtp>>

\* release_all_claims, then mark_runtime_stopped: only after a complete drain, and
\* only if no other step of the shutdown failed.
ExitMain(p) ==
  /\ main[p] = "resolving"
  /\ resolve[p] = {}
  /\ main' = [main EXCEPT ![p] = "exited"]
  /\ \E ok \in BOOLEAN : stopped' = [stopped EXCEPT ![p] = drained[p] /\ ok]
  /\ UNCHANGED <<table, alive, stopping, attempts, inflight, drained, resolve,
                 sender, generator, suppressed, smtp>>

\* start_scheduler again in the same process (embedded API): resume_if_idle.
Resume(p) ==
  /\ alive[p]
  /\ main[p] = "exited"
  /\ Quiet(p)
  /\ stopping' = [stopping EXCEPT ![p] = FALSE]
  /\ main' = [main EXCEPT ![p] = "run"]
  /\ stopped' = [stopped EXCEPT ![p] = FALSE]
  /\ UNCHANGED <<table, alive, attempts, inflight, drained, resolve,
                 sender, generator, suppressed, smtp>>

-----------------------------------------------------------------------------
(* The end of a process and its replacement.                               *)

\* Rows locked by the open transactions of process p.
LocksOf(p) ==
  {d \in Dispatch : \/ sender[p].pc \in {"claimed", "minted"} /\ sender[p].d = d
                    \/ generator[p].pc = "claimed" /\ generator[p].d = d}

\* The process is gone: its memory with it, and its open transactions roll back.
Terminate(p) ==
  /\ alive' = [alive EXCEPT ![p] = FALSE]
  /\ stopping' = [stopping EXCEPT ![p] = FALSE]
  /\ attempts' = [attempts EXCEPT ![p] = 0]
  /\ inflight' = [inflight EXCEPT ![p] = {}]
  /\ main' = [main EXCEPT ![p] = "run"]
  /\ drained' = [drained EXCEPT ![p] = FALSE]
  /\ resolve' = [resolve EXCEPT ![p] = {}]
  /\ sender' = [sender EXCEPT ![p] = IdleSender]
  /\ generator' = [generator EXCEPT ![p] = IdleGenerator]
  /\ locked' = locked \ LocksOf(p)
  /\ UNCHANGED <<state, claimed_by, claimed_at, lease_expired, message, header, late,
                 stopped, suppressed, smtp>>

\* main() returned; the interpreter waits for the scheduler's pool threads.
Exit(p) ==
  /\ main[p] = "exited"
  /\ sender[p].pc = "idle"
  /\ generator[p].pc = "idle"
  /\ Terminate(p)

\* A new process starts under the same identity.
Restart(p) ==
  /\ ~alive[p]
  /\ alive' = [alive EXCEPT ![p] = TRUE]
  /\ stopped' = [stopped EXCEPT ![p] = FALSE]
  /\ UNCHANGED <<table, stopping, attempts, inflight, main, drained, resolve,
                 sender, generator, suppressed, smtp>>

-----------------------------------------------------------------------------
(* Faults: database errors, lost commit acknowledgements, crashes.         *)

\* The deployment cannot decrypt (_Unavailable), or a database error ends B
\* before its commit took effect: the row is QUEUED again.
RollbackB(p) ==
  /\ sender[p].pc \in {"claimed", "minted"}
  /\ Rollback(sender[p].d)
  /\ Unregister(p)
  /\ UNCHANGED <<generator, suppressed, smtp>>

\* The claiming SELECT or UPDATE raises.
ErrorClaim(p) == sender[p].pc = "claiming" /\ EndAttempt(p)

\* B's commit took effect but its acknowledgement was lost: no SMTP follows.
LoseAckB(p) ==
  /\ sender[p].pc = "minted"
  /\ CommitSending(sender[p].d, WorkerOf[p], sender[p].tok, sender[p].id)
  /\ Unregister(p)
  /\ UNCHANGED <<generator, suppressed, smtp>>

\* Transaction C gives up one attempt late.
RetryCOnceMore(p) ==
  LET s == sender[p]
      pc == IF s.tries = TxnAttempts THEN "annotate" ELSE "finalize" IN
  sender' = [sender EXCEPT ![p] = SenderAt(pc, s.d, s.tok, s.id, s.out, s.tries + 1)]

\* After the last failed attempt Transaction C gives up.
RetryC(p) ==
  LET s == sender[p]
      pc == IF s.tries + 1 = TxnAttempts THEN "annotate" ELSE "finalize" IN
  sender' = [sender EXCEPT ![p] = SenderAt(pc, s.d, s.tok, s.id, s.out, s.tries + 1)]

\* An attempt of C raises: rolled back, or committed with a lost acknowledgement.
ErrorC(p) ==
  /\ sender[p].pc = "finalize"
  /\ RetryC(p)
  /\ \/ UNCHANGED table
     \/ MyRow(p) /\ finish_external_dispatch(sender[p].d, sender[p].out)
  /\ UNCHANGED <<runtime, generator, suppressed, smtp>>

\* The note of a late outcome cannot be written; it is only logged.
ErrorAnnotate(p) ==
  /\ sender[p].pc = "annotate"
  /\ SendStep(p, "unregister")
  /\ UNCHANGED <<table, runtime, generator, suppressed, smtp>>

\* A database error in G1, before its commit took effect or after it.
ErrorG1(p) ==
  /\ generator[p].pc = "claimed"
  /\ \/ Rollback(generator[p].d)
     \/ ~stopping[p] /\ CommitGenerating(generator[p].d, WorkerOf[p], generator[p].tok)
  /\ IdleGeneration(p)

RetryG2(p) ==
  LET g == generator[p] IN
  generator' = [generator EXCEPT ![p] =
    IF g.tries + 1 = TxnAttempts
      THEN IdleGenerator ELSE GeneratorAt("write", g.d, g.tok, g.out, g.tries + 1)]

ErrorG2(p) ==
  /\ generator[p].pc = "write"
  /\ RetryG2(p)
  /\ \/ UNCHANGED table
     \/ MyGeneration(p) /\ WriteGeneration(p)
  /\ UNCHANGED <<runtime, sender, suppressed, smtp>>

\* Shutdown cannot resolve a claim: the lease sweep will.
ErrorResolve(p) ==
  /\ main[p] = "resolving"
  /\ \E c \in resolve[p] : resolve' = [resolve EXCEPT ![p] = @ \ {c}]
  /\ UNCHANGED <<table, alive, stopping, attempts, inflight, main, drained, stopped,
                 sender, generator, suppressed, smtp>>

\* SIGKILL, a power loss: at any point.
Crash(p) == alive[p] /\ Terminate(p)

-----------------------------------------------------------------------------
SendThread(p) ==
  \/ begin_claim_attempt(p) \/ NothingToClaim(p) \/ ClaimDispatch(p)
  \/ GateRefuses(p) \/ PassGates(p) \/ Defer(p) \/ CommitB(p)
  \/ Transfer(p) \/ AfterTransfer(p) \/ NoTransfer(p)
  \/ CommitC(p) \/ LostFence(p) \/ AnnotateLateOutcome(p) \/ EndDispatch(p)

GenerationThread(p) ==
  \/ ClaimGeneration(p) \/ RefuseGeneration(p) \/ DeferGeneration(p) \/ CommitG1(p)
  \/ Generate(p) \/ CommitG2(p)
  \/ DiscardGeneration(p)

Sweeps(p) == RecoverSending(p) \/ RecoverGenerating(p)

MainThread(p) ==
  \/ Drain(p) \/ SnapshotInflight(p) \/ ResolveClaim(p) \/ ExitMain(p)

Environment ==
  \E d \in Dispatch : Accept(d) \/ Suppress(d)

System ==
  \E p \in Proc :
    \/ SendThread(p) \/ GenerationThread(p) \/ Sweeps(p) \/ MainThread(p) \/ Exit(p) \/ Restart(p)

Faults ==
  \E p \in Proc :
    \/ ErrorClaim(p) \/ RollbackB(p) \/ LoseAckB(p) \/ ErrorC(p) \/ ErrorAnnotate(p)
    \/ ErrorG1(p) \/ ErrorG2(p) \/ ErrorResolve(p) \/ Crash(p)

Operator ==
  \E p \in Proc : RequestShutdown(p) \/ Resume(p)

Expiry == \E d \in Dispatch : Expire(d)

Next == Environment \/ System \/ Expiry \/ Operator \/ Faults

Spec == Init /\ [][Next]_vars

-----------------------------------------------------------------------------
(* Properties.                                                             *)

\* The content of a dispatch is transferred to an SMTP server at most once,
\* whatever leases, crashes, restarts, shutdowns and lost acknowledgements do
\* ("no automatic second attempt after an ambiguous outcome").
AtMostOneTransfer == \A d \in Dispatch : transfers[d] <= 1

\* A recorded outcome is never a lie: SENT was accepted by the server; FAILED
\* was never transferred; a QUEUED or GENERATING row was not transferred either.
HonestOutcome ==
  \A d \in Dispatch :
    /\ state[d] = "sent" => d \in accepted
    /\ state[d] \in {"absent", "queued", "generating", "failed"} => transfers[d] = 0

\* Whatever reached the wire carries the Message-ID that the database holds, so
\* an operator can look an UNKNOWN dispatch up at the provider.
MessageIdDurable == \A d \in Dispatch : wire[d] \subseteq {header[d]}

\* The linked Message follows its dispatch: a draft exactly while the row waits
\* to be sent, SENDING with it, and the same terminal status; only a row failed
\* before generation ends without one.
MessageMirrorsDispatch ==
  \A d \in Dispatch :
    \/ state[d] \in {"sending", "sent", "failed", "unknown"} /\ message[d] = state[d]
    \/ state[d] \in {"absent", "generating", "failed"} /\ message[d] = "none"
    \/ state[d] = "queued" /\ message[d] \in {"none", "draft"}

\* A claim exists exactly on rows that some worker owns.
ClaimedIffOwned ==
  \A d \in Dispatch :
    (state[d] \in {"generating", "sending"}) <=> (claimed_by[d] # Null /\ claimed_at[d] # Null)

\* The liveness row never says "stopped" while the process still has a claim attempt of its
\* external send thread, or an external send, in flight (worker.py, step 6).
StoppedMeansIdle == \A p \in Proc : stopped[p] => sender[p].pc = "idle"

\* A note left by annotate_unknown_dispatch sits on an UNKNOWN row and tells the truth.
LateNotesTruthful ==
  \A d \in Dispatch :
    /\ late[d] # {} => state[d] = "unknown"
    /\ "sent" \in late[d] => d \in accepted
    /\ "failed" \in late[d] => transfers[d] = 0

\* The step is one of a thread of p (send thread, generation thread or shutdown) that
\* itself holds the claim: its own state changes in the step.
HolderActs(p, d, t) ==
  \/ sender[p].d = d /\ sender[p].tok = t /\ sender'[p] # sender[p]
  \/ generator[p].d = d /\ generator[p].tok = t /\ generator'[p] # generator[p]
  \/ [d |-> d, tok |-> t] \in resolve[p] \ resolve'[p]

\* A live claim is taken off a row only by a step of the very thread that holds exactly
\* this claim, or by a sweep after its lease expired (a step of no thread): a thread
\* whose older claim of the row was swept never writes over its successor's, even when
\* the processes share one WORKER_ID (the fence of work_claiming.py compares claimed_at).
OnlyHolderOrExpiryReleases ==
  [][\A d \in Dispatch :
       claimed_at[d] # Null /\ claimed_at'[d] # claimed_at[d]
         => \/ lease_expired[d] /\ UNCHANGED <<runtime, sender, generator>>
            \/ \E p \in Proc : HolderActs(p, d, claimed_at[d])]_vars

\* A recipient suppressed while the dispatch is QUEUED and not yet past its gates
\* is never mailed.
SuppressionHonoured ==
  \A d \in Dispatch :
    [](/\ d \in suppressed
       /\ state[d] \in {"absent", "queued", "generating"}
       /\ \A p \in Proc : ~(sender[p].pc = "minted" /\ sender[p].d = d)
       => [](transfers[d] = 0))

\* GET /outreach-actions/{key} reports GENERATING as queued.
PublicState(s) ==
  CASE s = "absent" -> "none" [] s = "generating" -> "queued" [] OTHER -> s

Lifecycle ==
  INSTANCE DispatchLifecycle WITH
    reported   <- [d \in Dispatch |-> PublicState(state[d])],
    deliveries <- transfers,
    taken      <- accepted

\* The workers implement the lifecycle promised to the client: the public state
\* only moves forward, terminal states are final, the content goes out at most
\* once and only while the state says sending or unknown, SENT and FAILED are true.
ImplementsLifecycle == Lifecycle!LifecycleSpec

=============================================================================
