----------------------- MODULE DispatchPromisesProofs -----------------------
(***************************************************************************)
(* What the dispatch workers promise beyond the inductive invariant of     *)
(* ExternalDispatchProofs: claims, Message-IDs, late notes, the shutdown   *)
(* record, suppression, and the lifecycle that LeadBoost sees.             *)
(*                                                                         *)
(* The proofs go by what a step may do to one part of the state (which     *)
(* statement it executes on the table, who transfers, who writes a note),  *)
(* so each promise looks only at the steps that can disturb it.            *)
(***************************************************************************)
EXTENDS ExternalDispatchProofs

-----------------------------------------------------------------------------
(* The second inductive invariant.                                         *)

\* Both claim columns are set exactly while a worker owns the row.
ClaimColumns ==
  \A d \in Dispatch :
    IF state[d] \in {"generating", "sending"}
      THEN claimed_by[d] # Null /\ claimed_at[d] # Null
      ELSE claimed_by[d] = Null /\ claimed_at[d] = Null

\* A send thread that has not settled its row yet.
Unsettled == {"prepared", "transferred", "finalize", "annotate"}

\* Until it transfers, a thread carries the Message-ID that B made durable; nothing is
\* on the wire of a dispatch that was not transferred.
HeaderKept ==
  /\ \A p \in Proc : sender[p].pc = "prepared" => header[sender[p].d] = sender[p].id
  /\ \A d \in Dispatch : transfers[d] = 0 => wire[d] = {}

\* The note of a late outcome is the last word of its thread.
NotesComeLast ==
  \A p \in Proc : sender[p].pc \in Unsettled => late[sender[p].d] = {}

\* DispatchRuntime counts a claim attempt until it is registered, and a registered claim
\* until it is dropped; a shutdown admits no new attempt; a drain that succeeded found
\* nothing, and only then does the liveness row say "stopped".
RuntimeCount(p) ==
  /\ sender[p].pc = "claiming" => attempts[p] = 1
  /\ sender[p].pc \in PreCommit \cup PostCommit
       => [d |-> sender[p].d, tok |-> sender[p].tok] \in inflight[p]
  /\ main[p] # "run" => stopping[p]
  /\ main[p] \in {"snapshot", "resolving", "exited"} /\ drained[p] => sender[p].pc = "idle"
  /\ ~alive[p] => sender[p].pc = "idle"
  /\ stopped[p] => ~alive[p] \/ (main[p] = "exited" /\ drained[p])

RuntimeCounts == \A p \in Proc : RuntimeCount(p)

PromiseInv ==
  /\ ClaimColumns
  /\ HeaderKept
  /\ MessageIdDurable
  /\ NotesComeLast
  /\ LateNotesTruthful
  /\ RuntimeCounts

-----------------------------------------------------------------------------
(* What a step may do to each part of the state.                           *)

\* The statement of work_claiming that a step executes, with the control state and the
\* fence under which the workers execute it, and the thread whose step it is.
Statement ==
  \/ UNCHANGED <<state, claimed_by, claimed_at, header>>
  \/ \E d \in Dispatch : InsertDispatch(d, "none") \/ InsertDispatch(d, "draft")
  \/ \E p \in Proc : sender[p].pc = "claimed" /\ CommitRefused(sender[p].d)
  \/ \E p \in Proc :
       /\ sender[p].pc = "minted"
       /\ CommitSending(sender[p].d, WorkerOf[p], sender[p].tok, sender[p].id)
  \/ \E p \in Proc :
       /\ sender[p].pc = "finalize"
       /\ CommitC(p) \/ ErrorC(p)
       /\ MyRow(p)
       /\ finish_external_dispatch(sender[p].d, sender[p].out)
  \/ \E p \in Proc : \E c \in resolve[p] :
       /\ SendFence(c.d, WorkerOf[p], c.tok)
       /\ finish_external_dispatch(c.d, "unknown")
       /\ resolve' = [resolve EXCEPT ![p] = @ \ {c}]
  \/ \E p \in Proc : generator[p].pc = "claimed" /\ CommitRefused(generator[p].d)
  \/ \E p \in Proc :
       /\ generator[p].pc = "claimed"
       /\ CommitGenerating(generator[p].d, WorkerOf[p], generator[p].tok)
  \/ \E p \in Proc :
       /\ generator[p].pc = "write"
       /\ CommitG2(p) \/ ErrorG2(p)
       /\ MyGeneration(p)
       /\ complete_generation(generator[p].d) \/ fail_generation(generator[p].d)
  \/ recover_expired_external_dispatches /\ UNCHANGED <<runtime, sender, generator>>
  \/ recover_expired_generations /\ UNCHANGED <<runtime, sender, generator>>

\* Every step executes at most one of these statements: no action writes the table
\* outside its control state and its fence.
LEMMA StepIsStatement == [Next]_vars => Statement
<1> SUFFICES ASSUME [Next]_vars PROVE Statement
  OBVIOUS
<1> USE DEF table
<1>1. ASSUME NEW d \in Dispatch, Accept(d) \/ Suppress(d) \/ Expire(d) PROVE Statement
  BY <1>1 DEF Statement, Accept, Suppress, Expire, LeaseExpires
<1>2. ASSUME NEW p \in Proc,
             begin_claim_attempt(p) \/ NothingToClaim(p) \/ ClaimDispatch(p) \/ PassGates(p)
             \/ Defer(p) \/ Transfer(p) \/ AfterTransfer(p) \/ NoTransfer(p) \/ LostFence(p)
             \/ AnnotateLateOutcome(p) \/ EndDispatch(p) \/ ErrorClaim(p) \/ RollbackB(p)
             \/ ErrorAnnotate(p)
      PROVE  UNCHANGED <<state, claimed_by, claimed_at, header>>
  BY <1>2 DEF begin_claim_attempt, NothingToClaim, ClaimDispatch, claim_next_external_dispatch,
     PassGates, Defer, Rollback, Transfer, AfterTransfer, NoTransfer, LostFence,
     AnnotateLateOutcome, annotate_unknown_dispatch, EndDispatch, ErrorClaim, EndAttempt,
     RollbackB, ErrorAnnotate
<1>3. ASSUME NEW p \in Proc, GateRefuses(p) \/ CommitB(p) \/ LoseAckB(p) \/ CommitC(p)
      PROVE  Statement
  BY <1>3 DEF Statement, GateRefuses, CommitB, LoseAckB, CommitC
<1>4. ASSUME NEW p \in Proc, ErrorC(p) PROVE Statement
  BY <1>4 DEF Statement, ErrorC
<1>5. ASSUME NEW p \in Proc, ResolveClaim(p) PROVE Statement
  BY <1>5 DEF Statement, ResolveClaim
<1>6. ASSUME NEW p \in Proc,
             ClaimGeneration(p) \/ DeferGeneration(p) \/ Generate(p) \/ DiscardGeneration(p)
      PROVE  UNCHANGED <<state, claimed_by, claimed_at, header>>
  BY <1>6 DEF ClaimGeneration, claim_next_generation_dispatch, DeferGeneration, Rollback,
     Generate, DiscardGeneration
<1>7. ASSUME NEW p \in Proc, RefuseGeneration(p) \/ CommitG1(p) \/ ErrorG1(p) PROVE Statement
  BY <1>7 DEF Statement, RefuseGeneration, CommitG1, ErrorG1, Rollback
<1>8. ASSUME NEW p \in Proc, CommitG2(p) \/ ErrorG2(p) PROVE Statement
  BY <1>8 DEF Statement, CommitG2, ErrorG2, WriteGeneration
<1>9. ASSUME NEW p \in Proc, RecoverSending(p) \/ RecoverGenerating(p) PROVE Statement
  BY <1>9 DEF Statement, RecoverSending, RecoverGenerating
<1>10. ASSUME NEW p \in Proc,
              Drain(p) \/ SnapshotInflight(p) \/ ExitMain(p) \/ Exit(p) \/ Restart(p)
              \/ RequestShutdown(p) \/ Resume(p) \/ ErrorResolve(p) \/ Crash(p)
       PROVE  UNCHANGED <<state, claimed_by, claimed_at, header>>
  BY <1>10 DEF Drain, SnapshotInflight, ExitMain, Exit, Restart, RequestShutdown, Resume,
     ErrorResolve, Crash, Terminate
<1>11. CASE UNCHANGED vars
  BY <1>11 DEF Statement, vars
<1>12. UNCHANGED <<state, claimed_by, claimed_at, header>> => Statement
  BY DEF Statement
<1>13. QED
  BY <1>1, <1>2, <1>3, <1>4, <1>5, <1>6, <1>7, <1>8, <1>9, <1>10, <1>11, <1>12
     DEF Next, Environment, System, Expiry, Operator, Faults, SendThread, GenerationThread,
         Sweeps, MainThread

\* Content reaches a server, and notes reach a row, only by the one action for it.
LEMMA StepWrites ==
  [Next]_vars => /\ UNCHANGED smtp \/ \E p \in Proc : Transfer(p)
                 /\ UNCHANGED late \/ \E p \in Proc : AnnotateLateOutcome(p)
<1> SUFFICES ASSUME [Next]_vars
             PROVE  /\ UNCHANGED smtp \/ \E p \in Proc : Transfer(p)
                    /\ UNCHANGED late \/ \E p \in Proc : AnnotateLateOutcome(p)
  OBVIOUS
<1> USE DEF table
<1>1. UNCHANGED smtp \/ \E p \in Proc : Transfer(p)
  BY DEF vars, Next, Environment, System, Expiry, Operator, Faults, SendThread,
     GenerationThread, Sweeps, MainThread,
     Accept, Suppress, Expire, begin_claim_attempt, NothingToClaim, EndAttempt, ClaimDispatch,
     GateRefuses, PassGates, Defer, CommitB, AfterTransfer, NoTransfer, CommitC, LostFence,
     AnnotateLateOutcome, EndDispatch, ClaimGeneration, RefuseGeneration, IdleGeneration,
     DeferGeneration, CommitG1, Generate, CommitG2, DiscardGeneration, RecoverSending,
     RecoverGenerating, Drain, SnapshotInflight, ResolveClaim, ExitMain, Exit, Terminate,
     Restart, RequestShutdown, Resume, ErrorClaim, RollbackB, LoseAckB, ErrorC, ErrorAnnotate,
     ErrorG1, ErrorG2, ErrorResolve, Crash
<1>2. UNCHANGED late \/ \E p \in Proc : AnnotateLateOutcome(p)
  <2>1. ASSUME NEW d \in Dispatch, Accept(d) \/ Suppress(d) \/ Expire(d) PROVE UNCHANGED late
    BY <2>1 DEF Accept, InsertDispatch, Suppress, Expire, LeaseExpires
  <2>2. ASSUME NEW p \in Proc, SendThread(p), ~AnnotateLateOutcome(p) PROVE UNCHANGED late
    BY <2>2 DEF SendThread, begin_claim_attempt, NothingToClaim, EndAttempt, ClaimDispatch,
       claim_next_external_dispatch, GateRefuses, CommitRefused, PassGates, Defer, Rollback,
       CommitB, CommitSending, Transfer, AfterTransfer, NoTransfer, CommitC,
       finish_external_dispatch, LostFence, EndDispatch
  <2>3. ASSUME NEW p \in Proc, GenerationThread(p) PROVE UNCHANGED late
    BY <2>3 DEF GenerationThread, ClaimGeneration, claim_next_generation_dispatch,
       RefuseGeneration, CommitRefused, DeferGeneration, Rollback, CommitG1, CommitGenerating,
       Generate, CommitG2, WriteGeneration, complete_generation, fail_generation,
       DiscardGeneration
  <2>4. ASSUME NEW p \in Proc, Sweeps(p) PROVE UNCHANGED late
    BY <2>4 DEF Sweeps, RecoverSending, RecoverGenerating, recover_expired_external_dispatches,
       recover_expired_generations, Release
  <2>5. ASSUME NEW p \in Proc,
               MainThread(p) \/ Exit(p) \/ Restart(p) \/ RequestShutdown(p) \/ Resume(p)
        PROVE  UNCHANGED late
    BY <2>5 DEF MainThread, Drain, SnapshotInflight, ResolveClaim, finish_external_dispatch,
       ExitMain, Exit, Terminate, Restart, RequestShutdown, Resume
  <2>6. ASSUME NEW p \in Proc,
               ErrorClaim(p) \/ RollbackB(p) \/ LoseAckB(p) \/ ErrorC(p) \/ ErrorAnnotate(p)
               \/ ErrorG1(p) \/ ErrorG2(p) \/ ErrorResolve(p) \/ Crash(p)
        PROVE  UNCHANGED late
    BY <2>6 DEF ErrorClaim, EndAttempt, RollbackB, Rollback, LoseAckB, CommitSending, ErrorC,
       finish_external_dispatch, ErrorAnnotate, ErrorG1, CommitGenerating, ErrorG2,
       WriteGeneration, complete_generation, fail_generation, ErrorResolve, Crash, Terminate
  <2>7. CASE UNCHANGED vars
    BY <2>7 DEF vars
  <2>8. QED
    BY <2>1, <2>2, <2>3, <2>4, <2>5, <2>6, <2>7
       DEF Next, Environment, System, Expiry, Operator, Faults
<1>3. QED
  BY <1>1, <1>2

-----------------------------------------------------------------------------
(* Claims.                                                                 *)

\* A commit writes both claim columns of a QUEUED row, an outcome clears them, a sweep
\* clears exactly the rows it moves, and a refusal finds them clear.
LEMMA ClaimColumnsStep == IndInv /\ ClaimColumns /\ [Next]_vars => ClaimColumns'
<1> SUFFICES ASSUME IndInv, ClaimColumns, Statement PROVE ClaimColumns'
  BY StepIsStatement
<1> USE NullAssumption, WorkerOfAssumption DEF ClaimColumns
<1>1. state \in [Dispatch -> DispatchState] /\ claimed_by \in [Dispatch -> WorkerId \cup {Null}]
      /\ claimed_at \in [Dispatch -> Token \cup {Null}]
  BY DEF IndInv, TypeOK, TableTypeOK
<1>2. CASE UNCHANGED <<state, claimed_by, claimed_at, header>>
  BY <1>2
<1>3. ASSUME NEW d \in Dispatch, InsertDispatch(d, "none") \/ InsertDispatch(d, "draft")
      PROVE  ClaimColumns'
  BY <1>1, <1>3 DEF InsertDispatch
<1>4. ASSUME NEW d \in Dispatch, state[d] = "queued", CommitRefused(d) PROVE ClaimColumns'
  BY <1>1, <1>4 DEF CommitRefused
<1>5. ASSUME NEW d \in Dispatch, NEW w \in WorkerId, NEW t \in Token,
             CommitGenerating(d, w, t) \/ \E id : CommitSending(d, w, t, id)
      PROVE  ClaimColumns'
  BY <1>1, <1>5 DEF CommitSending, CommitGenerating
<1>6. ASSUME NEW d \in Dispatch, NEW out \in Outcome, finish_external_dispatch(d, out)
      PROVE  ClaimColumns'
  BY <1>1, <1>6 DEF finish_external_dispatch, ClearClaim, Outcome
<1>7. ASSUME NEW d \in Dispatch, complete_generation(d) \/ fail_generation(d) PROVE ClaimColumns'
  BY <1>1, <1>7 DEF complete_generation, fail_generation, ClearClaim
<1>8. ASSUME recover_expired_external_dispatches PROVE ClaimColumns'
  <2>1. PICK S : Release(S) /\ state' = [d \in Dispatch |-> IF d \in S THEN "unknown" ELSE state[d]]
    BY <1>8, Zenon DEF recover_expired_external_dispatches
  <2>2. QED
    BY <2>1 DEF Release
<1>9. ASSUME recover_expired_generations PROVE ClaimColumns'
  <2>1. PICK S : Release(S) /\ state' = [d \in Dispatch |-> IF d \in S THEN "queued" ELSE state[d]]
    BY <1>9, Zenon DEF recover_expired_generations
  <2>2. QED
    BY <2>1 DEF Release
<1>10. \A p \in Proc :
         /\ sender[p].pc \notin {"idle", "claiming"} => sender[p].d \in Dispatch /\ sender[p].tok \in Token
         /\ sender[p].pc = "finalize" => sender[p].out \in Outcome
         /\ generator[p].pc # "idle" => generator[p].d \in Dispatch /\ generator[p].tok \in Token
         /\ \A c \in resolve[p] : c.d \in Dispatch
         /\ sender[p].pc = "claimed" => state[sender[p].d] = "queued"
         /\ generator[p].pc = "claimed" => state[generator[p].d] = "queued"
  BY DEF IndInv, ThreadValues, OpenTransactions, PreCommit, TypeOK, RuntimeTypeOK, Claim
<1>11. "unknown" \in Outcome
  BY DEF Outcome
<1>12. QED
  BY <1>2, <1>3, <1>4, <1>5, <1>6, <1>7, <1>8, <1>9, <1>10, <1>11 DEF Statement

\* A write of a thread moves the thread: C ends or counts a failed attempt, G2 likewise,
\* and shutdown ticks the claim off.
LEMMA WriterMoves ==
  ASSUME TypeOK, NEW p \in Proc
  PROVE  /\ CommitC(p) \/ ErrorC(p) => sender'[p] # sender[p]
         /\ CommitG2(p) \/ ErrorG2(p) => generator'[p] # generator[p]
<1>1. sender \in [Proc -> Sender] /\ generator \in [Proc -> Generator]
  BY DEF TypeOK
<1>2. sender[p].tries \in Nat /\ generator[p].tries \in Nat
  BY <1>1 DEF Sender, Generator
<1>3. ASSUME CommitC(p) PROVE sender'[p] # sender[p]
  BY <1>1, <1>3 DEF CommitC, SendStep, SenderAt
<1>4. ASSUME ErrorC(p) PROVE sender'[p].tries = sender[p].tries + 1
  BY <1>1, <1>4 DEF ErrorC, RetryC, SenderAt
<1>5. ASSUME CommitG2(p) PROVE generator'[p] # generator[p]
  BY <1>1, <1>5 DEF CommitG2, IdleGeneration, IdleGenerator, GeneratorAt
<1>6. ASSUME ErrorG2(p)
      PROVE  generator'[p].tries = generator[p].tries + 1 \/ generator'[p].pc # generator[p].pc
  BY <1>1, <1>6 DEF ErrorG2, RetryG2, IdleGenerator, GeneratorAt
<1>7. QED
  BY <1>2, <1>3, <1>4, <1>5, <1>6

\* A step of the workers that takes a committed claim off a row is the fenced write of the
\* thread that holds it, or a sweep of an expired lease; both commits write a row that has
\* no claim.
LEMMA ReleaseStep ==
  ASSUME IndInv, ClaimColumns, [Next]_vars,
         NEW d \in Dispatch, claimed_at[d] # Null, claimed_at'[d] # claimed_at[d]
  PROVE  \/ lease_expired[d] /\ UNCHANGED <<runtime, sender, generator>>
         \/ \E p \in Proc : HolderActs(p, d, claimed_at[d])
<1>0. TypeOK
  BY DEF IndInv
<1>1. claimed_at \in [Dispatch -> Token \cup {Null}]
  BY DEF IndInv, TypeOK, TableTypeOK
<1>2. state[d] \in {"generating", "sending"}
  BY DEF ClaimColumns
<1>3. ASSUME NEW e \in Dispatch, ClearClaim(e) PROVE e = d
  BY <1>1, <1>3 DEF ClearClaim
<1>4. ASSUME NEW e \in Dispatch, NEW w, NEW t, state[e] = "queued",
             CommitGenerating(e, w, t) \/ \E id : CommitSending(e, w, t, id)
      PROVE  FALSE
  BY <1>1, <1>2, <1>4 DEF CommitGenerating, CommitSending
<1>5. ASSUME NEW p \in Proc, CommitC(p) \/ ErrorC(p), sender[p].pc = "finalize", MyRow(p),
             finish_external_dispatch(sender[p].d, sender[p].out)
      PROVE  HolderActs(p, d, claimed_at[d])
  <2>1. sender[p].d = d
    BY <1>3, <1>5 DEF IndInv, ThreadValues, finish_external_dispatch
  <2>2. QED
    BY <1>0, <1>5, <2>1, WriterMoves DEF MyRow, SendFence, HolderActs
<1>6. ASSUME NEW p \in Proc, NEW c \in resolve[p], SendFence(c.d, WorkerOf[p], c.tok),
             finish_external_dispatch(c.d, "unknown"),
             resolve' = [resolve EXCEPT ![p] = @ \ {c}]
      PROVE  HolderActs(p, d, claimed_at[d])
  <2>1. c \in Claim
    BY DEF IndInv, TypeOK, RuntimeTypeOK
  <2>2. c.d = d /\ c = [d |-> c.d, tok |-> c.tok]
    BY <1>3, <1>6, <2>1 DEF finish_external_dispatch, Claim
  <2>3. c \in resolve[p] \ resolve'[p]
    BY <1>6 DEF IndInv, TypeOK, RuntimeTypeOK
  <2>4. QED
    BY <1>6, <2>2, <2>3 DEF SendFence, HolderActs
<1>7. ASSUME NEW p \in Proc, CommitG2(p) \/ ErrorG2(p), generator[p].pc = "write",
             MyGeneration(p),
             complete_generation(generator[p].d) \/ fail_generation(generator[p].d)
      PROVE  HolderActs(p, d, claimed_at[d])
  <2>1. generator[p].d = d
    BY <1>3, <1>7 DEF IndInv, ThreadValues, complete_generation, fail_generation
  <2>2. QED
    BY <1>0, <1>7, <2>1, WriterMoves DEF MyGeneration, GenerationFence, HolderActs
<1>8. ASSUME NEW S, S \subseteq Expired("sending") \/ S \subseteq Expired("generating"), Release(S)
      PROVE  lease_expired[d]
  BY <1>8 DEF Release, Expired
<1>9. ASSUME recover_expired_external_dispatches PROVE lease_expired[d]
  <2>1. Release(Batch(Expired("sending")))
    BY <1>9, Zenon DEF recover_expired_external_dispatches
  <2>2. Batch(Expired("sending")) \subseteq Expired("sending")
    BY DEF Batch
  <2>3. QED
    BY <1>8, <2>1, <2>2
<1>10. ASSUME recover_expired_generations PROVE lease_expired[d]
  <2> DEFINE E == {e \in Expired("generating") : message[e] = "none"}
  <2>1. Release(Batch(E))
    BY <1>10, Zenon DEF recover_expired_generations
  <2>2. Batch(E) \subseteq Expired("generating")
    BY DEF Batch
  <2>3. QED
    BY <1>8, <2>1, <2>2
<1>11. \A e \in Dispatch : ~InsertDispatch(e, "none") /\ ~InsertDispatch(e, "draft") /\ ~CommitRefused(e)
  BY DEF InsertDispatch, CommitRefused
<1>12. \A p \in Proc :
         /\ sender[p].pc \in PreCommit => sender[p].d \in Dispatch /\ state[sender[p].d] = "queued"
         /\ generator[p].pc = "claimed" => generator[p].d \in Dispatch /\ state[generator[p].d] = "queued"
  BY DEF IndInv, ThreadValues, OpenTransactions, PreCommit
<1>13. Statement
  BY StepIsStatement
<1>14. QED
  BY <1>4, <1>5, <1>6, <1>7, <1>9, <1>10, <1>11, <1>12, <1>13 DEF Statement, PreCommit

-----------------------------------------------------------------------------
(* The send thread of one process.                                         *)

\* A step leaves the thread of q alone, makes it idle, or is the step of q that moves it on.
LEMMA ThreadStep ==
  ASSUME TypeOK, [Next]_vars, NEW q \in Proc
  PROVE  \/ sender'[q] = sender[q]
         \/ sender'[q] = IdleSender
         \/ begin_claim_attempt(q) \/ ClaimDispatch(q) \/ PassGates(q) \/ CommitB(q)
         \/ Transfer(q) \/ AfterTransfer(q) \/ NoTransfer(q) \/ CommitC(q) \/ LostFence(q)
         \/ AnnotateLateOutcome(q) \/ ErrorC(q) \/ ErrorAnnotate(q)
<1>0. sender \in [Proc -> Sender]
  BY DEF TypeOK
<1>1. ASSUME UNCHANGED sender PROVE sender'[q] = sender[q]
  BY <1>1
<1>2. ASSUME NEW p \in Proc, p # q, NEW s, sender' = [sender EXCEPT ![p] = s]
      PROVE  sender'[q] = sender[q]
  BY <1>0, <1>2
<1>3. ASSUME NEW p \in Proc, sender' = [sender EXCEPT ![p] = IdleSender]
      PROVE  sender'[q] = sender[q] \/ sender'[q] = IdleSender
  BY <1>0, <1>3
<1>4. ASSUME NEW p \in Proc,
             NothingToClaim(p) \/ GateRefuses(p) \/ Defer(p) \/ EndDispatch(p) \/ Exit(p)
             \/ ErrorClaim(p) \/ RollbackB(p) \/ LoseAckB(p) \/ Crash(p)
      PROVE  sender' = [sender EXCEPT ![p] = IdleSender]
  BY <1>4 DEF NothingToClaim, EndAttempt, GateRefuses, Defer, EndDispatch, Unregister, Exit,
     ErrorClaim, RollbackB, LoseAckB, Crash, Terminate
<1>5. ASSUME NEW p \in Proc,
             begin_claim_attempt(p) \/ ClaimDispatch(p) \/ PassGates(p) \/ CommitB(p)
             \/ Transfer(p) \/ AfterTransfer(p) \/ NoTransfer(p) \/ CommitC(p) \/ LostFence(p)
             \/ AnnotateLateOutcome(p) \/ ErrorC(p) \/ ErrorAnnotate(p)
      PROVE  \E s : sender' = [sender EXCEPT ![p] = s]
  BY <1>5, Zenon DEF begin_claim_attempt, ClaimDispatch, PassGates, CommitB, Transfer,
     AfterTransfer, NoTransfer, SmtpReturns, CommitC, LostFence, AnnotateLateOutcome, ErrorC,
     RetryC, ErrorAnnotate, SendStep
<1>6. ASSUME NEW d \in Dispatch, Accept(d) \/ Suppress(d) \/ Expire(d) PROVE UNCHANGED sender
  BY <1>6 DEF Accept, Suppress, Expire
<1>7. ASSUME NEW p \in Proc,
             GenerationThread(p) \/ Sweeps(p) \/ MainThread(p) \/ Restart(p)
             \/ RequestShutdown(p) \/ Resume(p) \/ ErrorG1(p) \/ ErrorG2(p) \/ ErrorResolve(p)
      PROVE  UNCHANGED sender
  BY <1>7 DEF GenerationThread, ClaimGeneration, RefuseGeneration, IdleGeneration,
     DeferGeneration, CommitG1, Generate, CommitG2, DiscardGeneration, Sweeps, RecoverSending,
     RecoverGenerating, MainThread, Drain, SnapshotInflight, ResolveClaim, ExitMain, Restart,
     RequestShutdown, Resume, ErrorG1, ErrorG2, ErrorResolve
<1>8. ASSUME UNCHANGED vars PROVE UNCHANGED sender
  BY <1>8 DEF vars
<1>9. QED
  BY <1>1, <1>2, <1>3, <1>4, <1>5, <1>6, <1>7, <1>8
     DEF Next, Environment, System, Expiry, Operator, Faults, SendThread

\* An unsettled thread was unsettled before, with the same row and Message-ID, or has just
\* committed B; it is "prepared" only from the commit of B to the transfer.
LEMMA UnsettledStep ==
  ASSUME TypeOK, [Next]_vars, NEW q \in Proc, sender'[q].pc \in Unsettled, ~CommitB(q)
  PROVE  /\ sender[q].pc \in Unsettled
         /\ sender'[q].d = sender[q].d
         /\ sender'[q].id = sender[q].id
         /\ sender'[q].pc = "prepared" => sender[q].pc = "prepared"
         /\ ~AnnotateLateOutcome(q)
<1>0. sender \in [Proc -> Sender]
  BY DEF TypeOK
<1> USE <1>0 DEF Unsettled
<1>1. ~AnnotateLateOutcome(q)
  BY DEF AnnotateLateOutcome, SendStep, SenderAt
<1>2. CASE sender'[q] = sender[q]
  BY <1>1, <1>2
<1>3. sender'[q] # IdleSender
  BY DEF IdleSender, SenderAt
<1>4. ~begin_claim_attempt(q) /\ ~ClaimDispatch(q) /\ ~PassGates(q) /\ ~CommitC(q) /\ ~ErrorAnnotate(q)
  <2>1. ~begin_claim_attempt(q)
    BY DEF begin_claim_attempt, SendStep, SenderAt
  <2>2. ~ClaimDispatch(q)
    <3>1. ASSUME ClaimDispatch(q)
          PROVE  \E d, t : sender' = [sender EXCEPT ![q] = SenderAt("claimed", d, t, Null, Null, 0)]
      BY <3>1, Zenon DEF ClaimDispatch
    <3>2. QED
      BY <3>1 DEF SenderAt
  <2>3. ~PassGates(q)
    BY DEF PassGates, SenderAt
  <2>4. ~CommitC(q) /\ ~ErrorAnnotate(q)
    BY DEF CommitC, ErrorAnnotate, SendStep, SenderAt
  <2>5. QED
    BY <2>1, <2>2, <2>3, <2>4
<1>5. CASE Transfer(q) \/ LostFence(q)
  BY <1>1, <1>5 DEF Transfer, LostFence, SendStep, SenderAt
<1>6. CASE AfterTransfer(q) \/ NoTransfer(q)
  BY <1>1, <1>6 DEF AfterTransfer, NoTransfer, SmtpReturns, SenderAt
<1>7. CASE ErrorC(q)
  BY <1>1, <1>7 DEF ErrorC, RetryC, SenderAt
<1>8. QED
  BY <1>1, <1>2, <1>3, <1>4, <1>5, <1>6, <1>7, ThreadStep


-----------------------------------------------------------------------------
(* Message-IDs and late notes.                                             *)

\* Only Transaction B writes a Message-ID, and only of a row that is still QUEUED.
LEMMA HeaderStep ==
  ASSUME IndInv, [Next]_vars, NEW d \in Dispatch, state[d] # "queued"
  PROVE  header'[d] = header[d]
<1>1. header \in [Dispatch -> MsgId \cup {Null}]
  BY DEF IndInv, TypeOK, TableTypeOK
<1>2. ASSUME NEW p \in Proc, sender[p].pc = "minted",
             CommitSending(sender[p].d, WorkerOf[p], sender[p].tok, sender[p].id)
      PROVE  header'[d] = header[d]
  <2>1. sender[p].d # d
    BY <1>2 DEF IndInv, OpenTransactions, PreCommit
  <2>2. QED
    BY <1>1, <1>2, <2>1 DEF CommitSending
<1>3. QED
  BY <1>2, StepIsStatement
     DEF Statement, InsertDispatch, CommitRefused, finish_external_dispatch, CommitGenerating,
         complete_generation, fail_generation, recover_expired_external_dispatches,
         recover_expired_generations, Release

\* B makes the Message-ID durable before the thread may transfer; afterwards nobody rewrites
\* it, so what reaches the wire is what the row holds.
LEMMA MessageIdStep ==
  IndInv /\ HeaderKept /\ MessageIdDurable /\ [Next]_vars => HeaderKept' /\ MessageIdDurable'
<1> SUFFICES ASSUME IndInv, HeaderKept, MessageIdDurable, [Next]_vars
             PROVE  HeaderKept' /\ MessageIdDurable'
  OBVIOUS
<1>0. /\ TypeOK
      /\ sender \in [Proc -> Sender]
      /\ header \in [Dispatch -> MsgId \cup {Null}]
      /\ wire \in [Dispatch -> SUBSET MsgId]
      /\ transfers \in [Dispatch -> Nat]
  BY DEF IndInv, TypeOK, TableTypeOK, SmtpTypeOK
<1>1. ASSUME NEW q \in Proc, sender'[q].pc = "prepared" PROVE header'[sender'[q].d] = sender'[q].id
  <2>1. CASE CommitB(q)
    <3>1. sender[q].d \in Dispatch
      BY <2>1 DEF CommitB, IndInv, ThreadValues
    <3>2. QED
      BY <1>0, <2>1, <3>1 DEF CommitB, CommitSending, SendStep, SenderAt
  <2>2. CASE ~CommitB(q)
    <3>1. sender[q].pc = "prepared" /\ sender'[q].d = sender[q].d /\ sender'[q].id = sender[q].id
      BY <1>0, <1>1, <2>2, UnsettledStep DEF Unsettled
    <3>2. sender[q].d \in Dispatch /\ state[sender[q].d] # "queued"
      BY <3>1 DEF IndInv, ThreadValues, AfterCommit
    <3>3. QED
      BY <3>1, <3>2, HeaderStep DEF HeaderKept
  <2>3. QED
    BY <2>1, <2>2
<1>2. ASSUME NEW p \in Proc, Transfer(p)
      PROVE  /\ sender[p].d \in Dispatch
             /\ header' = header
             /\ wire' = [wire EXCEPT ![sender[p].d] = @ \cup {sender[p].id}]
             /\ transfers' = [transfers EXCEPT ![sender[p].d] = @ + 1]
             /\ header[sender[p].d] = sender[p].id
  BY <1>2 DEF Transfer, WireMessageId, table, IndInv, ThreadValues, HeaderKept
<1>3. ASSUME NEW d \in Dispatch, transfers'[d] = 0 PROVE wire'[d] = {}
  BY <1>0, <1>2, <1>3, StepWrites DEF smtp, HeaderKept
<1>4. ASSUME NEW d \in Dispatch PROVE wire'[d] \subseteq {header'[d]}
  <2>1. ASSUME UNCHANGED smtp, state[d] = "queued" PROVE wire'[d] = {}
    BY <1>0, <2>1 DEF IndInv, HonestOutcome, HeaderKept, smtp
  <2>2. ASSUME UNCHANGED smtp, state[d] # "queued" PROVE wire'[d] \subseteq {header'[d]}
    BY <2>2, HeaderStep DEF MessageIdDurable, smtp
  <2>3. ASSUME NEW p \in Proc, Transfer(p) PROVE wire'[d] \subseteq {header'[d]}
    BY <1>0, <1>2, <2>3 DEF MessageIdDurable
  <2>4. QED
    BY <2>1, <2>2, <2>3, StepWrites
<1>5. QED
  BY <1>1, <1>3, <1>4 DEF HeaderKept, MessageIdDurable

\* No statement moves a row out of UNKNOWN.
LEMMA UnknownIsFinal ==
  ASSUME IndInv, [Next]_vars, NEW d \in Dispatch, state[d] = "unknown"
  PROVE  state'[d] = "unknown"
<1>1. state \in [Dispatch -> DispatchState]
  BY DEF IndInv, TypeOK, TableTypeOK
<1>2. \A p \in Proc :
        /\ sender[p].pc \in {"claimed", "minted"} => sender[p].d # d
        /\ generator[p].pc = "claimed" => generator[p].d # d
  BY DEF IndInv, OpenTransactions, PreCommit
<1>3. ASSUME NEW e, e # d,
             CommitRefused(e) \/ complete_generation(e) \/ fail_generation(e)
             \/ \E out : finish_external_dispatch(e, out)
             \/ \E w, t : CommitGenerating(e, w, t) \/ \E id : CommitSending(e, w, t, id)
      PROVE  state'[d] = "unknown"
  BY <1>1, <1>3 DEF CommitRefused, complete_generation, fail_generation,
     finish_external_dispatch, CommitGenerating, CommitSending
<1>4. ASSUME NEW e \in Dispatch, InsertDispatch(e, "none") \/ InsertDispatch(e, "draft")
      PROVE  state'[d] = "unknown"
  BY <1>1, <1>4 DEF InsertDispatch
<1>5. ASSUME recover_expired_external_dispatches PROVE state'[d] = "unknown"
  BY <1>5 DEF recover_expired_external_dispatches
<1>6. ASSUME recover_expired_generations PROVE state'[d] = "unknown"
  BY <1>6 DEF recover_expired_generations, Batch, Expired
<1>7. \A e, w, t : SendFence(e, w, t) \/ GenerationFence(e, w, t) => e # d
  BY DEF SendFence, GenerationFence
<1>8. CASE UNCHANGED <<state, claimed_by, claimed_at, header>>
  BY <1>8
<1>9. QED
  BY <1>2, <1>3, <1>4, <1>5, <1>6, <1>7, <1>8, StepIsStatement DEF Statement, MyRow, MyGeneration

\* Notes are written by the one thread of the row, after it transferred or gave up, on a row
\* that stays UNKNOWN.
LEMMA NotesStep ==
  IndInv /\ NotesComeLast /\ LateNotesTruthful /\ [Next]_vars => NotesComeLast' /\ LateNotesTruthful'
<1> SUFFICES ASSUME IndInv, NotesComeLast, LateNotesTruthful, [Next]_vars
             PROVE  NotesComeLast' /\ LateNotesTruthful'
  OBVIOUS
<1>0. /\ TypeOK
      /\ sender \in [Proc -> Sender]
      /\ late \in [Dispatch -> SUBSET Outcome]
      /\ transfers \in [Dispatch -> Nat]
  BY DEF IndInv, TypeOK, TableTypeOK, SmtpTypeOK
<1>1. ASSUME NEW p \in Proc, AnnotateLateOutcome(p)
      PROVE  /\ sender[p].pc = "annotate" /\ sender[p].d \in Dispatch
             /\ UNCHANGED <<state, smtp>>
             /\ late' = IF state[sender[p].d] = "unknown"
                          THEN [late EXCEPT ![sender[p].d] = @ \cup {sender[p].out}] ELSE late
  BY <1>1 DEF AnnotateLateOutcome, annotate_unknown_dispatch, IndInv, ThreadValues
<1>2. ASSUME NEW q \in Proc, sender'[q].pc \in Unsettled PROVE late'[sender'[q].d] = {}
  <2>1. CASE CommitB(q)
    <3>1. sender[q].d \in Dispatch /\ state[sender[q].d] = "queued"
      BY <2>1 DEF CommitB, IndInv, ThreadValues, OpenTransactions, PreCommit
    <3>2. late' = late /\ sender'[q].d = sender[q].d
      BY <1>0, <2>1 DEF CommitB, CommitSending, SendStep, SenderAt
    <3>3. QED
      BY <3>1, <3>2 DEF LateNotesTruthful
  <2>2. CASE ~CommitB(q)
    <3>1. sender[q].pc \in Unsettled /\ sender'[q].d = sender[q].d /\ ~AnnotateLateOutcome(q)
      BY <1>0, <1>2, <2>2, UnsettledStep
    <3>2. late[sender[q].d] = {} /\ sender[q].d \in Dispatch
      BY <3>1 DEF NotesComeLast, Unsettled, IndInv, ThreadValues
    <3>3. ASSUME NEW p \in Proc, AnnotateLateOutcome(p) PROVE late'[sender[q].d] = {}
      <4>1. sender[p].d # sender[q].d
        BY <1>1, <3>1, <3>3 DEF IndInv, OneSender, PostCommit, Unsettled
      <4>2. QED
        BY <1>0, <1>1, <3>2, <3>3, <4>1
    <3>4. QED
      BY <3>1, <3>2, <3>3, StepWrites
  <2>3. QED
    BY <2>1, <2>2
<1>3. ASSUME NEW d \in Dispatch
      PROVE  /\ late'[d] # {} => state'[d] = "unknown"
             /\ "sent" \in late'[d] => d \in accepted'
             /\ "failed" \in late'[d] => transfers'[d] = 0
  <2>1. ASSUME NEW p \in Proc, AnnotateLateOutcome(p)
        PROVE  /\ late'[d] # {} => state'[d] = "unknown"
               /\ "sent" \in late'[d] => d \in accepted'
               /\ "failed" \in late'[d] => transfers'[d] = 0
    <3>1. CASE late'[d] = late[d]
      BY <1>1, <2>1, <3>1 DEF smtp, LateNotesTruthful
    <3>2. CASE late'[d] # late[d]
      <4>1. d = sender[p].d /\ state[d] = "unknown" /\ late'[d] = late[d] \cup {sender[p].out}
        BY <1>0, <1>1, <2>1, <3>2
      <4>2. /\ sender[p].out = "sent" => d \in accepted
            /\ sender[p].out = "failed" => transfers[d] = 0
        BY <1>1, <2>1, <4>1 DEF IndInv, AfterCommit
      <4>3. QED
        BY <1>1, <2>1, <4>1, <4>2 DEF smtp, LateNotesTruthful
    <3>3. QED
      BY <3>1, <3>2
  <2>2. ASSUME UNCHANGED late
        PROVE  /\ late'[d] # {} => state'[d] = "unknown"
               /\ "sent" \in late'[d] => d \in accepted'
               /\ "failed" \in late'[d] => transfers'[d] = 0
    <3>1. late'[d] # {} => state'[d] = "unknown"
      BY <2>2, UnknownIsFinal DEF LateNotesTruthful
    <3>2. CASE UNCHANGED smtp
      BY <2>2, <3>1, <3>2 DEF smtp, LateNotesTruthful
    <3>3. ASSUME NEW p \in Proc, Transfer(p)
          PROVE  /\ "sent" \in late'[d] => d \in accepted'
                 /\ "failed" \in late'[d] => transfers'[d] = 0
      <4>1. late[sender[p].d] = {} /\ sender[p].d \in Dispatch
        BY <3>3 DEF Transfer, NotesComeLast, Unsettled, IndInv, ThreadValues
      <4>2. accepted \subseteq accepted' /\ (d # sender[p].d => transfers'[d] = transfers[d])
        BY <1>0, <3>3 DEF Transfer
      <4>3. QED
        BY <2>2, <4>1, <4>2 DEF LateNotesTruthful
    <3>4. QED
      BY <3>1, <3>2, <3>3, StepWrites
  <2>3. QED
    BY <2>1, <2>2, StepWrites
<1>4. QED
  BY <1>2, <1>3 DEF NotesComeLast, LateNotesTruthful


-----------------------------------------------------------------------------
(* The shutdown record.                                                    *)

\* A step of process p, or of nobody, leaves the bookkeeping of the others alone.
LEMMA RuntimeOfOthers ==
  ASSUME RuntimeCounts, NEW p \in Proc, RuntimeCount(p)',
         \A q \in Proc \ {p} :
           /\ alive'[q] = alive[q] /\ stopping'[q] = stopping[q] /\ attempts'[q] = attempts[q]
           /\ inflight'[q] = inflight[q] /\ main'[q] = main[q] /\ drained'[q] = drained[q]
           /\ stopped'[q] = stopped[q] /\ sender'[q] = sender[q]
  PROVE  RuntimeCounts'
<1>1. ASSUME NEW q \in Proc, q # p PROVE RuntimeCount(q)'
  BY <1>1 DEF RuntimeCounts, RuntimeCount
<1>2. QED
  BY <1>1 DEF RuntimeCounts

\* An attempt and an in-flight claim are counted from before the thread may touch a row until
\* after it last did, so a drain that saw neither, in a process that admits no more, is final.
LEMMA RuntimeStep == IndInv /\ RuntimeCounts /\ [Next]_vars => RuntimeCounts'
<1> SUFFICES ASSUME IndInv, RuntimeCounts, [Next]_vars PROVE RuntimeCounts'
  OBVIOUS
<1>0. /\ alive \in [Proc -> BOOLEAN] /\ stopping \in [Proc -> BOOLEAN]
      /\ attempts \in [Proc -> 0..1] /\ inflight \in [Proc -> SUBSET Claim]
      /\ main \in [Proc -> {"run", "draining", "snapshot", "resolving", "exited"}]
      /\ drained \in [Proc -> BOOLEAN] /\ stopped \in [Proc -> BOOLEAN]
      /\ sender \in [Proc -> Sender]
  BY DEF IndInv, TypeOK, RuntimeTypeOK
<1> DEFINE Others(p) ==
      \A q \in Proc \ {p} :
        /\ alive'[q] = alive[q] /\ stopping'[q] = stopping[q] /\ attempts'[q] = attempts[q]
        /\ inflight'[q] = inflight[q] /\ main'[q] = main[q] /\ drained'[q] = drained[q]
        /\ stopped'[q] = stopped[q] /\ sender'[q] = sender[q]
<1>1. ASSUME UNCHANGED <<runtime, sender>> PROVE RuntimeCounts'
  BY <1>1 DEF RuntimeCounts, RuntimeCount, runtime
<1>2. ASSUME NEW p \in Proc, begin_claim_attempt(p) PROVE RuntimeCount(p)' /\ Others(p)
  <2>1. Others(p)
    BY <1>0, <1>2 DEF begin_claim_attempt, SendStep
  <2>2. RuntimeCount(p)
    BY DEF RuntimeCounts
  <2>3. RuntimeCount(p)'
    BY <1>0, <1>2, <2>2 DEF begin_claim_attempt, SendStep, SenderAt, RuntimeCount, PreCommit, PostCommit
  <2>4. QED
    BY <2>1, <2>3
<1>3. ASSUME NEW p \in Proc, EndAttempt(p) PROVE RuntimeCount(p)' /\ Others(p)
  BY <1>0, <1>3 DEF EndAttempt, IdleSender, SenderAt, RuntimeCounts, RuntimeCount, PreCommit, PostCommit
<1>4. ASSUME NEW p \in Proc, ClaimDispatch(p) PROVE RuntimeCount(p)' /\ Others(p)
  <2>1. PICK d, t : /\ register_claim_attempt(p, [d |-> d, tok |-> t])
                    /\ sender' = [sender EXCEPT ![p] = SenderAt("claimed", d, t, Null, Null, 0)]
    BY <1>4, Zenon DEF ClaimDispatch
  <2>2. /\ sender[p].pc = "claiming"
        /\ attempts' = [attempts EXCEPT ![p] = 0]
        /\ UNCHANGED <<alive, stopping, main, drained, stopped>>
    BY <1>4 DEF ClaimDispatch
  <2>3. QED
    BY <1>0, <2>1, <2>2 DEF register_claim_attempt, SenderAt, RuntimeCounts, RuntimeCount, PreCommit, PostCommit
<1>5. ASSUME NEW p \in Proc, Unregister(p) PROVE RuntimeCount(p)' /\ Others(p)
  BY <1>0, <1>5 DEF Unregister, IdleSender, SenderAt, RuntimeCounts, RuntimeCount, PreCommit, PostCommit
<1>6. ASSUME NEW p \in Proc, NEW s, sender' = [sender EXCEPT ![p] = s], UNCHANGED runtime,
             sender[p].pc \in PreCommit \cup PostCommit, s.pc \in PreCommit \cup PostCommit,
             s.d = sender[p].d, s.tok = sender[p].tok
      PROVE  RuntimeCount(p)' /\ Others(p)
  BY <1>0, <1>6 DEF runtime, RuntimeCounts, RuntimeCount, PreCommit, PostCommit
<1>7. ASSUME NEW p \in Proc,
             PassGates(p) \/ CommitB(p) \/ Transfer(p) \/ AfterTransfer(p) \/ NoTransfer(p)
             \/ CommitC(p) \/ LostFence(p) \/ AnnotateLateOutcome(p) \/ ErrorC(p) \/ ErrorAnnotate(p)
      PROVE  \E s : /\ sender' = [sender EXCEPT ![p] = s] /\ UNCHANGED runtime
                    /\ sender[p].pc \in PreCommit \cup PostCommit /\ s.pc \in PreCommit \cup PostCommit
                    /\ s.d = sender[p].d /\ s.tok = sender[p].tok
  <2> USE DEF PreCommit, PostCommit, SenderAt
  <2>1. CASE PassGates(p)
    BY <2>1 DEF PassGates
  <2>2. CASE CommitB(p) \/ Transfer(p) \/ CommitC(p) \/ LostFence(p) \/ AnnotateLateOutcome(p) \/ ErrorAnnotate(p)
    BY <2>2 DEF CommitB, Transfer, CommitC, LostFence, AnnotateLateOutcome, ErrorAnnotate, SendStep
  <2>3. CASE AfterTransfer(p) \/ NoTransfer(p)
    BY <2>3 DEF AfterTransfer, NoTransfer, SmtpReturns
  <2>4. CASE ErrorC(p)
    <3> DEFINE c == IF sender[p].tries + 1 = TxnAttempts THEN "annotate" ELSE "finalize"
    <3> DEFINE s == SenderAt(c, sender[p].d, sender[p].tok, sender[p].id, sender[p].out, sender[p].tries + 1)
    <3>1. sender' = [sender EXCEPT ![p] = s] /\ UNCHANGED runtime /\ sender[p].pc = "finalize"
      BY <2>4, Zenon DEF ErrorC, RetryC
    <3>2. s.pc \in {"annotate", "finalize"} /\ s.d = sender[p].d /\ s.tok = sender[p].tok
      OBVIOUS
    <3> HIDE DEF s
    <3>3. QED
      BY <3>1, <3>2
  <2>5. QED
    BY <1>7, <2>1, <2>2, <2>3, <2>4
<1>8. ASSUME NEW p \in Proc, RequestShutdown(p) PROVE RuntimeCount(p)' /\ Others(p)
  BY <1>0, <1>8 DEF RequestShutdown, RuntimeCounts, RuntimeCount
<1>9. ASSUME NEW p \in Proc, Drain(p) PROVE RuntimeCount(p)' /\ Others(p)
  <2>1. Quiet(p) => sender[p].pc = "idle"
    <3>1. RuntimeCount(p)
      BY DEF RuntimeCounts
    <3>2. sender[p].pc \in {"idle", "claiming"} \cup PreCommit \cup PostCommit
      BY <1>0 DEF Sender, PreCommit, PostCommit
    <3>3. QED
      BY <3>1, <3>2 DEF Quiet, RuntimeCount
  <2>2. QED
    BY <1>0, <1>9, <2>1 DEF Drain, RuntimeCounts, RuntimeCount
<1>10. ASSUME NEW p \in Proc, SnapshotInflight(p) PROVE RuntimeCount(p)' /\ Others(p)
  BY <1>0, <1>10 DEF SnapshotInflight, RuntimeCounts, RuntimeCount
<1>11. ASSUME NEW p \in Proc, ResolveClaim(p) \/ ErrorResolve(p) PROVE RuntimeCount(p)' /\ Others(p)
  BY <1>11 DEF ResolveClaim, ErrorResolve, RuntimeCounts, RuntimeCount
<1>12. ASSUME NEW p \in Proc, ExitMain(p) PROVE RuntimeCount(p)' /\ Others(p)
  BY <1>0, <1>12 DEF ExitMain, RuntimeCounts, RuntimeCount
<1>13. ASSUME NEW p \in Proc, Resume(p) PROVE RuntimeCount(p)' /\ Others(p)
  BY <1>0, <1>13 DEF Resume, RuntimeCounts, RuntimeCount
<1>14. ASSUME NEW p \in Proc, Terminate(p) PROVE RuntimeCount(p)' /\ Others(p)
  BY <1>0, <1>14 DEF Terminate, IdleSender, SenderAt, RuntimeCounts, RuntimeCount, PreCommit, PostCommit
<1>15. ASSUME NEW p \in Proc, Restart(p) PROVE RuntimeCount(p)' /\ Others(p)
  BY <1>0, <1>15 DEF Restart, RuntimeCounts, RuntimeCount
<1>16. ASSUME NEW p \in Proc, RuntimeCount(p)', Others(p) PROVE RuntimeCounts'
  BY <1>16, RuntimeOfOthers
<1>17. ASSUME NEW d \in Dispatch, Accept(d) \/ Suppress(d) \/ Expire(d) PROVE UNCHANGED <<runtime, sender>>
  BY <1>17 DEF Accept, Suppress, Expire
<1>18. ASSUME NEW p \in Proc, GenerationThread(p) \/ Sweeps(p) \/ ErrorG1(p) \/ ErrorG2(p)
       PROVE  UNCHANGED <<runtime, sender>>
  BY <1>18 DEF GenerationThread, ClaimGeneration, RefuseGeneration, IdleGeneration,
     DeferGeneration, CommitG1, Generate, CommitG2, DiscardGeneration, Sweeps, RecoverSending,
     RecoverGenerating, ErrorG1, ErrorG2
<1>19. CASE UNCHANGED vars
  BY <1>1, <1>19 DEF vars
<1> HIDE DEF Others
<1>20. ASSUME System \/ Operator \/ Faults PROVE RuntimeCounts'
  <2>1. ASSUME NEW q \in Proc, SendThread(q) PROVE RuntimeCounts'
    BY <1>2, <1>3, <1>4, <1>5, <1>6, <1>7, <1>16, <2>1
       DEF SendThread, NothingToClaim, GateRefuses, Defer, EndDispatch
  <2>2. ASSUME NEW q \in Proc, MainThread(q) \/ Exit(q) \/ Restart(q) \/ RequestShutdown(q) \/ Resume(q)
        PROVE  RuntimeCounts'
    BY <1>8, <1>9, <1>10, <1>11, <1>12, <1>13, <1>14, <1>15, <1>16, <2>2 DEF MainThread, Exit
  <2>3. ASSUME NEW q \in Proc, ErrorClaim(q) \/ RollbackB(q) \/ LoseAckB(q) \/ ErrorC(q)
               \/ ErrorAnnotate(q) \/ ErrorResolve(q) \/ Crash(q)
        PROVE  RuntimeCounts'
    BY <1>3, <1>5, <1>6, <1>7, <1>11, <1>14, <1>16, <2>3 DEF ErrorClaim, RollbackB, LoseAckB, Crash
  <2>4. QED
    BY <1>1, <1>18, <1>20, <2>1, <2>2, <2>3 DEF System, Operator, Faults
<1>21. QED
  BY <1>1, <1>17, <1>19, <1>20 DEF Next, Environment, System, Operator, Faults, Expiry


-----------------------------------------------------------------------------
(* The invariants.                                                         *)

\* The invariant holds initially.
LEMMA PromiseInit == Init => PromiseInv
<1> SUFFICES ASSUME Init PROVE PromiseInv
  OBVIOUS
<1> USE DEF Init, TableInit, IdleSender, SenderAt
<1>1. ClaimColumns
  BY DEF ClaimColumns
<1>2. HeaderKept
  BY DEF HeaderKept
<1>3. MessageIdDurable
  BY DEF MessageIdDurable
<1>4. NotesComeLast
  BY DEF NotesComeLast, Unsettled
<1>5. LateNotesTruthful
  BY DEF LateNotesTruthful
<1>6. RuntimeCounts
  BY DEF RuntimeCounts, RuntimeCount, PreCommit, PostCommit
<1>7. QED
  BY <1>1, <1>2, <1>3, <1>4, <1>5, <1>6 DEF PromiseInv

\* The second inductive invariant, relative to the first one.
THEOREM Promises == Spec => []PromiseInv
<1>1. IndInv /\ PromiseInv /\ [Next]_vars => PromiseInv'
  BY ClaimColumnsStep, MessageIdStep, NotesStep, RuntimeStep DEF PromiseInv
<1>2. QED
  BY PromiseInit, Invariance, <1>1, PTL DEF Spec

\* work_claiming.py: a claim is on a row exactly while a worker owns it; no commit, refusal,
\* sweep or fenced write leaves half a claim, or a claim on a row that nobody works on.
THEOREM ClaimsAreOwned == Spec => []ClaimedIffOwned
<1>1. PromiseInv => ClaimedIffOwned
  BY DEF PromiseInv, ClaimColumns, ClaimedIffOwned
<1>2. QED
  BY Promises, <1>1, PTL

\* What reached an SMTP server carries the Message-ID that Transaction B made durable, also
\* after a crash, a lost acknowledgement, or a recovery of the row by somebody else.
THEOREM MessageIdsAreDurable == Spec => []MessageIdDurable
<1>1. PromiseInv => MessageIdDurable
  BY DEF PromiseInv
<1>2. QED
  BY Promises, <1>1, PTL

\* annotate_unknown_dispatch, called by a worker that lost its row, tells an operator the
\* truth about an UNKNOWN row.
THEOREM NotesAreTruthful == Spec => []LateNotesTruthful
<1>1. PromiseInv => LateNotesTruthful
  BY DEF PromiseInv
<1>2. QED
  BY Promises, <1>1, PTL

\* mark_runtime_stopped never writes "stopped" for a process whose send thread still has a
\* claim attempt or a send in flight.
THEOREM StoppedIsIdle == Spec => []StoppedMeansIdle
<1>1. PromiseInv => StoppedMeansIdle
  BY DEF PromiseInv, RuntimeCounts, RuntimeCount, StoppedMeansIdle
<1>2. QED
  BY Promises, <1>1, PTL

-----------------------------------------------------------------------------
(* The fence.                                                              *)

\* The thread whose step takes a live claim off a row holds exactly that claim, or the step
\* is a sweep and the lease expired: a late worker never writes over its live successor. The
\* exact claimed_at in the fences suffices even when processes share a worker identity.
THEOREM FenceHolds == Spec => OnlyHolderOrExpiryReleases
<1> DEFINE A == \A d \in Dispatch :
                  claimed_at[d] # Null /\ claimed_at'[d] # claimed_at[d]
                    => \/ lease_expired[d] /\ UNCHANGED <<runtime, sender, generator>>
                       \/ \E p \in Proc : HolderActs(p, d, claimed_at[d])
<1>1. IndInv /\ PromiseInv /\ [Next]_vars => A
  BY ReleaseStep DEF PromiseInv
<1>2. IndInv /\ PromiseInv /\ [Next]_vars => [A]_vars
  BY <1>1
<1>3. QED
  BY Invariance, Promises, <1>2, PTL DEF Spec, OnlyHolderOrExpiryReleases

-----------------------------------------------------------------------------
(* Suppression.                                                            *)

\* The dispatch of a suppressed recipient that is not past its gates.
Held(d) ==
  /\ d \in suppressed
  /\ state[d] \in {"absent", "queued", "generating", "failed"}
  /\ \A p \in Proc : ~(sender[p].pc = "minted" /\ sender[p].d = d)

\* Nothing takes an address off the suppression list in this model, and no step but
\* Transaction B, past the gates, brings a row to SENDING.
LEMMA HeldStep ==
  ASSUME IndInv, [Next]_vars, NEW d \in Dispatch, Held(d)
  PROVE  Held(d)'
<1>0. TypeOK /\ sender \in [Proc -> Sender] /\ state \in [Dispatch -> DispatchState]
  BY DEF IndInv, TypeOK, TableTypeOK
<1>1. d \in suppressed'
  <2>1. ASSUME NEW e \in Dispatch, Accept(e) \/ Suppress(e) \/ Expire(e) PROVE d \in suppressed'
    BY <2>1 DEF Held, Accept, Suppress, Expire
  <2>2. ASSUME NEW p \in Proc, SendThread(p) PROVE UNCHANGED suppressed
    BY <2>2 DEF SendThread, begin_claim_attempt, NothingToClaim, EndAttempt, ClaimDispatch,
       GateRefuses, PassGates, Defer, CommitB, Transfer, AfterTransfer, NoTransfer, CommitC,
       LostFence, AnnotateLateOutcome, EndDispatch
  <2>3. ASSUME NEW p \in Proc,
               GenerationThread(p) \/ Sweeps(p) \/ MainThread(p) \/ Exit(p) \/ Restart(p)
               \/ RequestShutdown(p) \/ Resume(p)
        PROVE  UNCHANGED suppressed
    BY <2>3 DEF GenerationThread, ClaimGeneration, RefuseGeneration, IdleGeneration,
       DeferGeneration, CommitG1, Generate, CommitG2, DiscardGeneration, Sweeps, RecoverSending,
       RecoverGenerating, MainThread, Drain, SnapshotInflight, ResolveClaim, ExitMain, Exit,
       Terminate, Restart, RequestShutdown, Resume
  <2>4. ASSUME NEW p \in Proc,
               ErrorClaim(p) \/ RollbackB(p) \/ LoseAckB(p) \/ ErrorC(p) \/ ErrorAnnotate(p)
               \/ ErrorG1(p) \/ ErrorG2(p) \/ ErrorResolve(p) \/ Crash(p)
        PROVE  UNCHANGED suppressed
    BY <2>4 DEF ErrorClaim, EndAttempt, RollbackB, LoseAckB, ErrorC, ErrorAnnotate, ErrorG1,
       IdleGeneration, ErrorG2, ErrorResolve, Crash, Terminate
  <2>5. CASE UNCHANGED vars
    BY <2>5 DEF Held, vars
  <2>6. QED
    BY <2>1, <2>2, <2>3, <2>4, <2>5
       DEF Held, Next, Environment, System, Expiry, Operator, Faults
<1>2. state'[d] \in {"absent", "queued", "generating", "failed"}
  <2> DEFINE Safe == {"absent", "queued", "generating", "failed"}
  <2>1. ASSUME NEW e, state' = [state EXCEPT ![e] = "queued"] \/ state' = [state EXCEPT ![e] = "failed"]
                      \/ state' = [state EXCEPT ![e] = "generating"]
        PROVE  state'[d] \in Safe
    BY <1>0, <2>1 DEF Held
  <2>2. ASSUME NEW e, e # d,
               \/ \E out : finish_external_dispatch(e, out)
               \/ \E w, t, id : CommitSending(e, w, t, id)
        PROVE  state'[d] \in Safe
    BY <1>0, <2>2 DEF Held, finish_external_dispatch, CommitSending
  <2>3. \A e, w, t : SendFence(e, w, t) => e # d
    BY DEF SendFence, Held
  <2>4. ASSUME recover_expired_external_dispatches PROVE state'[d] \in Safe
    BY <2>4 DEF recover_expired_external_dispatches, Batch, Expired, Held
  <2>5. ASSUME recover_expired_generations PROVE state'[d] \in Safe
    BY <2>5 DEF recover_expired_generations, Held
  <2>6. ASSUME UNCHANGED <<state, claimed_by, claimed_at, header>> PROVE state'[d] \in Safe
    BY <2>6 DEF Held
  <2>7. ASSUME NEW e,
               InsertDispatch(e, "none") \/ InsertDispatch(e, "draft") \/ CommitRefused(e)
               \/ complete_generation(e) \/ fail_generation(e) \/ \E w, t : CommitGenerating(e, w, t)
        PROVE  state'[d] \in Safe
    BY <2>1, <2>7, Zenon DEF InsertDispatch, CommitRefused, CommitGenerating, complete_generation,
       fail_generation
  <2>8. \A p \in Proc : sender[p].pc = "minted" => sender[p].d # d
    BY DEF Held
  <2> HIDE DEF Safe
  <2>9. state'[d] \in Safe
    BY <2>2, <2>3, <2>4, <2>5, <2>6, <2>7, <2>8, StepIsStatement DEF Statement, MyRow
  <2>10. QED
    BY <2>9 DEF Safe
<1>3. ASSUME NEW q \in Proc, sender'[q].pc = "minted" PROVE sender'[q].d # d
  <2> USE <1>0, <1>3
  <2>2. CASE sender'[q] = sender[q]
    BY <1>3, <2>2 DEF Held
  <2>3. CASE PassGates(q)
    BY <1>0, <2>3 DEF PassGates, GatesMayPass, SenderAt, Held
  <2>4. sender'[q] # IdleSender
    BY <1>3 DEF IdleSender, SenderAt
  <2>5. ~begin_claim_attempt(q) /\ ~CommitB(q)
    BY DEF begin_claim_attempt, CommitB, SendStep, SenderAt
  <2>6. ~Transfer(q) /\ ~CommitC(q) /\ ~LostFence(q) /\ ~AnnotateLateOutcome(q) /\ ~ErrorAnnotate(q)
    BY DEF Transfer, CommitC, LostFence, AnnotateLateOutcome, ErrorAnnotate, SendStep, SenderAt
  <2>7. ~AfterTransfer(q) /\ ~NoTransfer(q) /\ ~ErrorC(q)
    BY DEF AfterTransfer, NoTransfer, SmtpReturns, ErrorC, RetryC, SenderAt
  <2>8. ~ClaimDispatch(q)
    <3>1. ASSUME ClaimDispatch(q)
          PROVE  \E e, t : sender' = [sender EXCEPT ![q] = SenderAt("claimed", e, t, Null, Null, 0)]
      BY <3>1, Zenon DEF ClaimDispatch
    <3>2. QED
      BY <3>1 DEF SenderAt
  <2>9. QED
    BY <1>0, <2>2, <2>3, <2>4, <2>5, <2>6, <2>7, <2>8, ThreadStep
<1>4. QED
  BY <1>1, <1>2, <1>3 DEF Held

\* Once a recipient is suppressed, a dispatch that is not past its gates is never mailed,
\* however often it is claimed, deferred, regenerated or recovered afterwards.
THEOREM SuppressionIsHonoured == Spec => SuppressionHonoured
<1>1. ASSUME NEW d \in Dispatch
      PROVE  Spec => [](/\ d \in suppressed
                        /\ state[d] \in {"absent", "queued", "generating"}
                        /\ \A p \in Proc : ~(sender[p].pc = "minted" /\ sender[p].d = d)
                        => [](transfers[d] = 0))
  <2> DEFINE P == /\ d \in suppressed
                  /\ state[d] \in {"absent", "queued", "generating"}
                  /\ \A p \in Proc : ~(sender[p].pc = "minted" /\ sender[p].d = d)
             T == transfers[d] = 0
             H == Held(d)
  <2>1. P => H
    BY DEF Held
  <2>2. IndInv /\ H => T
    BY DEF Held, IndInv, HonestOutcome
  <2>3. IndInv /\ H /\ [Next]_vars => H'
    BY HeldStep
  <2> HIDE DEF P, T, H
  <2>4. Spec => [](P => []T)
    BY <2>1, <2>2, <2>3, Invariance, PTL DEF Spec
  <2>5. QED
    BY <2>4 DEF P, T
<1>2. QED
  BY <1>1 DEF SuppressionHonoured

-----------------------------------------------------------------------------
(* The lifecycle that LeadBoost sees.                                      *)

\* What one row's move means to the client.
LEMMA PublicStates ==
  /\ PublicState("absent") = "none" /\ PublicState("generating") = "queued"
  /\ PublicState("queued") = "queued" /\ PublicState("sending") = "sending"
  /\ \A s \in Outcome : PublicState(s) = s
  /\ \A s \in DispatchState : PublicState(s) = "unknown" => s = "unknown"
BY DEF PublicState, Outcome, DispatchState

\* Every step of the workers is a step of the lifecycle or changes nothing the client sees.
LEMMA LifecycleStep ==
  IndInv /\ [Next]_vars => [Lifecycle!LifecycleNext]_(Lifecycle!lifecycleVars)
<1> SUFFICES ASSUME IndInv, [Next]_vars
             PROVE  Lifecycle!LifecycleNext \/ UNCHANGED Lifecycle!lifecycleVars
  OBVIOUS
<1> DEFINE R == [d \in Dispatch |-> PublicState(state[d])]
           Goal == Lifecycle!LifecycleNext \/ UNCHANGED Lifecycle!lifecycleVars
<1>0. /\ state \in [Dispatch -> DispatchState]
      /\ transfers \in [Dispatch -> Nat]
  BY DEF IndInv, TypeOK, TableTypeOK, SmtpTypeOK
<1>1. ASSUME NEW p \in Proc, Transfer(p) PROVE Goal
  <2> DEFINE d == sender[p].d
  <2>1. d \in Dispatch /\ transfers[d] = 0 /\ state[d] \in {"sending", "unknown"}
    BY <1>1 DEF Transfer, IndInv, ThreadValues, AfterCommit
  <2>2. R' = R /\ R[d] \in {"sending", "unknown"}
    BY <1>1, <2>1, PublicStates DEF Transfer, table, Outcome
  <2>3. transfers' = [transfers EXCEPT ![d] = 1] /\ accepted' \in {accepted, accepted \cup {d}}
    BY <1>0, <1>1, <2>1 DEF Transfer
  <2>4. Lifecycle!Deliver(d)
    BY <2>1, <2>2, <2>3 DEF Lifecycle!Deliver
  <2>5. QED
    BY <2>1, <2>4 DEF Lifecycle!LifecycleNext
<1>2. ASSUME UNCHANGED smtp PROVE Goal
  <2>0. UNCHANGED <<transfers, accepted>>
    BY <1>2 DEF smtp
  <2>1. ASSUME UNCHANGED state PROVE Goal
    BY <2>0, <2>1 DEF Lifecycle!lifecycleVars
  <2>3. ASSUME NEW d \in Dispatch, InsertDispatch(d, "none") \/ InsertDispatch(d, "draft") PROVE Goal
    <3>1. state[d] = "absent" /\ state' = [state EXCEPT ![d] = "queued"]
      BY <2>3 DEF InsertDispatch
    <3>2. R[d] = "none" /\ R' = [R EXCEPT ![d] = "queued"]
      BY <1>0, <3>1, PublicStates
    <3>3. Lifecycle!Admit(d)
      BY <2>0, <3>2 DEF Lifecycle!Admit
    <3>4. QED
      BY <3>3 DEF Lifecycle!LifecycleNext
  <2>4. ASSUME NEW d \in Dispatch, state[d] \in {"queued", "generating"},
               state' = [state EXCEPT ![d] = "failed"]
        PROVE  Goal
    <3>1. R[d] = "queued" /\ R' = [R EXCEPT ![d] = "failed"]
      BY <1>0, <2>4, PublicStates DEF Outcome
    <3>2. Lifecycle!Reject(d)
      BY <2>0, <3>1 DEF Lifecycle!Reject
    <3>3. QED
      BY <3>2 DEF Lifecycle!LifecycleNext
  <2>5. ASSUME NEW d \in Dispatch, state[d] = "queued", state' = [state EXCEPT ![d] = "sending"]
        PROVE  Goal
    <3>1. R[d] = "queued" /\ R' = [R EXCEPT ![d] = "sending"]
      BY <1>0, <2>5, PublicStates
    <3>2. Lifecycle!StartSending(d)
      BY <2>0, <3>1 DEF Lifecycle!StartSending
    <3>3. QED
      BY <3>2 DEF Lifecycle!LifecycleNext
  <2>6. ASSUME NEW d \in Dispatch, NEW out \in Outcome, state[d] = "sending",
               out = "sent" => d \in accepted, out = "failed" => transfers[d] = 0,
               state' = [state EXCEPT ![d] = out]
        PROVE  Goal
    <3>1. R[d] = "sending" /\ R' = [R EXCEPT ![d] = out]
      BY <1>0, <2>6, PublicStates
    <3>2. Lifecycle!Settle(d, out)
      BY <2>0, <2>6, <3>1 DEF Lifecycle!Settle
    <3>3. QED
      BY <3>2 DEF Lifecycle!LifecycleNext, Lifecycle!Terminal, Outcome
  <2>7. ASSUME NEW d \in Dispatch, state[d] \in {"queued", "generating"},
               state' = [state EXCEPT ![d] = "generating"] \/ state' = [state EXCEPT ![d] = "queued"]
        PROVE  Goal
    <3>1. R' = [R EXCEPT ![d] = "queued"] /\ R[d] = "queued"
      BY <1>0, <2>7, PublicStates
    <3>2. R' = R
      BY <3>1
    <3>3. QED
      BY <2>0, <3>2 DEF Lifecycle!lifecycleVars
  <2>8. ASSUME recover_expired_external_dispatches PROVE Goal
    <3> DEFINE S == Batch(Expired("sending"))
    <3>1. state' = [d \in Dispatch |-> IF d \in S THEN "unknown" ELSE state[d]]
      BY <2>8 DEF recover_expired_external_dispatches
    <3>2. S \in SUBSET Dispatch /\ \A d \in S : state[d] = "sending"
      BY DEF Batch, Expired
    <3> HIDE DEF S
    <3>3. Lifecycle!GiveUp(S)
      BY <2>0, <3>1, <3>2, PublicStates DEF Lifecycle!GiveUp, Outcome
    <3>4. QED
      BY <3>2, <3>3 DEF Lifecycle!LifecycleNext
  <2>9. ASSUME recover_expired_generations PROVE Goal
    <3> DEFINE S == Batch({d \in Expired("generating") : message[d] = "none"})
    <3>1. state' = [d \in Dispatch |-> IF d \in S THEN "queued" ELSE state[d]]
      BY <2>9 DEF recover_expired_generations
    <3>2. \A d \in S : state[d] = "generating"
      BY DEF Batch, Expired
    <3> HIDE DEF S
    <3>3. R' = R
      BY <3>1, <3>2, PublicStates
    <3>4. QED
      BY <2>0, <3>3 DEF Lifecycle!lifecycleVars
  <2>10. ASSUME NEW p \in Proc, sender[p].pc = "finalize", MyRow(p),
                finish_external_dispatch(sender[p].d, sender[p].out)
         PROVE  Goal
    BY <2>6, <2>10 DEF MyRow, SendFence, finish_external_dispatch, IndInv, ThreadValues, AfterCommit
  <2>11. ASSUME NEW p \in Proc, NEW c \in resolve[p], SendFence(c.d, WorkerOf[p], c.tok),
                finish_external_dispatch(c.d, "unknown")
         PROVE  Goal
    <3>1. c.d \in Dispatch /\ "unknown" \in Outcome
      BY DEF IndInv, TypeOK, RuntimeTypeOK, Claim, Outcome
    <3>2. QED
      BY <2>6, <2>11, <3>1 DEF SendFence, finish_external_dispatch
  <2>12. ASSUME NEW p \in Proc, generator[p].pc = "write", MyGeneration(p),
                complete_generation(generator[p].d) \/ fail_generation(generator[p].d)
         PROVE  Goal
    BY <2>4, <2>7, <2>12 DEF MyGeneration, GenerationFence, complete_generation, fail_generation,
       IndInv, ThreadValues
  <2>13. ASSUME NEW p \in Proc, sender[p].pc \in {"claimed", "minted"}
         PROVE  sender[p].d \in Dispatch /\ state[sender[p].d] = "queued"
    BY <2>13 DEF IndInv, ThreadValues, OpenTransactions, PreCommit
  <2>14. ASSUME NEW p \in Proc, generator[p].pc = "claimed"
         PROVE  generator[p].d \in Dispatch /\ state[generator[p].d] = "queued"
    BY <2>14 DEF IndInv, ThreadValues, OpenTransactions
  <2>15. \A d, w, t, id : /\ CommitRefused(d) => state' = [state EXCEPT ![d] = "failed"]
                          /\ CommitSending(d, w, t, id) => state' = [state EXCEPT ![d] = "sending"]
                          /\ CommitGenerating(d, w, t) => state' = [state EXCEPT ![d] = "generating"]
    BY DEF CommitRefused, CommitSending, CommitGenerating
  <2> HIDE DEF Goal
  <2>16. QED
    BY <2>1, <2>3, <2>4, <2>5, <2>7, <2>8, <2>9, <2>10, <2>11, <2>12, <2>13, <2>14, <2>15,
       StepIsStatement DEF Statement
<1>3. QED
  BY <1>1, <1>2, StepWrites

\* Claims, leases, crashes, retries and sweeps together implement the client's view: the
\* reported state only moves forward, content goes out at most once and only while the state
\* says sending or unknown, and SENT and FAILED are true.
THEOREM LifecycleRefinement == Spec => ImplementsLifecycle
<1>1. Init => Lifecycle!LifecycleInit
  BY PublicStates DEF Init, TableInit, Lifecycle!LifecycleInit
<1>2. QED
  BY <1>1, LifecycleStep, Invariance, PTL DEF Spec, ImplementsLifecycle, Lifecycle!LifecycleSpec


=============================================================================
