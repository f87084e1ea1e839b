----------------------- MODULE ExternalDispatchProofs -----------------------
(***************************************************************************)
(* Theorems about ExternalDispatch, for any number of dispatches, worker   *)
(* processes, identities, tokens and transaction attempts.                 *)
(***************************************************************************)
EXTENDS ExternalDispatch, TLAPS

-----------------------------------------------------------------------------
(* The inductive invariant.                                                *)

\* A send thread before, and after, the commit of Transaction B.
PreCommit == {"claimed", "minted"}
PostCommit == {"prepared", "transferred", "finalize", "annotate", "unregister"}

\* What a thread keeps across its transactions; a retry loop stops before its
\* attempts run out.
ThreadValues ==
  \A p \in Proc :
    /\ sender[p].pc \notin {"idle", "claiming"} => sender[p].d \in Dispatch /\ sender[p].tok \in Token
    /\ sender[p].pc \in {"minted", "prepared", "transferred"} => sender[p].id \in MsgId
    /\ sender[p].pc \in {"finalize", "annotate"} => sender[p].out \in Outcome
    /\ sender[p].pc \notin {"annotate", "unregister"} => sender[p].tries < TxnAttempts
    /\ generator[p].pc # "idle" => generator[p].d \in Dispatch /\ generator[p].tok \in Token
    /\ generator[p].tries < TxnAttempts

\* An open claiming transaction holds the lock of a row that is still QUEUED.
OpenTransactions ==
  \A p \in Proc :
    /\ sender[p].pc \in PreCommit =>
         /\ sender[p].d \in locked
         /\ state[sender[p].d] = "queued"
         /\ message[sender[p].d] = "draft"
    /\ generator[p].pc = "claimed" =>
         /\ generator[p].d \in locked
         /\ state[generator[p].d] = "queued"
         /\ message[generator[p].d] = "none"

\* Two processes never work on one row on the same side of the commit.
OneSender ==
  \A p, q \in Proc :
    p # q =>
      /\ sender[p].pc \in PreCommit /\ sender[q].pc \in PreCommit => sender[p].d # sender[q].d
      /\ sender[p].pc \in PostCommit /\ sender[q].pc \in PostCommit => sender[p].d # sender[q].d
      /\ generator[p].pc = "claimed" /\ generator[q].pc = "claimed"
           => generator[p].d # generator[q].d

\* A thread past the commit of B works on a row that never goes back to the
\* queue; until it transfers the content nobody has, and nobody settled the row
\* as SENT or FAILED; afterwards its outcome is true.
AfterCommit ==
  \A p \in Proc :
    /\ sender[p].pc \in PostCommit =>
         state[sender[p].d] \in {"sending", "sent", "failed", "unknown"}
    /\ sender[p].pc = "prepared" =>
         /\ transfers[sender[p].d] = 0
         /\ state[sender[p].d] \in {"sending", "unknown"}
    /\ sender[p].pc \in {"finalize", "annotate"} =>
         /\ sender[p].out = "sent" => sender[p].d \in accepted
         /\ sender[p].out = "failed" => transfers[sender[p].d] = 0

IndInv ==
  /\ TypeOK
  /\ ThreadValues
  /\ OpenTransactions
  /\ OneSender
  /\ AfterCommit
  /\ AtMostOneTransfer
  /\ HonestOutcome
  /\ MessageMirrorsDispatch

-----------------------------------------------------------------------------
(* Type correctness.                                                       *)

\* The statements of work_claiming keep the table well typed.
LEMMA TableTypes ==
  ASSUME TableTypeOK, NEW d \in Dispatch
  PROVE  /\ InsertDispatch(d, "none") \/ InsertDispatch(d, "draft") => TableTypeOK'
         /\ claim_next_external_dispatch(d) => TableTypeOK'
         /\ claim_next_generation_dispatch(d) => TableTypeOK'
         /\ Rollback(d) => TableTypeOK'
         /\ CommitRefused(d) => TableTypeOK'
         /\ complete_generation(d) \/ fail_generation(d) => TableTypeOK'
         /\ LeaseExpires(d) => TableTypeOK'
<1> USE DEF TableTypeOK, DispatchState, MessageStatus, Outcome
<1>1. InsertDispatch(d, "none") \/ InsertDispatch(d, "draft") => TableTypeOK'
  BY DEF InsertDispatch
<1>2. claim_next_external_dispatch(d) => TableTypeOK'
  BY DEF claim_next_external_dispatch, OldestOf, Sendable
<1>3. claim_next_generation_dispatch(d) => TableTypeOK'
  BY DEF claim_next_generation_dispatch, OldestOf, Generatable
<1>4. Rollback(d) => TableTypeOK'
  BY DEF Rollback
<1>5. CommitRefused(d) => TableTypeOK'
  BY DEF CommitRefused
<1>6. complete_generation(d) \/ fail_generation(d) => TableTypeOK'
  BY DEF complete_generation, fail_generation, ClearClaim
<1>7. LeaseExpires(d) => TableTypeOK'
  BY DEF LeaseExpires
<1>8. QED
  BY <1>1, <1>2, <1>3, <1>4, <1>5, <1>6, <1>7

\* The commits of Transactions B and G1 and the in-transaction refusals keep it well typed.
LEMMA CommitTypes ==
  ASSUME TableTypeOK, NEW d \in Dispatch, NEW w \in WorkerId, NEW t \in Token \cup {Null}
  PROVE  /\ \A id \in MsgId \cup {Null} : CommitSending(d, w, t, id) => TableTypeOK'
         /\ CommitGenerating(d, w, t) => TableTypeOK'
<1> USE DEF TableTypeOK, DispatchState, MessageStatus, Outcome
<1>1. \A id \in MsgId \cup {Null} : CommitSending(d, w, t, id) => TableTypeOK'
  BY DEF CommitSending
<1>2. CommitGenerating(d, w, t) => TableTypeOK'
  BY DEF CommitGenerating
<1>3. QED
  BY <1>1, <1>2

\* The fenced outcome writes keep the table well typed.
LEMMA OutcomeTypes ==
  ASSUME TableTypeOK, NEW d \in Dispatch, NEW out \in Outcome
  PROVE  /\ finish_external_dispatch(d, out) => TableTypeOK'
         /\ annotate_unknown_dispatch(d, out) => TableTypeOK'
<1> USE DEF TableTypeOK, DispatchState, MessageStatus, Outcome
<1>1. finish_external_dispatch(d, out) => TableTypeOK'
  BY DEF finish_external_dispatch, ClearClaim
<1>2. ASSUME annotate_unknown_dispatch(d, out) PROVE TableTypeOK'
  BY <1>2 DEF annotate_unknown_dispatch
<1>3. QED
  BY <1>1, <1>2

\* Both lease sweeps keep the table well typed.
LEMMA SweepTypes ==
  ASSUME TableTypeOK
  PROVE  /\ recover_expired_external_dispatches => TableTypeOK'
         /\ recover_expired_generations => TableTypeOK'
<1> USE DEF TableTypeOK, DispatchState, MessageStatus, Outcome, Release
<1>1. recover_expired_external_dispatches => TableTypeOK'
  BY DEF recover_expired_external_dispatches
<1>2. recover_expired_generations => TableTypeOK'
  <2> SUFFICES ASSUME recover_expired_generations PROVE TableTypeOK'
    OBVIOUS
  <2>1. PICK S : Release(S) /\ state' = [d \in Dispatch |-> IF d \in S THEN "queued" ELSE state[d]]
                 /\ UNCHANGED message
    BY Zenon DEF recover_expired_generations
  <2>2. QED
    BY <2>1
<1>3. QED
  BY <1>1, <1>2

\* A retry that is not the last one leaves attempts.
LEMMA AttemptBound ==
  ASSUME NEW n \in Nat, NEW m \in Nat \ {0}, n < m, n + 1 # m
  PROVE  n + 1 \in 0..m /\ n + 1 < m
OBVIOUS

\* A send thread that goes on to a state with the values this state needs keeps both
\* invariants, whatever it wrote to the table.
LEMMA SenderMoves ==
  ASSUME TypeOK, ThreadValues, TableTypeOK',
         NEW p \in Proc, NEW s \in Sender,
         s.pc \notin {"idle", "claiming"} => s.d \in Dispatch /\ s.tok \in Token,
         s.pc \in {"minted", "prepared", "transferred"} => s.id \in MsgId,
         s.pc \in {"finalize", "annotate"} => s.out \in Outcome,
         s.pc \notin {"annotate", "unregister"} => s.tries < TxnAttempts,
         sender' = [sender EXCEPT ![p] = s],
         UNCHANGED <<runtime, generator, suppressed, smtp>>
  PROVE  TypeOK' /\ ThreadValues'
<1>1. TypeOK'
  BY DEF TypeOK, RuntimeTypeOK, SmtpTypeOK, runtime, smtp
<1>2. \A q \in Proc : sender'[q] = IF q = p THEN s ELSE sender[q]
  BY DEF TypeOK
<1>3. ThreadValues'
  <2> SUFFICES ASSUME NEW q \in Proc
               PROVE  /\ sender'[q].pc \notin {"idle", "claiming"}
                           => sender'[q].d \in Dispatch /\ sender'[q].tok \in Token
                      /\ sender'[q].pc \in {"minted", "prepared", "transferred"}
                           => sender'[q].id \in MsgId
                      /\ sender'[q].pc \in {"finalize", "annotate"} => sender'[q].out \in Outcome
                      /\ sender'[q].pc \notin {"annotate", "unregister"}
                           => sender'[q].tries < TxnAttempts
    BY DEF ThreadValues
  <2>1. CASE q = p
    BY <1>2, <2>1
  <2>2. CASE q # p
    BY <1>2, <2>2 DEF ThreadValues
  <2>3. QED
    BY <2>1, <2>2
<1>4. QED
  BY <1>1, <1>3

\* Every step of workers, sweeps, shutdown and faults preserves the type invariant and
\* the values that threads carry from one transaction to the next.
LEMMA TypeStep == TypeOK /\ ThreadValues /\ [Next]_vars => TypeOK' /\ ThreadValues'
<1> SUFFICES ASSUME TypeOK, ThreadValues, [Next]_vars PROVE TypeOK' /\ ThreadValues'
  OBVIOUS
<1> USE TxnAttemptsAssumption, WorkerOfAssumption, NullAssumption
<1> USE DEF TypeOK, ThreadValues, RuntimeTypeOK, SmtpTypeOK, Sender, Generator, Outcome, Claim,
            runtime, smtp, table, SenderAt, GeneratorAt, SendStep, GenerationStep, SmtpReturns,
            IdleSender, IdleGenerator
<1>1. ASSUME NEW d \in Dispatch, Accept(d) PROVE TypeOK' /\ ThreadValues'
  <2>1. TableTypeOK'
    BY <1>1, TableTypes DEF Accept
  <2>2. TypeOK' /\ ThreadValues'
    BY <1>1, <2>1 DEF Accept
  <2>3. QED
    BY <2>2
<1>2. ASSUME NEW d \in Dispatch, Suppress(d) PROVE TypeOK' /\ ThreadValues'
  BY <1>2 DEF TableTypeOK, Suppress
<1>3. ASSUME NEW d \in Dispatch, Expire(d) PROVE TypeOK' /\ ThreadValues'
  BY <1>3 DEF TableTypeOK, Expire, LeaseExpires
<1>4. ASSUME NEW p \in Proc, begin_claim_attempt(p) PROVE TypeOK' /\ ThreadValues'
  BY <1>4 DEF TableTypeOK, begin_claim_attempt
<1>5. ASSUME NEW p \in Proc, NothingToClaim(p) PROVE TypeOK' /\ ThreadValues'
  BY <1>5 DEF TableTypeOK, NothingToClaim, EndAttempt
<1>6. ASSUME NEW p \in Proc, ClaimDispatch(p) PROVE TypeOK' /\ ThreadValues'
  BY <1>6 DEF TableTypeOK, ClaimDispatch, claim_next_external_dispatch, OldestOf, Sendable, FreshToken, register_claim_attempt
<1>7. ASSUME NEW p \in Proc, GateRefuses(p) PROVE TypeOK' /\ ThreadValues'
  <2>1. TableTypeOK'
    BY <1>7, TableTypes DEF GateRefuses, Unregister
  <2>2. TypeOK' /\ ThreadValues'
    BY <1>7, <2>1 DEF GateRefuses, Unregister
  <2>3. QED
    BY <2>2
<1>8. ASSUME NEW p \in Proc, PassGates(p) PROVE TypeOK' /\ ThreadValues'
  BY <1>8 DEF TableTypeOK, PassGates
<1>9. ASSUME NEW p \in Proc, Defer(p) PROVE TypeOK' /\ ThreadValues'
  BY <1>9 DEF TableTypeOK, Defer, Rollback, Unregister
<1>10. ASSUME NEW p \in Proc, CommitB(p) PROVE TypeOK' /\ ThreadValues'
  <2>1. TableTypeOK'
    BY <1>10, CommitTypes DEF CommitB
  <2>2. TypeOK' /\ ThreadValues'
    BY <1>10, <2>1 DEF CommitB
  <2>3. QED
    BY <2>2
<1>11. ASSUME NEW p \in Proc, Transfer(p) PROVE TypeOK' /\ ThreadValues'
  <2>1. sender[p].d \in Dispatch /\ sender[p].id \in MsgId
    BY <1>11 DEF Transfer
  <2>2. SmtpTypeOK'
    BY <1>11, <2>1 DEF Transfer, WireMessageId
  <2>3. TypeOK' /\ ThreadValues'
    BY <1>11, <2>2 DEF TableTypeOK, Transfer
  <2>4. QED
    BY <2>3
<1>12. ASSUME NEW p \in Proc, AfterTransfer(p) PROVE TypeOK' /\ ThreadValues'
  <2>1. PICK out \in Outcome : SmtpReturns(p, out)
    BY <1>12 DEF AfterTransfer
  <2>2. sender[p] \in Sender /\ sender[p].d \in Dispatch /\ sender[p].tok \in Token
    BY <1>12 DEF AfterTransfer
  <2> DEFINE s == SenderAt("finalize", sender[p].d, sender[p].tok, sender[p].id, out, 0)
  <2>3. s \in Sender /\ s.pc = "finalize" /\ s.d = sender[p].d /\ s.tok = sender[p].tok
        /\ s.out = out /\ s.tries < TxnAttempts
    BY <2>2
  <2>4. sender' = [sender EXCEPT ![p] = s]
    BY <2>1
  <2>5. TableTypeOK' /\ UNCHANGED <<runtime, generator, suppressed, smtp>>
    BY <1>12 DEF AfterTransfer, TableTypeOK
  <2> HIDE DEF s, TypeOK, ThreadValues, Sender, runtime, smtp
  <2>6. QED
    BY <2>2, <2>3, <2>4, <2>5, SenderMoves
<1>13. ASSUME NEW p \in Proc, NoTransfer(p) PROVE TypeOK' /\ ThreadValues'
  <2>1. PICK out \in Outcome : SmtpReturns(p, out)
    BY <1>13 DEF NoTransfer
  <2>2. QED
    BY <1>13, <2>1 DEF TableTypeOK, NoTransfer
<1>14. ASSUME NEW p \in Proc, CommitC(p) PROVE TypeOK' /\ ThreadValues'
  <2>1. sender[p].d \in Dispatch /\ sender[p].out \in Outcome
    BY <1>14 DEF CommitC
  <2>2. TableTypeOK'
    <3> HIDE DEF Outcome, ThreadValues
    <3>1. finish_external_dispatch(sender[p].d, sender[p].out)
      BY <1>14 DEF CommitC
    <3>2. QED
      BY <2>1, <3>1, OutcomeTypes
  <2>3. TypeOK' /\ ThreadValues'
    BY <1>14, <2>2 DEF CommitC
  <2>4. QED
    BY <2>3
<1>15. ASSUME NEW p \in Proc, LostFence(p) PROVE TypeOK' /\ ThreadValues'
  BY <1>15 DEF TableTypeOK, LostFence
<1>16. ASSUME NEW p \in Proc, AnnotateLateOutcome(p) PROVE TypeOK' /\ ThreadValues'
  BY <1>16 DEF TableTypeOK, AnnotateLateOutcome, annotate_unknown_dispatch
<1>17. ASSUME NEW p \in Proc, EndDispatch(p) PROVE TypeOK' /\ ThreadValues'
  BY <1>17 DEF TableTypeOK, EndDispatch, Unregister
<1>18. ASSUME NEW p \in Proc, ClaimGeneration(p) PROVE TypeOK' /\ ThreadValues'
  BY <1>18 DEF TableTypeOK, ClaimGeneration, claim_next_generation_dispatch, OldestOf, Generatable, FreshToken
<1>19. ASSUME NEW p \in Proc, RefuseGeneration(p) PROVE TypeOK' /\ ThreadValues'
  <2>1. TableTypeOK'
    BY <1>19, TableTypes DEF RefuseGeneration, IdleGeneration
  <2>2. TypeOK' /\ ThreadValues'
    BY <1>19, <2>1 DEF RefuseGeneration, IdleGeneration
  <2>3. QED
    BY <2>2
<1>20. ASSUME NEW p \in Proc, DeferGeneration(p) PROVE TypeOK' /\ ThreadValues'
  BY <1>20 DEF TableTypeOK, DeferGeneration, Rollback, IdleGeneration
<1>21. ASSUME NEW p \in Proc, CommitG1(p) PROVE TypeOK' /\ ThreadValues'
  <2>1. TableTypeOK'
    BY <1>21, CommitTypes DEF CommitG1
  <2>2. TypeOK' /\ ThreadValues'
    BY <1>21, <2>1 DEF CommitG1
  <2>3. QED
    BY <2>2
<1>22. ASSUME NEW p \in Proc, Generate(p) PROVE TypeOK' /\ ThreadValues'
  BY <1>22 DEF TableTypeOK, Generate
<1>23. ASSUME NEW p \in Proc, CommitG2(p) PROVE TypeOK' /\ ThreadValues'
  <2>1. TableTypeOK'
    BY <1>23, TableTypes DEF CommitG2, WriteGeneration, IdleGeneration
  <2>2. TypeOK' /\ ThreadValues'
    BY <1>23, <2>1 DEF CommitG2, WriteGeneration, IdleGeneration
  <2>3. QED
    BY <2>2
<1>24. ASSUME NEW p \in Proc, DiscardGeneration(p) PROVE TypeOK' /\ ThreadValues'
  BY <1>24 DEF TableTypeOK, DiscardGeneration, IdleGeneration
<1>25. ASSUME NEW p \in Proc, RecoverSending(p) PROVE TypeOK' /\ ThreadValues'
  <2>1. TableTypeOK'
    BY <1>25, SweepTypes DEF RecoverSending
  <2>2. TypeOK' /\ ThreadValues'
    BY <1>25, <2>1 DEF RecoverSending
  <2>3. QED
    BY <2>2
<1>26. ASSUME NEW p \in Proc, RecoverGenerating(p) PROVE TypeOK' /\ ThreadValues'
  <2>1. TableTypeOK'
    BY <1>26, SweepTypes DEF RecoverGenerating
  <2>2. TypeOK' /\ ThreadValues'
    BY <1>26, <2>1 DEF RecoverGenerating
  <2>3. QED
    BY <2>2
<1>27. ASSUME NEW p \in Proc, Drain(p) PROVE TypeOK' /\ ThreadValues'
  <2>1. Quiet(p) \in BOOLEAN
    BY DEF Quiet
  <2>2. drained' \in [Proc -> BOOLEAN]
    BY <1>27, <2>1 DEF Drain
  <2>3. QED
    BY <1>27, <2>2 DEF TableTypeOK, Drain
<1>28. ASSUME NEW p \in Proc, SnapshotInflight(p) PROVE TypeOK' /\ ThreadValues'
  BY <1>28 DEF TableTypeOK, SnapshotInflight
<1>29. ASSUME NEW p \in Proc, ResolveClaim(p) PROVE TypeOK' /\ ThreadValues'
  <2>1. PICK c \in resolve[p] :
          /\ resolve' = [resolve EXCEPT ![p] = @ \ {c}]
          /\ \/ finish_external_dispatch(c.d, "unknown")
             \/ UNCHANGED table
    BY <1>29 DEF ResolveClaim
  <2>2. c.d \in Dispatch
    OBVIOUS
  <2>3. TableTypeOK'
    <3>1. CASE finish_external_dispatch(c.d, "unknown")
      BY <2>2, <3>1, OutcomeTypes
    <3>2. CASE UNCHANGED table
      BY <3>2 DEF TableTypeOK
    <3>3. QED
      BY <2>1, <3>1, <3>2
  <2>4. QED
    BY <1>29, <2>1, <2>3 DEF ResolveClaim
<1>30. ASSUME NEW p \in Proc, ExitMain(p) PROVE TypeOK' /\ ThreadValues'
  BY <1>30 DEF TableTypeOK, ExitMain
<1>31. ASSUME NEW p \in Proc, Exit(p) PROVE TypeOK' /\ ThreadValues'
  BY <1>31 DEF TableTypeOK, Exit, Terminate
<1>32. ASSUME NEW p \in Proc, Restart(p) PROVE TypeOK' /\ ThreadValues'
  BY <1>32 DEF TableTypeOK, Restart
<1>33. ASSUME NEW p \in Proc, RequestShutdown(p) PROVE TypeOK' /\ ThreadValues'
  BY <1>33 DEF TableTypeOK, RequestShutdown
<1>34. ASSUME NEW p \in Proc, Resume(p) PROVE TypeOK' /\ ThreadValues'
  BY <1>34 DEF TableTypeOK, Resume
<1>35. ASSUME NEW p \in Proc, ErrorClaim(p) PROVE TypeOK' /\ ThreadValues'
  BY <1>35 DEF TableTypeOK, ErrorClaim, EndAttempt
<1>36. ASSUME NEW p \in Proc, RollbackB(p) PROVE TypeOK' /\ ThreadValues'
  BY <1>36 DEF TableTypeOK, RollbackB, Rollback, Unregister
<1>37. ASSUME NEW p \in Proc, LoseAckB(p) PROVE TypeOK' /\ ThreadValues'
  <2>1. TableTypeOK'
    BY <1>37, CommitTypes DEF LoseAckB, Unregister
  <2>2. TypeOK' /\ ThreadValues'
    BY <1>37, <2>1 DEF LoseAckB, Unregister
  <2>3. QED
    BY <2>2
<1>38. ASSUME NEW p \in Proc, ErrorC(p) PROVE TypeOK' /\ ThreadValues'
  <2>1. sender[p].d \in Dispatch /\ sender[p].out \in Outcome
    BY <1>38 DEF ErrorC
  <2>2. TableTypeOK'
    <3> HIDE DEF Outcome, ThreadValues
    <3>1. CASE finish_external_dispatch(sender[p].d, sender[p].out)
      BY <2>1, <3>1, OutcomeTypes
    <3>2. CASE UNCHANGED table
      BY <3>2 DEF TableTypeOK
    <3>3. QED
      BY <1>38, <3>1, <3>2 DEF ErrorC
  <2> DEFINE pc == IF sender[p].tries + 1 = TxnAttempts THEN "annotate" ELSE "finalize"
             s == SenderAt(pc, sender[p].d, sender[p].tok, sender[p].id, sender[p].out,
                           sender[p].tries + 1)
  <2>3. sender[p] \in Sender /\ sender[p].tok \in Token /\ sender[p].tries < TxnAttempts
    BY <1>38 DEF ErrorC
  <2>4. s \in Sender /\ s.pc = pc /\ s.d = sender[p].d /\ s.tok = sender[p].tok
        /\ s.out = sender[p].out /\ s.tries = sender[p].tries + 1
    BY <2>3
  <2>5. s.pc \in {"finalize", "annotate"} /\ (s.pc = "finalize" => s.tries < TxnAttempts)
    BY <2>3, <2>4
  <2>6. sender' = [sender EXCEPT ![p] = s] /\ UNCHANGED <<runtime, generator, suppressed, smtp>>
    BY <1>38 DEF ErrorC, RetryC
  <2>7. /\ s.d \in Dispatch /\ s.tok \in Token /\ s.out \in Outcome
        /\ s.pc \notin {"minted", "prepared", "transferred"}
        /\ s.pc \notin {"annotate", "unregister"} => s.tries < TxnAttempts
    <3> HIDE DEF s, pc, TypeOK, ThreadValues, Sender, Outcome
    <3>1. QED
      BY <2>1, <2>3, <2>4, <2>5
  <2>8. s \in Sender
    BY <2>4
  <2> HIDE DEF s, pc, TypeOK, ThreadValues, Sender, Outcome, runtime, smtp
  <2>9. QED
    BY <2>2, <2>6, <2>7, <2>8, SenderMoves
<1>39. ASSUME NEW p \in Proc, ErrorAnnotate(p) PROVE TypeOK' /\ ThreadValues'
  BY <1>39 DEF TableTypeOK, ErrorAnnotate
<1>40. ASSUME NEW p \in Proc, ErrorG1(p) PROVE TypeOK' /\ ThreadValues'
  <2>1. TableTypeOK'
    BY <1>40, TableTypes, CommitTypes DEF ErrorG1, IdleGeneration
  <2>2. TypeOK' /\ ThreadValues'
    BY <1>40, <2>1 DEF ErrorG1, IdleGeneration
  <2>3. QED
    BY <2>2
<1>41. ASSUME NEW p \in Proc, ErrorG2(p) PROVE TypeOK' /\ ThreadValues'
  <2>1. generator[p].d \in Dispatch
    BY <1>41 DEF ErrorG2
  <2>2. TableTypeOK'
    <3>1. CASE WriteGeneration(p)
      BY <2>1, <3>1, TableTypes DEF WriteGeneration
    <3>2. CASE UNCHANGED table
      BY <3>2 DEF TableTypeOK
    <3>3. QED
      BY <1>41, <3>1, <3>2 DEF ErrorG2
  <2>3. CASE generator[p].tries + 1 = TxnAttempts
    BY <1>41, <2>2, <2>3 DEF ErrorG2, RetryG2
  <2>4. CASE generator[p].tries + 1 # TxnAttempts
    <3> DEFINE g == GeneratorAt("write", generator[p].d, generator[p].tok, generator[p].out,
                                generator[p].tries + 1)
    <3>1. generator[p].tries + 1 \in 0..TxnAttempts /\ generator[p].tries + 1 < TxnAttempts
      <4>1. generator[p].tries \in Nat /\ generator[p].tries < TxnAttempts
        OBVIOUS
      <4>2. QED
        BY <2>4, <4>1, AttemptBound
    <3>2. g \in Generator /\ g.d \in Dispatch /\ g.tok \in Token /\ g.tries < TxnAttempts
      BY <1>41, <3>1 DEF ErrorG2
    <3>3. generator' = [generator EXCEPT ![p] = g]
      BY <1>41, <2>4 DEF ErrorG2, RetryG2
    <3> HIDE DEF g
    <3>4. QED
      BY <1>41, <2>2, <3>2, <3>3 DEF ErrorG2
  <2>5. QED
    BY <2>3, <2>4
<1>42. ASSUME NEW p \in Proc, ErrorResolve(p) PROVE TypeOK' /\ ThreadValues'
  BY <1>42 DEF TableTypeOK, ErrorResolve
<1>43. ASSUME NEW p \in Proc, Crash(p) PROVE TypeOK' /\ ThreadValues'
  BY <1>43 DEF TableTypeOK, Crash, Terminate
<1>44. CASE UNCHANGED vars
  BY <1>44 DEF TableTypeOK, vars
<1>45. QED
  BY <1>1, <1>2, <1>3, <1>4, <1>5, <1>6, <1>7, <1>8, <1>9, <1>10, <1>11, <1>12, <1>13, <1>14, <1>15, <1>16, <1>17, <1>18, <1>19, <1>20, <1>21, <1>22, <1>23, <1>24, <1>25, <1>26, <1>27, <1>28, <1>29, <1>30, <1>31, <1>32, <1>33, <1>34, <1>35, <1>36, <1>37, <1>38, <1>39, <1>40, <1>41, <1>42, <1>43, <1>44
     DEF Next, Environment, System, Expiry, Operator, Faults, SendThread, GenerationThread, Sweeps, MainThread

-----------------------------------------------------------------------------
(* The inductive step.                                                     *)

SafetyInv ==
  /\ OpenTransactions
  /\ OneSender
  /\ AfterCommit
  /\ AtMostOneTransfer
  /\ HonestOutcome
  /\ MessageMirrorsDispatch

\* A step that leaves the rows, the threads and the wire alone preserves the safety
\* invariant.
LEMMA SafetyFrame ==
  ASSUME SafetyInv, UNCHANGED <<state, message, locked, sender, generator, transfers, accepted>>
  PROVE  SafetyInv'
BY DEF SafetyInv, OpenTransactions, OneSender, AfterCommit, AtMostOneTransfer, HonestOutcome,
       MessageMirrorsDispatch

\* Every step preserves the safety invariant; one case per action.
LEMMA SafetyStep == TypeOK /\ ThreadValues /\ TypeOK' /\ ThreadValues' /\ SafetyInv /\ [Next]_vars => SafetyInv'
<1> SUFFICES ASSUME TypeOK, ThreadValues, TypeOK', ThreadValues', SafetyInv, [Next]_vars PROVE SafetyInv'
  OBVIOUS
<1> USE TxnAttemptsAssumption, WorkerOfAssumption, NullAssumption
<1> USE DEF TypeOK, TableTypeOK, SmtpTypeOK, ThreadValues, Sender, Generator, Outcome,
            runtime, smtp, table, SenderAt, GeneratorAt, SendStep, GenerationStep, SmtpReturns,
            IdleSender, IdleGenerator, SafetyInv, PreCommit, PostCommit
<1>1. ASSUME NEW d \in Dispatch, Accept(d) PROVE SafetyInv'
  <2>1. OpenTransactions'
    BY <1>1 DEF OpenTransactions, OneSender, AfterCommit, Accept, InsertDispatch
  <2>2. OneSender'
    BY <1>1 DEF OpenTransactions, OneSender, AfterCommit, Accept, InsertDispatch
  <2>3. AfterCommit'
    BY <1>1 DEF OpenTransactions, OneSender, AfterCommit, HonestOutcome, Accept, InsertDispatch
  <2>4. AtMostOneTransfer' /\ HonestOutcome'
    BY <1>1 DEF OpenTransactions, AfterCommit, AtMostOneTransfer, HonestOutcome, Accept, InsertDispatch
  <2>5. MessageMirrorsDispatch'
    BY <1>1 DEF OpenTransactions, AfterCommit, MessageMirrorsDispatch, Accept, InsertDispatch
  <2>6. QED
    BY <2>1, <2>2, <2>3, <2>4, <2>5
<1>2. ASSUME NEW p \in Proc, begin_claim_attempt(p) PROVE SafetyInv'
  <2>1. OpenTransactions'
    BY <1>2 DEF OpenTransactions, OneSender, AfterCommit, begin_claim_attempt
  <2>2. OneSender'
    BY <1>2 DEF OpenTransactions, OneSender, AfterCommit, begin_claim_attempt
  <2>3. AfterCommit'
    BY <1>2 DEF OpenTransactions, OneSender, AfterCommit, HonestOutcome, begin_claim_attempt
  <2>4. AtMostOneTransfer' /\ HonestOutcome'
    BY <1>2 DEF OpenTransactions, AfterCommit, AtMostOneTransfer, HonestOutcome, begin_claim_attempt
  <2>5. MessageMirrorsDispatch'
    BY <1>2 DEF OpenTransactions, AfterCommit, MessageMirrorsDispatch, begin_claim_attempt
  <2>6. QED
    BY <2>1, <2>2, <2>3, <2>4, <2>5
<1>3. ASSUME NEW p \in Proc, NothingToClaim(p) PROVE SafetyInv'
  <2>1. OpenTransactions'
    BY <1>3 DEF OpenTransactions, OneSender, AfterCommit, NothingToClaim, EndAttempt
  <2>2. OneSender'
    BY <1>3 DEF OpenTransactions, OneSender, AfterCommit, NothingToClaim, EndAttempt
  <2>3. AfterCommit'
    BY <1>3 DEF OpenTransactions, OneSender, AfterCommit, HonestOutcome, NothingToClaim, EndAttempt
  <2>4. AtMostOneTransfer' /\ HonestOutcome'
    BY <1>3 DEF OpenTransactions, AfterCommit, AtMostOneTransfer, HonestOutcome, NothingToClaim, EndAttempt
  <2>5. MessageMirrorsDispatch'
    BY <1>3 DEF OpenTransactions, AfterCommit, MessageMirrorsDispatch, NothingToClaim, EndAttempt
  <2>6. QED
    BY <2>1, <2>2, <2>3, <2>4, <2>5
<1>4. ASSUME NEW p \in Proc, ClaimDispatch(p) PROVE SafetyInv'
  <2>1. OpenTransactions'
    <3>1. PICK d \in Dispatch, t \in Token :
            /\ claim_next_external_dispatch(d)
            /\ sender' = [sender EXCEPT ![p] = SenderAt("claimed", d, t, Null, Null, 0)]
      BY <1>4 DEF ClaimDispatch
    <3>2. /\ state[d] = "queued" /\ message[d] = "draft"
          /\ locked' = locked \cup {d}
          /\ UNCHANGED <<state, message>>
      BY <3>1 DEF claim_next_external_dispatch, OldestOf, Sendable, MessageMirrorsDispatch
    <3>3. QED
      BY <1>4, <3>1, <3>2 DEF OpenTransactions, ClaimDispatch
  <2>2. OneSender'
    BY <1>4 DEF OpenTransactions, OneSender, AfterCommit, ClaimDispatch, claim_next_external_dispatch, OldestOf, Sendable, FreshToken, register_claim_attempt
  <2>3. AfterCommit'
    BY <1>4 DEF OpenTransactions, OneSender, AfterCommit, HonestOutcome, ClaimDispatch, claim_next_external_dispatch, OldestOf, Sendable, FreshToken, register_claim_attempt
  <2>4. AtMostOneTransfer' /\ HonestOutcome'
    BY <1>4 DEF OpenTransactions, AfterCommit, AtMostOneTransfer, HonestOutcome, ClaimDispatch, claim_next_external_dispatch, OldestOf, Sendable, FreshToken, register_claim_attempt
  <2>5. MessageMirrorsDispatch'
    BY <1>4 DEF OpenTransactions, AfterCommit, MessageMirrorsDispatch, ClaimDispatch, claim_next_external_dispatch, OldestOf, Sendable, FreshToken, register_claim_attempt
  <2>6. QED
    BY <2>1, <2>2, <2>3, <2>4, <2>5
<1>5. ASSUME NEW p \in Proc, GateRefuses(p) PROVE SafetyInv'
  <2>1. OpenTransactions'
    BY <1>5 DEF OpenTransactions, OneSender, AfterCommit, GateRefuses, CommitRefused, Unregister
  <2>2. OneSender'
    BY <1>5 DEF OpenTransactions, OneSender, AfterCommit, GateRefuses, CommitRefused, Unregister
  <2>3. AfterCommit'
    BY <1>5 DEF OpenTransactions, OneSender, AfterCommit, HonestOutcome, GateRefuses, CommitRefused, Unregister
  <2>4. AtMostOneTransfer' /\ HonestOutcome'
    BY <1>5 DEF OpenTransactions, AfterCommit, AtMostOneTransfer, HonestOutcome, GateRefuses, CommitRefused, Unregister
  <2>5. MessageMirrorsDispatch'
    BY <1>5 DEF OpenTransactions, AfterCommit, MessageMirrorsDispatch, GateRefuses, CommitRefused, Unregister
  <2>6. QED
    BY <2>1, <2>2, <2>3, <2>4, <2>5
<1>6. ASSUME NEW p \in Proc, PassGates(p) PROVE SafetyInv'
  <2>1. OpenTransactions'
    BY <1>6 DEF OpenTransactions, OneSender, AfterCommit, PassGates
  <2>2. OneSender'
    BY <1>6 DEF OpenTransactions, OneSender, AfterCommit, PassGates
  <2>3. AfterCommit'
    BY <1>6 DEF OpenTransactions, OneSender, AfterCommit, HonestOutcome, PassGates
  <2>4. AtMostOneTransfer' /\ HonestOutcome'
    BY <1>6 DEF OpenTransactions, AfterCommit, AtMostOneTransfer, HonestOutcome, PassGates
  <2>5. MessageMirrorsDispatch'
    BY <1>6 DEF OpenTransactions, AfterCommit, MessageMirrorsDispatch, PassGates
  <2>6. QED
    BY <2>1, <2>2, <2>3, <2>4, <2>5
<1>7. ASSUME NEW p \in Proc, Defer(p) PROVE SafetyInv'
  <2>1. OpenTransactions'
    BY <1>7 DEF OpenTransactions, OneSender, AfterCommit, Defer, Rollback, Unregister
  <2>2. OneSender'
    BY <1>7 DEF OpenTransactions, OneSender, AfterCommit, Defer, Rollback, Unregister
  <2>3. AfterCommit'
    BY <1>7 DEF OpenTransactions, OneSender, AfterCommit, HonestOutcome, Defer, Rollback, Unregister
  <2>4. AtMostOneTransfer' /\ HonestOutcome'
    BY <1>7 DEF OpenTransactions, AfterCommit, AtMostOneTransfer, HonestOutcome, Defer, Rollback, Unregister
  <2>5. MessageMirrorsDispatch'
    BY <1>7 DEF OpenTransactions, AfterCommit, MessageMirrorsDispatch, Defer, Rollback, Unregister
  <2>6. QED
    BY <2>1, <2>2, <2>3, <2>4, <2>5
<1>8. ASSUME NEW p \in Proc, CommitB(p) PROVE SafetyInv'
  <2>1. OpenTransactions'
    BY <1>8 DEF OpenTransactions, OneSender, AfterCommit, CommitB, CommitSending
  <2>2. OneSender'
    <3>1. \A q \in Proc : sender[q].pc \in PostCommit => sender[q].d # sender[p].d
      <4>1. state[sender[p].d] = "queued"
        BY <1>8 DEF OpenTransactions, CommitB, PreCommit
      <4>2. \A q \in Proc : sender[q].pc \in PostCommit =>
              state[sender[q].d] \in {"sending", "sent", "failed", "unknown"}
        BY DEF SafetyInv, AfterCommit
      <4>3. QED
        BY <4>1, <4>2
    <3>2. QED
      BY <1>8, <3>1 DEF OneSender, CommitB
  <2>3. AfterCommit'
    BY <1>8 DEF OpenTransactions, OneSender, AfterCommit, HonestOutcome, CommitB, CommitSending
  <2>4. AtMostOneTransfer' /\ HonestOutcome'
    BY <1>8 DEF OpenTransactions, AfterCommit, AtMostOneTransfer, HonestOutcome, CommitB, CommitSending
  <2>5. MessageMirrorsDispatch'
    BY <1>8 DEF OpenTransactions, AfterCommit, MessageMirrorsDispatch, CommitB, CommitSending
  <2>6. QED
    BY <2>1, <2>2, <2>3, <2>4, <2>5
<1>9. ASSUME NEW p \in Proc, Transfer(p) PROVE SafetyInv'
  <2>1. OpenTransactions'
    BY <1>9 DEF OpenTransactions, OneSender, AfterCommit, Transfer, WireMessageId
  <2>2. OneSender'
    BY <1>9 DEF OpenTransactions, OneSender, AfterCommit, Transfer, WireMessageId
  <2>3. AfterCommit'
    BY <1>9 DEF OpenTransactions, OneSender, AfterCommit, HonestOutcome, Transfer, WireMessageId
  <2>4. AtMostOneTransfer' /\ HonestOutcome'
    <3>1. /\ sender[p].d \in Dispatch
          /\ transfers[sender[p].d] = 0
          /\ state[sender[p].d] \in {"sending", "unknown"}
      BY <1>9 DEF AfterCommit, Transfer
    <3>2. transfers' = [transfers EXCEPT ![sender[p].d] = @ + 1] /\ accepted \subseteq accepted'
      BY <1>9 DEF Transfer
    <3>3. state' = state /\ transfers \in [Dispatch -> Nat]
      BY <1>9 DEF Transfer
    <3>4. \A d \in Dispatch : transfers'[d] = IF d = sender[p].d THEN 1 ELSE transfers[d]
      BY <3>1, <3>2, <3>3
    <3>5. AtMostOneTransfer'
      BY <3>4 DEF AtMostOneTransfer
    <3>6. HonestOutcome'
      BY <3>1, <3>2, <3>3, <3>4 DEF HonestOutcome
    <3>7. QED
      BY <3>5, <3>6
  <2>5. MessageMirrorsDispatch'
    BY <1>9 DEF OpenTransactions, AfterCommit, MessageMirrorsDispatch, Transfer, WireMessageId
  <2>6. QED
    BY <2>1, <2>2, <2>3, <2>4, <2>5
<1>10. ASSUME NEW p \in Proc, AfterTransfer(p) PROVE SafetyInv'
  <2>1. OpenTransactions'
    BY <1>10 DEF OpenTransactions, OneSender, AfterCommit, AfterTransfer, ClassifyTransferred
  <2>2. OneSender'
    BY <1>10 DEF OpenTransactions, OneSender, AfterCommit, AfterTransfer, ClassifyTransferred
  <2>3. AfterCommit'
    BY <1>10 DEF OpenTransactions, OneSender, AfterCommit, HonestOutcome, AfterTransfer, ClassifyTransferred
  <2>4. AtMostOneTransfer' /\ HonestOutcome'
    BY <1>10 DEF OpenTransactions, AfterCommit, AtMostOneTransfer, HonestOutcome, AfterTransfer, ClassifyTransferred
  <2>5. MessageMirrorsDispatch'
    BY <1>10 DEF OpenTransactions, AfterCommit, MessageMirrorsDispatch, AfterTransfer, ClassifyTransferred
  <2>6. QED
    BY <2>1, <2>2, <2>3, <2>4, <2>5
<1>11. ASSUME NEW p \in Proc, NoTransfer(p) PROVE SafetyInv'
  <2>1. OpenTransactions'
    BY <1>11 DEF OpenTransactions, OneSender, AfterCommit, NoTransfer
  <2>2. OneSender'
    BY <1>11 DEF OpenTransactions, OneSender, AfterCommit, NoTransfer
  <2>3. AfterCommit'
    BY <1>11 DEF OpenTransactions, OneSender, AfterCommit, HonestOutcome, NoTransfer
  <2>4. AtMostOneTransfer' /\ HonestOutcome'
    BY <1>11 DEF OpenTransactions, AfterCommit, AtMostOneTransfer, HonestOutcome, NoTransfer
  <2>5. MessageMirrorsDispatch'
    BY <1>11 DEF OpenTransactions, AfterCommit, MessageMirrorsDispatch, NoTransfer
  <2>6. QED
    BY <2>1, <2>2, <2>3, <2>4, <2>5
<1>12. ASSUME NEW p \in Proc, CommitC(p) PROVE SafetyInv'
  <2>1. OpenTransactions'
    BY <1>12 DEF OpenTransactions, OneSender, AfterCommit, CommitC, finish_external_dispatch, ClearClaim, MyRow, SendFence
  <2>2. OneSender'
    BY <1>12 DEF OpenTransactions, OneSender, AfterCommit, CommitC, finish_external_dispatch, ClearClaim, MyRow, SendFence
  <2>3. AfterCommit'
    BY <1>12 DEF OpenTransactions, OneSender, AfterCommit, HonestOutcome, CommitC, finish_external_dispatch, ClearClaim, MyRow, SendFence
  <2>4. AtMostOneTransfer' /\ HonestOutcome'
    BY <1>12 DEF OpenTransactions, AfterCommit, AtMostOneTransfer, HonestOutcome, CommitC, finish_external_dispatch, ClearClaim, MyRow, SendFence
  <2>5. MessageMirrorsDispatch'
    BY <1>12 DEF OpenTransactions, AfterCommit, MessageMirrorsDispatch, CommitC, finish_external_dispatch, ClearClaim, MyRow, SendFence
  <2>6. QED
    BY <2>1, <2>2, <2>3, <2>4, <2>5
<1>13. ASSUME NEW p \in Proc, LostFence(p) PROVE SafetyInv'
  <2>1. OpenTransactions'
    BY <1>13 DEF OpenTransactions, OneSender, AfterCommit, LostFence
  <2>2. OneSender'
    BY <1>13 DEF OpenTransactions, OneSender, AfterCommit, LostFence
  <2>3. AfterCommit'
    BY <1>13 DEF OpenTransactions, OneSender, AfterCommit, HonestOutcome, LostFence
  <2>4. AtMostOneTransfer' /\ HonestOutcome'
    BY <1>13 DEF OpenTransactions, AfterCommit, AtMostOneTransfer, HonestOutcome, LostFence
  <2>5. MessageMirrorsDispatch'
    BY <1>13 DEF OpenTransactions, AfterCommit, MessageMirrorsDispatch, LostFence
  <2>6. QED
    BY <2>1, <2>2, <2>3, <2>4, <2>5
<1>14. ASSUME NEW p \in Proc, AnnotateLateOutcome(p) PROVE SafetyInv'
  <2>1. OpenTransactions'
    BY <1>14 DEF OpenTransactions, OneSender, AfterCommit, AnnotateLateOutcome, annotate_unknown_dispatch
  <2>2. OneSender'
    BY <1>14 DEF OpenTransactions, OneSender, AfterCommit, AnnotateLateOutcome, annotate_unknown_dispatch
  <2>3. AfterCommit'
    BY <1>14 DEF OpenTransactions, OneSender, AfterCommit, HonestOutcome, AnnotateLateOutcome, annotate_unknown_dispatch
  <2>4. AtMostOneTransfer' /\ HonestOutcome'
    BY <1>14 DEF OpenTransactions, AfterCommit, AtMostOneTransfer, HonestOutcome, AnnotateLateOutcome, annotate_unknown_dispatch
  <2>5. MessageMirrorsDispatch'
    BY <1>14 DEF OpenTransactions, AfterCommit, MessageMirrorsDispatch, AnnotateLateOutcome, annotate_unknown_dispatch
  <2>6. QED
    BY <2>1, <2>2, <2>3, <2>4, <2>5
<1>15. ASSUME NEW p \in Proc, EndDispatch(p) PROVE SafetyInv'
  <2>1. OpenTransactions'
    BY <1>15 DEF OpenTransactions, OneSender, AfterCommit, EndDispatch, Unregister
  <2>2. OneSender'
    BY <1>15 DEF OpenTransactions, OneSender, AfterCommit, EndDispatch, Unregister
  <2>3. AfterCommit'
    BY <1>15 DEF OpenTransactions, OneSender, AfterCommit, HonestOutcome, EndDispatch, Unregister
  <2>4. AtMostOneTransfer' /\ HonestOutcome'
    BY <1>15 DEF OpenTransactions, AfterCommit, AtMostOneTransfer, HonestOutcome, EndDispatch, Unregister
  <2>5. MessageMirrorsDispatch'
    BY <1>15 DEF OpenTransactions, AfterCommit, MessageMirrorsDispatch, EndDispatch, Unregister
  <2>6. QED
    BY <2>1, <2>2, <2>3, <2>4, <2>5
<1>16. ASSUME NEW p \in Proc, ClaimGeneration(p) PROVE SafetyInv'
  <2>1. OpenTransactions'
    BY <1>16 DEF OpenTransactions, OneSender, AfterCommit, ClaimGeneration, claim_next_generation_dispatch, OldestOf, Generatable, FreshToken
  <2>2. OneSender'
    BY <1>16 DEF OpenTransactions, OneSender, AfterCommit, ClaimGeneration, claim_next_generation_dispatch, OldestOf, Generatable, FreshToken
  <2>3. AfterCommit'
    BY <1>16 DEF OpenTransactions, OneSender, AfterCommit, HonestOutcome, ClaimGeneration, claim_next_generation_dispatch, OldestOf, Generatable, FreshToken
  <2>4. AtMostOneTransfer' /\ HonestOutcome'
    BY <1>16 DEF OpenTransactions, AfterCommit, AtMostOneTransfer, HonestOutcome, ClaimGeneration, claim_next_generation_dispatch, OldestOf, Generatable, FreshToken
  <2>5. MessageMirrorsDispatch'
    BY <1>16 DEF OpenTransactions, AfterCommit, MessageMirrorsDispatch, ClaimGeneration, claim_next_generation_dispatch, OldestOf, Generatable, FreshToken
  <2>6. QED
    BY <2>1, <2>2, <2>3, <2>4, <2>5
<1>17. ASSUME NEW p \in Proc, RefuseGeneration(p) PROVE SafetyInv'
  <2>1. OpenTransactions'
    BY <1>17 DEF OpenTransactions, OneSender, AfterCommit, RefuseGeneration, CommitRefused, IdleGeneration
  <2>2. OneSender'
    BY <1>17 DEF OpenTransactions, OneSender, AfterCommit, RefuseGeneration, CommitRefused, IdleGeneration
  <2>3. AfterCommit'
    BY <1>17 DEF OpenTransactions, OneSender, AfterCommit, HonestOutcome, RefuseGeneration, CommitRefused, IdleGeneration
  <2>4. AtMostOneTransfer' /\ HonestOutcome'
    BY <1>17 DEF OpenTransactions, AfterCommit, AtMostOneTransfer, HonestOutcome, RefuseGeneration, CommitRefused, IdleGeneration
  <2>5. MessageMirrorsDispatch'
    BY <1>17 DEF OpenTransactions, AfterCommit, MessageMirrorsDispatch, RefuseGeneration, CommitRefused, IdleGeneration
  <2>6. QED
    BY <2>1, <2>2, <2>3, <2>4, <2>5
<1>18. ASSUME NEW p \in Proc, DeferGeneration(p) PROVE SafetyInv'
  <2>1. OpenTransactions'
    BY <1>18 DEF OpenTransactions, OneSender, AfterCommit, DeferGeneration, Rollback, IdleGeneration
  <2>2. OneSender'
    BY <1>18 DEF OpenTransactions, OneSender, AfterCommit, DeferGeneration, Rollback, IdleGeneration
  <2>3. AfterCommit'
    BY <1>18 DEF OpenTransactions, OneSender, AfterCommit, HonestOutcome, DeferGeneration, Rollback, IdleGeneration
  <2>4. AtMostOneTransfer' /\ HonestOutcome'
    BY <1>18 DEF OpenTransactions, AfterCommit, AtMostOneTransfer, HonestOutcome, DeferGeneration, Rollback, IdleGeneration
  <2>5. MessageMirrorsDispatch'
    BY <1>18 DEF OpenTransactions, AfterCommit, MessageMirrorsDispatch, DeferGeneration, Rollback, IdleGeneration
  <2>6. QED
    BY <2>1, <2>2, <2>3, <2>4, <2>5
<1>19. ASSUME NEW p \in Proc, CommitG1(p) PROVE SafetyInv'
  <2>1. OpenTransactions'
    BY <1>19 DEF OpenTransactions, OneSender, AfterCommit, CommitG1, CommitGenerating
  <2>2. OneSender'
    BY <1>19 DEF OpenTransactions, OneSender, AfterCommit, CommitG1, CommitGenerating
  <2>3. AfterCommit'
    BY <1>19 DEF OpenTransactions, OneSender, AfterCommit, HonestOutcome, CommitG1, CommitGenerating
  <2>4. AtMostOneTransfer' /\ HonestOutcome'
    BY <1>19 DEF OpenTransactions, AfterCommit, AtMostOneTransfer, HonestOutcome, CommitG1, CommitGenerating
  <2>5. MessageMirrorsDispatch'
    BY <1>19 DEF OpenTransactions, AfterCommit, MessageMirrorsDispatch, CommitG1, CommitGenerating
  <2>6. QED
    BY <2>1, <2>2, <2>3, <2>4, <2>5
<1>20. ASSUME NEW p \in Proc, Generate(p) PROVE SafetyInv'
  <2>1. OpenTransactions'
    BY <1>20 DEF OpenTransactions, OneSender, AfterCommit, Generate
  <2>2. OneSender'
    BY <1>20 DEF OpenTransactions, OneSender, AfterCommit, Generate
  <2>3. AfterCommit'
    BY <1>20 DEF OpenTransactions, OneSender, AfterCommit, HonestOutcome, Generate
  <2>4. AtMostOneTransfer' /\ HonestOutcome'
    BY <1>20 DEF OpenTransactions, AfterCommit, AtMostOneTransfer, HonestOutcome, Generate
  <2>5. MessageMirrorsDispatch'
    BY <1>20 DEF OpenTransactions, AfterCommit, MessageMirrorsDispatch, Generate
  <2>6. QED
    BY <2>1, <2>2, <2>3, <2>4, <2>5
<1>21. ASSUME NEW p \in Proc, CommitG2(p) PROVE SafetyInv'
  <2>1. OpenTransactions'
    BY <1>21 DEF OpenTransactions, OneSender, AfterCommit, CommitG2, WriteGeneration, complete_generation, fail_generation, ClearClaim, IdleGeneration, MyGeneration, GenerationFence
  <2>2. OneSender'
    BY <1>21 DEF OpenTransactions, OneSender, AfterCommit, CommitG2, WriteGeneration, complete_generation, fail_generation, ClearClaim, IdleGeneration, MyGeneration, GenerationFence
  <2>3. AfterCommit'
    <3>1. \A q \in Proc : sender[q].pc \in PostCommit => sender[q].d # generator[p].d
      BY <1>21 DEF AfterCommit, CommitG2, MyGeneration, GenerationFence
    <3>2. \A d \in Dispatch : d # generator[p].d => state'[d] = state[d]
      BY <1>21 DEF CommitG2, WriteGeneration, complete_generation, fail_generation
    <3>3. QED
      <4>1. UNCHANGED <<sender, transfers, accepted>>
        BY <1>21 DEF CommitG2, IdleGeneration
      <4>2. QED
        BY <3>1, <3>2, <4>1 DEF AfterCommit
  <2>4. AtMostOneTransfer' /\ HonestOutcome'
    BY <1>21 DEF OpenTransactions, AfterCommit, AtMostOneTransfer, HonestOutcome, CommitG2, WriteGeneration, complete_generation, fail_generation, ClearClaim, IdleGeneration, MyGeneration, GenerationFence
  <2>5. MessageMirrorsDispatch'
    BY <1>21 DEF OpenTransactions, AfterCommit, MessageMirrorsDispatch, CommitG2, WriteGeneration, complete_generation, fail_generation, ClearClaim, IdleGeneration, MyGeneration, GenerationFence
  <2>6. QED
    BY <2>1, <2>2, <2>3, <2>4, <2>5
<1>22. ASSUME NEW p \in Proc, DiscardGeneration(p) PROVE SafetyInv'
  <2>1. OpenTransactions'
    BY <1>22 DEF OpenTransactions, OneSender, AfterCommit, DiscardGeneration, IdleGeneration
  <2>2. OneSender'
    BY <1>22 DEF OpenTransactions, OneSender, AfterCommit, DiscardGeneration, IdleGeneration
  <2>3. AfterCommit'
    BY <1>22 DEF OpenTransactions, OneSender, AfterCommit, HonestOutcome, DiscardGeneration, IdleGeneration
  <2>4. AtMostOneTransfer' /\ HonestOutcome'
    BY <1>22 DEF OpenTransactions, AfterCommit, AtMostOneTransfer, HonestOutcome, DiscardGeneration, IdleGeneration
  <2>5. MessageMirrorsDispatch'
    BY <1>22 DEF OpenTransactions, AfterCommit, MessageMirrorsDispatch, DiscardGeneration, IdleGeneration
  <2>6. QED
    BY <2>1, <2>2, <2>3, <2>4, <2>5
<1>23. ASSUME NEW p \in Proc, RecoverSending(p) PROVE SafetyInv'
  <2>1. OpenTransactions'
    BY <1>23 DEF OpenTransactions, OneSender, AfterCommit, RecoverSending, recover_expired_external_dispatches, Release, Expired, Batch
  <2>2. OneSender'
    BY <1>23 DEF OpenTransactions, OneSender, AfterCommit, RecoverSending, recover_expired_external_dispatches, Release, Expired, Batch
  <2>3. AfterCommit'
    BY <1>23 DEF OpenTransactions, OneSender, AfterCommit, HonestOutcome, RecoverSending, recover_expired_external_dispatches, Release, Expired, Batch
  <2>4. AtMostOneTransfer' /\ HonestOutcome'
    BY <1>23 DEF OpenTransactions, AfterCommit, AtMostOneTransfer, HonestOutcome, RecoverSending, recover_expired_external_dispatches, Release, Expired, Batch
  <2>5. MessageMirrorsDispatch'
    BY <1>23 DEF OpenTransactions, AfterCommit, MessageMirrorsDispatch, RecoverSending, recover_expired_external_dispatches, Release, Expired, Batch
  <2>6. QED
    BY <2>1, <2>2, <2>3, <2>4, <2>5
<1>24. ASSUME NEW p \in Proc, RecoverGenerating(p) PROVE SafetyInv'
  <2>1. OpenTransactions'
    BY <1>24 DEF OpenTransactions, OneSender, AfterCommit, RecoverGenerating, recover_expired_generations, Release, Expired, Batch
  <2>2. OneSender'
    BY <1>24 DEF OpenTransactions, OneSender, AfterCommit, RecoverGenerating, recover_expired_generations, Release, Expired, Batch
  <2>3. AfterCommit'
    BY <1>24 DEF OpenTransactions, OneSender, AfterCommit, HonestOutcome, RecoverGenerating, recover_expired_generations, Release, Expired, Batch
  <2>4. AtMostOneTransfer' /\ HonestOutcome'
    BY <1>24 DEF OpenTransactions, AfterCommit, AtMostOneTransfer, HonestOutcome, RecoverGenerating, recover_expired_generations, Release, Expired, Batch
  <2>5. MessageMirrorsDispatch'
    BY <1>24 DEF OpenTransactions, AfterCommit, MessageMirrorsDispatch, RecoverGenerating, recover_expired_generations, Release, Expired, Batch
  <2>6. QED
    BY <2>1, <2>2, <2>3, <2>4, <2>5
<1>25. ASSUME NEW p \in Proc, ResolveClaim(p) PROVE SafetyInv'
  <2>1. OpenTransactions'
    BY <1>25 DEF OpenTransactions, OneSender, AfterCommit, ResolveClaim, finish_external_dispatch, ClearClaim, SendFence, Claim, RuntimeTypeOK
  <2>2. OneSender'
    BY <1>25 DEF OpenTransactions, OneSender, AfterCommit, ResolveClaim, finish_external_dispatch, ClearClaim, SendFence, Claim, RuntimeTypeOK
  <2>3. AfterCommit'
    <3>1. PICK c \in resolve[p] :
            \/ /\ SendFence(c.d, WorkerOf[p], c.tok)
               /\ finish_external_dispatch(c.d, "unknown")
            \/ /\ ~SendFence(c.d, WorkerOf[p], c.tok)
               /\ UNCHANGED table
      BY <1>25 DEF ResolveClaim
    <3>2. \A d \in Dispatch : state'[d] = state[d] \/ (state[d] = "sending" /\ state'[d] = "unknown")
      BY <3>1 DEF SendFence, finish_external_dispatch
    <3>3. QED
      BY <1>25, <3>2 DEF AfterCommit, ResolveClaim
  <2>4. AtMostOneTransfer' /\ HonestOutcome'
    BY <1>25 DEF OpenTransactions, AfterCommit, AtMostOneTransfer, HonestOutcome, ResolveClaim, finish_external_dispatch, ClearClaim, SendFence, Claim, RuntimeTypeOK
  <2>5. MessageMirrorsDispatch'
    BY <1>25 DEF OpenTransactions, AfterCommit, MessageMirrorsDispatch, ResolveClaim, finish_external_dispatch, ClearClaim, SendFence, Claim, RuntimeTypeOK
  <2>6. QED
    BY <2>1, <2>2, <2>3, <2>4, <2>5
<1>26. ASSUME NEW p \in Proc, Exit(p) PROVE SafetyInv'
  <2>1. OpenTransactions'
    BY <1>26 DEF OpenTransactions, OneSender, AfterCommit, Exit, Terminate, LocksOf
  <2>2. OneSender'
    BY <1>26 DEF OpenTransactions, OneSender, AfterCommit, Exit, Terminate, LocksOf
  <2>3. AfterCommit'
    BY <1>26 DEF OpenTransactions, OneSender, AfterCommit, HonestOutcome, Exit, Terminate, LocksOf
  <2>4. AtMostOneTransfer' /\ HonestOutcome'
    BY <1>26 DEF OpenTransactions, AfterCommit, AtMostOneTransfer, HonestOutcome, Exit, Terminate, LocksOf
  <2>5. MessageMirrorsDispatch'
    BY <1>26 DEF OpenTransactions, AfterCommit, MessageMirrorsDispatch, Exit, Terminate, LocksOf
  <2>6. QED
    BY <2>1, <2>2, <2>3, <2>4, <2>5
<1>27. ASSUME NEW p \in Proc, ErrorClaim(p) PROVE SafetyInv'
  <2>1. OpenTransactions'
    BY <1>27 DEF OpenTransactions, OneSender, AfterCommit, ErrorClaim, EndAttempt
  <2>2. OneSender'
    BY <1>27 DEF OpenTransactions, OneSender, AfterCommit, ErrorClaim, EndAttempt
  <2>3. AfterCommit'
    BY <1>27 DEF OpenTransactions, OneSender, AfterCommit, HonestOutcome, ErrorClaim, EndAttempt
  <2>4. AtMostOneTransfer' /\ HonestOutcome'
    BY <1>27 DEF OpenTransactions, AfterCommit, AtMostOneTransfer, HonestOutcome, ErrorClaim, EndAttempt
  <2>5. MessageMirrorsDispatch'
    BY <1>27 DEF OpenTransactions, AfterCommit, MessageMirrorsDispatch, ErrorClaim, EndAttempt
  <2>6. QED
    BY <2>1, <2>2, <2>3, <2>4, <2>5
<1>28. ASSUME NEW p \in Proc, RollbackB(p) PROVE SafetyInv'
  <2>1. OpenTransactions'
    BY <1>28 DEF OpenTransactions, OneSender, AfterCommit, RollbackB, Rollback, Unregister
  <2>2. OneSender'
    BY <1>28 DEF OpenTransactions, OneSender, AfterCommit, RollbackB, Rollback, Unregister
  <2>3. AfterCommit'
    BY <1>28 DEF OpenTransactions, OneSender, AfterCommit, HonestOutcome, RollbackB, Rollback, Unregister
  <2>4. AtMostOneTransfer' /\ HonestOutcome'
    BY <1>28 DEF OpenTransactions, AfterCommit, AtMostOneTransfer, HonestOutcome, RollbackB, Rollback, Unregister
  <2>5. MessageMirrorsDispatch'
    BY <1>28 DEF OpenTransactions, AfterCommit, MessageMirrorsDispatch, RollbackB, Rollback, Unregister
  <2>6. QED
    BY <2>1, <2>2, <2>3, <2>4, <2>5
<1>29. ASSUME NEW p \in Proc, LoseAckB(p) PROVE SafetyInv'
  <2>1. OpenTransactions'
    BY <1>29 DEF OpenTransactions, OneSender, AfterCommit, LoseAckB, CommitSending, Unregister
  <2>2. OneSender'
    BY <1>29 DEF OpenTransactions, OneSender, AfterCommit, LoseAckB, CommitSending, Unregister
  <2>3. AfterCommit'
    BY <1>29 DEF OpenTransactions, OneSender, AfterCommit, HonestOutcome, LoseAckB, CommitSending, Unregister
  <2>4. AtMostOneTransfer' /\ HonestOutcome'
    BY <1>29 DEF OpenTransactions, AfterCommit, AtMostOneTransfer, HonestOutcome, LoseAckB, CommitSending, Unregister
  <2>5. MessageMirrorsDispatch'
    BY <1>29 DEF OpenTransactions, AfterCommit, MessageMirrorsDispatch, LoseAckB, CommitSending, Unregister
  <2>6. QED
    BY <2>1, <2>2, <2>3, <2>4, <2>5
<1>30. ASSUME NEW p \in Proc, ErrorC(p) PROVE SafetyInv'
  <2>1. OpenTransactions'
    BY <1>30 DEF OpenTransactions, OneSender, AfterCommit, ErrorC, RetryC, finish_external_dispatch, ClearClaim, MyRow, SendFence
  <2>2. OneSender'
    BY <1>30 DEF OpenTransactions, OneSender, AfterCommit, ErrorC, RetryC, finish_external_dispatch, ClearClaim, MyRow, SendFence
  <2>3. AfterCommit'
    <3>1. CASE UNCHANGED table
      BY <1>30, <3>1 DEF AfterCommit, ErrorC, RetryC
    <3>2. CASE MyRow(p) /\ finish_external_dispatch(sender[p].d, sender[p].out)
      <4>1. \A q \in Proc \ {p} : sender[q].pc \in PostCommit => sender[q].d # sender[p].d
        BY <1>30 DEF OneSender, ErrorC
      <4>2. \A d \in Dispatch : d # sender[p].d => state'[d] = state[d]
        BY <3>2 DEF finish_external_dispatch
      <4>3. state'[sender[p].d] = sender[p].out
        BY <1>30, <3>2 DEF finish_external_dispatch, ErrorC
      <4>4. PICK pc \in {"annotate", "finalize"} :
              sender' = [sender EXCEPT ![p] = SenderAt(pc, sender[p].d, sender[p].tok, sender[p].id,
                                                       sender[p].out, sender[p].tries + 1)]
        BY <1>30 DEF ErrorC, RetryC
      <4>5. sender[p].pc = "finalize" /\ UNCHANGED <<transfers, accepted>>
        BY <1>30 DEF ErrorC
      <4>6. /\ sender'[p].pc \in {"annotate", "finalize"}
            /\ sender'[p].d = sender[p].d
            /\ sender'[p].out = sender[p].out
            /\ \A q \in Proc \ {p} : sender'[q] = sender[q]
        BY <4>4
      <4> HIDE DEF TypeOK, ThreadValues
      <4>7. sender[p].d \in Dispatch /\ sender[p].out \in Outcome
        BY <4>5 DEF ThreadValues
      <4>8. \A q \in Proc : sender[q].pc \in PostCommit => sender[q].d \in Dispatch
        BY DEF ThreadValues
      <4>9. QED
        BY <4>1, <4>2, <4>3, <4>5, <4>6, <4>7, <4>8 DEF AfterCommit
    <3>3. QED
      BY <1>30, <3>1, <3>2 DEF ErrorC
  <2>4. AtMostOneTransfer' /\ HonestOutcome'
    BY <1>30 DEF OpenTransactions, AfterCommit, AtMostOneTransfer, HonestOutcome, ErrorC, RetryC, finish_external_dispatch, ClearClaim, MyRow, SendFence
  <2>5. MessageMirrorsDispatch'
    BY <1>30 DEF OpenTransactions, AfterCommit, MessageMirrorsDispatch, ErrorC, RetryC, finish_external_dispatch, ClearClaim, MyRow, SendFence
  <2>6. QED
    BY <2>1, <2>2, <2>3, <2>4, <2>5
<1>31. ASSUME NEW p \in Proc, ErrorAnnotate(p) PROVE SafetyInv'
  <2>1. OpenTransactions'
    BY <1>31 DEF OpenTransactions, OneSender, AfterCommit, ErrorAnnotate
  <2>2. OneSender'
    BY <1>31 DEF OpenTransactions, OneSender, AfterCommit, ErrorAnnotate
  <2>3. AfterCommit'
    BY <1>31 DEF OpenTransactions, OneSender, AfterCommit, HonestOutcome, ErrorAnnotate
  <2>4. AtMostOneTransfer' /\ HonestOutcome'
    BY <1>31 DEF OpenTransactions, AfterCommit, AtMostOneTransfer, HonestOutcome, ErrorAnnotate
  <2>5. MessageMirrorsDispatch'
    BY <1>31 DEF OpenTransactions, AfterCommit, MessageMirrorsDispatch, ErrorAnnotate
  <2>6. QED
    BY <2>1, <2>2, <2>3, <2>4, <2>5
<1>32. ASSUME NEW p \in Proc, ErrorG1(p) PROVE SafetyInv'
  <2>1. OpenTransactions'
    BY <1>32 DEF OpenTransactions, OneSender, AfterCommit, ErrorG1, Rollback, CommitGenerating, IdleGeneration
  <2>2. OneSender'
    BY <1>32 DEF OpenTransactions, OneSender, AfterCommit, ErrorG1, Rollback, CommitGenerating, IdleGeneration
  <2>3. AfterCommit'
    <3>1. \A q \in Proc : sender[q].pc \in PostCommit => sender[q].d # generator[p].d
      <4>1. state[generator[p].d] = "queued"
        BY <1>32 DEF OpenTransactions, ErrorG1
      <4>2. \A q \in Proc : sender[q].pc \in PostCommit =>
              state[sender[q].d] \in {"sending", "sent", "failed", "unknown"}
        BY DEF SafetyInv, AfterCommit
      <4>3. QED
        BY <4>1, <4>2
    <3>2. \A d \in Dispatch : d # generator[p].d => state'[d] = state[d]
      BY <1>32 DEF ErrorG1, Rollback, CommitGenerating
    <3>3. QED
      <4>1. UNCHANGED <<sender, transfers, accepted>>
        BY <1>32 DEF ErrorG1, IdleGeneration
      <4>2. QED
        BY <3>1, <3>2, <4>1 DEF AfterCommit
  <2>4. AtMostOneTransfer' /\ HonestOutcome'
    BY <1>32 DEF OpenTransactions, AfterCommit, AtMostOneTransfer, HonestOutcome, ErrorG1, Rollback, CommitGenerating, IdleGeneration
  <2>5. MessageMirrorsDispatch'
    BY <1>32 DEF OpenTransactions, AfterCommit, MessageMirrorsDispatch, ErrorG1, Rollback, CommitGenerating, IdleGeneration
  <2>6. QED
    BY <2>1, <2>2, <2>3, <2>4, <2>5
<1>33. ASSUME NEW p \in Proc, ErrorG2(p) PROVE SafetyInv'
  <2>1. OpenTransactions'
    BY <1>33 DEF OpenTransactions, OneSender, AfterCommit, ErrorG2, RetryG2, WriteGeneration, complete_generation, fail_generation, ClearClaim, MyGeneration, GenerationFence
  <2>2. OneSender'
    BY <1>33 DEF OpenTransactions, OneSender, AfterCommit, ErrorG2, RetryG2, WriteGeneration, complete_generation, fail_generation, ClearClaim, MyGeneration, GenerationFence
  <2>3. AfterCommit'
    <3>1. CASE UNCHANGED table
      BY <1>33, <3>1 DEF AfterCommit, ErrorG2
    <3>2. CASE MyGeneration(p) /\ WriteGeneration(p)
      <4>1. \A q \in Proc : sender[q].pc \in PostCommit => sender[q].d # generator[p].d
        BY <3>2 DEF AfterCommit, MyGeneration, GenerationFence
      <4>2. \A d \in Dispatch : d # generator[p].d => state'[d] = state[d]
        BY <3>2 DEF WriteGeneration, complete_generation, fail_generation
      <4>3. QED
        BY <1>33, <4>1, <4>2 DEF AfterCommit, ErrorG2
    <3>3. QED
      BY <1>33, <3>1, <3>2 DEF ErrorG2
  <2>4. AtMostOneTransfer' /\ HonestOutcome'
    BY <1>33 DEF OpenTransactions, AfterCommit, AtMostOneTransfer, HonestOutcome, ErrorG2, RetryG2, WriteGeneration, complete_generation, fail_generation, ClearClaim, MyGeneration, GenerationFence
  <2>5. MessageMirrorsDispatch'
    BY <1>33 DEF OpenTransactions, AfterCommit, MessageMirrorsDispatch, ErrorG2, RetryG2, WriteGeneration, complete_generation, fail_generation, ClearClaim, MyGeneration, GenerationFence
  <2>6. QED
    BY <2>1, <2>2, <2>3, <2>4, <2>5
<1>34. ASSUME NEW p \in Proc, Crash(p) PROVE SafetyInv'
  <2>1. OpenTransactions'
    BY <1>34 DEF OpenTransactions, OneSender, AfterCommit, Crash, Terminate, LocksOf
  <2>2. OneSender'
    BY <1>34 DEF OpenTransactions, OneSender, AfterCommit, Crash, Terminate, LocksOf
  <2>3. AfterCommit'
    BY <1>34 DEF OpenTransactions, OneSender, AfterCommit, HonestOutcome, Crash, Terminate, LocksOf
  <2>4. AtMostOneTransfer' /\ HonestOutcome'
    BY <1>34 DEF OpenTransactions, AfterCommit, AtMostOneTransfer, HonestOutcome, Crash, Terminate, LocksOf
  <2>5. MessageMirrorsDispatch'
    BY <1>34 DEF OpenTransactions, AfterCommit, MessageMirrorsDispatch, Crash, Terminate, LocksOf
  <2>6. QED
    BY <2>1, <2>2, <2>3, <2>4, <2>5
<1>35. ASSUME NEW d \in Dispatch, Suppress(d) PROVE SafetyInv'
  <2>1. UNCHANGED <<state, message, locked, sender, generator, transfers, accepted>>
    BY <1>35 DEF Suppress
  <2>2. QED
    BY <2>1, SafetyFrame
<1>36. ASSUME NEW d \in Dispatch, Expire(d) PROVE SafetyInv'
  <2>1. UNCHANGED <<state, message, locked, sender, generator, transfers, accepted>>
    BY <1>36 DEF Expire, LeaseExpires
  <2>2. QED
    BY <2>1, SafetyFrame
<1>37. ASSUME NEW p \in Proc, RequestShutdown(p) PROVE SafetyInv'
  <2>1. UNCHANGED <<state, message, locked, sender, generator, transfers, accepted>>
    BY <1>37 DEF RequestShutdown
  <2>2. QED
    BY <2>1, SafetyFrame
<1>38. ASSUME NEW p \in Proc, Drain(p) PROVE SafetyInv'
  <2>1. UNCHANGED <<state, message, locked, sender, generator, transfers, accepted>>
    BY <1>38 DEF Drain
  <2>2. QED
    BY <2>1, SafetyFrame
<1>39. ASSUME NEW p \in Proc, SnapshotInflight(p) PROVE SafetyInv'
  <2>1. UNCHANGED <<state, message, locked, sender, generator, transfers, accepted>>
    BY <1>39 DEF SnapshotInflight
  <2>2. QED
    BY <2>1, SafetyFrame
<1>40. ASSUME NEW p \in Proc, ExitMain(p) PROVE SafetyInv'
  <2>1. UNCHANGED <<state, message, locked, sender, generator, transfers, accepted>>
    BY <1>40 DEF ExitMain
  <2>2. QED
    BY <2>1, SafetyFrame
<1>41. ASSUME NEW p \in Proc, Resume(p) PROVE SafetyInv'
  <2>1. UNCHANGED <<state, message, locked, sender, generator, transfers, accepted>>
    BY <1>41 DEF Resume
  <2>2. QED
    BY <2>1, SafetyFrame
<1>42. ASSUME NEW p \in Proc, ErrorResolve(p) PROVE SafetyInv'
  <2>1. UNCHANGED <<state, message, locked, sender, generator, transfers, accepted>>
    BY <1>42 DEF ErrorResolve
  <2>2. QED
    BY <2>1, SafetyFrame
<1>43. ASSUME NEW p \in Proc, Restart(p) PROVE SafetyInv'
  <2>1. UNCHANGED <<state, message, locked, sender, generator, transfers, accepted>>
    BY <1>43 DEF Restart
  <2>2. QED
    BY <2>1, SafetyFrame
<1>44. CASE UNCHANGED vars
  BY <1>44, SafetyFrame DEF vars
<1>45. QED
  BY <1>1, <1>2, <1>3, <1>4, <1>5, <1>6, <1>7, <1>8, <1>9, <1>10, <1>11, <1>12, <1>13, <1>14, <1>15, <1>16, <1>17, <1>18, <1>19, <1>20, <1>21, <1>22, <1>23, <1>24, <1>25, <1>26, <1>27, <1>28, <1>29, <1>30, <1>31, <1>32, <1>33, <1>34, <1>35, <1>36, <1>37, <1>38, <1>39, <1>40, <1>41, <1>42, <1>43, <1>44
     DEF Next, Environment, System, Expiry, Operator, Faults, SendThread, GenerationThread, Sweeps, MainThread

-----------------------------------------------------------------------------
(* The theorems.                                                           *)

\* An empty table and idle workers satisfy the inductive invariant.
LEMMA Initially == Init => IndInv
<1> SUFFICES ASSUME Init PROVE IndInv
  OBVIOUS
<1> USE TxnAttemptsAssumption
<1> USE DEF Init, TableInit, IdleSender, IdleGenerator, SenderAt, GeneratorAt
<1>1. TypeOK
  BY DEF TypeOK, TableTypeOK, RuntimeTypeOK, SmtpTypeOK, DispatchState, MessageStatus, Sender, Generator
<1>2. ThreadValues
  BY DEF ThreadValues
<1>3. SafetyInv
  BY DEF SafetyInv, OpenTransactions, OneSender, AfterCommit, PreCommit, PostCommit,
         AtMostOneTransfer, HonestOutcome, MessageMirrorsDispatch
<1>4. QED
  BY <1>1, <1>2, <1>3 DEF IndInv, SafetyInv

\* The inductive invariant of claiming, sending, generating, recovery and shutdown holds
\* in every reachable state.
THEOREM Invariance == Spec => []IndInv
<1>1. IndInv /\ [Next]_vars => IndInv'
  BY TypeStep, SafetyStep DEF IndInv, SafetyInv
<1>2. QED
  BY Initially, <1>1, PTL DEF Spec

\* Every variable of the table, the runtimes and the threads keeps its type: in
\* particular no retry loop of Transactions C and G2 exceeds its attempt limit.
THEOREM TypeCorrectness == Spec => []TypeOK
<1>1. IndInv => TypeOK
  BY DEF IndInv
<1>2. QED
  BY Invariance, <1>1, PTL

\* Whatever leases, crashes, restarts, shutdowns and lost acknowledgements do, the workers
\* transfer the content of a dispatch at most once, for any number of processes, shared
\* worker identities, dispatches and sweep limits.
THEOREM NoDoubleSend == Spec => []AtMostOneTransfer
<1>1. IndInv => AtMostOneTransfer
  BY DEF IndInv
<1>2. QED
  BY Invariance, <1>1, PTL

\* A row that says SENT was accepted by the server, and a row that says FAILED, or that
\* can still be claimed, was never transferred.
THEOREM OutcomesAreHonest == Spec => []HonestOutcome
<1>1. IndInv => HonestOutcome
  BY DEF IndInv
<1>2. QED
  BY Invariance, <1>1, PTL

\* The Message of a dispatch never disagrees with it: Transactions B, C and G2, the gates,
\* the sweeps and the shutdown update both.
THEOREM MessageFollowsDispatch == Spec => []MessageMirrorsDispatch
<1>1. IndInv => MessageMirrorsDispatch
  BY DEF IndInv
<1>2. QED
  BY Invariance, <1>1, PTL

=============================================================================
