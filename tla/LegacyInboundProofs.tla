------------------------ MODULE LegacyInboundProofs ------------------------
(***************************************************************************)
(* Theorems about LegacyInbound, for any mail, any number of concurrent    *)
(* webhook calls and any number of failures.                               *)
(***************************************************************************)
EXTENDS LegacyInbound, TLAPS

-----------------------------------------------------------------------------
(* The inductive invariant.                                                *)

\* What the job and the webhook calls carry from one step to the next.
Carried ==
  /\ left \subseteq delivered \ seen
  /\ phase = "idle" => batch = {}
  /\ phase = "flush" => cur \in Matched
  /\ \A h \in Hook : hookpc[h] \in {"check", "flush", "commit"} => hookmail[h] \in Mail

\* A webhook call's uncommitted row with a Message-ID has no committed twin, none in the
\* job's session and none in another call's transaction: the duplicate check is stale by
\* then, only the unique index decides.
UncommittedIsUnique ==
  /\ \A h \in Hook : hookpc[h] = "commit" /\ Identified(hookmail[h])
       => rows[hookmail[h]] = 0 /\ hookmail[h] \notin pending
  /\ \A g, h \in Hook :
       g # h /\ hookpc[g] = "commit" /\ hookpc[h] = "commit" /\ Identified(hookmail[g])
         => hookmail[g] # hookmail[h]

\* The row that a message without a Message-ID still has to come from the job: flushed, past
\* its check, in the batch, or in the INBOX without its flag. Each of these places holds at
\* most one, and moving from one to the next never adds one unless a STORE fails.
Count(P) == IF P THEN 1 ELSE 0
Promised(m) ==
  Count(m \in pending) + Count(phase = "flush" /\ cur = m) + Count(m \in batch) + Count(m \notin seen)
AnonymousBound == \A m \in Anonymous : rows[m] + Promised(m) <= 1 + again[m]

IdentifiedOnce ==
  /\ \A m \in Mail \ Anonymous : rows[m] <= 1
  /\ \A m \in pending \ Anonymous : rows[m] = 0

LegacyInv ==
  /\ TypeOK
  /\ Carried
  /\ UncommittedIsUnique
  /\ IdentifiedOnce
  /\ AnonymousBound

-----------------------------------------------------------------------------
\* Nothing is recorded and everything is still in the INBOX.
LEMMA Initially == Init => LegacyInv
BY LegacyAssumption DEF Init, LegacyInv, TypeOK, Carried, UncommittedIsUnique, IdentifiedOnce,
   AnonymousBound, Promised, Count

\* A step that commits, flushes and admits no row keeps what is said of rows with a Message-ID.
LEMMA RowsAlone ==
  ASSUME LegacyInv, UNCHANGED rows, pending' \subseteq pending,
         \A h \in Hook : hookpc'[h] = "commit" => hookpc[h] = "commit" /\ hookmail'[h] = hookmail[h]
  PROVE  UncommittedIsUnique' /\ IdentifiedOnce'
BY DEF LegacyInv, UncommittedIsUnique, IdentifiedOnce, Identified

\* Moving a message on in the job, dropping it, or flagging it, promises no further row.
LEMMA AnonymousStep ==
  ASSUME LegacyInv, [Next]_vars PROVE AnonymousBound'
<1> USE LegacyAssumption
<1>0. TypeOK /\ Carried /\ AnonymousBound
  BY DEF LegacyInv
<1> SUFFICES ASSUME NEW a \in Anonymous PROVE (rows[a] + Promised(a) <= 1 + again[a])'
  BY DEF AnonymousBound
<1>1. rows[a] + Promised(a) <= 1 + again[a] /\ rows[a] \in Nat /\ again[a] \in Nat /\ a \in Mail
  BY <1>0 DEF AnonymousBound, TypeOK
<1> USE DEF inbox, job, hooks, bounds, Fault, Death, HookGoto, Promised, Count
<1>2. ASSUME UNCHANGED <<rows, seen, phase, batch, cur, pending, again>>
      PROVE  (rows[a] + Promised(a) <= 1 + again[a])'
  BY <1>1, <1>2
<1>3. CASE Search
  BY <1>0, <1>1, <1>3 DEF Search
<1>4. CASE EndFetch
  BY <1>0, <1>1, <1>4 DEF EndFetch
<1>5. CASE Flush
  BY <1>0, <1>1, <1>5 DEF Flush
<1>6. CASE CommitBatch
  BY <1>0, <1>1, <1>6 DEF CommitBatch, CommitPending, TypeOK
<1>7. CASE JobDies
  BY <1>0, <1>1, <1>7 DEF JobDies
<1>8. ASSUME NEW m \in Mail, ParseFails(m) PROVE (rows[a] + Promised(a) <= 1 + again[a])'
  BY <1>0, <1>1, <1>8 DEF ParseFails, NotFlagged
<1>9. ASSUME NEW m \in Mail, Skip(m) PROVE (rows[a] + Promised(a) <= 1 + again[a])'
  BY <1>0, <1>1, <1>9 DEF Skip
<1>10. ASSUME NEW m \in Mail, Check(m) PROVE (rows[a] + Promised(a) <= 1 + again[a])'
  BY <1>0, <1>1, <1>10 DEF Check
<1>11. ASSUME NEW m \in Mail, NEW stored \in BOOLEAN, FetchOne(m, stored)
       PROVE  (rows[a] + Promised(a) <= 1 + again[a])'
  <2>1. m \notin seen /\ m \notin batch
    BY <1>0, <1>11 DEF FetchOne, TypeOK, Carried
  <2>2. CASE stored
    BY <1>1, <1>11, <2>1, <2>2 DEF FetchOne
  <2>3. CASE ~stored
    BY <1>1, <1>11, <2>1, <2>3 DEF FetchOne, Again
  <2>4. QED
    BY <2>2, <2>3
<1>12. ASSUME NEW h \in Hook, HookCommit(h) PROVE (rows[a] + Promised(a) <= 1 + again[a])'
  <2>1. /\ rows'[a] = IF a = hookmail[h] THEN rows[a] + 1 ELSE rows[a]
        /\ again'[a] = IF a = hookmail[h] THEN again[a] + 1 ELSE again[a]
    BY <1>0, <1>1, <1>12 DEF HookCommit, Again, TypeOK
  <2>2. QED
    BY <1>1, <1>12, <2>1 DEF HookCommit
<1>13. ASSUME NEW h \in Hook, HookCheck(h) \/ HookFlush(h) \/ HookFails(h)
       PROVE  UNCHANGED <<rows, seen, phase, batch, cur, pending, again>>
  BY <1>13 DEF HookCheck, HookFlush, HookFails
<1>14. ASSUME NEW h \in Hook, NEW m \in Mail, HookStart(h, m)
       PROVE  UNCHANGED <<rows, seen, phase, batch, cur, pending, again>>
  BY <1>14 DEF HookStart
<1>15. ASSUME NEW m \in Mail, Deliver(m) PROVE UNCHANGED <<rows, seen, phase, batch, cur, pending, again>>
  BY <1>15 DEF Deliver
<1>16. CASE UNCHANGED vars
  BY <1>2, <1>16 DEF vars
<1>17. QED
  BY <1>2, <1>3, <1>4, <1>5, <1>6, <1>7, <1>8, <1>9, <1>10, <1>11, <1>12, <1>13, <1>14, <1>15,
     <1>16 DEF Next

\* Every step of the job and of the webhook calls preserves the inductive invariant.
LEMMA LegacyStep == LegacyInv /\ [Next]_vars => LegacyInv'
<1> SUFFICES ASSUME LegacyInv, [Next]_vars PROVE LegacyInv'
  OBVIOUS
<1> USE LegacyAssumption
<1>0. TypeOK /\ Carried /\ UncommittedIsUnique /\ IdentifiedOnce
  BY DEF LegacyInv
<1>1. ASSUME TypeOK', Carried', UncommittedIsUnique', IdentifiedOnce' PROVE LegacyInv'
  BY <1>1, AnonymousStep DEF LegacyInv
<1> USE DEF inbox, job, hooks, bounds, Fault, Death, HookGoto, Again, Identified
<1>2. ASSUME UNCHANGED <<rows, hooks>>, pending' \subseteq pending PROVE UncommittedIsUnique' /\ IdentifiedOnce'
  BY <1>2, RowsAlone
<1>3. CASE Search
  BY <1>0, <1>1, <1>2, <1>3 DEF Search, TypeOK, Carried
<1>4. CASE EndFetch
  BY <1>0, <1>1, <1>2, <1>4 DEF EndFetch, TypeOK, Carried
<1>5. CASE Flush
  <2>1. TypeOK' /\ Carried'
    BY <1>0, <1>5 DEF Flush, TypeOK, Carried
  <2>2. UncommittedIsUnique'
    BY <1>0, <1>5 DEF Flush, HeldByHook, UncommittedIsUnique
  <2>3. IdentifiedOnce'
    BY <1>0, <1>5 DEF Flush, IndexIsFree, IdentifiedOnce
  <2>4. QED
    BY <1>1, <2>1, <2>2, <2>3
<1>6. CASE CommitBatch
  <2>1. rows' = [m \in Mail |-> IF m \in pending THEN rows[m] + 1 ELSE rows[m]] /\ pending' = {}
    BY <1>6 DEF CommitBatch, CommitPending
  <2>2. TypeOK' /\ Carried'
    BY <1>0, <1>6, <2>1 DEF CommitBatch, TypeOK, Carried
  <2>3. UncommittedIsUnique'
    BY <1>0, <1>6, <2>1 DEF CommitBatch, UncommittedIsUnique, Carried
  <2>4. IdentifiedOnce'
    BY <1>0, <2>1 DEF IdentifiedOnce, TypeOK
  <2>5. QED
    BY <1>1, <2>2, <2>3, <2>4
<1>7. CASE JobDies
  BY <1>0, <1>1, <1>2, <1>7 DEF JobDies, TypeOK, Carried
<1>8. ASSUME NEW m \in Mail, ParseFails(m) PROVE LegacyInv'
  BY <1>0, <1>1, <1>2, <1>8 DEF ParseFails, NotFlagged, TypeOK, Carried
<1>9. ASSUME NEW m \in Mail, Skip(m) PROVE LegacyInv'
  BY <1>0, <1>1, <1>2, <1>9 DEF Skip, TypeOK, Carried
<1>10. ASSUME NEW m \in Mail, Check(m) PROVE LegacyInv'
  BY <1>0, <1>1, <1>2, <1>10 DEF Check, Correlates, TypeOK, Carried
<1>11. ASSUME NEW m \in Mail, Deliver(m) PROVE LegacyInv'
  BY <1>0, <1>1, <1>2, <1>11 DEF Deliver, TypeOK, Carried
<1>12. ASSUME NEW m \in Mail, NEW stored \in BOOLEAN, FetchOne(m, stored) PROVE LegacyInv'
  BY <1>0, <1>1, <1>2, <1>12 DEF FetchOne, TypeOK, Carried
<1>13. ASSUME NEW h \in Hook, NEW m \in Mail, HookStart(h, m) PROVE LegacyInv'
  <2>1. TypeOK' /\ Carried'
    BY <1>0, <1>13 DEF HookStart, TypeOK, Carried
  <2>2. UncommittedIsUnique' /\ IdentifiedOnce'
    BY <1>0, <1>13, RowsAlone DEF HookStart, TypeOK
  <2>3. QED
    BY <1>1, <2>1, <2>2
<1>14. ASSUME NEW h \in Hook, HookCheck(h) PROVE LegacyInv'
  <2>1. TypeOK' /\ Carried'
    BY <1>0, <1>14 DEF HookCheck, TypeOK, Carried
  <2>2. UncommittedIsUnique' /\ IdentifiedOnce'
    BY <1>0, <1>14, RowsAlone DEF HookCheck, TypeOK
  <2>3. QED
    BY <1>1, <2>1, <2>2
<1>15. ASSUME NEW h \in Hook, HookFlush(h) PROVE LegacyInv'
  <2>1. TypeOK' /\ Carried'
    BY <1>0, <1>15 DEF HookFlush, TypeOK, Carried
  <2>2. UncommittedIsUnique' /\ IdentifiedOnce'
    BY <1>0, <1>15 DEF HookFlush, HeldByJob, HeldByHook, IndexIsFree, TypeOK, UncommittedIsUnique, IdentifiedOnce
  <2>3. QED
    BY <1>1, <2>1, <2>2
<1>16. ASSUME NEW h \in Hook, HookCommit(h) PROVE LegacyInv'
  <2>1. TypeOK' /\ Carried'
    BY <1>0, <1>16 DEF HookCommit, TypeOK, Carried
  <2>2. UncommittedIsUnique' /\ IdentifiedOnce'
    BY <1>0, <1>16 DEF HookCommit, TypeOK, Carried, UncommittedIsUnique, IdentifiedOnce
  <2>3. QED
    BY <1>1, <2>1, <2>2
<1>17. ASSUME NEW h \in Hook, HookFails(h) PROVE LegacyInv'
  <2>1. TypeOK' /\ Carried'
    BY <1>0, <1>17 DEF HookFails, TypeOK, Carried
  <2>2. UncommittedIsUnique' /\ IdentifiedOnce'
    BY <1>0, <1>17, RowsAlone DEF HookFails, TypeOK
  <2>3. QED
    BY <1>1, <2>1, <2>2
<1>18. CASE UNCHANGED vars
  BY <1>0, <1>1, <1>2, <1>18 DEF vars, TypeOK, Carried
<1>19. QED
  BY <1>3, <1>4, <1>5, <1>6, <1>7, <1>8, <1>9, <1>10, <1>11, <1>12, <1>13, <1>14, <1>15, <1>16,
     <1>17, <1>18 DEF Next

\* The inductive invariant of the poll job and the webhook calls.
THEOREM Invariance == Spec => []LegacyInv
<1>1. Init /\ [][Next]_vars => []LegacyInv
  BY Initially, LegacyStep, PTL
<1>2. QED
  BY <1>1, PTL DEF Spec

\* The webhook, any number of its retries and the poll never record an email with a Message-ID
\* twice, although each of them looks for a duplicate before the others commit; one without a
\* Message-ID gets at most one row from the poll for its delivery and one for each STORE that
\* failed to flag it, besides the rows of webhook calls.
THEOREM NoDoubleRecord == Spec => []RecordedOnce
<1>1. LegacyInv => RecordedOnce
  <2> SUFFICES ASSUME LegacyInv, NEW m \in Anonymous PROVE rows[m] <= 1 + again[m]
    BY DEF LegacyInv, IdentifiedOnce, RecordedOnce
  <2>1. rows[m] \in Nat /\ again[m] \in Nat /\ rows[m] + Promised(m) <= 1 + again[m]
    BY LegacyAssumption DEF LegacyInv, TypeOK, AnonymousBound
  <2>2. QED
    BY <2>1 DEF Promised, Count
<1>2. QED
  BY Invariance, <1>1, PTL

=============================================================================
