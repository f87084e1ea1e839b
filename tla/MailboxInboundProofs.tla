------------------------ MODULE MailboxInboundProofs ------------------------
(***************************************************************************)
(* Theorems about MailboxInbound, for any number of overlapping pollers,   *)
(* mailboxes, tenants, contacts, messages and failures.                    *)
(***************************************************************************)
EXTENDS MailboxInbound, TLAPS

-----------------------------------------------------------------------------
(* The inductive invariant.                                                *)

\* A poller's transaction that has inserted a Message row and not committed it.
Inserting == {"apply", "commit"}

\* A poller works on messages that servers delivered.
Delivered ==
  \A p \in Poller :
    /\ todo[p] \subseteq delivered
    /\ pc[p] \notin {"idle", "drain"} => cur[p] \in delivered

\* A poller attaches only to a contact of the mailbox's tenant.
TargetInTenant ==
  \A p \in Poller :
    pc[p] \in {"insert"} \cup Inserting =>
      /\ target[p] \in Contact
      /\ ContactOrg[target[p]] = OrgOf[MailboxOf[cur[p]]]

\* The handler returned: the message is in the database before its flag is stored.
HandledIsDurable == \A p \in Poller : pc[p] = "store" => Durable(cur[p])

\* An uncommitted row is the first of its key, and the unique index lets only one poller
\* have it.
InsertsAreFresh ==
  /\ \A p \in Poller : pc[p] \in Inserting => KeyOf(cur[p]) \notin Keys(messages)
  /\ \A p, q \in Poller :
       p # q /\ pc[p] \in Inserting /\ pc[q] \in Inserting => KeyOf(cur[p]) # KeyOf(cur[q])

\* The retained copy that an open transaction marks resolved exists.
FoundIsRetained ==
  \A p \in Poller : pc[p] \in Inserting /\ found[p] => KeyOf(cur[p]) \in retained

InboundInv ==
  /\ TypeOK
  /\ Delivered
  /\ FoundIsRetained
  /\ TargetInTenant
  /\ HandledIsDurable
  /\ InsertsAreFresh
  /\ SeenMeansDurable
  /\ AttachedOnceInTenant

\* With one poller: from the duplicate check on nobody else attaches the message, and what
\* the UPDATE saw of a retained copy is still true at the commit.
CopyInv ==
  /\ \A p \in Poller :
       /\ pc[p] \in {"correlate", "insert", "retain", "keep"} => KeyOf(cur[p]) \notin Keys(messages)
       /\ pc[p] \in Inserting /\ KeyOf(cur[p]) \in retained => found[p]
  /\ RetainedCopyResolved

-----------------------------------------------------------------------------
(* Type correctness.                                                       *)

\* A key and a row are what they are made of.
LEMMA Rows ==
  /\ \A m \in Mail : KeyOf(m) \in Key /\ KeyOf(m)[1] = MailboxOf[m]
  /\ \A k, c : <<k, c>>[1] = k /\ <<k, c>>[2] = c
BY InboundAssumption DEF Key, KeyOf

\* Storing a row adds its key.
LEMMA KeyOfRow ==
  ASSUME NEW rows, NEW k, NEW c
  PROVE  /\ <<k, c>> \in rows => k \in Keys(rows)
         /\ Keys(rows \cup {<<k, c>>}) = Keys(rows) \cup {k}
<1>1. <<k, c>>[1] = k
  OBVIOUS
<1>2. QED
  BY <1>1 DEF Keys

\* Every step of pollers, failures and operators preserves the type invariant, and a poller
\* never holds a message that no server has.
LEMMA TypeStep ==
  TypeOK /\ Delivered /\ FoundIsRetained /\ TargetInTenant /\ [Next]_vars => TypeOK' /\ Delivered'
<1> SUFFICES ASSUME TypeOK, Delivered, FoundIsRetained, TargetInTenant, [Next]_vars PROVE TypeOK' /\ Delivered'
  OBVIOUS
<1> USE InboundAssumption DEF TypeOK, Delivered, Goto, NextMessage, LeaveUnseen, Fault, server, store, poller
<1>1. ASSUME NEW p \in Poller, NEW b \in Mailbox, Search(p, b) PROVE TypeOK' /\ Delivered'
  BY <1>1 DEF Search
<1>2. ASSUME NEW p \in Poller, Fetch(p) PROVE TypeOK' /\ Delivered'
  BY <1>2 DEF Fetch
<1>3. ASSUME NEW p \in Poller, EndPoll(p) PROVE TypeOK' /\ Delivered'
  BY <1>3 DEF EndPoll
<1>4. ASSUME NEW p \in Poller, CheckDuplicate(p) PROVE TypeOK' /\ Delivered'
  BY <1>4 DEF CheckDuplicate
<1>5. ASSUME NEW p \in Poller, Correlate(p) PROVE TypeOK' /\ Delivered'
  BY <1>5 DEF Correlate
<1>6. ASSUME NEW p \in Poller, InsertMessage(p) PROVE TypeOK' /\ Delivered'
  BY <1>6 DEF InsertMessage
<1>7. ASSUME NEW p \in Poller, RetainUnmatched(p) PROVE TypeOK' /\ Delivered'
  BY <1>7 DEF RetainUnmatched
<1>8. ASSUME NEW p \in Poller, Apply(p) PROVE TypeOK' /\ Delivered'
  BY <1>8 DEF Apply
<1>9. ASSUME NEW p \in Poller, Persist(p)
      PROVE  /\ known' \in SUBSET Contact
             /\ messages' \in SUBSET (Key \X Contact)
             /\ retained' \in SUBSET Key
             /\ resolved' \in SUBSET retained'
  <2>1. CASE pc[p] = "commit"
    <3>1. cur[p] \in Mail /\ target[p] \in Contact /\ (found[p] => KeyOf(cur[p]) \in retained)
      BY <2>1 DEF TargetInTenant, FoundIsRetained, Inserting
    <3>2. KeyOf(cur[p]) \in Key
      BY <3>1, Rows
    <3>3. messages' \in SUBSET (Key \X Contact)
      BY <1>9, <2>1, <3>1, <3>2 DEF Persist, PersistMessage
    <3>4. QED
      BY <1>9, <2>1, <3>1, <3>3 DEF Persist, PersistMessage
  <2>2. CASE pc[p] = "keep"
    BY <1>9, <2>2, Rows DEF Persist, PersistRetained
  <2>3. QED
    BY <1>9, <2>1, <2>2 DEF Persist
<1>10. ASSUME NEW p \in Poller, Commit(p) PROVE TypeOK' /\ Delivered'
  BY <1>9, <1>10 DEF Commit, Persist
<1>11. ASSUME NEW p \in Poller, LoseCommitAck(p) PROVE TypeOK' /\ Delivered'
  BY <1>9, <1>11 DEF LoseCommitAck
<1>12. ASSUME NEW p \in Poller, MarkSeen(p) PROVE TypeOK' /\ Delivered'
  BY <1>12 DEF MarkSeen
<1>13. ASSUME NEW p \in Poller, HandlerFails(p) \/ StoreFails(p) PROVE TypeOK' /\ Delivered'
  <2>1. NextMessage(p) /\ Fault /\ UNCHANGED <<server, store, replies>>
    BY <1>13 DEF HandlerFails, StoreFails
  <2>2. QED
    BY <2>1
<1>14. ASSUME NEW p \in Poller, Crash(p) PROVE TypeOK' /\ Delivered'
  BY <1>14 DEF Crash
<1>15. ASSUME NEW m \in Mail, Deliver(m) \/ Reoffer(m) PROVE TypeOK' /\ Delivered'
  BY <1>15 DEF Deliver, Reoffer
<1>16. ASSUME NEW c \in Contact, ChangeContacts(c) PROVE TypeOK' /\ Delivered'
  BY <1>16 DEF ChangeContacts
<1>17. ASSUME NEW b \in Mailbox, SetMailbox(b) PROVE TypeOK' /\ Delivered'
  BY <1>17 DEF SetMailbox
<1>18. CASE UNCHANGED vars
  BY <1>18 DEF vars
<1>19. QED
  BY <1>1, <1>2, <1>3, <1>4, <1>5, <1>6, <1>7, <1>8, <1>10, <1>11, <1>12, <1>13, <1>14, <1>15,
     <1>16, <1>17, <1>18 DEF Next, Polling, Failures


-----------------------------------------------------------------------------
(* The safety part.                                                        *)

SafetyInv == /\ FoundIsRetained
             /\ TargetInTenant
             /\ HandledIsDurable
             /\ InsertsAreFresh
             /\ SeenMeansDurable
             /\ AttachedOnceInTenant

\* Rows are never deleted: what is durable stays durable.
LEMMA DurableStays ==
  ASSUME [Next]_vars
  PROVE  messages \subseteq messages' /\ retained \subseteq retained'
<1>1. ASSUME NEW p \in Poller, Persist(p)
      PROVE  messages \subseteq messages' /\ retained \subseteq retained'
  BY <1>1 DEF Persist, PersistMessage, PersistRetained
<1>2. QED
  BY <1>1 DEF vars, store, Next, Polling, Failures, Search, Fetch, EndPoll, CheckDuplicate, Correlate,
     InsertMessage, RetainUnmatched, Apply, Commit, MarkSeen, HandlerFails, LoseCommitAck,
     StoreFails, Crash, Deliver, Reoffer, ChangeContacts, SetMailbox

\* A poller that neither inserts nor returns from the handler, and a step that leaves the
\* store alone, keep the safety part.
LEMMA LetGo ==
  ASSUME SafetyInv, TypeOK, UNCHANGED <<messages, retained>>, seen' \subseteq seen,
         NEW p \in Poller,
         \A q \in Poller \ {p} : /\ pc'[q] = pc[q] /\ cur'[q] = cur[q]
                                 /\ target'[q] = target[q] /\ found'[q] = found[q],
         pc'[p] \notin {"insert", "store"} \cup Inserting
  PROVE  SafetyInv'
<1> USE DEF SafetyInv, Inserting
<1>1. FoundIsRetained'
  BY DEF FoundIsRetained
<1>2. TargetInTenant'
  BY DEF TargetInTenant
<1>3. HandledIsDurable'
  BY DEF HandledIsDurable, Durable
<1>4. InsertsAreFresh'
  <2>1. ASSUME NEW q \in Poller, pc'[q] \in Inserting PROVE KeyOf(cur[q]) \notin Keys(messages)
    BY <2>1 DEF InsertsAreFresh
  <2>2. QED
    BY <2>1 DEF InsertsAreFresh
<1>5. SeenMeansDurable'
  BY DEF SeenMeansDurable, Durable
<1>6. AttachedOnceInTenant'
  BY DEF AttachedOnceInTenant
<1>7. QED
  BY <1>1, <1>2, <1>3, <1>4, <1>5, <1>6

\* The contact that correlation finds belongs to the tenant of the mailbox.
LEMMA CorrelationInTenant ==
  \A m \in Mail : \A c \in Correlated(m) : ContactOrg[c] = OrgOf[MailboxOf[m]]
BY DEF Correlated, InTenant

\* Every step preserves the safety part: correlation stays in the tenant, an insert is
\* admitted only without a committed or uncommitted row of its key, the commit precedes the
\* flag, and every failure returns to the queue without it.
LEMMA SafetyStep ==
  TypeOK /\ Delivered /\ TypeOK' /\ SafetyInv /\ [Next]_vars => SafetyInv'
<1> SUFFICES ASSUME TypeOK, Delivered, TypeOK', SafetyInv, [Next]_vars PROVE SafetyInv'
  OBVIOUS
<1>0. /\ pc \in [Poller -> {"idle", "drain", "check", "correlate", "insert", "retain", "apply",
                            "commit", "keep", "store"}]
      /\ cur \in [Poller -> Mail \cup {Null}]
      /\ target \in [Poller -> Contact \cup {Null}]
      /\ found \in [Poller -> BOOLEAN]
      /\ todo \in [Poller -> SUBSET Mail]
  BY DEF TypeOK
<1>00. \A p \in Poller : pc[p] \notin {"idle", "drain"} => cur[p] \in Mail
  BY DEF TypeOK, Delivered
<1>1. ASSUME NEW p \in Poller, NEW b \in Mailbox, Search(p, b) PROVE SafetyInv'
  <2>1. /\ \A q \in Poller \ {p} : pc'[q] = pc[q] /\ cur'[q] = cur[q] /\ target'[q] = target[q] /\ found'[q] = found[q]
        /\ pc'[p] = "drain" /\ UNCHANGED <<messages, retained, seen>>
    BY <1>0, <1>1 DEF Search, Goto, server, store
  <2>2. QED
    BY <2>1, LetGo DEF Inserting
<1>2. ASSUME NEW p \in Poller, Fetch(p) \/ EndPoll(p) \/ RetainUnmatched(p) PROVE SafetyInv'
  <2>1. /\ \A q \in Poller \ {p} : pc'[q] = pc[q] /\ cur'[q] = cur[q] /\ target'[q] = target[q] /\ found'[q] = found[q]
        /\ pc'[p] \in {"check", "idle", "keep"} /\ UNCHANGED <<messages, retained, seen>>
    BY <1>0, <1>2 DEF Fetch, EndPoll, RetainUnmatched, Goto, server, store
  <2>2. QED
    BY <2>1, LetGo DEF Inserting
<1>3. ASSUME NEW p \in Poller, HandlerFails(p) \/ StoreFails(p) \/ Crash(p) PROVE SafetyInv'
  <2>1. /\ \A q \in Poller \ {p} : pc'[q] = pc[q] /\ cur'[q] = cur[q] /\ target'[q] = target[q] /\ found'[q] = found[q]
        /\ pc'[p] \in {"drain", "idle"} /\ UNCHANGED <<messages, retained, seen>>
    BY <1>0, <1>3 DEF HandlerFails, StoreFails, Crash, LeaveUnseen, NextMessage, Goto, server, store
  <2>2. QED
    BY <2>1, LetGo DEF Inserting
<1>4. ASSUME NEW p \in Poller, CheckDuplicate(p) PROVE SafetyInv'
  <2>1. CASE Stored(cur[p])
    <3>1. Durable(cur[p])
      BY <2>1 DEF Stored, Durable, Keys
    <3>2. pc' = [pc EXCEPT ![p] = "store"] /\ UNCHANGED <<server, store, cur, target, found>>
      BY <1>4, <2>1 DEF CheckDuplicate, Goto
    <3>3. QED
      BY <1>0, <3>1, <3>2 DEF SafetyInv, server, store, FoundIsRetained, TargetInTenant, HandledIsDurable,
         InsertsAreFresh, SeenMeansDurable, AttachedOnceInTenant, Inserting, Durable
  <2>2. CASE ~Stored(cur[p])
    <3>1. /\ \A q \in Poller \ {p} : pc'[q] = pc[q] /\ cur'[q] = cur[q] /\ target'[q] = target[q] /\ found'[q] = found[q]
          /\ pc'[p] = "correlate" /\ UNCHANGED <<messages, retained, seen>>
      BY <1>0, <1>4, <2>2 DEF CheckDuplicate, Goto, server, store
    <3>2. QED
      BY <3>1, LetGo DEF Inserting
  <2>3. QED
    BY <2>1, <2>2
<1>5. ASSUME NEW p \in Poller, Correlate(p) PROVE SafetyInv'
  <2>1. CASE Goto(p, "retain")
    <3>1. /\ \A q \in Poller \ {p} : pc'[q] = pc[q] /\ cur'[q] = cur[q] /\ target'[q] = target[q] /\ found'[q] = found[q]
          /\ pc'[p] = "retain" /\ UNCHANGED <<messages, retained, seen>>
      BY <1>0, <1>5, <2>1 DEF Correlate, Goto, server, store
    <3>2. QED
      BY <3>1, LetGo DEF Inserting
  <2>2. ASSUME NEW c \in Contact, Correlated(cur[p]) = {c}, target' = [target EXCEPT ![p] = c], Goto(p, "insert")
        PROVE  SafetyInv'
    <3>1. ContactOrg[c] = OrgOf[MailboxOf[cur[p]]]
      BY <1>00, <1>5, <2>2, CorrelationInTenant DEF Correlate
    <3>2. pc' = [pc EXCEPT ![p] = "insert"] /\ UNCHANGED <<server, store, cur, found>>
      BY <1>5, <2>2 DEF Correlate, Goto
    <3>3. QED
      BY <1>0, <2>2, <3>1, <3>2 DEF SafetyInv, server, store, FoundIsRetained, TargetInTenant, HandledIsDurable,
         InsertsAreFresh, SeenMeansDurable, AttachedOnceInTenant, Inserting, Durable
  <2>3. QED
    BY <1>5, <2>1, <2>2 DEF Correlate
<1>6. ASSUME NEW p \in Poller, InsertMessage(p) PROVE SafetyInv'
  <2>1. /\ pc[p] = "insert"
        /\ pc' = [pc EXCEPT ![p] = IF KeyOf(cur[p]) \in Keys(messages) THEN "store" ELSE "apply"]
        /\ found' = [found EXCEPT ![p] = KeyOf(cur[p]) \in retained]
        /\ UNCHANGED <<seen, messages, retained, cur, target>>
        /\ \A q \in Poller \ {p} : pc[q] \in Inserting => KeyOf(cur[q]) # KeyOf(cur[p])
    BY <1>6 DEF InsertMessage, Goto, Blocked, Inserting, server, store
  <2>2. FoundIsRetained' /\ TargetInTenant'
    BY <1>0, <2>1 DEF SafetyInv, FoundIsRetained, TargetInTenant, Inserting
  <2>3. HandledIsDurable'
    BY <1>0, <2>1 DEF SafetyInv, HandledIsDurable, Durable
  <2>4. InsertsAreFresh'
    BY <1>0, <2>1 DEF SafetyInv, InsertsAreFresh, Inserting
  <2>5. SeenMeansDurable' /\ AttachedOnceInTenant'
    BY <2>1 DEF SafetyInv, SeenMeansDurable, AttachedOnceInTenant, Durable
  <2>6. QED
    BY <2>2, <2>3, <2>4, <2>5 DEF SafetyInv
<1>7. ASSUME NEW p \in Poller, Apply(p) PROVE SafetyInv'
  <2>1. pc[p] = "apply" /\ pc' = [pc EXCEPT ![p] = "commit"] /\ UNCHANGED <<seen, messages, retained, cur, target, found>>
    BY <1>7 DEF Apply, Goto, server, store
  <2>2. QED
    BY <1>0, <2>1 DEF SafetyInv, FoundIsRetained, TargetInTenant, HandledIsDurable,
       InsertsAreFresh, SeenMeansDurable, AttachedOnceInTenant, Inserting, Durable
<1>8. ASSUME NEW p \in Poller, Persist(p), pc' \in {[pc EXCEPT ![p] = "store"], [pc EXCEPT ![p] = "drain"]},
             UNCHANGED seen, pc'[p] = "store" => cur'[p] = cur[p],
             \A q \in Poller \ {p} : cur'[q] = cur[q] /\ target'[q] = target[q] /\ found'[q] = found[q]
      PROVE  SafetyInv'
  <2>0. /\ \A q \in Poller \ {p} : pc'[q] = pc[q]
        /\ pc'[p] \in {"store", "drain"}
        /\ cur[p] \in Mail
        /\ messages \subseteq messages' /\ retained \subseteq retained'
    BY <1>0, <1>00, <1>8, DurableStays DEF Persist
  <2>1. KeyOf(cur[p]) \in Keys(messages') \cup retained'
    <3>1. CASE pc[p] = "commit"
      <4>1. <<KeyOf(cur[p]), target[p]>> \in messages'
        BY <1>8, <3>1 DEF Persist, PersistMessage
      <4>2. QED
        BY <4>1, KeyOfRow
    <3>2. CASE pc[p] = "keep"
      BY <1>8, <3>2 DEF Persist, PersistRetained
    <3>3. QED
      BY <1>8, <3>1, <3>2 DEF Persist
  <2>2. \A m : Durable(m) => KeyOf(m) \in Keys(messages') \cup retained'
    BY <2>0 DEF Durable, Keys
  <2>3. FoundIsRetained' /\ TargetInTenant'
    BY <1>8, <2>0 DEF SafetyInv, FoundIsRetained, TargetInTenant, Inserting
  <2>4. HandledIsDurable'
    BY <1>8, <2>0, <2>1, <2>2 DEF SafetyInv, HandledIsDurable, Durable
  <2>5. SeenMeansDurable'
    BY <1>8, <2>2 DEF SafetyInv, SeenMeansDurable, Durable
  <2>6. CASE pc[p] = "commit"
    <3> DEFINE k == KeyOf(cur[p])
    <3>1. messages' = messages \cup {<<k, target[p]>>}
      BY <1>8, <2>6 DEF Persist, PersistMessage
    <3>2. k \notin Keys(messages) /\ \A q \in Poller \ {p} : pc[q] \in Inserting => KeyOf(cur[q]) # k
      BY <2>6 DEF SafetyInv, InsertsAreFresh, Inserting
    <3>3. Keys(messages') = Keys(messages) \cup {k}
      BY <3>1, KeyOfRow
    <3>4. InsertsAreFresh'
      BY <1>8, <2>0, <3>2, <3>3 DEF SafetyInv, InsertsAreFresh, Inserting
    <3>5. ContactOrg[target[p]] = OrgOf[MailboxOf[cur[p]]] /\ k[1] = MailboxOf[cur[p]]
      BY <2>0, <2>6, Rows DEF SafetyInv, TargetInTenant, Inserting
    <3>6. \A r \in messages : r[1] # k
      BY <3>2 DEF Keys
    <3> HIDE DEF k
    <3>7. AttachedOnceInTenant'
      BY <3>1, <3>5, <3>6, Rows DEF SafetyInv, AttachedOnceInTenant
    <3>8. QED
      BY <2>3, <2>4, <2>5, <3>4, <3>7 DEF SafetyInv
  <2>7. CASE pc[p] = "keep"
    <3>1. messages' = messages
      BY <1>8, <2>7 DEF Persist, PersistRetained
    <3>2. InsertsAreFresh' /\ AttachedOnceInTenant'
      BY <1>8, <2>0, <3>1 DEF SafetyInv, InsertsAreFresh, AttachedOnceInTenant, Inserting
    <3>3. QED
      BY <2>3, <2>4, <2>5, <3>2 DEF SafetyInv
  <2>8. QED
    BY <1>8, <2>6, <2>7 DEF Persist
<1>9. ASSUME NEW p \in Poller, Commit(p) \/ LoseCommitAck(p) PROVE SafetyInv'
  <2>1. CASE Commit(p)
    BY <1>0, <1>8, <2>1 DEF Commit, Goto
  <2>2. CASE LoseCommitAck(p)
    BY <1>0, <1>8, <2>2 DEF LoseCommitAck, NextMessage, Goto
  <2>3. QED
    BY <1>9, <2>1, <2>2
<1>10. ASSUME NEW p \in Poller, MarkSeen(p) PROVE SafetyInv'
  <2>1. /\ \A q \in Poller \ {p} : pc'[q] = pc[q] /\ cur'[q] = cur[q] /\ target'[q] = target[q] /\ found'[q] = found[q]
        /\ pc[p] = "store" /\ pc'[p] = "drain" /\ UNCHANGED <<messages, retained>> /\ seen' = seen \cup {cur[p]}
    BY <1>0, <1>10 DEF MarkSeen, NextMessage, Goto, store
  <2>2. Durable(cur[p])
    BY <2>1 DEF SafetyInv, HandledIsDurable
  <2>3. SeenMeansDurable'
    BY <2>1, <2>2 DEF SafetyInv, SeenMeansDurable, Durable
  <2>4. FoundIsRetained' /\ TargetInTenant' /\ HandledIsDurable' /\ InsertsAreFresh' /\ AttachedOnceInTenant'
    BY <2>1 DEF SafetyInv, FoundIsRetained, TargetInTenant, HandledIsDurable, InsertsAreFresh,
       AttachedOnceInTenant, Inserting, Durable
  <2>5. QED
    BY <2>3, <2>4 DEF SafetyInv
<1>11. ASSUME UNCHANGED <<messages, retained, pc, cur, target, found>>, seen' \subseteq seen PROVE SafetyInv'
  BY <1>11 DEF SafetyInv, FoundIsRetained, TargetInTenant, HandledIsDurable, InsertsAreFresh,
     SeenMeansDurable, AttachedOnceInTenant, Durable
<1>12. ASSUME NEW m \in Mail, Deliver(m) \/ Reoffer(m) PROVE SafetyInv'
  BY <1>11, <1>12 DEF Deliver, Reoffer, store, poller
<1>13. ASSUME NEW c \in Contact, ChangeContacts(c) PROVE SafetyInv'
  BY <1>11, <1>13 DEF ChangeContacts, store, poller
<1>14. ASSUME NEW b \in Mailbox, SetMailbox(b) PROVE SafetyInv'
  BY <1>11, <1>14 DEF SetMailbox, store, poller
<1>15. CASE UNCHANGED vars
  BY <1>11, <1>15 DEF vars, server, store, poller
<1>16. QED
  BY <1>1, <1>2, <1>3, <1>4, <1>5, <1>6, <1>7, <1>9, <1>10, <1>12, <1>13, <1>14, <1>15
     DEF Next, Polling, Failures


-----------------------------------------------------------------------------
(* The invariants.                                                         *)

\* The invariant holds initially.
LEMMA Initially == Init => InboundInv
BY InboundAssumption DEF Init, InboundInv, TypeOK, Delivered, FoundIsRetained, TargetInTenant,
   HandledIsDurable, InsertsAreFresh, SeenMeansDurable, AttachedOnceInTenant, Inserting

\* The invariant is inductive.
LEMMA InboundStep == InboundInv /\ [Next]_vars => InboundInv'
BY TypeStep, SafetyStep DEF InboundInv, SafetyInv

\* The inductive invariant of the pollers.
THEOREM Invariance == Spec => []InboundInv
<1>1. Init /\ [][Next]_vars => []InboundInv
  BY Initially, InboundStep, PTL
<1>2. QED
  BY <1>1, PTL DEF Spec

\* A message that carries the Seen flag is in the database, whatever overlapping pollers,
\* failed handlers, lost commit acknowledgements and crashes do.
THEOREM SeenIsDurable == Spec => []SeenMeansDurable
<1>1. InboundInv => SeenMeansDurable
  BY DEF InboundInv
<1>2. QED
  BY Invariance, <1>1, PTL

\* However often a message is offered and by however many pollers, its mailbox has one
\* Message row for it, attached to a contact of the mailbox's own tenant.
THEOREM AttachedOnce == Spec => []AttachedOnceInTenant
<1>1. InboundInv => AttachedOnceInTenant
  BY DEF InboundInv
<1>2. QED
  BY Invariance, <1>1, PTL

-----------------------------------------------------------------------------
(* One poller.                                                             *)

\* max_instances = 1 in a single worker process.
OnePoller == \A p, q \in Poller : p = q

\* The tenant filter of the duplicate check misses no row of the key.
LEMMA StoredIsKeyed ==
  ASSUME InboundInv, NEW m \in Mail, ~Stored(m)
  PROVE  KeyOf(m) \notin Keys(messages)
<1>1. ASSUME NEW r \in messages, r[1] = KeyOf(m) PROVE FALSE
  <2>1. ContactOrg[r[2]] = OrgOf[MailboxOf[m]]
    BY <1>1, Rows DEF InboundInv, AttachedOnceInTenant
  <2>2. QED
    BY <1>1, <2>1 DEF Stored
<1>2. QED
  BY <1>1 DEF Keys

\* With one poller, CopyInv is kept by every step.
LEMMA CopyStep ==
  ASSUME OnePoller, InboundInv, CopyInv, [Next]_vars
  PROVE  CopyInv'
<1>0. /\ pc \in [Poller -> {"idle", "drain", "check", "correlate", "insert", "retain", "apply",
                            "commit", "keep", "store"}]
      /\ cur \in [Poller -> Mail \cup {Null}]
      /\ found \in [Poller -> BOOLEAN]
      /\ \A p \in Poller : pc[p] \notin {"idle", "drain"} => cur[p] \in Mail
  BY DEF InboundInv, TypeOK, Delivered
<1>1. ASSUME NEW p \in Poller, UNCHANGED store,
             \/ pc'[p] \in {"idle", "drain", "check", "store"}
             \/ /\ pc[p] \in {"correlate", "insert", "retain"} /\ pc'[p] \in {"insert", "retain", "keep"}
                /\ UNCHANGED cur
             \/ pc[p] = "apply" /\ pc'[p] = "commit" /\ UNCHANGED <<cur, found>>
      PROVE  CopyInv'
  <2>1. \A q \in Poller : q = p
    BY DEF OnePoller
  <2>2. QED
    BY <1>1, <2>1 DEF CopyInv, RetainedCopyResolved, Inserting, store
<1>2. ASSUME NEW p \in Poller, NEW b \in Mailbox, Search(p, b) PROVE CopyInv'
  BY <1>0, <1>1, <1>2 DEF Search, Goto
<1>3. ASSUME NEW p \in Poller,
             Fetch(p) \/ EndPoll(p) \/ MarkSeen(p) \/ HandlerFails(p) \/ StoreFails(p) \/ Crash(p)
      PROVE  CopyInv'
  <2>1. UNCHANGED store /\ pc'[p] \in {"idle", "drain", "check", "store"}
    BY <1>0, <1>3 DEF Fetch, EndPoll, MarkSeen, HandlerFails, StoreFails, Crash, LeaveUnseen, NextMessage, Goto
  <2>2. QED
    BY <1>1, <2>1
<1>4. ASSUME NEW p \in Poller, CheckDuplicate(p) PROVE CopyInv'
  <2>1. CASE Stored(cur[p])
    BY <1>0, <1>1, <1>4, <2>1 DEF CheckDuplicate, Goto
  <2>2. CASE ~Stored(cur[p])
    <3>1. KeyOf(cur[p]) \notin Keys(messages)
      BY <1>0, <1>4, <2>2, StoredIsKeyed DEF CheckDuplicate
    <3>2. UNCHANGED <<store, cur>> /\ pc'[p] = "correlate"
      BY <1>0, <1>4, <2>2 DEF CheckDuplicate, Goto
    <3>3. \A q \in Poller : q = p
      BY DEF OnePoller
    <3>4. QED
      BY <3>1, <3>2, <3>3 DEF CopyInv, RetainedCopyResolved, Inserting, store
  <2>3. QED
    BY <2>1, <2>2
<1>5. ASSUME NEW p \in Poller, Correlate(p) \/ RetainUnmatched(p) \/ Apply(p) PROVE CopyInv'
  <2>1. /\ UNCHANGED <<store, cur, found>>
        /\ \/ pc[p] \in {"correlate", "retain"} /\ pc'[p] \in {"insert", "retain", "keep"}
           \/ pc[p] = "apply" /\ pc'[p] = "commit"
    BY <1>0, <1>5 DEF Correlate, RetainUnmatched, Apply, Goto
  <2>2. QED
    BY <1>1, <2>1
<1>6. ASSUME NEW p \in Poller, InsertMessage(p) PROVE CopyInv'
  <2>1. /\ UNCHANGED <<store, cur>> /\ pc'[p] \in {"store", "apply"}
        /\ found' = [found EXCEPT ![p] = KeyOf(cur[p]) \in retained]
    BY <1>0, <1>6 DEF InsertMessage, Goto
  <2>2. \A q \in Poller : q = p
    BY DEF OnePoller
  <2>3. QED
    BY <1>0, <2>1, <2>2 DEF CopyInv, RetainedCopyResolved, Inserting, store
<1>7. ASSUME NEW p \in Poller, Commit(p) \/ LoseCommitAck(p) PROVE CopyInv'
  <2> DEFINE k == KeyOf(cur[p])
  <2>1. pc'[p] \in {"store", "drain"} /\ Persist(p)
    BY <1>0, <1>7 DEF Commit, LoseCommitAck, NextMessage, Goto
  <2>2. \A q \in Poller : q = p
    BY DEF OnePoller
  <2>3. CASE pc[p] = "commit"
    <3>1. /\ messages' = messages \cup {<<k, target[p]>>}
          /\ resolved' = (IF found[p] THEN resolved \cup {k} ELSE resolved)
          /\ retained' = retained
      BY <2>1, <2>3 DEF Persist, PersistMessage
    <3>2. Keys(messages') = Keys(messages) \cup {k}
      BY <3>1, KeyOfRow
    <3>3. k \in retained => found[p]
      BY <2>3 DEF CopyInv, Inserting
    <3> HIDE DEF k
    <3>4. RetainedCopyResolved'
      BY <3>1, <3>2, <3>3 DEF CopyInv, RetainedCopyResolved
    <3>5. QED
      BY <2>1, <2>2, <3>4 DEF CopyInv, Inserting
  <2>4. CASE pc[p] = "keep"
    <3>1. messages' = messages /\ resolved' = resolved /\ retained' = retained \cup {k}
      BY <2>1, <2>4 DEF Persist, PersistRetained
    <3>2. k \notin Keys(messages)
      BY <2>4 DEF CopyInv
    <3>3. RetainedCopyResolved'
      BY <3>1, <3>2 DEF CopyInv, RetainedCopyResolved
    <3>4. QED
      BY <2>1, <2>2, <3>3 DEF CopyInv, Inserting
  <2>5. QED
    BY <2>1, <2>3, <2>4 DEF Persist
<1>8. ASSUME UNCHANGED <<store, poller>> PROVE CopyInv'
  BY <1>8 DEF CopyInv, RetainedCopyResolved, store, poller
<1>9. QED
  BY <1>2, <1>3, <1>4, <1>5, <1>6, <1>7, <1>8
     DEF Next, Polling, Failures, Deliver, Reoffer, ChangeContacts, SetMailbox, vars

\* With one poller, a message that was retained as unmatched and is attached later leaves its
\* retained copy resolved.  With overlapping pollers this is false: the copy may be written
\* after the other poller looked for it.
THEOREM CopiesAreResolved == ASSUME OnePoller PROVE Spec => []RetainedCopyResolved
<1>1. Init => CopyInv
  BY DEF Init, CopyInv, RetainedCopyResolved, Inserting
<1>2. InboundInv /\ CopyInv /\ [Next]_vars => CopyInv'
  BY CopyStep
<1>3. CopyInv => RetainedCopyResolved
  BY DEF CopyInv
<1>4. Init /\ [][Next]_vars => []RetainedCopyResolved
  BY Initially, InboundStep, <1>1, <1>2, <1>3, PTL
<1>5. QED
  BY <1>4, PTL DEF Spec


=============================================================================
