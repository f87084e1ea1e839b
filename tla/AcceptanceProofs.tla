-------------------------- MODULE AcceptanceProofs --------------------------
(***************************************************************************)
(* Idempotency of acceptance, for any number of calls, requests, tenants   *)
(* and pre-existing rows.                                                  *)
(***************************************************************************)
EXTENDS Acceptance, TLAPS

\* A call has answered only when it is done; the control state has its type.
Control ==
  /\ pc \in [Call -> PC]
  /\ req \in [Call -> Request \cup {Null}]
  /\ answer \in [Call -> Response]
  /\ \A r \in Call : pc[r] # "done" => answer[r] = Pending
  /\ \A d \in dispatches : d.ref \in Call

IdempotencyInv ==
  /\ Control
  /\ OneOperationPerKey
  /\ AnswersAreConsistent
  /\ MessagesOwnedByOperations

-----------------------------------------------------------------------------
\* No call is answered when the service starts, and no operation exists.
LEMMA InitiallyIdempotent == Init => IdempotencyInv
  BY DEF Init, IdempotencyInv, Control, OneOperationPerKey, AnswersAreConsistent,
         MessagesOwnedByOperations, PC, Response, Pending

\* A step that leaves the operations and Messages alone, and in which call r at most
\* moves on without an answer, keeps the invariant.
LEMMA Moves ==
  ASSUME IdempotencyInv, NEW r \in Call, NEW l \in PC \ {"done"},
         pc[r] # "done", Goto(r, l), UNCHANGED <<dispatches, messages, req, answer>>
  PROVE  IdempotencyInv'
<1>1. Control'
  BY DEF IdempotencyInv, Control, Goto
<1>2. OneOperationPerKey' /\ MessagesOwnedByOperations'
  BY DEF IdempotencyInv, OneOperationPerKey, MessagesOwnedByOperations
<1>3. AnswersAreConsistent'
  BY DEF IdempotencyInv, AnswersAreConsistent, find_dispatch
<1>4. QED
  BY <1>1, <1>2, <1>3 DEF IdempotencyInv

\* An answer that claims nothing keeps the invariant.
LEMMA Refusals ==
  ASSUME IdempotencyInv, NEW r \in Call,
         NEW code \in {"refused", "not_found", "unconfigured", "error"},
         Answer(r, Refused(code)), UNCHANGED <<dispatches, messages, req>>
  PROVE  IdempotencyInv'
<1>1. Refused(code) \in Response
  BY DEF Refused, Response
<1>2. Control'
  BY <1>1 DEF IdempotencyInv, Control, Goto, Answer, PC
<1>3. OneOperationPerKey' /\ MessagesOwnedByOperations'
  BY DEF IdempotencyInv, OneOperationPerKey, MessagesOwnedByOperations
<1>4. AnswersAreConsistent'
  <2> SUFFICES ASSUME NEW s \in Call
               PROVE  /\ answer'[s].code = "accepted" =>
                           \E d \in dispatches :
                             /\ d.ref = answer'[s].ref
                             /\ d.org = req[s].org /\ d.key = req[s].key
                             /\ d.fingerprint = Fingerprint(req[s])
                      /\ answer'[s].code = "key_conflict" =>
                           \E d \in find_dispatch(req[s]) : d.fingerprint # Fingerprint(req[s])
    BY DEF AnswersAreConsistent, find_dispatch
  <2>1. CASE s = r
    BY <2>1 DEF Answer, Refused, IdempotencyInv, Control
  <2>2. CASE s # r
    BY <2>2 DEF Answer, IdempotencyInv, Control, AnswersAreConsistent
  <2>3. QED
    BY <2>1, <2>2
<1>5. QED
  BY <1>2, <1>3, <1>4 DEF IdempotencyInv

\* Answering from an existing row of the caller's key keeps the invariant.
LEMMA Replays ==
  ASSUME IdempotencyInv, NEW r \in Call, NEW d \in find_dispatch(req[r]),
         Answer(r, replay_or_conflict(d, req[r])), UNCHANGED <<dispatches, messages, req>>
  PROVE  IdempotencyInv'
<1>1. replay_or_conflict(d, req[r]) \in Response
  BY DEF IdempotencyInv, Control, find_dispatch, replay_or_conflict, Accepted, Refused, Response
<1>2. Control'
  BY <1>1 DEF IdempotencyInv, Control, Goto, Answer, PC
<1>3. OneOperationPerKey' /\ MessagesOwnedByOperations'
  BY DEF IdempotencyInv, OneOperationPerKey, MessagesOwnedByOperations
<1>4. AnswersAreConsistent'
  <2> SUFFICES ASSUME NEW s \in Call
               PROVE  /\ answer'[s].code = "accepted" =>
                           \E e \in dispatches :
                             /\ e.ref = answer'[s].ref
                             /\ e.org = req[s].org /\ e.key = req[s].key
                             /\ e.fingerprint = Fingerprint(req[s])
                      /\ answer'[s].code = "key_conflict" =>
                           \E e \in find_dispatch(req[s]) : e.fingerprint # Fingerprint(req[s])
    BY DEF AnswersAreConsistent, find_dispatch
  <2>1. CASE s = r /\ d.fingerprint = Fingerprint(req[r])
    <3>1. answer'[s] = Accepted(d)
      BY <2>1 DEF Answer, IdempotencyInv, Control, replay_or_conflict
    <3>2. QED
      BY <2>1, <3>1 DEF Accepted, find_dispatch
  <2>2. CASE s = r /\ d.fingerprint # Fingerprint(req[r])
    <3>1. answer'[s] = Refused("key_conflict")
      BY <2>2 DEF Answer, IdempotencyInv, Control, replay_or_conflict
    <3>2. QED
      BY <2>2, <3>1 DEF Refused
  <2>3. CASE s # r
    BY <2>3 DEF Answer, IdempotencyInv, Control, AnswersAreConsistent
  <2>4. QED
    BY <2>1, <2>2, <2>3
<1>5. QED
  BY <1>2, <1>3, <1>4 DEF IdempotencyInv

\* The final commit, answered or not, keeps the invariant: the key was free, so no
\* earlier answer speaks of it, and the Message arrives with its operation.
LEMMA Commits ==
  ASSUME IdempotencyInv, NEW r \in Call, CommitDispatch(r), UNCHANGED req,
         \/ Answer(r, Accepted(NewDispatch(r)))
         \/ Answer(r, Refused("error"))
  PROVE  IdempotencyInv'
<1> DEFINE new == NewDispatch(r)
<1>1. /\ dispatches' = dispatches \cup {new}
      /\ messages' = messages \cup NewMessages(r)
      /\ \A d \in dispatches : ~(d.org = req[r].org /\ d.key = req[r].key)
  BY DEF CommitDispatch, KeyIsFree, find_dispatch
<1>2. /\ new.ref = r /\ new.org = req[r].org /\ new.key = req[r].key
      /\ new.fingerprint = Fingerprint(req[r])
      /\ new.contact = cont[r]
      /\ new.message = IF req[r].route = "exact" THEN r ELSE Null
  BY DEF NewDispatch
<1>3. Control'
  <2>1. Accepted(new) \in Response /\ Refused("error") \in Response
    BY <1>2 DEF Accepted, Refused, Response
  <2>2. QED
    BY <2>1, <1>1, <1>2 DEF IdempotencyInv, Control, Goto, Answer, PC
<1>4. OneOperationPerKey'
  BY <1>1, <1>2 DEF IdempotencyInv, OneOperationPerKey
<1>5. AnswersAreConsistent'
  <2> SUFFICES ASSUME NEW s \in Call
               PROVE  /\ answer'[s].code = "accepted" =>
                           \E e \in dispatches' :
                             /\ e.ref = answer'[s].ref
                             /\ e.org = req[s].org /\ e.key = req[s].key
                             /\ e.fingerprint = Fingerprint(req[s])
                      /\ answer'[s].code = "key_conflict" =>
                           \E e \in dispatches' :
                             /\ e.org = req[s].org /\ e.key = req[s].key
                             /\ e.fingerprint # Fingerprint(req[s])
    BY DEF AnswersAreConsistent, find_dispatch
  <2>1. CASE s = r
    <3>1. answer'[s] = Accepted(new) \/ answer'[s] = Refused("error")
      BY <2>1 DEF Answer, IdempotencyInv, Control
    <3>2. QED
      BY <2>1, <3>1, <1>1, <1>2 DEF Accepted, Refused
  <2>2. CASE s # r
    <3>1. answer'[s] = answer[s]
      BY <2>2 DEF Answer, IdempotencyInv, Control
    <3>2. QED
      BY <3>1, <1>1 DEF IdempotencyInv, AnswersAreConsistent, find_dispatch
  <2>3. QED
    BY <2>1, <2>2
<1>6. MessagesOwnedByOperations'
  <2>1. ASSUME NEW m \in messages'
        PROVE  \E d \in dispatches' : d.message = m.id /\ d.contact = m.contact
    <3>1. CASE m \in messages
      BY <3>1, <1>1 DEF IdempotencyInv, MessagesOwnedByOperations
    <3>2. CASE m \in NewMessages(r)
      BY <3>2, <1>1, <1>2 DEF NewMessages
    <3>3. QED
      BY <2>1, <3>1, <3>2, <1>1
  <2>2. ASSUME NEW d \in dispatches', d.fingerprint.kind = "exact"
        PROVE  \E m \in messages' : m.id = d.message /\ m.content = d.fingerprint.content
    <3>1. CASE d \in dispatches
      BY <2>2, <3>1, <1>1 DEF IdempotencyInv, MessagesOwnedByOperations
    <3>2. CASE d = new
      <4>1. req[r].route = "exact"
        <5>1. Fingerprint(req[r]).kind = "exact"
          BY <2>2, <3>2, <1>2
        <5>2. req[r].route # "exact" => Fingerprint(req[r]).kind = "generated"
          BY DEF Fingerprint
        <5>3. QED
          BY <5>1, <5>2
      <4>2. d.fingerprint.content = req[r].content
        BY <4>1, <3>2, <1>2 DEF Fingerprint
      <4>3. d.message = r
        BY <4>1, <3>2, <1>2
      <4>4. [id |-> r, contact |-> cont[r], content |-> req[r].content] \in messages'
        BY <4>1, <1>1 DEF NewMessages
      <4>5. QED
        BY <4>2, <4>3, <4>4
    <3>3. QED
      BY <2>2, <3>1, <3>2, <1>1
  <2>3. QED
    BY <2>1, <2>2 DEF MessagesOwnedByOperations
<1>7. QED
  BY <1>3, <1>4, <1>5, <1>6 DEF IdempotencyInv

\* Every step keeps the invariant: one case per action of the handlers, and the rest
\* of the system touches neither operations nor calls.
LEMMA IdempotencyStep == IdempotencyInv /\ [Next]_vars => IdempotencyInv'
<1> SUFFICES ASSUME IdempotencyInv, [Next]_vars PROVE IdempotencyInv'
  OBVIOUS
<1> USE DEF rows, deployment, resolved
<1>1. ASSUME UNCHANGED <<dispatches, messages, pc, req, answer>> PROVE IdempotencyInv'
  BY <1>1 DEF IdempotencyInv, Control, OneOperationPerKey, AnswersAreConsistent, find_dispatch,
              MessagesOwnedByOperations
<1>2. ASSUME NEW r \in Call, Start(r) PROVE IdempotencyInv'
  <2>1. Control'
    BY <1>2 DEF Start, Goto, IdempotencyInv, Control, PC
  <2>2. OneOperationPerKey' /\ MessagesOwnedByOperations'
    BY <1>2 DEF Start, IdempotencyInv, OneOperationPerKey, MessagesOwnedByOperations
  <2>3. AnswersAreConsistent'
    <3>1. answer[r] = Pending
      BY <1>2 DEF Start, IdempotencyInv, Control
    <3>2. ASSUME NEW s \in Call, s # r PROVE req'[s] = req[s]
      BY <1>2, <3>2 DEF Start, IdempotencyInv, Control
    <3>3. QED
      BY <1>2, <3>1, <3>2 DEF Start, Pending, IdempotencyInv, AnswersAreConsistent, find_dispatch
  <2>4. QED
    BY <2>1, <2>2, <2>3 DEF IdempotencyInv
<1>3. ASSUME NEW r \in Call, Replay(r) \/ Reread(r) PROVE IdempotencyInv'
  BY <1>3, Replays DEF Replay, Reread
<1>4. ASSUME NEW r \in Call, NewKey(r) PROVE IdempotencyInv'
  <2>1. PICK l \in {"mailbox", "parent"} : Goto(r, l)
    BY <1>4 DEF NewKey
  <2>2. QED
    BY <1>4, <2>1, Moves DEF NewKey, PC
<1>5. ASSUME NEW r \in Call, resolve_reply_parent(r) PROVE IdempotencyInv'
  <2>1. \/ Answer(r, Refused("not_found"))
        \/ Answer(r, Refused("refused"))
        \/ Goto(r, "mailbox") /\ UNCHANGED answer
    BY <1>5 DEF resolve_reply_parent
  <2>2. QED
    BY <1>5, <2>1, Moves, Refusals DEF resolve_reply_parent, PC
<1>6. ASSUME NEW r \in Call, resolve_sole_active_mailbox(r) PROVE IdempotencyInv'
  <2>1. \/ Answer(r, Refused("refused"))
        \/ Goto(r, "campaign") /\ UNCHANGED answer
        \/ Goto(r, "commit") /\ UNCHANGED answer
    BY <1>6 DEF resolve_sole_active_mailbox
  <2>2. QED
    BY <1>6, <2>1, Moves, Refusals DEF resolve_sole_active_mailbox, PC
<1>7. ASSUME NEW r \in Call, FindCampaign(r) PROVE IdempotencyInv'
  <2>1. \/ Answer(r, Refused("unconfigured"))
        \/ Goto(r, "contact") /\ UNCHANGED answer
        \/ Goto(r, "insert_campaign") /\ UNCHANGED answer
    BY <1>7 DEF FindCampaign, UseCampaign
  <2>2. QED
    BY <1>7, <2>1, Moves, Refusals DEF FindCampaign, PC
<1>8. ASSUME NEW r \in Call, InsertCampaign(r) PROVE IdempotencyInv'
  BY <1>8, Moves DEF InsertCampaign, UseCampaign, PC
<1>9. ASSUME NEW r \in Call, FindContact(r) PROVE IdempotencyInv'
  <2>1. \/ Answer(r, Refused("refused"))
        \/ Goto(r, "commit") /\ UNCHANGED answer
        \/ Goto(r, "insert_contact") /\ UNCHANGED answer
    BY <1>9 DEF FindContact, UseContact
  <2>2. QED
    BY <1>9, <2>1, Moves, Refusals DEF FindContact, PC
<1>10. ASSUME NEW r \in Call, InsertContact(r) PROVE IdempotencyInv'
  <2>1. \/ Answer(r, Refused("refused"))
        \/ Goto(r, "commit") /\ UNCHANGED answer
    BY <1>10 DEF InsertContact, UseContact
  <2>2. QED
    BY <1>10, <2>1, Moves, Refusals DEF InsertContact, PC
<1>11. ASSUME NEW r \in Call, Commit(r) \/ LoseAnswer(r) PROVE IdempotencyInv'
  BY <1>11, Commits DEF Commit, LoseAnswer
<1>12. ASSUME NEW r \in Call, LoseKeyRace(r) PROVE IdempotencyInv'
  BY <1>12, Moves DEF LoseKeyRace, RollbackDispatch, PC
<1>13. ASSUME NEW r \in Call, Fail(r) PROVE IdempotencyInv'
  BY <1>13, Refusals DEF Fail
<1>14. CASE Others
  BY <1>14, <1>1 DEF Others, SetMailbox, Reconfigure, StoreReply, pause_contact
<1>15. CASE UNCHANGED vars
  BY <1>15, <1>1 DEF vars
<1>16. QED
  BY <1>2, <1>3, <1>4, <1>5, <1>6, <1>7, <1>8, <1>9, <1>10, <1>11, <1>12, <1>13, <1>14, <1>15
     DEF Next, Handler

\* The inductive invariant holds in every reachable state of the acceptance handlers.
THEOREM IdempotencyInvariance == Spec => []IdempotencyInv
  BY InitiallyIdempotent, IdempotencyStep, PTL DEF Spec

-----------------------------------------------------------------------------
\* Both POST handlers together create at most one ExternalDispatch per organization
\* and idempotency_key, for any number of concurrent, failing and retried requests.
THEOREM AcceptanceIsIdempotent == Spec => []OneOperationPerKey
<1>1. IdempotencyInv => OneOperationPerKey
  BY DEF IdempotencyInv
<1>2. QED
  BY <1>1, IdempotencyInvariance, PTL

\* A 202 names the caller's own operation with the caller's own fingerprint, and a key
\* conflict is reported only for a key taken by another request.
THEOREM AnswersNeverLie == Spec => []AnswersAreConsistent
<1>1. IdempotencyInv => AnswersAreConsistent
  BY DEF IdempotencyInv
<1>2. QED
  BY <1>1, IdempotencyInvariance, PTL

\* No request, however it ends, leaves a Message that no operation owns, and every
\* exact-message operation has its Message with the authorized content.
THEOREM NoOrphanMessages == Spec => []MessagesOwnedByOperations
<1>1. IdempotencyInv => MessagesOwnedByOperations
  BY DEF IdempotencyInv
<1>2. QED
  BY <1>1, IdempotencyInvariance, PTL

-----------------------------------------------------------------------------
(* What an operation is wired to.  WiredToTenant speaks of rows that five   *)
(* earlier statements of the call looked up or inserted, each in its own    *)
(* transaction, so the invariant carries what every call has resolved up to *)
(* its commit.                                                              *)

IsIntegrationCampaign(id, org) ==
  \E c \in campaigns : c.id = id /\ c.org = org /\ c.source = "leadboost"
IsContactAt(id, campaign, email) ==
  \E c \in contacts : c.id = id /\ c.campaign = campaign /\ c.email = email

\* The only schedules on integration contacts are those an earlier release left, and a
\* pause clears them.
FollowupsPredate == followup \subseteq ExistingRow

\* The two unique indexes that make concurrent first uses converge.
RowsConverge ==
  /\ \A c, k \in campaigns :
       c.org = k.org /\ c.source = "leadboost" /\ k.source = "leadboost" => c = k
  /\ \A c, k \in contacts : c.campaign = k.campaign /\ c.email = k.email => c = k

\* The contact of call r is the recipient's, in the campaign of r's tenant, and free
\* of a schedule.
RecipientResolved(r) ==
  /\ IsIntegrationCampaign(camp[r], req[r].org)
  /\ IsContactAt(cont[r], camp[r], req[r].email)
  /\ cont[r] \notin followup

\* What call r may rely on at each of its statements.
Resolved(r) ==
  /\ pc[r] # "new" => req[r] \in Request
  /\ pc[r] \in {"campaign", "insert_campaign", "contact", "insert_contact", "commit"} =>
       mbox[r] \in Mailbox /\ MailboxOrg[mbox[r]] = req[r].org
  /\ pc[r] \in {"contact", "insert_contact"} => IsIntegrationCampaign(camp[r], req[r].org)
  /\ pc[r] = "commit" => RecipientResolved(r)
  /\ pc[r] = "mailbox" /\ req[r].parent # Null => RecipientResolved(r)

WiringInv ==
  /\ TypeOK
  /\ FollowupsPredate
  /\ RowsConverge
  /\ \A r \in Call : Resolved(r)
  /\ WiredToTenant

\* The rows of the deployment are wired by assumption, and no operation exists yet.
LEMMA InitiallyWired == Init => WiringInv
<1> SUFFICES ASSUME Init PROVE WiringInv
  OBVIOUS
<1>1. TypeOK
  BY RowAssumption, ExistingRowsAssumption
     DEF Init, TypeOK, Row, Campaign, Contact, PC, Response, Pending
<1>2. FollowupsPredate
  BY ExistingRowsAssumption DEF Init, FollowupsPredate
<1>3. RowsConverge
  BY ExistingRowsAssumption DEF Init, RowsConverge
<1>4. (\A r \in Call : Resolved(r)) /\ WiredToTenant
  BY DEF Init, Resolved, WiredToTenant
<1>5. QED
  BY <1>1, <1>2, <1>3, <1>4 DEF WiringInv

\* A call that did not move keeps what it has resolved: rows are only added, and
\* schedules only removed.
LEMMA OthersKeepTheirRows ==
  ASSUME NEW s \in Call, Resolved(s),
         campaigns \subseteq campaigns', contacts \subseteq contacts', followup' \subseteq followup,
         pc'[s] = pc[s], req'[s] = req[s], camp'[s] = camp[s], cont'[s] = cont[s],
         mbox'[s] = mbox[s]
  PROVE  Resolved(s)'
<1>1. IsIntegrationCampaign(camp[s], req[s].org) => IsIntegrationCampaign(camp[s], req[s].org)'
  BY DEF IsIntegrationCampaign
<1>2. RecipientResolved(s) => RecipientResolved(s)'
  BY DEF RecipientResolved, IsIntegrationCampaign, IsContactAt
<1>3. QED
  BY <1>1, <1>2 DEF Resolved

\* Wiring survives every step that creates no operation.
LEMMA WiringOfOldOperations ==
  ASSUME WiredToTenant, UNCHANGED dispatches,
         campaigns \subseteq campaigns', contacts \subseteq contacts'
  PROVE  WiredToTenant'
  BY DEF WiredToTenant

\* A step of one call that inserts nothing.
LEMMA CallSteps ==
  ASSUME WiringInv, NEW r \in Call, UNCHANGED rows, UNCHANGED deployment,
         \A s \in Call \ {r} : /\ pc'[s] = pc[s] /\ req'[s] = req[s] /\ camp'[s] = camp[s]
                               /\ cont'[s] = cont[s] /\ mbox'[s] = mbox[s],
         Resolved(r)', TypeOK'
  PROVE  WiringInv'
<1>1. FollowupsPredate' /\ RowsConverge'
  BY DEF WiringInv, FollowupsPredate, RowsConverge, rows
<1>2. WiredToTenant'
  BY WiringOfOldOperations DEF WiringInv, rows
<1>3. \A s \in Call : Resolved(s)'
  BY OthersKeepTheirRows DEF WiringInv, rows
<1>4. QED
  BY <1>1, <1>2, <1>3 DEF WiringInv

\* A call that ends with an answer and no row keeps the invariant.
LEMMA AnswersKeepWiring ==
  ASSUME WiringInv, NEW r \in Call, NEW a \in Response, Answer(r, a), pc[r] # "new",
         UNCHANGED <<rows, deployment, req, resolved>>
  PROVE  WiringInv'
<1>1. TypeOK'
  BY DEF WiringInv, TypeOK, Answer, Goto, PC, rows, deployment, resolved
<1>2. Resolved(r)'
  BY DEF WiringInv, TypeOK, Answer, Goto, Resolved, rows, resolved
<1>3. QED
  BY <1>1, <1>2, CallSteps DEF WiringInv, TypeOK, Answer, Goto, resolved

\* A call that moves on after reading.
LEMMA MovesKeepWiring ==
  ASSUME WiringInv, NEW r \in Call, NEW l \in PC, Goto(r, l),
         UNCHANGED <<rows, deployment, req, resolved, answer>>, Resolved(r)'
  PROVE  WiringInv'
<1>1. TypeOK'
  BY DEF WiringInv, TypeOK, Goto, rows, deployment, resolved
<1>2. QED
  BY <1>1, CallSteps DEF WiringInv, TypeOK, Goto, resolved


\* The lookups of a reply's parent, of the mailbox, of the campaign and of the contact.
LEMMA LookupsKeepWiring ==
  ASSUME WiringInv, NEW r \in Call,
         \/ Start(r) \/ NewKey(r) \/ resolve_reply_parent(r) \/ resolve_sole_active_mailbox(r)
         \/ FindCampaign(r) \/ FindContact(r)
  PROVE  WiringInv'
<1> USE DEF rows, deployment, resolved
<1>0. Refused("refused") \in Response /\ Refused("not_found") \in Response
      /\ Refused("unconfigured") \in Response
  BY DEF Refused, Response
<1>r. Resolved(r) /\ TypeOK
  BY DEF WiringInv
<1>1. ASSUME Start(r) PROVE WiringInv'
  <2>1. PICK q \in Request : req' = [req EXCEPT ![r] = q]
    BY <1>1 DEF Start
  <2>2. TypeOK'
    BY <1>1, <1>r, <2>1 DEF Start, Goto, TypeOK, PC
  <2>3. Resolved(r)'
    BY <1>1, <1>r, <2>1 DEF Start, Goto, TypeOK, Resolved
  <2>4. QED
    BY <1>1, <1>r, <2>2, <2>3, CallSteps DEF Start, Goto, TypeOK
<1>2. ASSUME NewKey(r) PROVE WiringInv'
  <2>1. PICK l \in {"mailbox", "parent"} :
          Goto(r, l) /\ (l = "mailbox" => req[r].parent = Null)
    BY <1>2 DEF NewKey
  <2>2. Resolved(r)'
    BY <1>2, <1>r, <2>1 DEF NewKey, Goto, TypeOK, Resolved
  <2>3. QED
    BY <1>2, <2>1, <2>2, MovesKeepWiring DEF NewKey, PC
<1>3. ASSUME resolve_reply_parent(r) PROVE WiringInv'
  <2>1. CASE Answer(r, Refused("not_found")) /\ UNCHANGED <<camp, cont>>
    BY <1>0, <1>3, <2>1, AnswersKeepWiring DEF resolve_reply_parent
  <2>2. CASE Answer(r, Refused("refused")) /\ UNCHANGED <<camp, cont>>
    BY <1>0, <1>3, <2>2, AnswersKeepWiring DEF resolve_reply_parent
  <2>3. ASSUME NEW pair \in ReplyParent(req[r]), Answerable(req[r], pair[1], pair[2]),
               cont' = [cont EXCEPT ![r] = pair[1].id],
               camp' = [camp EXCEPT ![r] = pair[2].id],
               Goto(r, "mailbox"), UNCHANGED answer
        PROVE  WiringInv'
    <3>1. /\ pair[1] \in contacts /\ pair[2] \in campaigns
          /\ pair[1].campaign = pair[2].id /\ pair[2].org = req[r].org
      BY <2>3 DEF ReplyParent
    <3>2. /\ pair[2].source = "leadboost" /\ pair[1].email = req[r].email
          /\ pair[1].id \notin followup
      BY <2>3 DEF Answerable, reject_if_contact_has_active_followup
    <3>3. TypeOK'
      BY <1>3, <1>r, <2>3, <3>1
         DEF resolve_reply_parent, TypeOK, Goto, PC, Contact, Campaign
    <3>4. camp'[r] = pair[2].id /\ cont'[r] = pair[1].id /\ pc'[r] = "mailbox"
      BY <1>r, <2>3 DEF TypeOK, Goto
    <3>5. RecipientResolved(r)'
      BY <1>3, <3>1, <3>2, <3>4
         DEF resolve_reply_parent, RecipientResolved, IsIntegrationCampaign, IsContactAt
    <3>6. Resolved(r)'
      BY <1>3, <1>r, <3>4, <3>5 DEF resolve_reply_parent, Resolved
    <3>7. QED
      BY <1>3, <1>r, <2>3, <3>3, <3>6, CallSteps DEF resolve_reply_parent, TypeOK, Goto
  <2>4. QED
    BY <1>3, <2>1, <2>2, <2>3 DEF resolve_reply_parent
<1>4. ASSUME resolve_sole_active_mailbox(r) PROVE WiringInv'
  <2>1. CASE Answer(r, Refused("refused")) /\ UNCHANGED mbox
    BY <1>0, <1>4, <2>1, AnswersKeepWiring DEF resolve_sole_active_mailbox
  <2>2. ASSUME NEW m \in Mailbox, ActiveOf(req[r].org) = {m},
               mbox' = [mbox EXCEPT ![r] = m],
               Goto(r, IF req[r].parent = Null THEN "campaign" ELSE "commit"),
               UNCHANGED answer
        PROVE  WiringInv'
    <3>1. MailboxOrg[m] = req[r].org
      BY <2>2 DEF ActiveOf
    <3>2. TypeOK'
      BY <1>4, <1>r, <2>2 DEF resolve_sole_active_mailbox, TypeOK, Goto, PC
    <3>3. /\ mbox'[r] = m
          /\ \/ pc'[r] = "campaign"
             \/ pc'[r] = "commit" /\ req[r].parent # Null
      BY <1>r, <2>2 DEF TypeOK, Goto
    <3>4. RecipientResolved(r) => RecipientResolved(r)'
      BY <1>4 DEF resolve_sole_active_mailbox, RecipientResolved, IsIntegrationCampaign,
                  IsContactAt
    <3>5. Resolved(r)'
      BY <1>4, <1>r, <3>1, <3>3, <3>4 DEF resolve_sole_active_mailbox, Resolved
    <3>6. QED
      BY <1>4, <1>r, <2>2, <3>2, <3>5, CallSteps DEF resolve_sole_active_mailbox, TypeOK, Goto
  <2>3. QED
    BY <1>4, <2>1, <2>2 DEF resolve_sole_active_mailbox
<1>5. ASSUME FindCampaign(r) PROVE WiringInv'
  <2>1. CASE Answer(r, Refused("unconfigured")) /\ UNCHANGED camp
    BY <1>0, <1>5, <2>1, AnswersKeepWiring DEF FindCampaign
  <2>2. CASE Goto(r, "insert_campaign") /\ UNCHANGED <<camp, answer>>
    <3>1. Resolved(r)'
      BY <1>5, <1>r, <2>2 DEF FindCampaign, Goto, TypeOK, Resolved
    <3>2. QED
      BY <1>5, <2>2, <3>1, MovesKeepWiring DEF FindCampaign, PC
  <2>3. ASSUME NEW c \in IntegrationCampaigns(req[r].org), UseCampaign(r, c), UNCHANGED answer
        PROVE  WiringInv'
    <3>1. c \in campaigns /\ c.org = req[r].org /\ c.source = "leadboost"
      BY <2>3 DEF IntegrationCampaigns
    <3>2. TypeOK'
      BY <1>5, <1>r, <2>3, <3>1 DEF FindCampaign, UseCampaign, TypeOK, Goto, PC, Campaign
    <3>3. camp'[r] = c.id /\ pc'[r] = "contact"
      BY <1>r, <2>3 DEF TypeOK, UseCampaign, Goto
    <3>4. Resolved(r)'
      BY <1>5, <1>r, <3>1, <3>3 DEF FindCampaign, Resolved, IsIntegrationCampaign
    <3>5. QED
      BY <1>5, <1>r, <2>3, <3>2, <3>4, CallSteps DEF FindCampaign, UseCampaign, TypeOK, Goto
  <2>4. QED
    BY <1>5, <2>1, <2>2, <2>3 DEF FindCampaign
<1>6. ASSUME FindContact(r) PROVE WiringInv'
  <2>1. CASE Answer(r, Refused("refused")) /\ UNCHANGED cont
    BY <1>0, <1>6, <2>1, AnswersKeepWiring DEF FindContact
  <2>2. CASE Goto(r, "insert_contact") /\ UNCHANGED <<cont, answer>>
    <3>1. Resolved(r)'
      BY <1>6, <1>r, <2>2 DEF FindContact, Goto, TypeOK, Resolved, IsIntegrationCampaign
    <3>2. QED
      BY <1>6, <2>2, <3>1, MovesKeepWiring DEF FindContact, PC
  <2>3. ASSUME NEW c \in ContactsAt(camp[r], req[r].email), c.id \notin followup,
               cont' = [cont EXCEPT ![r] = c.id], Goto(r, "commit"), UNCHANGED answer
        PROVE  WiringInv'
    <3>1. c \in contacts /\ c.campaign = camp[r] /\ c.email = req[r].email
      BY <2>3 DEF ContactsAt
    <3>2. TypeOK'
      BY <1>6, <1>r, <2>3, <3>1 DEF FindContact, TypeOK, Goto, PC, Contact
    <3>3. cont'[r] = c.id /\ pc'[r] = "commit"
      BY <1>r, <2>3 DEF TypeOK, Goto
    <3>4. RecipientResolved(r)'
      BY <1>6, <1>r, <2>3, <3>1, <3>3
         DEF FindContact, Resolved, RecipientResolved, IsIntegrationCampaign, IsContactAt
    <3>5. Resolved(r)'
      BY <1>6, <1>r, <3>3, <3>4 DEF FindContact, Resolved
    <3>6. QED
      BY <1>6, <1>r, <2>3, <3>2, <3>5, CallSteps DEF FindContact, TypeOK, Goto
  <2>4. QED
    BY <1>6, <2>1, <2>2, <2>3
       DEF FindContact, UseContact, reject_if_contact_has_active_followup
<1>7. QED
  BY <1>1, <1>2, <1>3, <1>4, <1>5, <1>6


\* The first use of the integration by a tenant: the unique index decides the race.
LEMMA InsertCampaignKeepsWiring ==
  ASSUME WiringInv, NEW r \in Call, InsertCampaign(r)
  PROVE  WiringInv'
<1> USE DEF deployment
<1> DEFINE new == [id |-> r, org |-> req[r].org, source |-> "leadboost"]
<1>r. Resolved(r) /\ TypeOK /\ req[r] \in Request /\ pc[r] = "insert_campaign"
  BY DEF WiringInv, Resolved, InsertCampaign
<1>1. PICK c \in campaigns' :
        /\ UseCampaign(r, c) /\ c.org = req[r].org /\ c.source = "leadboost"
        /\ c.id \in Row
        /\ \/ campaigns' = campaigns
           \/ campaigns' = campaigns \cup {new} /\ CampaignIsFree(req[r].org)
  <2>1. CASE CampaignIsFree(req[r].org)
    BY <2>1 DEF InsertCampaign, Row
  <2>2. CASE ~CampaignIsFree(req[r].org)
    BY <1>r, <2>2 DEF InsertCampaign, IntegrationCampaigns, TypeOK, Campaign
  <2>3. QED
    BY <2>1, <2>2
<1>2. campaigns \subseteq campaigns' /\ UNCHANGED <<contacts, followup, inbound, messages,
        dispatches, active, configured, req, cont, mbox, answer>>
  BY <1>1 DEF InsertCampaign
<1>3. new \in Campaign
  BY <1>r, RequestAssumption DEF Campaign, Row
<1>4. TypeOK'
  <2>1. campaigns' \in SUBSET Campaign
    BY <1>1, <1>3, <1>r DEF TypeOK
  <2>2. pc' \in [Call -> PC] /\ camp' \in [Call -> Row \cup {Null}]
    BY <1>1, <1>r DEF TypeOK, UseCampaign, Goto, PC
  <2>3. QED
    BY <1>2, <1>r, <2>1, <2>2 DEF TypeOK
<1>5. RowsConverge'
  BY <1>1, <1>2 DEF WiringInv, RowsConverge, CampaignIsFree, IntegrationCampaigns
<1>6. Resolved(r)'
  <2>1. camp'[r] = c.id /\ pc'[r] = "contact"
    BY <1>1, <1>r DEF TypeOK, UseCampaign, Goto
  <2>2. QED
    BY <1>1, <1>2, <1>r, <2>1 DEF Resolved, IsIntegrationCampaign
<1>7. ASSUME NEW s \in Call, s # r PROVE Resolved(s)'
  BY <1>1, <1>2, <1>r, <1>7, OthersKeepTheirRows DEF WiringInv, TypeOK, UseCampaign, Goto
<1>8. FollowupsPredate' /\ WiredToTenant'
  BY <1>2, WiringOfOldOperations DEF WiringInv, FollowupsPredate
<1>9. QED
  BY <1>4, <1>5, <1>6, <1>7, <1>8 DEF WiringInv

\* The first message to a recipient: the unique index decides the race, and the new
\* contact carries no schedule.
LEMMA InsertContactKeepsWiring ==
  ASSUME WiringInv, NEW r \in Call, InsertContact(r)
  PROVE  WiringInv'
<1> USE DEF deployment
<1> DEFINE new == [id |-> r, campaign |-> camp[r], email |-> req[r].email]
<1>r. Resolved(r) /\ TypeOK /\ req[r] \in Request /\ pc[r] = "insert_contact"
  BY DEF WiringInv, Resolved, InsertContact
<1>0. IsIntegrationCampaign(camp[r], req[r].org) /\ camp[r] \in Row
  <2>1. IsIntegrationCampaign(camp[r], req[r].org)
    BY <1>r DEF Resolved
  <2>2. QED
    BY <1>r, <2>1 DEF IsIntegrationCampaign, TypeOK, Campaign
<1>1. CASE Answer(r, Refused("refused")) /\ UNCHANGED <<cont, contacts>>
  <2>1. Refused("refused") \in Response
    BY DEF Refused, Response
  <2>2. QED
    BY <1>1, <2>1, <1>r, AnswersKeepWiring DEF InsertContact, rows, resolved
<1>2. ASSUME NEW c \in contacts', cont' = [cont EXCEPT ![r] = c.id], Goto(r, "commit"),
             c.campaign = camp[r], c.email = req[r].email, c.id \in Row, c.id \notin followup,
             UNCHANGED answer,
             \/ contacts' = contacts
             \/ contacts' = contacts \cup {new} /\ ContactIsFree(camp[r], req[r].email)
      PROVE  WiringInv'
  <2>1. contacts \subseteq contacts' /\ UNCHANGED <<campaigns, followup, inbound, messages,
          dispatches, active, configured, req, camp, mbox, answer>>
    BY <1>2 DEF InsertContact
  <2>2. new \in Contact
    BY <1>0, <1>r, RequestAssumption DEF Contact, Row
  <2>3. TypeOK'
    <3>1. contacts' \in SUBSET Contact
      BY <1>2, <1>r, <2>2 DEF TypeOK
    <3>2. pc' \in [Call -> PC] /\ cont' \in [Call -> Row \cup {Null}]
      BY <1>2, <1>r DEF TypeOK, Goto, PC
    <3>3. QED
      BY <2>1, <1>r, <3>1, <3>2 DEF TypeOK
  <2>4. RowsConverge'
    BY <1>2, <2>1 DEF WiringInv, RowsConverge, ContactIsFree, ContactsAt
  <2>5. Resolved(r)'
    <3>1. cont'[r] = c.id /\ pc'[r] = "commit"
      BY <1>2, <1>r DEF TypeOK, Goto
    <3>2. RecipientResolved(r)'
      BY <1>0, <1>2, <2>1, <3>1 DEF RecipientResolved, IsIntegrationCampaign, IsContactAt
    <3>3. QED
      BY <1>r, <2>1, <3>1, <3>2 DEF Resolved
  <2>6. ASSUME NEW s \in Call, s # r PROVE Resolved(s)'
    BY <1>2, <2>1, <1>r, <2>6, OthersKeepTheirRows DEF WiringInv, TypeOK, Goto
  <2>7. FollowupsPredate' /\ WiredToTenant'
    BY <2>1, WiringOfOldOperations DEF WiringInv, FollowupsPredate
  <2>8. QED
    BY <2>3, <2>4, <2>5, <2>6, <2>7 DEF WiringInv
<1>3. CASE ContactIsFree(camp[r], req[r].email)
  <2>1. r \notin followup
    BY RowAssumption DEF WiringInv, FollowupsPredate
  <2>2. /\ new \in contacts' /\ contacts' = contacts \cup {new}
        /\ cont' = [cont EXCEPT ![r] = new.id] /\ Goto(r, "commit") /\ UNCHANGED answer
    BY <1>3 DEF InsertContact
  <2>3. new.id \in Row /\ new.id \notin followup /\ new.campaign = camp[r]
        /\ new.email = req[r].email
    BY <2>1 DEF Row
  <2>4. QED
    BY <1>2, <1>3, <2>2, <2>3
<1>4. CASE ~ContactIsFree(camp[r], req[r].email)
  <2>1. PICK c \in ContactsAt(camp[r], req[r].email) : UseContact(r, c)
    BY <1>4 DEF InsertContact
  <2>2. UNCHANGED contacts
    BY <1>4 DEF InsertContact
  <2>3. c \in contacts /\ c.campaign = camp[r] /\ c.email = req[r].email /\ c.id \in Row
    BY <1>r, <2>1 DEF ContactsAt, TypeOK, Contact
  <2>4. CASE c.id \in followup
    BY <1>1, <2>1, <2>2, <2>4 DEF UseContact, reject_if_contact_has_active_followup
  <2>5. CASE c.id \notin followup
    BY <1>2, <2>1, <2>2, <2>3, <2>5 DEF UseContact, reject_if_contact_has_active_followup
  <2>6. QED
    BY <2>4, <2>5
<1>5. QED
  BY <1>3, <1>4

\* The operation that call r commits.
LEMMA NewOperation ==
  ASSUME WiringInv, NEW r \in Call, pc[r] = "commit"
  PROVE  /\ NewDispatch(r).ref = r
         /\ NewDispatch(r).org = req[r].org /\ NewDispatch(r).org \in Org
         /\ NewDispatch(r).campaign = camp[r] /\ NewDispatch(r).contact = cont[r]
         /\ NewDispatch(r).mailbox = mbox[r] /\ mbox[r] \in Mailbox
         /\ MailboxOrg[mbox[r]] = req[r].org
         /\ NewDispatch(r).fingerprint.email = req[r].email
         /\ NewDispatch(r).message = IF req[r].route = "exact" THEN r ELSE Null
         /\ RecipientResolved(r)
<1>1. Resolved(r) /\ req[r] \in Request
  BY DEF WiringInv, Resolved
<1>2. Fingerprint(req[r]).email = req[r].email
  BY DEF Fingerprint
<1>3. RecipientResolved(r) /\ mbox[r] \in Mailbox /\ MailboxOrg[mbox[r]] = req[r].org
  BY <1>1 DEF Resolved
<1>4. req[r].org \in Org
  BY <1>1, RequestAssumption
<1>5. QED
  BY <1>2, <1>3, <1>4 DEF NewDispatch

\* The one commit that creates an operation wires it to what the call resolved.
LEMMA CommitsKeepWiring ==
  ASSUME WiringInv, NEW r \in Call, pc[r] = "commit", CommitDispatch(r),
         UNCHANGED <<deployment, req, resolved>>,
         Answer(r, Accepted(NewDispatch(r))) \/ Answer(r, Refused("error"))
  PROVE  WiringInv'
<1> USE DEF deployment, resolved
<1> DEFINE new == NewDispatch(r)
<1>0. TypeOK /\ RowsConverge /\ WiredToTenant
  BY DEF WiringInv
<1>1. /\ new.ref = r
      /\ new.org = req[r].org /\ new.org \in Org
      /\ new.campaign = camp[r] /\ new.contact = cont[r]
      /\ new.mailbox \in Mailbox
      /\ MailboxOrg[new.mailbox] = new.org
      /\ new.fingerprint.email = req[r].email
      /\ new.message = IF req[r].route = "exact" THEN r ELSE Null
      /\ RecipientResolved(r)
  BY NewOperation
<1>2. PICK k \in campaigns : k.id = new.campaign /\ k.org = new.org /\ k.source = "leadboost"
  BY <1>1 DEF RecipientResolved, IsIntegrationCampaign
<1>3. PICK c \in contacts : /\ c.id = new.contact /\ c.campaign = new.campaign
                            /\ c.email = new.fingerprint.email
  BY <1>1 DEF RecipientResolved, IsContactAt
<1>4. /\ dispatches' = dispatches \cup {new} /\ messages' = messages \cup NewMessages(r)
      /\ UNCHANGED <<campaigns, contacts, followup, inbound>>
  BY DEF CommitDispatch
<1>5. TypeOK'
  <2>1. \A m \in messages' : m.id \in Call /\ m.contact \in Row
    <3>1. cont[r] \in Row
      BY <1>0, <1>1, <1>3 DEF TypeOK, Contact
    <3>2. \A m \in NewMessages(r) : m.id = r /\ m.contact = cont[r]
      BY DEF NewMessages
    <3>3. QED
      BY <1>0, <1>4, <3>1, <3>2 DEF TypeOK
  <2>2. new.message \in {m.id : m \in messages'} \cup {Null}
    <3>1. CASE req[r].route = "exact"
      <4>1. PICK m \in NewMessages(r) : m.id = r
        BY <3>1 DEF NewMessages
      <4>2. m \in messages' /\ new.message = m.id
        BY <1>1, <1>4, <3>1, <4>1
      <4>3. QED
        BY <4>2
    <3>2. CASE req[r].route # "exact"
      BY <1>1, <3>2
    <3>3. QED
      BY <3>1, <3>2
  <2>3. \A d \in dispatches' :
          /\ d.ref \in Call /\ d.org \in Org
          /\ d.campaign \in {x.id : x \in campaigns'}
          /\ d.contact \in {x.id : x \in contacts'}
          /\ d.message \in {m.id : m \in messages'} \cup {Null}
          /\ d.mailbox \in Mailbox
    <3>1. ASSUME NEW d \in dispatches
          PROVE  d.message \in {m.id : m \in messages'} \cup {Null}
      BY <1>0, <1>4 DEF TypeOK
    <3>2. QED
      BY <1>0, <1>1, <1>2, <1>3, <1>4, <2>2, <3>1 DEF TypeOK
  <2>4. pc' \in [Call -> PC] /\ answer' \in [Call -> Response]
    BY <1>0, <1>1 DEF TypeOK, Answer, Goto, PC, Accepted, Refused, Response
  <2>5. QED
    BY <1>0, <1>4, <2>1, <2>3, <2>4 DEF TypeOK
<1>6. WiredToTenant'
  <2>1. ASSUME NEW d \in dispatches' PROVE
          /\ MailboxOrg[d.mailbox] = d.org
          /\ \E x \in campaigns : x.id = d.campaign /\ x.org = d.org /\ x.source = "leadboost"
          /\ \E x \in contacts :
               x.id = d.contact /\ x.campaign = d.campaign /\ x.email = d.fingerprint.email
    <3>1. CASE d \in dispatches
      BY <1>0, <3>1 DEF WiredToTenant
    <3>2. CASE d = new
      BY <1>1, <1>2, <1>3, <3>2
    <3>3. QED
      BY <1>4, <3>1, <3>2
  <2>2. ASSUME NEW d \in dispatches', NEW e \in dispatches', d.org = e.org
        PROVE  /\ d.campaign = e.campaign
               /\ d.fingerprint.email = e.fingerprint.email => d.contact = e.contact
    <3>1. d.campaign = e.campaign
      BY <1>0, <2>1, <2>2 DEF RowsConverge
    <3>2. d.fingerprint.email = e.fingerprint.email => d.contact = e.contact
      BY <1>0, <2>1, <2>2, <3>1 DEF RowsConverge
    <3>3. QED
      BY <3>1, <3>2
  <2>3. QED
    BY <1>4, <2>1, <2>2 DEF WiredToTenant
<1>7. \A s \in Call : Resolved(s)'
  <2>1. Resolved(r)'
    BY <1>0 DEF WiringInv, TypeOK, Answer, Goto, Resolved
  <2>2. ASSUME NEW s \in Call, s # r PROVE Resolved(s)'
    BY <1>0, <1>4, <2>2, OthersKeepTheirRows DEF WiringInv, TypeOK, Answer, Goto
  <2>3. QED
    BY <2>1, <2>2
<1>8. FollowupsPredate' /\ RowsConverge'
  BY <1>0, <1>4 DEF WiringInv, FollowupsPredate, RowsConverge
<1>9. QED
  BY <1>5, <1>6, <1>7, <1>8 DEF WiringInv

\* Every step keeps the invariant: one case per action.
LEMMA WiringStep == WiringInv /\ [Next]_vars => WiringInv'
<1> SUFFICES ASSUME WiringInv, [Next]_vars PROVE WiringInv'
  OBVIOUS
<1> USE DEF rows, deployment, resolved
<1>0. ASSUME UNCHANGED <<campaigns, contacts, messages, dispatches, pc, req, camp, cont, mbox,
                         answer>>,
             followup' \subseteq followup, inbound' \in SUBSET Reference,
             active' \in SUBSET Mailbox, configured' \in BOOLEAN
      PROVE  WiringInv'
  <2>1. TypeOK'
    BY <1>0 DEF WiringInv, TypeOK
  <2>2. FollowupsPredate' /\ RowsConverge' /\ WiredToTenant'
    BY <1>0, WiringOfOldOperations DEF WiringInv, FollowupsPredate, RowsConverge
  <2>3. \A s \in Call : Resolved(s)'
    BY <1>0, OthersKeepTheirRows DEF WiringInv
  <2>4. QED
    BY <2>1, <2>2, <2>3 DEF WiringInv
<1>1. ASSUME NEW r \in Call, Replay(r) \/ Reread(r) PROVE WiringInv'
  <2>1. PICK d \in find_dispatch(req[r]) : Answer(r, replay_or_conflict(d, req[r]))
    BY <1>1 DEF Replay, Reread
  <2>2. replay_or_conflict(d, req[r]) \in Response
    BY DEF WiringInv, TypeOK, find_dispatch, replay_or_conflict, Accepted, Refused, Response
  <2>3. QED
    BY <1>1, <2>1, <2>2, AnswersKeepWiring DEF Replay, Reread
<1>2. ASSUME NEW r \in Call, Fail(r) PROVE WiringInv'
  <2>1. Refused("error") \in Response
    BY DEF Refused, Response
  <2>2. QED
    BY <1>2, <2>1, AnswersKeepWiring DEF Fail
<1>3. ASSUME NEW r \in Call, LoseKeyRace(r) PROVE WiringInv'
  <2>1. Resolved(r)'
    BY <1>3 DEF LoseKeyRace, RollbackDispatch, Goto, WiringInv, TypeOK, Resolved
  <2>2. QED
    BY <1>3, <2>1, MovesKeepWiring DEF LoseKeyRace, RollbackDispatch, PC
<1>4. ASSUME NEW r \in Call, Commit(r) \/ LoseAnswer(r) PROVE WiringInv'
  BY <1>4, CommitsKeepWiring DEF Commit, LoseAnswer
<1>5. CASE Others
  <2>1. ASSUME NEW m \in Mailbox, SetMailbox(m) PROVE WiringInv'
    BY <2>1, <1>0 DEF SetMailbox, WiringInv, TypeOK
  <2>2. CASE Reconfigure
    BY <2>2, <1>0 DEF Reconfigure, WiringInv, TypeOK
  <2>3. ASSUME NEW ref \in Replies, StoreReply(ref) PROVE WiringInv'
    BY <2>3, <1>0, ExistingRowsAssumption DEF StoreReply, WiringInv, TypeOK
  <2>4. ASSUME NEW c \in Row, pause_contact(c) PROVE WiringInv'
    BY <2>4, <1>0 DEF pause_contact, WiringInv, TypeOK
  <2>5. QED
    BY <1>5, <2>1, <2>2, <2>3, <2>4 DEF Others
<1>6. CASE UNCHANGED vars
  BY <1>6, <1>0 DEF vars, WiringInv, TypeOK
<1>7. QED
  BY <1>1, <1>2, <1>3, <1>4, <1>5, <1>6, LookupsKeepWiring, InsertCampaignKeepsWiring,
     InsertContactKeepsWiring DEF Next, Handler

\* The wiring invariant, and with it the type invariant, holds in every reachable state.
THEOREM WiringInvariance == Spec => []WiringInv
  BY InitiallyWired, WiringStep, PTL DEF Spec

\* Every operation is wired to its own tenant's sole mailbox, integration campaign and
\* recipient, and concurrent first uses of the two POST handlers converge on one
\* campaign per tenant and one contact per recipient, whoever loses the insert races.
THEOREM OperationsAreWiredToTheirTenant == Spec => []WiredToTenant
<1>1. WiringInv => WiredToTenant
  BY DEF WiringInv
<1>2. QED
  BY <1>1, WiringInvariance, PTL

\* No request, whether it found, re-read or created its contact or resolved it from a
\* reply, creates an operation for a contact that carries a native follow-up schedule.
THEOREM FollowupsAreLeftAlone == Spec => NoDispatchIntoFollowup
<1>1. ASSUME WiringInv, [Next]_vars
      PROVE  [\A d \in dispatches' \ dispatches : d.contact \notin followup]_vars
  <2> USE DEF rows, deployment, resolved
  <2>1. ASSUME NEW r \in Call, Commit(r) \/ LoseAnswer(r)
        PROVE  \A d \in dispatches' \ dispatches : d.contact \notin followup
    BY <1>1, <2>1, NewOperation DEF Commit, LoseAnswer, CommitDispatch, RecipientResolved
  <2>2. ASSUME UNCHANGED dispatches
        PROVE  \A d \in dispatches' \ dispatches : d.contact \notin followup
    BY <2>2
  <2>3. CASE Others
    BY <2>2, <2>3 DEF Others, SetMailbox, Reconfigure, StoreReply, pause_contact
  <2>4. ASSUME NEW r \in Call, Handler(r), ~(Commit(r) \/ LoseAnswer(r))
        PROVE  UNCHANGED dispatches
    BY <2>4 DEF Handler, Start, Replay, NewKey, resolve_reply_parent,
                resolve_sole_active_mailbox, FindCampaign, InsertCampaign, FindContact,
                InsertContact, LoseKeyRace, RollbackDispatch, Reread, Fail
  <2>5. QED
    BY <1>1, <2>1, <2>2, <2>3, <2>4 DEF Next
<1>2. QED
  BY <1>1, WiringInvariance, PTL DEF Spec, NoDispatchIntoFollowup

=============================================================================
