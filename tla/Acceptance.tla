----------------------------- MODULE Acceptance -----------------------------
(***************************************************************************)
(* Acceptance of LeadBoost operations by concurrent HTTP requests:         *)
(* POST /integrations/leadboost/outreach-actions (api/integrations.py, the *)
(* exact-message route) and POST /integrations/leadboost/outreach-requests *)
(* (api/integrations_generated.py, the generated route).                   *)
(*                                                                         *)
(* A call is one HTTP request handled by one API thread; a client that got *)
(* no answer retries with another call carrying the same request.  Each    *)
(* step is one query or one commit of the call's session, so calls         *)
(* interleave between their reads and their writes.  A row is named by the *)
(* call that inserted it (uuid4 references and serial ids never collide).  *)
(***************************************************************************)
EXTENDS Naturals, FiniteSets

CONSTANTS Call,               \* HTTP requests
          Request,            \* the validated payloads clients may send
          Org, Email, Mailbox,
          MailboxOrg,         \* Mailbox.organization_id
          Null,
          ExistingRow,        \* ids of rows that predate these calls
          ExistingCampaigns, ExistingContacts,
          ExistingFollowups,  \* contacts an earlier release left with a next_action_at
          Replies             \* the replies that may arrive, a bound on inbound

Row == Call \cup ExistingRow

ASSUME RowAssumption ==
  /\ Call \cap ExistingRow = {}
  /\ Null \notin Row \cup Mailbox
  /\ MailboxOrg \in [Mailbox -> Org]

\* A payload that passed validation names the caller's tenant and an address.
ASSUME RequestAssumption == \A q \in Request : q.org \in Org /\ q.email \in Email

VARIABLES campaigns,   \* Campaign rows
          contacts,    \* Contact rows
          followup,    \* ids of contacts whose next_action_at is set
          inbound,     \* inbound Messages stored through an owned mailbox
          messages,    \* outbound Messages created by acceptance
          dispatches,  \* ExternalDispatch rows
          active,      \* mailboxes whose status is ACTIVE
          configured,  \* LEADBOOST_INTEGRATION_SENDER_EMAIL is set
          pc, req,     \* where each call is, and its payload
          camp, cont, mbox,   \* what the call has resolved so far
          answer       \* what the call returned

rows == <<campaigns, contacts, followup, inbound, messages, dispatches>>
deployment == <<active, configured>>
resolved == <<camp, cont, mbox>>
vars == <<rows, deployment, pc, req, resolved, answer>>

-----------------------------------------------------------------------------
Campaign == [id : Row, org : Org, source : {"leadboost", "native"}]
Contact == [id : Row, campaign : Row, email : Email]

\* An inbound Message is known to clients by its reply_reference.
Reference == [contact : Row, threadable : BOOLEAN]

\* The rows the deployment starts with satisfy the unique indexes.
ASSUME ExistingRowsAssumption ==
  /\ ExistingCampaigns \subseteq [id : ExistingRow, org : Org, source : {"leadboost", "native"}]
  /\ ExistingContacts \subseteq [id : ExistingRow, campaign : ExistingRow, email : Email]
  /\ ExistingFollowups \subseteq {c.id : c \in ExistingContacts}
  /\ Replies \subseteq Reference
  /\ \A c \in ExistingContacts : \E k \in ExistingCampaigns : k.id = c.campaign
  /\ \A c, k \in ExistingCampaigns :
       c.id = k.id \/ (c.org = k.org /\ {c.source, k.source} = {"leadboost"}) => c = k
  /\ \A c, k \in ExistingContacts :
       c.id = k.id \/ (c.campaign = k.campaign /\ c.email = k.email) => c = k

\* SHA-256 of the canonical JSON: equal exactly when the hashed fields are.  The
\* generated route leaves out the context and tags its kind.
Fingerprint(q) ==
  IF q.route = "exact"
    THEN [kind |-> "exact", action |-> q.action, email |-> q.email, content |-> q.content]
    ELSE [kind |-> "generated", action |-> q.action, email |-> q.email, parent |-> q.parent]

Pending == [code |-> "none", ref |-> Null]
Accepted(d) == [code |-> "accepted", ref |-> d.ref]
Refused(code) == [code |-> code, ref |-> Null]

PC == {"new", "lookup", "parent", "mailbox", "campaign", "insert_campaign", "contact",
       "insert_contact", "commit", "reread", "done"}
Response == [code : {"none", "accepted", "key_conflict", "refused", "not_found",
                     "unconfigured", "error"}, ref : Call \cup {Null}]

\* Every variable has its type, and rows refer to rows that exist.
TypeOK ==
  /\ campaigns \in SUBSET Campaign
  /\ contacts \in SUBSET Contact
  /\ followup \in SUBSET Row
  /\ inbound \in SUBSET Reference
  /\ \A m \in messages : m.id \in Call /\ m.contact \in Row
  /\ \A d \in dispatches :
       /\ d.ref \in Call /\ d.org \in Org
       /\ d.campaign \in {c.id : c \in campaigns}
       /\ d.contact \in {c.id : c \in contacts}
       /\ d.message \in {m.id : m \in messages} \cup {Null}
       /\ d.mailbox \in Mailbox
  /\ active \in SUBSET Mailbox
  /\ configured \in BOOLEAN
  /\ pc \in [Call -> PC]
  /\ req \in [Call -> Request \cup {Null}]
  /\ camp \in [Call -> Row \cup {Null}]
  /\ cont \in [Call -> Row \cup {Null}]
  /\ mbox \in [Call -> Mailbox \cup {Null}]
  /\ answer \in [Call -> Response]

Init ==
  /\ campaigns = ExistingCampaigns
  /\ contacts = ExistingContacts
  /\ followup = ExistingFollowups
  /\ inbound = {}
  /\ messages = {}
  /\ dispatches = {}
  /\ active \in SUBSET Mailbox
  /\ configured \in BOOLEAN
  /\ pc = [r \in Call |-> "new"]
  /\ req = [r \in Call |-> Null]
  /\ camp = [r \in Call |-> Null]
  /\ cont = [r \in Call |-> Null]
  /\ mbox = [r \in Call |-> Null]
  /\ answer = [r \in Call |-> Pending]

-----------------------------------------------------------------------------
(* Helpers of the handlers.                                                *)

Goto(r, l) == pc' = [pc EXCEPT ![r] = l]

Answer(r, a) ==
  /\ answer' = [answer EXCEPT ![r] = a]
  /\ Goto(r, "done")

\* The tenant predicate is part of the query.
find_dispatch(q) == {d \in dispatches : d.org = q.org /\ d.key = q.key}

\* A replay that trusts the key alone.
ReplayAnyPayload(d, q) == Accepted(d)

replay_or_conflict(d, q) ==
  IF d.fingerprint = Fingerprint(q) THEN Accepted(d) ELSE Refused("key_conflict")

IntegrationCampaigns(org) == {c \in campaigns : c.org = org /\ c.source = "leadboost"}
ContactsAt(campaign, email) == {c \in contacts : c.campaign = campaign /\ c.email = email}

\* uq_external_dispatches_org_idempotency_key, and a table without it.
NoKeyConstraint(q) == TRUE
KeyIsFree(q) == find_dispatch(q) = {}

\* uq_campaigns_org_integration_source
CampaignIsFree(org) == IntegrationCampaigns(org) = {}

\* uq_contacts_campaign_email
ContactIsFree(campaign, email) == ContactsAt(campaign, email) = {}

\* Reuse of a contact without looking at its schedule.
ReuseAnyContact(c) == FALSE

reject_if_contact_has_active_followup(c) == c.id \in followup

-----------------------------------------------------------------------------
(* The handler, step by step.                                              *)

Start(r) ==
  /\ pc[r] = "new"
  /\ \E q \in Request : req' = [req EXCEPT ![r] = q]
  /\ Goto(r, "lookup")
  /\ UNCHANGED <<rows, deployment, resolved, answer>>

\* The key is known: replay or 409, no mutation.
Replay(r) ==
  /\ pc[r] = "lookup"
  /\ \E d \in find_dispatch(req[r]) : Answer(r, replay_or_conflict(d, req[r]))
  /\ UNCHANGED <<rows, deployment, req, resolved>>

NewKey(r) ==
  /\ pc[r] = "lookup"
  /\ find_dispatch(req[r]) = {}
  /\ Goto(r, IF req[r].parent = Null THEN "mailbox" ELSE "parent")
  /\ UNCHANGED <<rows, deployment, req, resolved, answer>>

\* A lookup of the parent by its reference alone.
ParentOfAnyOrg(q) ==
  {pair \in contacts \X campaigns :
     q.parent \in inbound /\ q.parent.contact = pair[1].id /\ pair[1].campaign = pair[2].id}

\* The stored inbound Message's contact and campaign, under the tenant predicate.
ReplyParent(q) ==
  {pair \in contacts \X campaigns :
     /\ q.parent \in inbound
     /\ q.parent.contact = pair[1].id
     /\ pair[1].campaign = pair[2].id
     /\ pair[2].org = q.org}

\* The checks of _resolve_reply_parent and _reply_parent_snapshot.
Answerable(q, contact, campaign) ==
  /\ campaign.source = "leadboost"
  /\ contact.email = q.email
  /\ ~reject_if_contact_has_active_followup(contact)
  /\ q.parent.threadable

resolve_reply_parent(r) ==
  /\ pc[r] = "parent"
  /\ \/ /\ ReplyParent(req[r]) = {}
        /\ Answer(r, Refused("not_found"))
        /\ UNCHANGED <<camp, cont>>
     \/ \E pair \in ReplyParent(req[r]) :
          IF Answerable(req[r], pair[1], pair[2])
            THEN /\ cont' = [cont EXCEPT ![r] = pair[1].id]
                 /\ camp' = [camp EXCEPT ![r] = pair[2].id]
                 /\ Goto(r, "mailbox")
                 /\ UNCHANGED answer
            ELSE /\ Answer(r, Refused("refused"))
                 /\ UNCHANGED <<camp, cont>>
  /\ UNCHANGED <<rows, deployment, req, mbox>>

ActiveOf(org) == {m \in active : MailboxOrg[m] = org}

\* Exactly one ACTIVE mailbox, or 409 before any row is created.
resolve_sole_active_mailbox(r) ==
  /\ pc[r] = "mailbox"
  /\ \/ \E m \in Mailbox :
          /\ ActiveOf(req[r].org) = {m}
          /\ mbox' = [mbox EXCEPT ![r] = m]
          /\ Goto(r, IF req[r].parent = Null THEN "campaign" ELSE "commit")
          /\ UNCHANGED answer
     \/ /\ Cardinality(ActiveOf(req[r].org)) # 1
        /\ Answer(r, Refused("refused"))
        /\ UNCHANGED mbox
  /\ UNCHANGED <<rows, deployment, req, camp, cont>>

UseCampaign(r, c) ==
  /\ camp' = [camp EXCEPT ![r] = c.id]
  /\ Goto(r, "contact")

\* _get_or_create_integration_campaign: the query.
FindCampaign(r) ==
  /\ pc[r] = "campaign"
  /\ \/ \E c \in IntegrationCampaigns(req[r].org) : UseCampaign(r, c) /\ UNCHANGED answer
     \/ /\ IntegrationCampaigns(req[r].org) = {}
        /\ configured
        /\ Goto(r, "insert_campaign")
        /\ UNCHANGED <<camp, answer>>
     \/ /\ IntegrationCampaigns(req[r].org) = {}
        /\ ~configured
        /\ Answer(r, Refused("unconfigured"))
        /\ UNCHANGED camp
  /\ UNCHANGED <<rows, deployment, req, cont, mbox>>

\* ... its own commit; the loser of the race re-reads the winner's row (rows are
\* never deleted, so the re-read cannot miss it).
InsertCampaign(r) ==
  /\ pc[r] = "insert_campaign"
  /\ LET new == [id |-> r, org |-> req[r].org, source |-> "leadboost"] IN
     \/ /\ CampaignIsFree(req[r].org)
        /\ campaigns' = campaigns \cup {new}
        /\ UseCampaign(r, new)
     \/ /\ ~CampaignIsFree(req[r].org)
        /\ \E c \in IntegrationCampaigns(req[r].org) : UseCampaign(r, c)
        /\ UNCHANGED campaigns
  /\ UNCHANGED <<contacts, followup, inbound, messages, dispatches, deployment, req,
                 cont, mbox, answer>>

UseContact(r, c) ==
  IF reject_if_contact_has_active_followup(c)
    THEN Answer(r, Refused("refused")) /\ UNCHANGED cont
    ELSE cont' = [cont EXCEPT ![r] = c.id] /\ Goto(r, "commit") /\ UNCHANGED answer

\* _get_or_create_integration_contact: the query.
FindContact(r) ==
  /\ pc[r] = "contact"
  /\ \/ \E c \in ContactsAt(camp[r], req[r].email) : UseContact(r, c)
     \/ /\ ContactsAt(camp[r], req[r].email) = {}
        /\ Goto(r, "insert_contact")
        /\ UNCHANGED <<cont, answer>>
  /\ UNCHANGED <<rows, deployment, req, camp, mbox>>

\* ... its own commit, next_action_at NULL; the loser re-reads the winner's row.
InsertContact(r) ==
  /\ pc[r] = "insert_contact"
  /\ LET new == [id |-> r, campaign |-> camp[r], email |-> req[r].email] IN
     \/ /\ ContactIsFree(camp[r], req[r].email)
        /\ contacts' = contacts \cup {new}
        /\ cont' = [cont EXCEPT ![r] = r]
        /\ Goto(r, "commit")
        /\ UNCHANGED answer
     \/ /\ ~ContactIsFree(camp[r], req[r].email)
        /\ \E c \in ContactsAt(camp[r], req[r].email) : UseContact(r, c)
        /\ UNCHANGED contacts
  /\ UNCHANGED <<campaigns, followup, inbound, messages, dispatches, deployment, req, camp, mbox>>

NewDispatch(r) ==
  LET q == req[r] IN
  [ref |-> r, org |-> q.org, key |-> q.key, fingerprint |-> Fingerprint(q),
   campaign |-> camp[r], contact |-> cont[r], mailbox |-> mbox[r],
   message |-> IF q.route = "exact" THEN r ELSE Null]

\* The exact route's Message; the generated route leaves it to the worker.
NewMessages(r) ==
  IF req[r].route = "exact"
    THEN {[id |-> r, contact |-> cont[r], content |-> req[r].content]} ELSE {}

\* ONE commit: the Message and its ExternalDispatch.
CommitDispatch(r) ==
  /\ KeyIsFree(req[r])
  /\ dispatches' = dispatches \cup {NewDispatch(r)}
  /\ messages' = messages \cup NewMessages(r)
  /\ UNCHANGED <<campaigns, contacts, followup, inbound>>

Commit(r) ==
  /\ pc[r] = "commit"
  /\ CommitDispatch(r)
  /\ Answer(r, Accepted(NewDispatch(r)))
  /\ UNCHANGED <<deployment, req, resolved>>

\* A Message committed on its own before the dispatch is refused.
MessageSurvives(r) ==
  /\ messages' = messages \cup NewMessages(r)
  /\ UNCHANGED <<campaigns, contacts, followup, inbound, dispatches>>

\* db.rollback(): the flushed Message goes with the refused dispatch.
RollbackDispatch(r) == UNCHANGED rows

LoseKeyRace(r) ==
  /\ pc[r] = "commit"
  /\ ~KeyIsFree(req[r])
  /\ RollbackDispatch(r)
  /\ Goto(r, "reread")
  /\ UNCHANGED <<deployment, req, resolved, answer>>

\* Converge on the winner's row.
Reread(r) ==
  /\ pc[r] = "reread"
  /\ \E d \in find_dispatch(req[r]) : Answer(r, replay_or_conflict(d, req[r]))
  /\ UNCHANGED <<rows, deployment, req, resolved>>

\* The API process dies, or the database fails, at any point: the open transaction
\* is lost and the client sees an error ...
Fail(r) ==
  /\ pc[r] \notin {"new", "done"}
  /\ Answer(r, Refused("error"))
  /\ UNCHANGED <<rows, deployment, req, resolved>>

\* ... or the final commit took effect and only the answer is lost.
LoseAnswer(r) ==
  /\ pc[r] = "commit"
  /\ CommitDispatch(r)
  /\ Answer(r, Refused("error"))
  /\ UNCHANGED <<deployment, req, resolved>>

Handler(r) ==
  \/ Start(r) \/ Replay(r) \/ NewKey(r) \/ resolve_reply_parent(r)
  \/ resolve_sole_active_mailbox(r) \/ FindCampaign(r) \/ InsertCampaign(r)
  \/ FindContact(r) \/ InsertContact(r) \/ Commit(r) \/ LoseKeyRace(r) \/ Reread(r)
  \/ Fail(r) \/ LoseAnswer(r)

-----------------------------------------------------------------------------
(* The rest of the system, as far as acceptance can see it.                *)

\* A mailbox is created, enabled or disabled.
SetMailbox(m) ==
  /\ active' \in {active \cup {m}, active \ {m}}
  /\ active' # active
  /\ UNCHANGED <<rows, configured, pc, req, resolved, answer>>

\* The deployment is restarted with other settings.
Reconfigure ==
  /\ configured' = ~configured
  /\ UNCHANGED <<rows, active, pc, req, resolved, answer>>

\* The mailbox reader stores a reply of a contact.
StoreReply(ref) ==
  /\ ref \notin inbound
  /\ \E c \in contacts : c.id = ref.contact
  /\ inbound' = inbound \cup {ref}
  /\ UNCHANGED <<campaigns, contacts, followup, messages, dispatches, deployment,
                 pc, req, resolved, answer>>

\* POST /contacts/{id}/pause clears next_action_at.
pause_contact(c) ==
  /\ c \in followup
  /\ followup' = followup \ {c}
  /\ UNCHANGED <<campaigns, contacts, inbound, messages, dispatches, deployment,
                 pc, req, resolved, answer>>

Others ==
  \/ \E m \in Mailbox : SetMailbox(m)
  \/ Reconfigure
  \/ \E ref \in Replies : StoreReply(ref)
  \/ \E c \in Row : pause_contact(c)

Next == Others \/ \E r \in Call : Handler(r)

Spec == Init /\ [][Next]_vars

-----------------------------------------------------------------------------
(* Properties.                                                             *)

\* However many requests race, fail or are retried, a (organization,
\* idempotency_key) pair names at most one ExternalDispatch.
OneOperationPerKey ==
  \A d, e \in dispatches : d.org = e.org /\ d.key = e.key => d = e

\* Every 202 names the operation of the caller's own organization and key, and
\* that operation is the one the caller asked for; every key conflict is answered
\* only because the key is taken by a different request.
AnswersAreConsistent ==
  \A r \in Call :
    /\ answer[r].code = "accepted" =>
         \E d \in dispatches :
           /\ d.ref = answer[r].ref
           /\ d.org = req[r].org /\ d.key = req[r].key
           /\ d.fingerprint = Fingerprint(req[r])
    /\ answer[r].code = "key_conflict" =>
         \E d \in find_dispatch(req[r]) : d.fingerprint # Fingerprint(req[r])

\* The outbound Messages are exactly the ones that accepted operations own: no
\* failed, refused or outraced request leaves a Message behind.
MessagesOwnedByOperations ==
  /\ \A m \in messages : \E d \in dispatches : d.message = m.id /\ d.contact = m.contact
  /\ \A d \in dispatches :
       d.fingerprint.kind = "exact" =>
         \E m \in messages : m.id = d.message /\ m.content = d.fingerprint.content

\* An operation is wired to rows of its own tenant, to the integration's campaign,
\* and to the recipient that the request named; and concurrent first uses converge:
\* the operations of a tenant share one campaign, those to one recipient one contact.
WiredToTenant ==
  /\ \A d \in dispatches :
       /\ MailboxOrg[d.mailbox] = d.org
       /\ \E c \in campaigns : c.id = d.campaign /\ c.org = d.org /\ c.source = "leadboost"
       /\ \E c \in contacts :
            c.id = d.contact /\ c.campaign = d.campaign /\ c.email = d.fingerprint.email
  /\ \A d, e \in dispatches :
       d.org = e.org =>
         /\ d.campaign = e.campaign
         /\ d.fingerprint.email = e.fingerprint.email => d.contact = e.contact

\* A new operation is never created for a contact that carries a native follow-up
\* schedule, whichever path resolved the contact.
NoDispatchIntoFollowup ==
  [][\A d \in dispatches' \ dispatches : d.contact \notin followup]_vars

=============================================================================
