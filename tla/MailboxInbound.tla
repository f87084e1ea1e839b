--------------------------- MODULE MailboxInbound ---------------------------
(***************************************************************************)
(* Mailbox-bound inbound mail: mail/mailbox_inbound.py polls each eligible *)
(* mailbox, imap_reader.drain_unseen offers every Unseen message to        *)
(* reply_handler_v2.process_mailbox_inbound, whose transaction commits     *)
(* before the message is marked Seen.                                      *)
(*                                                                         *)
(* Pollers may overlap (a second worker, a restart), the IMAP connection,  *)
(* the LLM and the database may fail at any step, and an operator may mark *)
(* a message Unseen again.  A poller's transaction is open from the        *)
(* duplicate check to its commit; the row it inserted blocks an insert of  *)
(* the same key by another poller until then (unique index).               *)
(***************************************************************************)
EXTENDS Naturals, FiniteSets

CONSTANTS Poller,
          Mail,         \* messages that servers deliver, one per mailbox and UID
          Mailbox, Org, Contact, Identity, Null,
          MailboxOf,    \* the mailbox a message is delivered to
          OrgOf,        \* Mailbox.organization_id
          IdentityOf,   \* normalised Message-ID, or the synthetic digest of the raw bytes
          ContactOrg,   \* Contact -> Campaign.organization_id
          Managed,      \* contacts of an integration campaign
          ThreadOf,     \* stored messages that its threading headers name
          SenderOf,     \* contacts with the sender's address
          MaxFaults     \* bound on failures and operator re-offers

\* A stored message as correlation sees it: received, sent by the native path, or sent
\* for an ExternalDispatch, whose mailbox it has.  The mailbox is Null where there is
\* none: webhook and legacy paths, native path, a dispatch through the global sender.
ThreadRow ==
  [contact : Contact, kind : {"inbound", "native", "dispatched"}, mailbox : Mailbox \cup {Null}]

ASSUME InboundAssumption ==
  /\ MailboxOf \in [Mail -> Mailbox]
  /\ OrgOf \in [Mailbox -> Org]
  /\ IdentityOf \in [Mail -> Identity]
  /\ ContactOrg \in [Contact -> Org]
  /\ Managed \subseteq Contact
  /\ ThreadOf \in [Mail -> SUBSET ThreadRow]
  /\ SenderOf \in [Mail -> SUBSET Contact]
  /\ MaxFaults \in Nat
  /\ Null \notin Mail \cup Mailbox \cup Contact

VARIABLES delivered,  \* messages in their INBOX
          seen,       \* messages with the Seen flag
          pollable,   \* eligible mailboxes: ACTIVE with a complete IMAP configuration
          known,      \* contacts that exist and are not suppressed
          messages,   \* inbound Message rows: key and contact
          retained,   \* UnmatchedInboundMessage rows: key
          resolved,   \* keys of retained rows whose resolved_at is set
          replies,    \* auto-replies sent in answer to each message
          pc, todo, cur, target, found,   \* the pollers
          faults

store == <<messages, retained, resolved>>
server == <<delivered, seen, pollable, known>>
poller == <<pc, todo, cur, target, found>>
vars == <<server, store, replies, poller, faults>>

Key == Mailbox \X Identity
KeyOf(m) == <<MailboxOf[m], IdentityOf[m]>>

\* Every variable has its type.
TypeOK ==
  /\ delivered \in SUBSET Mail
  /\ seen \in SUBSET delivered
  /\ pollable \in SUBSET Mailbox
  /\ known \in SUBSET Contact
  /\ messages \in SUBSET (Key \X Contact)
  /\ retained \in SUBSET Key
  /\ resolved \in SUBSET retained
  /\ replies \in [Mail -> Nat]
  /\ pc \in [Poller -> {"idle", "drain", "check", "correlate", "insert", "retain", "apply",
                        "commit", "keep", "store"}]
  /\ todo \in [Poller -> SUBSET Mail]
  /\ cur \in [Poller -> Mail \cup {Null}]
  /\ target \in [Poller -> Contact \cup {Null}]
  /\ found \in [Poller -> BOOLEAN]
  /\ faults \in 0..MaxFaults

Init ==
  /\ delivered = {}
  /\ seen = {}
  /\ pollable = Mailbox
  /\ known \in SUBSET Contact
  /\ messages = {}
  /\ retained = {}
  /\ resolved = {}
  /\ replies = [m \in Mail |-> 0]
  /\ pc = [p \in Poller |-> "idle"]
  /\ todo = [p \in Poller |-> {}]
  /\ cur = [p \in Poller |-> Null]
  /\ target = [p \in Poller |-> Null]
  /\ found = [p \in Poller |-> FALSE]
  /\ faults = 0

-----------------------------------------------------------------------------
Goto(p, l) == pc' = [pc EXCEPT ![p] = l]

\* The poller is done with its current message; drain_unseen goes on with the next.
NextMessage(p) ==
  /\ Goto(p, "drain")
  /\ cur' = [cur EXCEPT ![p] = Null]
  /\ target' = [target EXCEPT ![p] = Null]
  /\ found' = [found EXCEPT ![p] = FALSE]
  /\ UNCHANGED todo

Keys(rows) == {row[1] : row \in rows}

\* A duplicate check on the Message-ID alone.
StoredAnywhere(m) == \E row \in messages : row[1][2] = IdentityOf[m]

\* _find_inbound_message: this mailbox, this identity, this tenant.
Stored(m) ==
  \E row \in messages : row[1] = KeyOf(m) /\ ContactOrg[row[2]] = OrgOf[MailboxOf[m]]

\* Correlation over every tenant's contacts.
InAnyTenant(m, S) == S

InTenant(m, S) == {c \in S : ContactOrg[c] = OrgOf[MailboxOf[m]]}

\* A stored message threads a reply only if it belongs to this mailbox, or was sent
\* by the native path, which has no dispatch to compare.
Threads(m, row) == row.mailbox = MailboxOf[m] \/ row.kind = "native"

\* _correlate_mailbox_inbound: the contacts of eligible thread matches; only without
\* one, the unsuppressed contacts with the sender's address.  Anything but exactly
\* one contact is unmatched or ambiguous.
Correlated(m) ==
  LET threaded == InTenant(m, {row.contact : row \in {r \in ThreadOf[m] : Threads(m, r)}})
  IN  IF threaded # {} THEN threaded ELSE InTenant(m, SenderOf[m] \cap known)

-----------------------------------------------------------------------------
(* One poll of one mailbox.                                                *)

\* load_pollable_target, LOGIN, SELECT, UID SEARCH UNSEEN.
Search(p, b) ==
  /\ pc[p] = "idle"
  /\ b \in pollable
  /\ \E m \in delivered \ seen : MailboxOf[m] = b
  /\ Goto(p, "drain")
  /\ todo' = [todo EXCEPT ![p] = {m \in delivered \ seen : MailboxOf[m] = b}]
  /\ UNCHANGED <<server, store, replies, cur, target, found, faults>>

\* UID FETCH (BODY.PEEK[]) and parse_inbound_bytes.
Fetch(p) ==
  /\ pc[p] = "drain"
  /\ \E m \in todo[p] :
       /\ cur' = [cur EXCEPT ![p] = m]
       /\ todo' = [todo EXCEPT ![p] = @ \ {m}]
  /\ Goto(p, "check")
  /\ UNCHANGED <<server, store, replies, target, found, faults>>

EndPoll(p) ==
  /\ pc[p] = "drain"
  /\ todo[p] = {}
  /\ Goto(p, "idle")
  /\ UNCHANGED <<server, store, replies, todo, cur, target, found, faults>>

\* The duplicate check: an already stored message only needs its Seen flag.
CheckDuplicate(p) ==
  /\ pc[p] = "check"
  /\ Goto(p, IF Stored(cur[p]) THEN "store" ELSE "correlate")
  /\ UNCHANGED <<server, store, replies, todo, cur, target, found, faults>>

Correlate(p) ==
  /\ pc[p] = "correlate"
  /\ \/ \E c \in Contact :
          /\ Correlated(cur[p]) = {c}
          /\ target' = [target EXCEPT ![p] = c]
          /\ Goto(p, "insert")
     \/ /\ Cardinality(Correlated(cur[p])) # 1
        /\ Goto(p, "retain")
        /\ UNCHANGED target
  /\ UNCHANGED <<server, store, replies, todo, cur, found, faults>>

\* Another poller holds an uncommitted row with this key.
Blocked(p, l) == \E q \in Poller \ {p} : pc[q] \in l /\ KeyOf(cur[q]) = KeyOf(cur[p])

\* _insert_correlated_message: ON CONFLICT DO NOTHING; the existing row, of this
\* tenant by AttachedOnceInTenant, is a duplicate.  A fresh row is followed by the
\* UPDATE that finds a retained copy committed by now.
InsertMessage(p) ==
  /\ pc[p] = "insert"
  /\ ~Blocked(p, {"apply", "commit"})
  /\ Goto(p, IF KeyOf(cur[p]) \in Keys(messages) THEN "store" ELSE "apply")
  /\ found' = [found EXCEPT ![p] = KeyOf(cur[p]) \in retained]
  /\ UNCHANGED <<server, store, replies, todo, cur, target, faults>>

\* _retain_unmatched: ON CONFLICT DO NOTHING, then the row is confirmed.
RetainUnmatched(p) ==
  /\ pc[p] = "retain"
  /\ ~Blocked(p, {"keep"})
  /\ Goto(p, "keep")
  /\ UNCHANGED <<server, store, replies, todo, cur, target, found, faults>>

\* _classify_and_apply_inbound: the state changes wait for the commit, but an
\* auto-reply to a native contact leaves at once, inside the open transaction.
Apply(p) ==
  /\ pc[p] = "apply"
  /\ \E n \in IF target[p] \in Managed THEN {0} ELSE {0, 1} :
       replies' = [replies EXCEPT ![cur[p]] = @ + n]
  /\ Goto(p, "commit")
  /\ UNCHANGED <<server, store, todo, cur, target, found, faults>>

\* The Message row becomes durable but a retained copy stays open.
AttachOnly(p) ==
  /\ messages' = messages \cup {<<KeyOf(cur[p]), target[p]>>}
  /\ UNCHANGED <<resolved, retained>>

\* The Message row becomes durable; a retained copy is marked resolved.
PersistMessage(p) ==
  /\ messages' = messages \cup {<<KeyOf(cur[p]), target[p]>>}
  /\ resolved' = IF found[p] THEN resolved \cup {KeyOf(cur[p])} ELSE resolved
  /\ UNCHANGED retained

PersistRetained(p) ==
  /\ retained' = retained \cup {KeyOf(cur[p])}
  /\ UNCHANGED <<messages, resolved>>

\* COMMIT.  An unsubscribing reply also suppresses its contact (_handle_unsubscribe).
Persist(p) ==
  \/ /\ pc[p] = "commit"
     /\ PersistMessage(p)
     /\ known' \in {known, known \ {target[p]}}
  \/ /\ pc[p] = "keep"
     /\ PersistRetained(p)
     /\ UNCHANGED known

\* _persist_inbound: COMMIT, then the handler returns.
Commit(p) ==
  /\ Persist(p)
  /\ Goto(p, "store")
  /\ UNCHANGED <<delivered, seen, pollable, replies, todo, cur, target, found, faults>>

\* UID STORE +FLAGS \Seen
MarkSeen(p) ==
  /\ pc[p] = "store"
  /\ seen' = seen \cup {cur[p]}
  /\ NextMessage(p)
  /\ UNCHANGED <<delivered, pollable, known, store, replies, faults>>

-----------------------------------------------------------------------------
(* Failures, each of which leaves the message Unseen.                      *)

Fault == faults < MaxFaults /\ faults' = faults + 1

\* A failed handler that still lets the message be marked Seen.
CarryOn(p) == Goto(p, "store") /\ UNCHANGED <<todo, cur, target, found>>

\* except Exception: rollback, raise; drain_unseen counts it as left unseen.
LeaveUnseen(p) == NextMessage(p)

\* FETCH, parsing, a query, the LLM or the COMMIT raises: rolled back.
HandlerFails(p) ==
  /\ pc[p] \in {"check", "correlate", "insert", "retain", "apply", "commit", "keep"}
  /\ LeaveUnseen(p)
  /\ Fault
  /\ UNCHANGED <<server, store, replies>>

\* The COMMIT took effect but its acknowledgement was lost.
LoseCommitAck(p) ==
  /\ Persist(p)
  /\ NextMessage(p)
  /\ Fault
  /\ UNCHANGED <<delivered, seen, pollable, replies>>

StoreFails(p) ==
  /\ pc[p] = "store"
  /\ NextMessage(p)
  /\ Fault
  /\ UNCHANGED <<server, store, replies>>

\* The worker dies; its open transaction rolls back.
Crash(p) ==
  /\ pc[p] # "idle"
  /\ Goto(p, "idle")
  /\ todo' = [todo EXCEPT ![p] = {}]
  /\ cur' = [cur EXCEPT ![p] = Null]
  /\ target' = [target EXCEPT ![p] = Null]
  /\ found' = [found EXCEPT ![p] = FALSE]
  /\ Fault
  /\ UNCHANGED <<server, store, replies>>

-----------------------------------------------------------------------------
(* The world around the pollers.                                           *)

Deliver(m) ==
  /\ m \notin delivered
  /\ delivered' = delivered \cup {m}
  /\ UNCHANGED <<seen, pollable, known, store, replies, poller, faults>>

\* A contact is created, or a suppressed one is left out of the matching.
ChangeContacts(c) ==
  /\ known' = IF c \in known THEN known \ {c} ELSE known \cup {c}
  /\ Fault
  /\ UNCHANGED <<delivered, seen, pollable, store, replies, poller>>

\* An operator marks a message Unseen again.
Reoffer(m) ==
  /\ m \in seen
  /\ seen' = seen \ {m}
  /\ Fault
  /\ UNCHANGED <<delivered, pollable, known, store, replies, poller>>

\* PATCH /mailboxes/{ref}: enabled or disabled.
SetMailbox(b) ==
  /\ pollable' = IF b \in pollable THEN pollable \ {b} ELSE pollable \cup {b}
  /\ UNCHANGED <<delivered, seen, known, store, replies, poller, faults>>

Polling(p) ==
  \/ Fetch(p) \/ EndPoll(p) \/ CheckDuplicate(p) \/ Correlate(p) \/ InsertMessage(p)
  \/ RetainUnmatched(p) \/ Apply(p) \/ Commit(p) \/ MarkSeen(p)

Failures(p) == HandlerFails(p) \/ LoseCommitAck(p) \/ StoreFails(p) \/ Crash(p)

Next ==
  \/ \E p \in Poller : Polling(p) \/ Failures(p)
  \/ \E p \in Poller, b \in Mailbox : Search(p, b)
  \/ \E m \in Mail : Deliver(m) \/ Reoffer(m)
  \/ \E c \in Contact : ChangeContacts(c)
  \/ \E b \in Mailbox : SetMailbox(b)

\* The scheduler starts a cycle every interval, and a started poll runs on: IMAP,
\* the LLM client and the database have timeouts.
Spec ==
  /\ Init
  /\ [][Next]_vars
  /\ \A p \in Poller : WF_vars(Polling(p))
  /\ \A p \in Poller, b \in Mailbox : SF_vars(Search(p, b))

-----------------------------------------------------------------------------
(* Properties.                                                             *)

Durable(m) == KeyOf(m) \in Keys(messages) \cup retained

\* A message with the Seen flag exists in the database: attached to a contact or
\* retained as unmatched, for this mailbox ("a Seen message is never one that exists
\* nowhere in the database").
SeenMeansDurable == \A m \in seen : Durable(m)

\* One Message row per mailbox and identity, whatever overlaps and is re-offered, and
\* every row is attached to a contact of the mailbox's own organization.
AttachedOnceInTenant ==
  /\ \A r, s \in messages : r[1] = s[1] => r = s
  /\ \A r \in messages : ContactOrg[r[2]] = OrgOf[r[1][1]]

\* With one poller: a retained copy of a message that was attached later says so.
\* (With overlapping pollers the retained copy may be written after the attachment.)
RetainedCopyResolved == \A k \in retained \cap Keys(messages) : k \in resolved

\* Every message delivered to a mailbox that stays eligible from some time on is
\* eventually stored, even if another mailbox received a copy with its Message-ID.
EventuallyDurable ==
  \A m \in Mail : <>[](MailboxOf[m] \in pollable) => (m \in delivered ~> Durable(m))

\* drain_unseen: offering a message again is harmless ("the database dedupe identity
\* makes a repeat harmless"), so at most one auto-reply answers a message.
RepeatIsHarmless == \A m \in Mail : replies[m] <= 1

=============================================================================
