--------------------------- MODULE NativeOutreach ---------------------------
(***************************************************************************)
(* Mailer-native outreach on PostgreSQL: scheduler.dispatch_new_contacts_job *)
(* and engine_v2.run_followup_cycle in several worker processes, over the  *)
(* contact claims of followup/work_claiming.py, against everything else    *)
(* that writes a contact: the campaign and contact endpoints, force-       *)
(* followup, draft approval, inbound replies and the suppression list.     *)
(*                                                                         *)
(* row is the committed contact; tx[w] holds the rows that w's open        *)
(* transaction has written, and so locked, and not committed.  A session   *)
(* decides on the copy of the row it loaded (snap) and an UPDATE writes    *)
(* only the columns it changed.  Every contact is native (its campaign has *)
(* no integration_source); LIMIT max_sends_per_cycle is not reached.       *)
(***************************************************************************)
EXTENDS ContactLifecycle, FiniteSets

CONSTANTS Contact,
          InitialJob,    \* dispatch_new_contacts_job, one per worker process
          FollowJob,     \* dispatch_followups_job, one per worker process
          Forced,        \* POST /contacts/{id}/force-followup requests
          Approval,      \* POST /messages/{id}/approve requests
          Request,       \* sessions of the other endpoints and of inbound replies
          Null,
          Cadence,       \* len(campaign.follow_up_days)
          Replies,       \* the classified replies: [intents, asked_for]
          Touched,       \* bound on the contacts that requests, replies and suppressions name
          MaxRequests,   \* bound on forced and manual moves, replies and suppressions
          MaxFaults,     \* bound on failed sends, exceptions, failed commits, deaths
          MaxOverruns    \* bound on leases outlived by the job that holds them

Job == InitialJob \cup FollowJob
Sender == Job \cup Forced
Session == Sender \cup Approval

ASSUME NativeAssumption ==
  /\ Touched \subseteq Contact
  /\ Cadence \in Nat /\ MaxRequests \in Nat /\ MaxFaults \in Nat /\ MaxOverruns \in Nat
  /\ Null \notin Contact \cup Session
  /\ InitialJob \cap FollowJob = {} /\ Job \cap Forced = {} /\ Sender \cap Approval = {}
  /\ Session \cap Request = {}

VARIABLES row, suppressed,                 \* the database
          dormant,                         \* contacts of inactive campaigns; no operation changes it
          tx, pc, left, cur, snap, out,    \* the sending sessions
          req,                             \* the other sessions
          mailed, approved,                \* mail that may have left, per step and from drafts
          sent,                            \* contacts mailed in the open transaction
          spoiled, dropped, waived,        \* history, see the properties
          excused, moved,
          requests, faults, overruns

database == <<row, suppressed, dormant>>
session == <<tx, pc, left, cur, snap, out, sent>>
mail == <<mailed, approved>>
history == <<spoiled, dropped, waived, excused, moved>>
bounds == <<requests, faults, overruns>>
vars == <<database, session, req, mail, history, bounds>>

Row == [status : Status \cup {"absent"}, next : {"none", "due", "later"},
        claim : Job \cup {Null}, lease : BOOLEAN, index : Nat, recent : BOOLEAN,
        drafts : Nat,     \* DRAFT Messages ever stored for the contact
        handled : Nat]    \* of these, the ones an approval has moved on

NoRow == [status |-> "absent", next |-> "none", claim |-> Null, lease |-> FALSE,
          index |-> 0, recent |-> FALSE, drafts |-> 0, handled |-> 0]

\* The attributes a session sets on its copy of a contact; "keep" leaves next_action_at alone.
Change == [status : Status \cup {"absent"}, next : {"none", "due", "later", "keep"},
           claim : Job \cup {Null}, index : Nat, drafts : {0, 1}, recent : BOOLEAN]

Steps == 0..(Cadence + MaxRequests + 1)

Results == {"none", "skip", "suppressed", "held", "sent", "failed", "unknown", "raised"}

RowTyped == row \in [Contact -> Row]

LocksTyped ==
  /\ DOMAIN tx = Session
  /\ \A w \in Session : DOMAIN tx[w] \subseteq Contact /\ \A c \in DOMAIN tx[w] : tx[w][c] \in Row

ThreadsTyped ==
  /\ pc \in [Session -> {"idle", "sweep", "forced", "loop", "draft", "write"}]
  /\ left \in [Session -> SUBSET Contact]
  /\ cur \in [Session -> Contact \cup {Null}]
  /\ snap \in [Session -> Row]
  /\ out \in [Session -> Results]
  /\ sent \in [Session -> SUBSET Contact]

RequestsTyped ==
  /\ DOMAIN req = Request
  /\ \A r \in Request : req[r] # Null =>
       /\ req[r].op \in {"pause", "resume", "won", "start", "reply"}
       /\ req[r].on \in SUBSET Contact
       /\ req[r].snap \in Row
       /\ req[r].new \in Change

MailTyped == mailed \in [Contact -> [Steps -> Nat]] /\ approved \in [Contact -> Nat]

CountsTyped ==
  spoiled \in [Contact -> Nat] /\ dropped \in [Contact -> Nat] /\ waived \in [Contact -> Nat]

SetsTyped ==
  /\ suppressed \in SUBSET Contact /\ dormant \in SUBSET Contact /\ moved \in SUBSET Contact
  /\ excused \in [Contact -> SUBSET (Session \cup Request)]

BoundsTyped ==
  requests \in 0..MaxRequests /\ faults \in 0..MaxFaults /\ overruns \in 0..MaxOverruns

\* Every variable has its type.
TypeOK ==
  /\ RowTyped /\ LocksTyped /\ ThreadsTyped /\ RequestsTyped
  /\ MailTyped /\ CountsTyped /\ SetsTyped /\ BoundsTyped

Init ==
  /\ row = [c \in Contact |-> NoRow]
  /\ suppressed = {}
  /\ dormant \in SUBSET Contact
  /\ tx = [w \in Session |-> <<>>]
  /\ pc = [w \in Session |-> "idle"]
  /\ left = [w \in Session |-> {}]
  /\ cur = [w \in Session |-> Null]
  /\ snap = [w \in Session |-> NoRow]
  /\ out = [w \in Session |-> "none"]
  /\ sent = [w \in Session |-> {}]
  /\ req = [r \in Request |-> Null]
  /\ mailed = [c \in Contact |-> [k \in Steps |-> 0]]
  /\ approved = [c \in Contact |-> 0]
  /\ spoiled = [c \in Contact |-> 0]
  /\ dropped = [c \in Contact |-> 0]
  /\ waived = [c \in Contact |-> 0]
  /\ excused = [c \in Contact |-> {}]
  /\ moved = {}
  /\ requests = 0 /\ faults = 0 /\ overruns = 0

Asked == requests < MaxRequests /\ requests' = requests + 1 /\ UNCHANGED <<faults, overruns>>
Fault == faults < MaxFaults /\ faults' = faults + 1 /\ UNCHANGED <<requests, overruns>>
Overrun == overruns < MaxOverruns /\ overruns' = overruns + 1 /\ UNCHANGED <<requests, faults>>

-----------------------------------------------------------------------------
(* Rows, locks and transactions.                                           *)

\* No transaction of another session has the row locked.
FreeFor(w, c) == \A v \in Session \ {w} : c \notin DOMAIN tx[v]
Unlocked(c) == \A v \in Session : c \notin DOMAIN tx[v]

\* The row as a query in w's transaction sees it.
View(w, c) == IF c \in DOMAIN tx[w] THEN tx[w][c] ELSE row[c]

\* COMMIT
Committed(w) == [c \in Contact |-> View(w, c)]

\* The initial-outreach batch whose next contacts the job still means to mail.
Batch(w) == (IF pc[w] \in {"loop", "draft", "write"} THEN left[w] ELSE {}) \cup ({cur[w]} \ {Null})

\* An initial job other than w counts on a claim on c that is still its own.
Counted(w, c) == \E v \in InitialJob \ {w} : c \in Batch(v) /\ row[c].claim = v

\* The committed row carries w's claim, within its lease.
Holds(w, c) == row[c].claim = w /\ row[c].lease

Tally(f, S) == [c \in Contact |-> f[c] + IF c \in S THEN 1 ELSE 0]

Reset(w) ==
  /\ tx' = [tx EXCEPT ![w] = <<>>]
  /\ pc' = [pc EXCEPT ![w] = "idle"]
  /\ left' = [left EXCEPT ![w] = {}]
  /\ cur' = [cur EXCEPT ![w] = Null]
  /\ snap' = [snap EXCEPT ![w] = NoRow]
  /\ out' = [out EXCEPT ![w] = "none"]
  /\ sent' = [sent EXCEPT ![w] = {}]

\* The UPDATE of a session that loaded s and set its attributes to n: the columns that
\* differ.  A timestamp it computed always differs.
Written(base, s, n) ==
  LET Column(b, old, new) == IF new = old THEN b ELSE new
  IN  [base EXCEPT
        !.status = Column(@, s.status, n.status),
        !.next = CASE n.next = "keep" -> @
                   [] n.next = "none" -> Column(@, s.next, "none")
                   [] OTHER -> n.next,
        !.claim = Column(@, s.claim, n.claim),
        !.index = Column(@, s.index, n.index),
        !.drafts = @ + n.drafts,
        !.recent = @ \/ n.recent]

Kept(s) == [status |-> s.status, next |-> "keep", claim |-> s.claim, index |-> s.index,
            drafts |-> 0, recent |-> FALSE]

-----------------------------------------------------------------------------
(* work_claiming.py: claim_due_contacts, release_claim, the expired-lease  *)
(* sweep and the lease itself.                                             *)

\* No lease ever counts as expired.
NothingExpires == {}

\* The rows whose lease has run out, as the sweep selects them.
Expired == {c \in Contact : row[c].claim # Null /\ ~row[c].lease}

\* recover_expired_claims, the SELECT.  Its UPDATE is flushed by the claim below, once
\* the rows it found are not locked.
Sweep(w) ==
  /\ pc[w] = "idle"
  /\ Expired # {}
  /\ pc' = [pc EXCEPT ![w] = "sweep"]
  /\ left' = [left EXCEPT ![w] = Expired]
  /\ UNCHANGED <<database, tx, cur, snap, out, sent, req, mail, history, bounds>>

Swept(w) == IF pc[w] = "sweep" THEN left[w] ELSE {}

\* claimed_by IS NULL OR claimed_at < cutoff
Claimable(r) == r.claim = Null \/ ~r.lease

Released(r) == [r EXCEPT !.claim = Null, !.lease = FALSE]

\* The rows the claim query returns: due, claimable and not locked (SKIP LOCKED).
Due(w) ==
  {c \in Contact :
     LET r == IF c \in Swept(w) THEN Released(row[c]) ELSE row[c]
     IN  /\ FreeFor(w, c)
         /\ r.status = (IF w \in InitialJob THEN "new" ELSE "active")
         /\ r.next = "due"
         /\ Claimable(r)}

\* claim_due_contacts, then the reload that keeps only the contacts of active campaigns.
\* The claims are not committed yet.
Claim(w) ==
  /\ pc[w] = "sweep" \/ (pc[w] = "idle" /\ Expired = {})
  /\ \A c \in Swept(w) : FreeFor(w, c)
  /\ Due(w) # {}
  /\ tx' = [tx EXCEPT ![w] =
              [c \in Due(w) \cup Swept(w) |->
                 IF c \in Due(w) THEN [row[c] EXCEPT !.claim = w, !.lease = TRUE]
                 ELSE Released(row[c])]]
  /\ left' = [left EXCEPT ![w] = Due(w) \ dormant]
  /\ pc' = [pc EXCEPT ![w] = "loop"]
  /\ dropped' = Tally(dropped, {c \in Swept(w) : Counted(w, c)})
  /\ UNCHANGED <<database, cur, snap, out, sent, req, mail, spoiled, waived, excused, moved, bounds>>

\* Nothing is due: the job returns and its session scope commits the sweep.
ClaimNothing(w) ==
  /\ pc[w] = "sweep"
  /\ \A c \in Swept(w) : FreeFor(w, c)
  /\ Due(w) = {}
  /\ row' = [c \in Contact |-> IF c \in Swept(w) THEN Released(row[c]) ELSE row[c]]
  /\ dropped' = Tally(dropped, {c \in Swept(w) : Counted(w, c)})
  /\ Reset(w)
  /\ UNCHANGED <<suppressed, dormant, req, mail, spoiled, waived, excused, moved, bounds>>

\* CLAIM_LEASE_SECONDS pass.  A live job outlives its lease only so often.
LeaseExpires(c) ==
  /\ row[c].claim # Null
  /\ row[c].lease
  /\ row' = [row EXCEPT ![c].lease = FALSE]
  /\ IF \E w \in InitialJob : c \in Batch(w)
     THEN Overrun /\ dropped' = Tally(dropped, {c})
     ELSE UNCHANGED <<bounds, dropped>>
  /\ UNCHANGED <<suppressed, dormant, session, req, mail, spoiled, waived, excused, moved>>

\* release_all_claims at a graceful shutdown, which does not wait for the job's thread.
ReleaseAllClaims(w) ==
  LET held == {c \in Contact : row[c].claim = w}
  IN  /\ held # {}
      /\ \A c \in held : Unlocked(c)
      /\ Fault
      /\ row' = [c \in Contact |-> IF c \in held THEN Released(row[c]) ELSE row[c]]
      /\ dropped' = Tally(dropped, held \cap Batch(w))
      /\ UNCHANGED <<suppressed, dormant, session, req, mail, spoiled, waived, excused, moved>>

-----------------------------------------------------------------------------
(* send_initial_outreach and send_followup_if_due, shared by the two jobs  *)
(* and by force-followup.                                                  *)

\* No suppression check.
NobodySuppressed(c) == FALSE

is_suppressed(c) == c \in suppressed

\* send_followup_if_due trusts the claim and does not look at the row again.
ClaimIsEnough(w, r) == TRUE

\* The gate of a follow-up for every mail.
FollowUpGate(w, r) == should_send_followup_now(r.status, r.next, r.recent)

\* send_initial_outreach checks no status; a follow-up must be due and unanswered.
MaySend(w, r) ==
  \/ w \in InitialJob
  \/ should_send_followup_now(r.status, r.next, r.recent)

\* Load the contact and run the gates that come before the draft.
Begin(w, c) ==
  LET r == View(w, c)
      result == IF ~MaySend(w, r) THEN "skip" ELSE IF is_suppressed(c) THEN "suppressed" ELSE "none"
  IN  /\ pc[w] = "loop"
      /\ c \in left[w]
      /\ left' = [left EXCEPT ![w] = @ \ {c}]
      /\ cur' = [cur EXCEPT ![w] = c]
      /\ snap' = [snap EXCEPT ![w] = r]
      /\ out' = [out EXCEPT ![w] = result]
      /\ pc' = [pc EXCEPT ![w] = IF result = "none" THEN "draft" ELSE "write"]
      /\ UNCHANGED <<database, tx, sent, req, mail, history, bounds>>

\* The draft fails the grounding gate and is stored for review.
Hold(w) ==
  /\ pc[w] = "draft" /\ w \in Sender
  /\ pc' = [pc EXCEPT ![w] = "write"]
  /\ out' = [out EXCEPT ![w] = "held"]
  /\ excused' = [excused EXCEPT ![cur[w]] = @ \ {w}]
  /\ UNCHANGED <<database, tx, left, cur, snap, sent, req, mail, spoiled, dropped, waived, moved, bounds>>

\* Drafting raises before anything was sent.
Raise(w) ==
  /\ pc[w] = "draft" /\ w \in Sender
  /\ Fault
  /\ pc' = [pc EXCEPT ![w] = "write"]
  /\ out' = [out EXCEPT ![w] = "raised"]
  /\ excused' = [excused EXCEPT ![cur[w]] = @ \ {w}]
  /\ UNCHANGED <<database, tx, left, cur, snap, sent, req, mail, spoiled, dropped, waived, moved>>

Step(w) == IF w \in InitialJob THEN 0 ELSE snap[w].index + 1

\* send_email: outside any lock of a job that has committed, inside the transaction otherwise.
Send(w, outcome) ==
  LET c == cur[w]
  IN  /\ pc[w] = "draft" /\ w \in Sender
      /\ IF outcome = "sent" THEN UNCHANGED bounds ELSE Fault
      /\ pc' = [pc EXCEPT ![w] = "write"]
      /\ out' = [out EXCEPT ![w] = outcome]
      /\ IF outcome = "failed"
         THEN UNCHANGED <<mailed, sent>>
         ELSE /\ mailed' = [mailed EXCEPT ![c][Step(w)] = @ + 1]
              /\ sent' = [sent EXCEPT ![w] = @ \cup {c}]
      /\ excused' = [excused EXCEPT ![c] = @ \ {w}]
      /\ UNCHANGED <<database, tx, left, cur, snap, req, approved, spoiled, dropped, waived, moved>>

\* An ambiguous send is taken for a failed one and stays due.
RetryDoubtful(s) == Kept(s)

\* The branch for SendOutcome.UNKNOWN: a human decides, nothing is retried.
Doubtful(s) ==
  [Kept(s) EXCEPT !.status = transition_contact_state(s.status, "needs_human"), !.next = "none"]

\* The attributes set after the gates, the hold or the send.
Outcome(w, s, result) ==
  LET go(event) == transition_contact_state(s.status, event)
      stay == Kept(s)
  IN  CASE result = "suppressed" ->
             [stay EXCEPT !.status = go("unsubscribed"),
                          !.next = IF w \in InitialJob THEN "keep" ELSE "none"]
        [] result = "held" ->
             [stay EXCEPT !.status = go("needs_human"), !.next = "none",
                          !.claim = Null, !.drafts = 1]
        [] result = "unknown" -> Doubtful(s)
        [] result = "sent" /\ w \in InitialJob ->
             [stay EXCEPT !.status = go("initial_sent"),
                          !.next = compute_next_followup(go("initial_sent"), s.index, Cadence)]
        [] result = "sent" /\ w \notin InitialJob ->
             LET active == go("followup_sent")
                 next == compute_next_followup(active, s.index + 1, Cadence)
             IN  [stay EXCEPT !.status = IF next = "none"
                                         THEN transition_contact_state(active, "sequence_exhausted")
                                         ELSE active,
                              !.index = s.index + 1,
                              !.next = next]
        [] OTHER -> stay

NewRow(w) == Written(View(w, cur[w]), snap[w], Outcome(w, snap[w], out[w]))

NextContact(w) ==
  /\ pc' = [pc EXCEPT ![w] = "loop"]
  /\ cur' = [cur EXCEPT ![w] = Null]
  /\ snap' = [snap EXCEPT ![w] = NoRow]
  /\ out' = [out EXCEPT ![w] = "none"]
  /\ UNCHANGED left

\* release_claim runs in finally and writes NULL whoever holds the claim by now; it is
\* flushed, and committed with whatever the session commits next.
release_claim(w, r) ==
  /\ tx' = [tx EXCEPT ![w] = [c \in {cur[w]} |-> Released(r)]]
  /\ sent' = [sent EXCEPT ![w] = {}]

\* dispatch_new_contacts_job: commit this contact, release its claim.
WriteInitial(w) ==
  LET c == cur[w]
  IN  /\ pc[w] = "write" /\ w \in InitialJob /\ out[w] # "raised"
      /\ FreeFor(w, c)
      /\ row' = [Committed(w) EXCEPT ![c] = NewRow(w)]
      /\ release_claim(w, NewRow(w))
      /\ dropped' = Tally(dropped, {c} \cap {d \in Contact : Counted(w, d)})
      /\ NextContact(w)
      /\ UNCHANGED <<suppressed, dormant, req, mail, spoiled, waived, excused, moved, bounds>>

\* dispatch_new_contacts_job: the exception handler.  The rollback drops every claim that
\* no commit has made durable; the loop goes on.
RolledBack(w, mailLost) ==
  LET c == cur[w]
  IN  /\ FreeFor(w, c)
      /\ release_claim(w, row[c])
      /\ dropped' = Tally(dropped, {d \in left[w] : d \in DOMAIN tx[w] /\ ~Holds(w, d)}
                                     \cup ({c} \cap {d \in Contact : Counted(w, d)}))
      /\ spoiled' = Tally(spoiled, mailLost)
      /\ NextContact(w)
      /\ UNCHANGED <<database, req, mail, waived, excused, moved>>

RollbackInitial(w) ==
  /\ pc[w] = "write" /\ w \in InitialJob /\ out[w] = "raised"
  /\ RolledBack(w, {})
  /\ UNCHANGED bounds

\* The commit fails, or the summary that follows the flush raises: the mail has left.
CommitFails(w) ==
  /\ pc[w] = "write" /\ w \in InitialJob /\ out[w] # "raised"
  /\ Fault
  /\ RolledBack(w, sent[w])

\* run_followup_cycle: the contact stays in the open transaction, its claim released.
WriteFollow(w) ==
  /\ pc[w] = "write" /\ w \in FollowJob
  /\ tx' = [tx EXCEPT ![w][cur[w]] = Released(NewRow(w))]
  /\ NextContact(w)
  /\ UNCHANGED <<database, sent, req, mail, history, bounds>>

\* The batch is done: the one commit of run_followup_cycle, or the session scope of
\* dispatch_new_contacts_job committing its last release.
Finish(w) ==
  /\ pc[w] = "loop" /\ w \in Job
  /\ left[w] = {}
  /\ row' = Committed(w)
  /\ Reset(w)
  /\ UNCHANGED <<suppressed, dormant, req, mail, history, bounds>>

\* The process dies, or a database error ends the session: the transaction is rolled back.
Dies(w) ==
  /\ pc[w] # "idle"
  /\ Fault
  /\ spoiled' = Tally(spoiled, sent[w])
  /\ excused' = [c \in Contact |-> excused[c] \ {w}]
  /\ Reset(w)
  /\ UNCHANGED <<database, req, mail, dropped, waived, moved>>

-----------------------------------------------------------------------------
(* api/contacts.force_followup: no claim, and a lock only while it writes. *)

ForceAsk(w, c) ==
  /\ pc[w] = "idle"
  /\ can_send_followup(row[c].status, row[c].next)
  /\ Asked
  /\ pc' = [pc EXCEPT ![w] = "forced"]
  /\ left' = [left EXCEPT ![w] = {c}]
  /\ UNCHANGED <<database, tx, cur, snap, out, sent, req, mail, history>>

\* next_action_at = now, committed before the send.
ForceMark(w) ==
  /\ pc[w] = "forced"
  /\ \A c \in left[w] : Unlocked(c)
  /\ row' = [c \in Contact |-> IF c \in left[w] THEN [row[c] EXCEPT !.next = "due"] ELSE row[c]]
  /\ pc' = [pc EXCEPT ![w] = "loop"]
  /\ waived' = Tally(waived, left[w])
  /\ UNCHANGED <<suppressed, dormant, tx, left, cur, snap, out, sent, req, mail, spoiled, dropped, excused, moved, bounds>>

WriteForced(w) ==
  /\ pc[w] = "write" /\ w \in Forced
  /\ FreeFor(w, cur[w])
  /\ row' = [row EXCEPT ![cur[w]] = NewRow(w)]
  /\ Reset(w)
  /\ UNCHANGED <<suppressed, dormant, req, mail, history, bounds>>

-----------------------------------------------------------------------------
(* api/messages.approve_and_send_draft.                                    *)

\* The draft is read without a row lock.
NoLock(c) == <<>>

\* SELECT ... FOR UPDATE over messages, contacts and campaigns.
LockForUpdate(c) == [d \in {c} |-> row[c]]

\* Load the locked draft and run the gates.
ApproveOpen(a, c) ==
  /\ pc[a] = "idle"
  /\ Unlocked(c)
  /\ row[c].handled < row[c].drafts
  /\ ~is_suppressed(c)
  /\ tx' = [tx EXCEPT ![a] = LockForUpdate(c)]
  /\ pc' = [pc EXCEPT ![a] = "draft"]
  /\ cur' = [cur EXCEPT ![a] = c]
  /\ UNCHANGED <<database, left, snap, out, sent, req, mail, history, bounds>>

ApproveSend(a, outcome) ==
  LET c == cur[a]
  IN  /\ pc[a] = "draft" /\ a \in Approval
      /\ IF outcome = "sent" THEN UNCHANGED bounds ELSE Fault
      /\ IF outcome = "failed"
         THEN UNCHANGED <<approved, sent>>
         ELSE /\ approved' = [approved EXCEPT ![c] = @ + 1]
              /\ sent' = [sent EXCEPT ![a] = {c}]
      /\ out' = [out EXCEPT ![a] = outcome]
      /\ pc' = [pc EXCEPT ![a] = "write"]
      /\ excused' = [excused EXCEPT ![c] = @ \ {a}]
      /\ UNCHANGED <<database, tx, left, cur, snap, req, mailed, spoiled, dropped, waived, moved>>

ApproveCommit(a) ==
  /\ pc[a] = "write" /\ a \in Approval
  /\ row' = [row EXCEPT ![cur[a]].handled = @ + 1]
  /\ Reset(a)
  /\ UNCHANGED <<suppressed, dormant, req, mail, history, bounds>>

-----------------------------------------------------------------------------
(* The endpoints that move a contact by hand, and the campaign.            *)

ManualEvent(op) ==
  CASE op = "pause" -> "manual_pause" [] op = "resume" -> "manual_resume" [] op = "won" -> "manual_won"

\* The attributes the three endpoints set; resume sets no date.
Manual(s, op) ==
  [Kept(s) EXCEPT !.status = transition_contact_state(s.status, ManualEvent(op)),
                  !.next = IF op = "resume" THEN "keep" ELSE "none"]

\* pause_contact, resume_contact and mark_won: load the contact, refuse what the table
\* does not allow.
Ask(r, op, c) ==
  /\ req[r] = Null
  /\ Allowed(row[c].status, ManualEvent(op))
  /\ Asked
  /\ req' = [req EXCEPT ![r] =
       [op |-> op, on |-> {c}, snap |-> row[c], new |-> Manual(row[c], op)]]
  /\ UNCHANGED <<database, session, mail, history>>

\* start_campaign: load every NEW contact, give each a next_action_at of now.
Start(r) ==
  LET fresh == {c \in Contact : row[c].status = "new"}
  IN  /\ req[r] = Null
      /\ fresh # {}
      /\ req' = [req EXCEPT ![r] =
           [op |-> "start", on |-> fresh, snap |-> NoRow, new |-> [Kept(NoRow) EXCEPT !.next = "due"]]]
      /\ UNCHANGED <<database, session, mail, history, bounds>>

\* The UPDATEs of a request, as soon as no other transaction has its rows locked, and its
\* commit.
Commit(r) ==
  /\ req[r] # Null
  /\ req[r].op # "reply"
  /\ \A c \in req[r].on : Unlocked(c)
  /\ row' = [c \in Contact |-> IF c \in req[r].on THEN Written(row[c], req[r].snap, req[r].new)
                               ELSE row[c]]
  /\ waived' = Tally(waived, IF req[r].op = "resume" THEN req[r].on ELSE {})
  /\ moved' = IF req[r].op = "resume" THEN moved \cup req[r].on ELSE moved
  /\ req' = [req EXCEPT ![r] = Null]
  /\ UNCHANGED <<suppressed, dormant, session, mail, spoiled, dropped, excused, bounds>>

\* add_contacts and ingest_leads: new rows for addresses that are not suppressed and not
\* already in the campaign.
AddContacts(B) ==
  /\ B # {}
  /\ \A c \in B : row[c].status = "absent" /\ ~is_suppressed(c)
  /\ row' = [c \in Contact |-> IF c \in B THEN [NoRow EXCEPT !.status = "new"] ELSE row[c]]
  /\ UNCHANGED <<suppressed, dormant, session, req, mail, history, bounds>>

-----------------------------------------------------------------------------
(* Suppression and inbound replies.                                        *)

\* The sessions that are past their suppression gate for c.
PastGate(c) ==
  {w \in Session : cur[w] = c /\ pc[w] = "draft"}
    \cup {r \in Request : req[r] # Null /\ req[r].op = "reply" /\ c \in req[r].on}

Suppressed(c) ==
  /\ suppressed' = suppressed \cup {c}
  /\ excused' = IF c \in suppressed THEN excused ELSE [excused EXCEPT ![c] = PastGate(c)]

\* POST /suppress
Suppress(c) ==
  /\ c \notin suppressed
  /\ Asked
  /\ Suppressed(c)
  /\ UNCHANGED <<row, dormant, session, req, mail, spoiled, dropped, waived, moved>>

\* _draft_and_maybe_send_reply: no draft could be written, a draft awaits approval, or the
\* reply was sent automatically.
Answer(n, answer) ==
  LET human == transition_contact_state(n.status, "needs_human")
  IN  CASE answer = "manual" -> [n EXCEPT !.status = human]
        [] answer = "held" -> [n EXCEPT !.drafts = 1]
        [] answer = "unknown" -> [n EXCEPT !.status = human, !.next = "none"]
        [] OTHER -> n

\* _classify_and_apply_inbound on a loaded contact.
Reacted(s, reply, answer) ==
  LET go(event) == transition_contact_state(s.status, event)
      now == [Kept(s) EXCEPT !.recent = TRUE]
      off(event) == [now EXCEPT !.status = go(event), !.next = "none"]
  IN  IF reply.intents = {} THEN off("needs_human")
      ELSE IF "unsubscribe" \in reply.intents THEN off("unsubscribed")
      ELSE IF "not_interested" \in reply.intents THEN off("not_interested")
      ELSE IF "out_of_office" \in reply.intents THEN now
      ELSE Answer([now EXCEPT !.status = go(infer_event_from_semantic_intent(reply.intents)),
                              !.next = reschedule_after_reply(reply.intents, reply.asked_for)],
                  answer)

\* The intents a draft is written for.
Answered(reply) ==
  reply.intents # {} /\ reply.intents \cap {"unsubscribe", "not_interested", "out_of_office"} = {}

\* A reply is loaded, classified and planned; an automatic answer passes the suppression
\* gate.  "none" stands for the replies no draft is written for.
Receive(r, c, reply, answer) ==
  /\ req[r] = Null
  /\ row[c].status # "absent"
  /\ Asked
  /\ answer \in IF Answered(reply) THEN {"manual", "held", "sent", "failed", "unknown"} ELSE {"none"}
  /\ answer \in {"sent", "failed", "unknown"} => ~is_suppressed(c)
  /\ req' = [req EXCEPT ![r] =
       [op |-> "reply", on |-> {c}, snap |-> row[c], new |-> Reacted(row[c], reply, answer),
        unsubscribes |-> "unsubscribe" \in reply.intents,
        mails |-> answer \in {"sent", "unknown"}]]
  /\ UNCHANGED <<database, session, mail, history>>

\* The answer leaves, the contact is flushed and the reply's transaction commits.
CommitReply(r) ==
  /\ req[r] # Null
  /\ req[r].op = "reply"
  /\ \E c \in req[r].on :
       /\ Unlocked(c)
       /\ row' = [row EXCEPT ![c] = Written(@, req[r].snap, req[r].new)]
       /\ IF req[r].unsubscribes
          THEN Suppressed(c)
          ELSE excused' = [excused EXCEPT ![c] = @ \ {r}] /\ UNCHANGED suppressed
  /\ moved' = moved \cup req[r].on
  /\ req' = [req EXCEPT ![r] = Null]
  /\ UNCHANGED <<dormant, session, mail, spoiled, dropped, waived, bounds>>

\* A day passes: what was scheduled is due and a reply is no longer recent.
TimePasses(c) ==
  /\ Unlocked(c)
  /\ row[c].next = "later" \/ row[c].recent
  /\ row' = [row EXCEPT ![c].next = IF @ = "later" THEN "due" ELSE @, ![c].recent = FALSE]
  /\ UNCHANGED <<suppressed, dormant, session, req, mail, history, bounds>>

-----------------------------------------------------------------------------
JobStep(w) ==
  \/ Sweep(w) \/ Claim(w) \/ ClaimNothing(w)
  \/ \E c \in Contact : Begin(w, c)
  \/ Hold(w) \/ Send(w, "sent")
  \/ WriteInitial(w) \/ RollbackInitial(w) \/ WriteFollow(w) \/ Finish(w)

ForcedStep(w) ==
  \/ ForceMark(w)
  \/ \E c \in Contact : Begin(w, c)
  \/ Hold(w) \/ Send(w, "sent") \/ WriteForced(w)

ApprovalStep(a) == ApproveSend(a, "sent") \/ ApproveCommit(a)

RequestStep(r) == Commit(r) \/ CommitReply(r)

Faults ==
  \/ \E w \in Sender : Raise(w) \/ Send(w, "failed") \/ Send(w, "unknown")
  \/ \E w \in InitialJob : CommitFails(w)
  \/ \E a \in Approval : ApproveSend(a, "failed") \/ ApproveSend(a, "unknown")
  \/ \E w \in Session : Dies(w)
  \/ \E w \in Job : ReleaseAllClaims(w)

Environment ==
  \/ \E B \in SUBSET Contact : AddContacts(B)
  \/ \E r \in Request : Start(r)
  \/ \E r \in Request, op \in {"pause", "resume", "won"}, c \in Touched : Ask(r, op, c)
  \/ \E r \in Request, c \in Touched, reply \in Replies,
        answer \in {"none", "manual", "held", "sent", "failed", "unknown"} :
          Receive(r, c, reply, answer)
  \/ \E w \in Forced, c \in Touched : ForceAsk(w, c)
  \/ \E a \in Approval, c \in Touched : ApproveOpen(a, c)
  \/ \E c \in Touched : Suppress(c)
  \/ \E c \in Contact : TimePasses(c)

Next ==
  \/ \E w \in Job : JobStep(w)
  \/ \E w \in Forced : ForcedStep(w)
  \/ \E a \in Approval : ApprovalStep(a)
  \/ \E r \in Request : RequestStep(r)
  \/ \E c \in Contact : LeaseExpires(c)
  \/ Faults
  \/ Environment

\* The scheduler runs every job again and again, an approval that has its row locked is
\* served, and a lease nobody renews runs out.  Nothing else has to happen.
Fairness ==
  /\ \A w \in Job : WF_vars(JobStep(w))
  /\ \A a \in Approval : WF_vars(ApprovalStep(a))
  /\ \A c \in Contact : WF_vars(LeaseExpires(c))

Spec == Init /\ [][Next]_vars /\ Fairness

-----------------------------------------------------------------------------
(* Properties.  spoiled[c] counts the transactions that mailed c and were  *)
(* rolled back.  dropped[c] counts the times a claim that an initial job   *)
(* still counts on is dropped by that job's rollback, outlived, swept,     *)
(* overwritten by another job's release or released at shutdown.           *)
(* waived[c] counts the forced follow-ups and the resumes.                 *)
(* moved holds the contacts that answered or were resumed by hand.         *)

\* One step of the sequence (step 0 is the initial outreach) is mailed to a contact once,
\* plus once for each rolled-back transaction, each dropped claim and each licence: otherwise no
\* interleaving of jobs, requests and replies makes the code repeat a mail.
RepeatsAreLicensed ==
  \A c \in Contact, k \in Steps : mailed[c][k] <= 1 + spoiled[c] + dropped[c] + waived[c]

\* However many requests approve them, the drafts of a contact are mailed once each, plus
\* once for each approval whose transaction was rolled back after its mail had left.
DraftSentOnce == \A c \in Contact : approved[c] <= row[c].drafts + spoiled[c]

\* The contacts for which an active row without a next_action_at is accounted for.
Excepted(c) == c \in moved \cup suppressed \/ dropped[c] > 0

\* In a campaign that has follow-ups, the only active contacts without a next_action_at, which
\* no job will ever look at again, are suppressed, left so by their own reply or by a resume
\* (resume_contact sets no date), or were worked by two initial jobs at once: no failed send,
\* lost update, forced follow-up or pause drops a contact out of its sequence unnoticed.
ActiveIsScheduled ==
  Cadence > 0 =>
    \A c \in Contact : row[c].status = "active" /\ row[c].next = "none" => Excepted(c)

\* When a mail of the follow-up cycle leaves, the committed contact is still active, due
\* and without a reply of the last day, however long ago the cycle claimed and loaded it.
FollowUpsOnCurrentRow ==
  [][\A w \in FollowJob :
       (cur[w] # Null /\ sent'[w] # sent[w] /\ sent'[w] # {}) =>
         should_send_followup_now(row[cur[w]].status, row[cur[w]].next, row[cur[w]].recent)]_vars

\* After an address is suppressed, by the endpoint or by an unsubscribe, the only mail
\* that still leaves for it, be it outreach, follow-up, approved draft or automatic answer,
\* is of sessions that had read the list before, and at most one from each.
SuppressedNotMailed ==
  [][\A c \in suppressed :
       /\ (mailed'[c] # mailed[c] \/ approved'[c] # approved[c]) =>
             \E w \in Session : w \in excused[c] /\ w \notin excused'[c]
       /\ \A r \in Request :
             (req[r] # Null /\ req'[r] = Null /\ req[r].op = "reply" /\ req[r].on = {c}
                /\ req[r].mails) => r \in excused[c]]_vars

\* A contact of an active campaign that was started leaves the queue: it is mailed, parked,
\* paused or found suppressed, whatever died, failed or outlived its lease meanwhile.
StartedIsWorked ==
  \A c \in Contact :
    (c \notin dormant /\ row[c].status = "new" /\ row[c].next = "due") ~>
      (row[c].status # "new" \/ row[c].next # "due" \/ c \in suppressed)

\* No contact of an active campaign stays claimed: the claim is released, swept or lost
\* with its transaction.  (Those of an inactive campaign are swept and claimed again in
\* one transaction, cycle after cycle, and processed by nobody.)
ClaimsComeBack ==
  \A c \in Contact : (c \notin dormant /\ row[c].claim # Null) ~> row[c].claim = Null

\* dispatch_new_contacts_job: "so concurrent workers never double-send the initial outreach
\* to the same contact".  Only a transaction that was itself rolled back may repeat it.
NeverDoubleInitial == \A c \in Contact : mailed[c][0] <= 1 + spoiled[c]
=============================================================================
