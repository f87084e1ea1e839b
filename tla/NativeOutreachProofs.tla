------------------------ MODULE NativeOutreachProofs ------------------------
(***************************************************************************)
(* Proofs about NativeOutreach, for any number of contacts, jobs, requests *)
(* and faults.                                                             *)
(***************************************************************************)
EXTENDS NativeOutreach, FiniteSetTheorems, TLAPS

-----------------------------------------------------------------------------
(* The transition table.                                                   *)

\* Where the edges of the transition table lead: never back to new, and each manual event to
\* its one state.
LEMMA TableEdges ==
  ASSUME NEW s, NEW edge \in STATE_TRANSITIONS(s)
  PROVE  /\ edge[2] \in Status
         /\ edge[2] # "new"
         /\ edge[1] = "manual_pause" => edge[2] = "paused" /\ s # "paused"
         /\ edge[1] = "manual_won" => edge[2] = "closed_won" /\ s # "closed_won"
         /\ edge[1] = "needs_human" => edge[2] = "needs_review" /\ s # "needs_review"
<1> USE DEF STATE_TRANSITIONS, Status
<1>1. CASE s = "new"
  BY <1>1
<1>2. CASE s = "active"
  BY <1>2
<1>3. CASE s = "replied"
  BY <1>3
<1>4. CASE s = "engaged"
  BY <1>4
<1>5. CASE s = "evaluating"
  BY <1>5
<1>6. CASE s = "meeting_requested"
  BY <1>6
<1>7. CASE s = "meeting_scheduled"
  BY <1>7
<1>8. CASE s = "negotiating"
  BY <1>8
<1>9. CASE s = "nurture"
  BY <1>9
<1>10. CASE s = "sequence_complete"
  BY <1>10
<1>11. CASE s = "needs_review"
  BY <1>11
<1>12. CASE s = "paused"
  BY <1>12
<1>13. CASE s = "closed_lost"
  BY <1>13
<1>14. CASE s \notin {"new", "active", "replied", "engaged", "evaluating", "meeting_requested",
                      "meeting_scheduled", "negotiating", "nurture", "sequence_complete",
                      "needs_review", "paused", "closed_lost"}
  <2>1. STATE_TRANSITIONS(s) = {}
    BY <1>14
  <2>2. QED
    BY <2>1
<1>15. QED
  BY <1>1, <1>2, <1>3, <1>4, <1>5, <1>6, <1>7, <1>8, <1>9, <1>10, <1>11, <1>12, <1>13, <1>14

\* What transition_contact_state does to any status.
LEMMA Moves ==
  ASSUME NEW s, NEW e
  PROVE  /\ ~Allowed(s, e) => transition_contact_state(s, e) = s
         /\ transition_contact_state(s, e) # s =>
              /\ transition_contact_state(s, e) \in Status
              /\ transition_contact_state(s, e) # "new"
         /\ Allowed(s, e) => transition_contact_state(s, e) \in Status \ {"new"}
         /\ e = "manual_pause" /\ Allowed(s, e) => transition_contact_state(s, e) = "paused" /\ s # "paused"
         /\ e = "manual_won" /\ Allowed(s, e) => transition_contact_state(s, e) = "closed_won" /\ s # "closed_won"
         /\ e = "needs_human" /\ Allowed(s, e) => transition_contact_state(s, e) = "needs_review" /\ s # "needs_review"
<1>1. CASE Allowed(s, e)
  <2>1. PICK edge \in STATE_TRANSITIONS(s) :
          edge[1] = e /\ transition_contact_state(s, e) = edge[2]
    BY <1>1 DEF Allowed, transition_contact_state
  <2>2. QED
    BY <1>1, <2>1, TableEdges
<1>2. CASE ~Allowed(s, e)
  BY <1>2 DEF transition_contact_state
<1>3. QED
  BY <1>1, <1>2

\* An event with one edge out of a state takes it.
LEMMA MoveAlong ==
  ASSUME NEW s, NEW e, NEW t, <<e, t>> \in STATE_TRANSITIONS(s),
         \A edge \in STATE_TRANSITIONS(s) : edge[1] = e => edge[2] = t
  PROVE  transition_contact_state(s, e) = t
<1>1. Allowed(s, e)
  BY DEF Allowed
<1>2. QED
  BY <1>1 DEF transition_contact_state

\* The edges of the sequence itself.
LEMMA SequenceMoves ==
  /\ transition_contact_state("new", "initial_sent") = "active"
  /\ transition_contact_state("new", "needs_human") = "needs_review"
  /\ transition_contact_state("active", "needs_human") = "needs_review"
  /\ transition_contact_state("active", "followup_sent") = "active"
  /\ transition_contact_state("active", "sequence_exhausted") = "sequence_complete"
  /\ \A s \in {"paused", "closed_won"}, e \in {"initial_sent", "needs_human"} :
       transition_contact_state(s, e) = s
<1>1. /\ <<"initial_sent", "active">> \in STATE_TRANSITIONS("new")
      /\ <<"needs_human", "needs_review">> \in STATE_TRANSITIONS("new")
      /\ <<"needs_human", "needs_review">> \in STATE_TRANSITIONS("active")
      /\ <<"followup_sent", "active">> \in STATE_TRANSITIONS("active")
      /\ <<"sequence_exhausted", "sequence_complete">> \in STATE_TRANSITIONS("active")
  BY DEF STATE_TRANSITIONS
<1>2. \A edge \in STATE_TRANSITIONS("new") :
        /\ edge[1] = "initial_sent" => edge[2] = "active"
        /\ edge[1] = "needs_human" => edge[2] = "needs_review"
  BY DEF STATE_TRANSITIONS
<1>3. \A edge \in STATE_TRANSITIONS("active") :
        /\ edge[1] = "needs_human" => edge[2] = "needs_review"
        /\ edge[1] = "followup_sent" => edge[2] = "active"
        /\ edge[1] = "sequence_exhausted" => edge[2] = "sequence_complete"
  BY DEF STATE_TRANSITIONS
<1>4. \A s \in {"paused", "closed_won"} : \A edge \in STATE_TRANSITIONS(s) :
        edge[1] \notin {"initial_sent", "needs_human"}
  BY DEF STATE_TRANSITIONS
<1>5. \A s \in {"paused", "closed_won"}, e \in {"initial_sent", "needs_human"} : ~Allowed(s, e)
  BY <1>4 DEF Allowed
<1>6. QED
  BY <1>1, <1>2, <1>3, <1>5, MoveAlong, Moves

-----------------------------------------------------------------------------
(* Rows and changes.                                                       *)

\* An UPDATE writes the columns that changed, and nothing else.
LEMMA WrittenColumns ==
  ASSUME NEW base \in Row, NEW s \in Row, NEW n \in Change
  PROVE  /\ Written(base, s, n) \in Row
         /\ Written(base, s, n).lease = base.lease
         /\ Written(base, s, n).handled = base.handled
         /\ Written(base, s, n).drafts = base.drafts + n.drafts
         /\ Written(base, s, n).status = IF n.status = s.status THEN base.status ELSE n.status
         /\ Written(base, s, n).index = IF n.index = s.index THEN base.index ELSE n.index
         /\ Written(base, s, n).claim = IF n.claim = s.claim THEN base.claim ELSE n.claim
         /\ n.next = "keep" => Written(base, s, n).next = base.next
         /\ n.next \in {"due", "later"} => Written(base, s, n).next = n.next
         /\ n.next = "none" => Written(base, s, n).next = IF s.next = "none" THEN base.next ELSE "none"
<1> DEFINE x == Written(base, s, n)
           next == CASE n.next = "keep" -> base.next
                     [] n.next = "none" -> IF "none" = s.next THEN base.next ELSE "none"
                     [] OTHER -> n.next
<1>1. n.next \in {"none", "due", "later", "keep"} /\ base.next \in {"none", "due", "later"}
  BY DEF Row, Change
<1>2. /\ next \in {"none", "due", "later"}
      /\ n.next = "keep" => next = base.next
      /\ n.next \in {"due", "later"} => next = n.next
      /\ n.next = "none" => next = IF s.next = "none" THEN base.next ELSE "none"
  BY <1>1
<1>3. x = [base EXCEPT
             !.status = IF n.status = s.status THEN base.status ELSE n.status,
             !.next = next,
             !.claim = IF n.claim = s.claim THEN base.claim ELSE n.claim,
             !.index = IF n.index = s.index THEN base.index ELSE n.index,
             !.drafts = base.drafts + n.drafts,
             !.recent = base.recent \/ n.recent]
  BY DEF Written, Row
<1> HIDE DEF next, x
<1>4. x.recent = (base.recent \/ n.recent) /\ base.recent \in BOOLEAN /\ n.recent \in BOOLEAN
  BY <1>3 DEF Row, Change
<1>5. x.recent \in BOOLEAN
  BY <1>4, Zenon
<1>6. x = [status |-> x.status, next |-> x.next, claim |-> x.claim, lease |-> x.lease,
           index |-> x.index, recent |-> x.recent, drafts |-> x.drafts, handled |-> x.handled]
  BY <1>3 DEF Row
<1>7. x \in Row
  BY <1>2, <1>3, <1>5, <1>6 DEF Row, Change
<1>8. QED
  BY <1>2, <1>3, <1>7 DEF x, Row, Change

\* Releasing a claim clears the two claim columns and nothing else.
LEMMA ReleasedRow ==
  ASSUME NEW r \in Row
  PROVE  /\ Released(r) \in Row
         /\ Released(r) = [r EXCEPT !.claim = Null, !.lease = FALSE]
         /\ \A f \in {"status", "next", "index", "recent", "drafts", "handled"} : Released(r)[f] = r[f]
         /\ Released(r).claim = Null /\ Released(r).lease = FALSE
BY DEF Released, Row

\* The row of a contact nobody has ingested yet is a row.
LEMMA NoRowTyped == NoRow \in Row /\ [NoRow EXCEPT !.status = "new"] \in Row
BY DEF NoRow, Row, Status

\* An untouched copy is a change that writes nothing.
LEMMA KeptTyped ==
  ASSUME NEW s \in Row
  PROVE  /\ Kept(s) \in Change
         /\ Kept(s).status = s.status /\ Kept(s).claim = s.claim /\ Kept(s).index = s.index
         /\ Kept(s).next = "keep" /\ Kept(s).drafts = 0 /\ Kept(s).recent = FALSE
BY DEF Kept, Row, Change

\* The status after an event is a status again.
LEMMA MovesTyped ==
  ASSUME NEW s \in Status \cup {"absent"}, NEW e
  PROVE  transition_contact_state(s, e) \in Status \cup {"absent"}
BY Moves

\* The schedule functions give a date or none, the cadence never one that has passed.
LEMMA NextTyped ==
  /\ \A s, k, n : compute_next_followup(s, k, n) \in {"none", "later"}
  /\ \A i, p : reschedule_after_reply(i, p) \in {"none", "due", "later"}
BY DEF compute_next_followup, reschedule_after_reply

\* What the senders decide.
LEMMA OutcomeTyped ==
  ASSUME NEW w, NEW s \in Row, NEW result \in Results
  PROVE  Outcome(w, s, result) \in Change
<1> DEFINE go(event) == transition_contact_state(s.status, event)
<1> USE KeptTyped
<1>0. s.status \in Status \cup {"absent"} /\ s.index \in Nat
  BY DEF Row
<1>1. \A e : go(e) \in Status \cup {"absent"}
  BY <1>0, MovesTyped
<1>2. \A e, f : transition_contact_state(go(e), f) \in Status \cup {"absent"}
  BY <1>1, MovesTyped
<1> DEFINE off == go("unsubscribed")
           human == go("needs_human")
           first == go("initial_sent")
<1>3. off \in Status \cup {"absent"} /\ human \in Status \cup {"absent"} /\ first \in Status \cup {"absent"}
  BY <1>1
<1> HIDE DEF go, off, human, first
<1>4. CASE result = "suppressed"
  <2>1. Outcome(w, s, result) = [Kept(s) EXCEPT !.status = off,
                                   !.next = IF w \in InitialJob THEN "keep" ELSE "none"]
    BY <1>4 DEF Outcome, go, off, human, first
  <2>2. QED
    BY <2>1, <1>3 DEF Change
<1>5. CASE result = "held"
  <2>1. Outcome(w, s, result) = [Kept(s) EXCEPT !.status = human, !.next = "none",
                                                !.claim = Null, !.drafts = 1]
    BY <1>5 DEF Outcome, go, off, human, first
  <2>2. QED
    BY <2>1, <1>3 DEF Change
<1>6. CASE result = "unknown"
  <2>1. Outcome(w, s, result) = [Kept(s) EXCEPT !.status = human, !.next = "none"]
    BY <1>6 DEF Outcome, Doubtful, go, human
  <2>2. QED
    BY <2>1, <1>3 DEF Change
<1>7. CASE result = "sent" /\ w \in InitialJob
  <2>1. Outcome(w, s, result) = [Kept(s) EXCEPT !.status = first,
                                   !.next = compute_next_followup(first, s.index, Cadence)]
    BY <1>7 DEF Outcome, go, off, human, first
  <2>2. QED
    BY <2>1, <1>3, NextTyped DEF Change
<1>8. CASE result = "sent" /\ w \notin InitialJob
  <2> DEFINE next == compute_next_followup(go("followup_sent"), s.index + 1, Cadence)
             status == IF next = "none"
                       THEN transition_contact_state(go("followup_sent"), "sequence_exhausted")
                       ELSE go("followup_sent")
  <2>1. Outcome(w, s, result) = [Kept(s) EXCEPT !.status = status, !.index = s.index + 1, !.next = next]
    BY <1>8 DEF Outcome, go, off, human, first
  <2>2. next \in {"none", "later"} /\ status \in Status \cup {"absent"} /\ s.index + 1 \in Nat
    BY <1>0, <1>1, <1>2, NextTyped
  <2>3. QED
    BY <2>1, <2>2 DEF Change
<1>9. CASE result \in {"none", "skip", "failed", "raised"}
  BY <1>9 DEF Outcome
<1>10. QED
  BY <1>4, <1>5, <1>6, <1>7, <1>8, <1>9 DEF Results

\* Whatever a reply says, the change it makes is a change and touches neither claim nor step
\* index.
LEMMA ReactedTyped ==
  ASSUME NEW s \in Row, NEW reply, NEW answer
  PROVE  /\ Reacted(s, reply, answer) \in Change
         /\ Reacted(s, reply, answer).claim = s.claim
         /\ Reacted(s, reply, answer).index = s.index
<1> DEFINE go(event) == transition_contact_state(s.status, event)
           now == [Kept(s) EXCEPT !.recent = TRUE]
           n == [now EXCEPT !.status = go(infer_event_from_semantic_intent(reply.intents)),
                            !.next = reschedule_after_reply(reply.intents, reply.asked_for)]
<1> USE KeptTyped
<1>0. s.status \in Status \cup {"absent"}
  BY DEF Row
<1>1. \A e : go(e) \in Status \cup {"absent"}
  BY <1>0, MovesTyped
<1>2. now \in Change /\ now.claim = s.claim /\ now.index = s.index
  BY DEF Change
<1>3. reschedule_after_reply(reply.intents, reply.asked_for) \in {"none", "due", "later"}
  BY NextTyped
<1>4. n \in Change /\ n.claim = s.claim /\ n.index = s.index
  <2> HIDE DEF go, now
  <2>1. QED
    BY <1>1, <1>2, <1>3 DEF Change
<1>5. ASSUME NEW e
      PROVE  /\ [now EXCEPT !.status = go(e), !.next = "none"] \in Change
             /\ [now EXCEPT !.status = go(e), !.next = "none"].claim = s.claim
             /\ [now EXCEPT !.status = go(e), !.next = "none"].index = s.index
  <2> DEFINE st == go(e)
  <2>1. st \in Status \cup {"absent"}
    BY <1>1
  <2> HIDE DEF st, now
  <2>2. /\ [now EXCEPT !.status = st, !.next = "none"] \in Change
        /\ [now EXCEPT !.status = st, !.next = "none"].claim = s.claim
        /\ [now EXCEPT !.status = st, !.next = "none"].index = s.index
    BY <1>2, <2>1 DEF Change
  <2>3. QED
    BY <2>2 DEF st
<1>6. /\ Answer(n, answer) \in Change
      /\ Answer(n, answer).claim = s.claim /\ Answer(n, answer).index = s.index
  <2> HIDE DEF n
  <2>0. n.status \in Status \cup {"absent"}
    BY <1>4 DEF Change
  <2>1. transition_contact_state(n.status, "needs_human") \in Status \cup {"absent"}
    BY <2>0, MovesTyped
  <2>2. CASE answer \in {"manual", "held", "unknown"}
    BY <1>4, <2>1, <2>2 DEF Answer, Change
  <2>3. CASE answer \notin {"manual", "held", "unknown"}
    BY <1>4, <2>3 DEF Answer
  <2>4. QED
    BY <2>2, <2>3
<1> DEFINE x == Reacted(s, reply, answer)
           off(e) == [now EXCEPT !.status = go(e), !.next = "none"]
<1>7. x = off("needs_human") \/ x = off("unsubscribed") \/ x = off("not_interested")
        \/ x = now \/ x = Answer(n, answer)
  BY DEF Reacted
<1> HIDE DEF now, n, x
<1>8. ASSUME NEW e, x = off(e)
      PROVE  x \in Change /\ x.claim = s.claim /\ x.index = s.index
  BY <1>5, <1>8, Zenon
<1> HIDE DEF off
<1>9. x \in Change /\ x.claim = s.claim /\ x.index = s.index
  <2>1. CASE x = now
    BY <2>1, <1>2
  <2>2. CASE x = Answer(n, answer)
    BY <2>2, <1>6
  <2>3. QED
    BY <2>1, <2>2, <1>7, <1>8
<1>10. QED
  BY <1>9 DEF x

\* What a session reads is a row.
LEMMA ViewTyped ==
  ASSUME TypeOK, NEW w \in Session, NEW c \in Contact
  PROVE  View(w, c) \in Row
BY DEF TypeOK, RowTyped, LocksTyped, View

\* What a commit leaves in the table is a table of rows.
LEMMA CommittedTyped ==
  ASSUME TypeOK, NEW w \in Session
  PROVE  Committed(w) \in [Contact -> Row]
BY ViewTyped DEF Committed

\* What a sender writes for the contact in hand is a row.
LEMMA NewRowTyped ==
  ASSUME TypeOK, NEW w \in Session, cur[w] \in Contact
  PROVE  /\ NewRow(w) \in Row
         /\ Outcome(w, snap[w], out[w]) \in Change /\ snap[w] \in Row /\ View(w, cur[w]) \in Row
<1>1. snap[w] \in Row /\ out[w] \in Results
  BY DEF TypeOK, ThreadsTyped
<1>2. QED
  BY <1>1, OutcomeTyped, ViewTyped, WrittenColumns DEF NewRow

\* Tally counts one more for each contact of S.
LEMMA TallyTyped ==
  ASSUME NEW f \in [Contact -> Nat], NEW S
  PROVE  /\ Tally(f, S) \in [Contact -> Nat]
         /\ \A c \in Contact : Tally(f, S)[c] = IF c \in S THEN f[c] + 1 ELSE f[c]
BY DEF Tally

-----------------------------------------------------------------------------
(* Types.                                                                  *)

\* What a step leaves alone keeps its type.
LEMMA TypeFrames ==
  ASSUME TypeOK
  PROVE  /\ UNCHANGED row => RowTyped'
         /\ UNCHANGED tx => LocksTyped'
         /\ UNCHANGED <<pc, left, cur, snap, out, sent>> => ThreadsTyped'
         /\ UNCHANGED req => RequestsTyped'
         /\ UNCHANGED mail => MailTyped'
         /\ UNCHANGED <<spoiled, dropped, waived>> => CountsTyped'
         /\ UNCHANGED <<suppressed, dormant, moved, excused>> => SetsTyped'
         /\ UNCHANGED bounds => BoundsTyped'
<1> USE DEF TypeOK
<1>1. UNCHANGED row => RowTyped'
  BY DEF RowTyped
<1>2. UNCHANGED tx => LocksTyped'
  BY DEF LocksTyped
<1>3. UNCHANGED <<pc, left, cur, snap, out, sent>> => ThreadsTyped'
  BY DEF ThreadsTyped
<1>4. UNCHANGED req => RequestsTyped'
  BY DEF RequestsTyped
<1>5. UNCHANGED mail => MailTyped'
  BY DEF MailTyped, mail
<1>6. UNCHANGED <<spoiled, dropped, waived>> => CountsTyped'
  BY DEF CountsTyped
<1>7. UNCHANGED <<suppressed, dormant, moved, excused>> => SetsTyped'
  BY DEF SetsTyped
<1>8. UNCHANGED bounds => BoundsTyped'
  BY DEF BoundsTyped, bounds
<1>9. QED
  BY <1>1, <1>2, <1>3, <1>4, <1>5, <1>6, <1>7, <1>8

\* The counters of faults and requests stay within their bounds.
LEMMA BoundsStep ==
  ASSUME TypeOK, Asked \/ Fault \/ Overrun \/ UNCHANGED bounds
  PROVE  BoundsTyped'
BY NativeAssumption DEF TypeOK, BoundsTyped, Asked, Fault, Overrun, bounds

\* A session that ends is back to its initial values.
LEMMA ResetTyped ==
  ASSUME TypeOK, NEW w \in Session, Reset(w)
  PROVE  LocksTyped' /\ ThreadsTyped'
<1>1. LocksTyped'
  BY DEF TypeOK, Reset, LocksTyped
<1>2. ThreadsTyped'
  BY NoRowTyped DEF TypeOK, Reset, ThreadsTyped, Results
<1>3. QED
  BY <1>1, <1>2

\* The history counters stay counters.
LEMMA CountsStep ==
  ASSUME TypeOK, NEW S, NEW T, NEW U,
         spoiled' = spoiled \/ spoiled' = Tally(spoiled, S),
         dropped' = dropped \/ dropped' = Tally(dropped, T),
         waived' = waived \/ waived' = Tally(waived, U)
  PROVE  CountsTyped'
BY TallyTyped DEF TypeOK, CountsTyped

\* The initial state is typed.
LEMMA TypeInit == Init => TypeOK
<1> SUFFICES ASSUME Init PROVE TypeOK
  OBVIOUS
<1>1. LocksTyped
  BY DEF Init, LocksTyped
<1>2. QED
  BY <1>1, NoRowTyped, NativeAssumption
     DEF TypeOK, Init, RowTyped, ThreadsTyped, RequestsTyped, MailTyped, CountsTyped, SetsTyped, BoundsTyped, Results

-----------------------------------------------------------------------------
(* The steps, one disjunct per action.                                     *)

Outcomes == {"sent", "failed", "unknown"}

JobCase ==
  \/ \E w \in Job : Sweep(w) \/ Claim(w) \/ ClaimNothing(w) \/ Finish(w) \/ ReleaseAllClaims(w)
  \/ \E w \in InitialJob : WriteInitial(w) \/ RollbackInitial(w) \/ CommitFails(w)
  \/ \E w \in FollowJob : WriteFollow(w)

SenderCase ==
  \/ \E w \in Sender, c \in Contact : Begin(w, c)
  \/ \E w \in Sender : Hold(w) \/ Raise(w)
  \/ \E w \in Sender, o \in Outcomes : Send(w, o)
  \/ \E w \in Session : Dies(w)

EndpointCase ==
  \/ \E w \in Forced, c \in Touched : ForceAsk(w, c)
  \/ \E w \in Forced : ForceMark(w) \/ WriteForced(w)
  \/ \E a \in Approval, c \in Touched : ApproveOpen(a, c)
  \/ \E a \in Approval, o \in Outcomes : ApproveSend(a, o)
  \/ \E a \in Approval : ApproveCommit(a)

RequestCase ==
  \/ \E r \in Request, op \in {"pause", "resume", "won"}, c \in Touched : Ask(r, op, c)
  \/ \E r \in Request : Start(r) \/ Commit(r) \/ CommitReply(r)
  \/ \E r \in Request, c \in Touched, reply \in Replies,
        answer \in {"none", "manual", "held", "sent", "failed", "unknown"} :
          Receive(r, c, reply, answer)

WorldCase ==
  \/ \E B \in SUBSET Contact : AddContacts(B)
  \/ \E c \in Touched : Suppress(c)
  \/ \E c \in Contact : LeaseExpires(c) \/ TimePasses(c)

\* A step is one of the actions below, or a stutter.
LEMMA NextCases ==
  ASSUME [Next]_vars
  PROVE  JobCase \/ SenderCase \/ EndpointCase \/ RequestCase \/ WorldCase \/ UNCHANGED vars
<1>0. /\ \A w \in Job : w \in Sender
      /\ \A w \in Forced : w \in Sender
      /\ \A w \in Job : WriteInitial(w) \/ RollbackInitial(w) => w \in InitialJob
      /\ \A w \in Job : WriteFollow(w) => w \in FollowJob
      /\ "sent" \in Outcomes /\ "failed" \in Outcomes /\ "unknown" \in Outcomes
  BY DEF Sender, WriteInitial, RollbackInitial, WriteFollow, Outcomes
<1>1. ASSUME NEW w \in Job, JobStep(w) PROVE JobCase \/ SenderCase
  BY <1>0, <1>1, Zenon DEF JobStep, JobCase, SenderCase
<1>2. ASSUME NEW w \in Forced, ForcedStep(w) PROVE EndpointCase \/ SenderCase
  BY <1>0, <1>2, Zenon DEF ForcedStep, EndpointCase, SenderCase
<1>3. ASSUME NEW a \in Approval, ApprovalStep(a) PROVE EndpointCase
  BY <1>0, <1>3, Zenon DEF ApprovalStep, EndpointCase
<1>4. ASSUME NEW r \in Request, RequestStep(r) PROVE RequestCase
  BY <1>4, Zenon DEF RequestStep, RequestCase
<1>5. ASSUME Faults PROVE SenderCase \/ EndpointCase \/ JobCase
  BY <1>0, <1>5, Zenon DEF Faults, SenderCase, EndpointCase, JobCase
<1>6. ASSUME Environment PROVE RequestCase \/ EndpointCase \/ WorldCase
  BY <1>6, Zenon DEF Environment, RequestCase, EndpointCase, WorldCase
<1>7. ASSUME NEW c \in Contact, LeaseExpires(c) PROVE WorldCase
  BY <1>7, Zenon DEF WorldCase
<1>8. QED
  BY <1>1, <1>2, <1>3, <1>4, <1>5, <1>6, <1>7, Zenon DEF Next

\* The kinds of session, and that none of them is of two kinds.
LEMMA Actors ==
  /\ InitialJob \subseteq Job /\ FollowJob \subseteq Job /\ Job \subseteq Sender
  /\ Forced \subseteq Sender /\ Sender \subseteq Session /\ Approval \subseteq Session
  /\ \A w \in Job : w \in InitialJob \/ w \in FollowJob
  /\ \A w \in Session : w \in InitialJob \/ w \in FollowJob \/ w \in Forced \/ w \in Approval
  /\ \A w \in InitialJob : w \notin FollowJob /\ w \notin Forced /\ w \notin Approval
  /\ \A w \in FollowJob : w \notin InitialJob /\ w \notin Forced /\ w \notin Approval
  /\ \A w \in Forced : w \notin InitialJob /\ w \notin FollowJob /\ w \notin Approval
  /\ \A w \in Approval : w \notin InitialJob /\ w \notin FollowJob /\ w \notin Forced
  /\ \A w \in Sender : w \notin Approval
  /\ \A w \in Session : w \notin Request
  /\ Touched \subseteq Contact /\ Null \notin Contact /\ Null \notin Session
BY NativeAssumption DEF Job, Sender, Session

\* The edits of a row that the steps make give rows.
LEMMA RowEdits ==
  ASSUME NEW r \in Row, NEW next \in {"none", "due", "later"}
  PROVE  /\ [r EXCEPT !.lease = FALSE] \in Row
         /\ [r EXCEPT !.handled = r.handled + 1] \in Row
         /\ [r EXCEPT !.next = next] \in Row
         /\ [r EXCEPT !.next = next, !.recent = FALSE] \in Row
         /\ \A w \in Job : [r EXCEPT !.claim = w, !.lease = TRUE] \in Row
<1>1. [r EXCEPT !.lease = FALSE] \in Row
  BY DEF Row
<1>2. [r EXCEPT !.handled = r.handled + 1] \in Row
  BY DEF Row
<1>3. [r EXCEPT !.next = next] \in Row
  BY DEF Row
<1>4. [r EXCEPT !.next = next, !.recent = FALSE] \in Row
  BY DEF Row
<1>5. \A w \in Job : [r EXCEPT !.claim = w, !.lease = TRUE] \in Row
  BY DEF Row
<1>6. QED
  BY <1>1, <1>2, <1>3, <1>4, <1>5

\* The change of a manual endpoint, by its columns.
LEMMA ManualTyped ==
  ASSUME NEW s \in Row, NEW op \in {"pause", "resume", "won"}
  PROVE  /\ Manual(s, op) \in Change
         /\ Manual(s, op).status = transition_contact_state(s.status, ManualEvent(op))
         /\ Manual(s, op).claim = s.claim /\ Manual(s, op).index = s.index /\ Manual(s, op).drafts = 0
<1> DEFINE st == transition_contact_state(s.status, ManualEvent(op))
<1>1. s.status \in Status \cup {"absent"}
  BY DEF Row
<1>2. st \in Status \cup {"absent"}
  BY <1>1, MovesTyped
<1>3. Manual(s, op) = [Kept(s) EXCEPT !.status = st, !.next = IF op = "resume" THEN "keep" ELSE "none"]
  BY DEF Manual
<1> HIDE DEF st
<1>4. /\ Manual(s, op) \in Change /\ Manual(s, op).status = st
      /\ Manual(s, op).claim = s.claim /\ Manual(s, op).index = s.index /\ Manual(s, op).drafts = 0
  BY <1>2, <1>3, KeptTyped DEF Change
<1>5. QED
  BY <1>4 DEF st

\* The change start_campaign makes, by its columns.
LEMMA StartTyped ==
  /\ [Kept(NoRow) EXCEPT !.next = "due"] \in Change
  /\ [Kept(NoRow) EXCEPT !.next = "due"].status = NoRow.status
  /\ [Kept(NoRow) EXCEPT !.next = "due"].claim = NoRow.claim
  /\ [Kept(NoRow) EXCEPT !.next = "due"].index = NoRow.index
  /\ [Kept(NoRow) EXCEPT !.next = "due"].next = "due"
  /\ [Kept(NoRow) EXCEPT !.next = "due"].drafts = 0
BY NoRowTyped, KeptTyped DEF Change

-----------------------------------------------------------------------------
(* Threads, and the types kept.                                            *)

\* A session has a contact in hand exactly while it drafts, sends and writes.
Busy == \A w \in Session : cur[w] # Null <=> pc[w] \in {"draft", "write"}

\* Busy is kept by every step.
LEMMA BusyStep == TypeOK /\ Busy /\ [Next]_vars => Busy'
<1> SUFFICES ASSUME TypeOK, Busy, [Next]_vars
             PROVE  Busy'
  OBVIOUS
<1> USE Actors DEF Busy, TypeOK, ThreadsTyped
<1>1. ASSUME NEW w \in Job, Sweep(w)
      PROVE  Busy'
  BY <1>1 DEF Sweep
<1>2. ASSUME NEW w \in Job, Claim(w)
      PROVE  Busy'
  BY <1>2 DEF Claim
<1>3. ASSUME NEW w \in Job, ClaimNothing(w)
      PROVE  Busy'
  BY <1>3 DEF ClaimNothing, Reset
<1>4. ASSUME NEW w \in Sender, NEW c \in Contact, Begin(w, c)
      PROVE  Busy'
  BY <1>4 DEF Begin
<1>5. ASSUME NEW w \in Sender, Hold(w)
      PROVE  Busy'
  BY <1>5 DEF Hold
<1>6. ASSUME NEW w \in Sender, Raise(w)
      PROVE  Busy'
  BY <1>6 DEF Raise
<1>7. ASSUME NEW w \in Sender, NEW o \in Outcomes, Send(w, o)
      PROVE  Busy'
  BY <1>7 DEF Send
<1>8. ASSUME NEW w \in InitialJob, WriteInitial(w)
      PROVE  Busy'
  BY <1>8 DEF WriteInitial, NextContact
<1>9. ASSUME NEW w \in InitialJob, RollbackInitial(w) \/ CommitFails(w)
      PROVE  Busy'
  BY <1>9 DEF RollbackInitial, CommitFails, RolledBack, NextContact
<1>10. ASSUME NEW w \in FollowJob, WriteFollow(w)
      PROVE  Busy'
  BY <1>10 DEF WriteFollow, NextContact
<1>11. ASSUME NEW w \in Job, Finish(w)
      PROVE  Busy'
  BY <1>11 DEF Finish, Reset
<1>12. ASSUME NEW w \in Session, Dies(w)
      PROVE  Busy'
  BY <1>12 DEF Dies, Reset
<1>13. ASSUME NEW w \in Job, ReleaseAllClaims(w)
      PROVE  Busy'
  BY <1>13 DEF ReleaseAllClaims, session
<1>14. ASSUME NEW c \in Contact, LeaseExpires(c)
      PROVE  Busy'
  BY <1>14 DEF LeaseExpires, session
<1>15. ASSUME NEW w \in Forced, NEW c \in Touched, ForceAsk(w, c)
      PROVE  Busy'
  BY <1>15 DEF ForceAsk
<1>16. ASSUME NEW w \in Forced, ForceMark(w)
      PROVE  Busy'
  BY <1>16 DEF ForceMark
<1>17. ASSUME NEW w \in Forced, WriteForced(w)
      PROVE  Busy'
  BY <1>17 DEF WriteForced, Reset
<1>18. ASSUME NEW a \in Approval, NEW c \in Touched, ApproveOpen(a, c)
      PROVE  Busy'
  BY <1>18 DEF ApproveOpen
<1>19. ASSUME NEW a \in Approval, NEW o \in Outcomes, ApproveSend(a, o)
      PROVE  Busy'
  BY <1>19 DEF ApproveSend
<1>20. ASSUME NEW a \in Approval, ApproveCommit(a)
      PROVE  Busy'
  BY <1>20 DEF ApproveCommit, Reset
<1>21. ASSUME NEW r \in Request, NEW op \in {"pause", "resume", "won"}, NEW c \in Touched, Ask(r, op, c)
      PROVE  Busy'
  BY <1>21 DEF Ask, session
<1>22. ASSUME NEW r \in Request, Start(r)
      PROVE  Busy'
  BY <1>22 DEF Start, session
<1>23. ASSUME NEW r \in Request, Commit(r)
      PROVE  Busy'
  BY <1>23 DEF Commit, session
<1>24. ASSUME NEW B \in SUBSET Contact, AddContacts(B)
      PROVE  Busy'
  BY <1>24 DEF AddContacts, session
<1>25. ASSUME NEW c \in Touched, Suppress(c)
      PROVE  Busy'
  BY <1>25 DEF Suppress, session
<1>26. ASSUME NEW r \in Request, NEW c \in Touched, NEW reply \in Replies,
            NEW answer \in {"none", "manual", "held", "sent", "failed", "unknown"},
            Receive(r, c, reply, answer)
      PROVE  Busy'
  BY <1>26 DEF Receive, session
<1>27. ASSUME NEW r \in Request, CommitReply(r)
      PROVE  Busy'
  BY <1>27 DEF CommitReply, session
<1>28. ASSUME NEW c \in Contact, TimePasses(c)
      PROVE  Busy'
  BY <1>28 DEF TimePasses, session
<1>29. CASE UNCHANGED vars
  BY <1>29 DEF vars, session
<1>30. QED
  BY <1>1, <1>2, <1>3, <1>4, <1>5, <1>6, <1>7, <1>8, <1>9, <1>10, <1>11, <1>12, <1>13, <1>14,
     <1>15, <1>16, <1>17, <1>18, <1>19, <1>20, <1>21, <1>22, <1>23, <1>24, <1>25, <1>26, <1>27, <1>28, <1>29,
     NextCases DEF JobCase, SenderCase, EndpointCase, RequestCase, WorldCase

\* The contact in hand is a contact.
LEMMA Hand ==
  ASSUME TypeOK, Busy, NEW w \in Session, pc[w] \in {"draft", "write"}
  PROVE  cur[w] \in Contact
BY DEF TypeOK, ThreadsTyped, Busy

\* TypeOK is kept by every step.
LEMMA TypeStep == TypeOK /\ Busy /\ [Next]_vars => TypeOK'
<1> SUFFICES ASSUME TypeOK, Busy, [Next]_vars
             PROVE  TypeOK'
  OBVIOUS
<1> USE Actors DEF TypeOK
<1>1. ASSUME NEW w \in Job, Sweep(w)
      PROVE  TypeOK'
  <2>1. ThreadsTyped'
    BY <1>1 DEF Sweep, Expired, ThreadsTyped
  <2>2. QED
    BY <1>1, <2>1, TypeFrames DEF Sweep, database, session, mail, history, bounds
<1>2. ASSUME NEW w \in Job, Claim(w)
      PROVE  TypeOK'
  <2>1. LocksTyped'
    <3> DEFINE t == [c \in Due(w) \cup Swept(w) |->
                       IF c \in Due(w) THEN [row[c] EXCEPT !.claim = w, !.lease = TRUE]
                       ELSE Released(row[c])]
    <3>1. Due(w) \cup Swept(w) \subseteq Contact
      BY DEF Due, Swept, ThreadsTyped
    <3>2. \A c \in Contact : [row[c] EXCEPT !.claim = w, !.lease = TRUE] \in Row /\ Released(row[c]) \in Row
      BY ReleasedRow, RowEdits DEF RowTyped
    <3>3. DOMAIN t \subseteq Contact /\ \A c \in DOMAIN t : t[c] \in Row
      BY <3>1, <3>2
    <3>4. tx' = [tx EXCEPT ![w] = t]
      BY <1>2 DEF Claim
    <3> HIDE DEF t
    <3>5. QED
      BY <3>3, <3>4 DEF LocksTyped
  <2>2. ThreadsTyped'
    BY <1>2 DEF Claim, Due, ThreadsTyped
  <2>3. CountsTyped'
    BY <1>2, CountsStep DEF Claim
  <2>4. QED
    BY <1>2, <2>1, <2>2, <2>3, TypeFrames DEF Claim, database, session, mail, history, bounds
<1>3. ASSUME NEW w \in Job, ClaimNothing(w)
      PROVE  TypeOK'
  <2>1. RowTyped'
    BY <1>3, ReleasedRow DEF ClaimNothing, RowTyped
  <2>2. LocksTyped' /\ ThreadsTyped'
    BY <1>3, ResetTyped DEF ClaimNothing
  <2>3. CountsTyped'
    BY <1>3, CountsStep DEF ClaimNothing
  <2>4. QED
    BY <1>3, <2>1, <2>2, <2>3, TypeFrames DEF ClaimNothing, database, session, mail, history, bounds
<1>4. ASSUME NEW w \in Sender, NEW c \in Contact, Begin(w, c)
      PROVE  TypeOK'
  <2>1. ThreadsTyped'
    BY <1>4, ViewTyped DEF Begin, ThreadsTyped, Results
  <2>2. QED
    BY <1>4, <2>1, TypeFrames DEF Begin, database, session, mail, history, bounds
<1>5. ASSUME NEW w \in Sender, Hold(w)
      PROVE  TypeOK'
  <2>1. ThreadsTyped'
    BY <1>5 DEF Hold, ThreadsTyped, Results
  <2>2. SetsTyped'
    BY <1>5 DEF Hold, database, history, SetsTyped
  <2>3. QED
    BY <1>5, <2>1, <2>2, TypeFrames DEF Hold, database, session, mail, history, bounds
<1>6. ASSUME NEW w \in Sender, Raise(w)
      PROVE  TypeOK'
  <2>1. ThreadsTyped'
    BY <1>6 DEF Raise, ThreadsTyped, Results
  <2>2. SetsTyped'
    BY <1>6 DEF Raise, database, history, SetsTyped
  <2>3. BoundsTyped'
    BY <1>6, BoundsStep DEF Raise
  <2>4. QED
    BY <1>6, <2>1, <2>2, <2>3, TypeFrames DEF Raise, database, session, mail, history, bounds
<1>7. ASSUME NEW w \in Sender, NEW o \in Outcomes, Send(w, o)
      PROVE  TypeOK'
  <2>1. cur[w] \in Contact
    BY <1>7, Hand DEF Send
  <2>2. ThreadsTyped'
    BY <1>7, <2>1 DEF Send, ThreadsTyped, Results, Outcomes
  <2>3. SetsTyped'
    BY <1>7 DEF Send, database, history, SetsTyped
  <2>4. MailTyped'
    <3>1. ASSUME NEW f \in [Steps -> Nat], NEW k
          PROVE  [f EXCEPT ![k] = f[k] + 1] \in [Steps -> Nat]
      <4>1. CASE k \in Steps
        <5>1. f[k] + 1 \in Nat
          BY <4>1
        <5>2. QED
          BY <5>1
      <4>2. CASE k \notin Steps
        BY <4>2
      <4>3. QED
        BY <4>1, <4>2
    <3>2. mailed' = mailed \/ mailed' = [mailed EXCEPT ![cur[w]] =
                                         [mailed[cur[w]] EXCEPT ![Step(w)] = mailed[cur[w]][Step(w)] + 1]]
      BY <1>7 DEF Send
    <3>3. approved' = approved
      BY <1>7 DEF Send
    <3>4. QED
      BY <2>1, <3>1, <3>2, <3>3 DEF MailTyped
  <2>5. BoundsTyped'
    BY <1>7, BoundsStep DEF Send
  <2>6. QED
    BY <1>7, <2>1, <2>2, <2>3, <2>4, <2>5, TypeFrames DEF Send, database, session, mail, history, bounds
<1>8. ASSUME NEW w \in InitialJob, WriteInitial(w)
      PROVE  TypeOK'
  <2>1. cur[w] \in Contact
    BY <1>8, Hand DEF WriteInitial
  <2>2. RowTyped'
    BY <1>8, <2>1, CommittedTyped, NewRowTyped DEF WriteInitial, RowTyped
  <2>3. LocksTyped'
    BY <1>8, <2>1, NewRowTyped, ReleasedRow DEF WriteInitial, release_claim, LocksTyped
  <2>4. ThreadsTyped'
    BY <1>8, NoRowTyped DEF WriteInitial, release_claim, NextContact, ThreadsTyped, Results
  <2>5. CountsTyped'
    BY <1>8, CountsStep DEF WriteInitial
  <2>6. QED
    BY <1>8, <2>1, <2>2, <2>3, <2>4, <2>5, TypeFrames DEF WriteInitial, database, session, mail, history, bounds
<1>9. ASSUME NEW w \in InitialJob, RollbackInitial(w) \/ CommitFails(w)
      PROVE  TypeOK'
  <2>1. cur[w] \in Contact
    BY <1>9, Hand DEF RollbackInitial, CommitFails
  <2>2. LocksTyped'
    <3>1. Released(row[cur[w]]) \in Row
      BY <2>1, ReleasedRow DEF RowTyped
    <3>2. tx' = [tx EXCEPT ![w] = [c \in {cur[w]} |-> Released(row[cur[w]])]]
      BY <1>9 DEF RollbackInitial, CommitFails, RolledBack, release_claim
    <3>3. QED
      BY <2>1, <3>1, <3>2 DEF LocksTyped
  <2>3. ThreadsTyped'
    BY <1>9, NoRowTyped DEF RollbackInitial, CommitFails, RolledBack, release_claim, NextContact, ThreadsTyped, Results
  <2>4. CountsTyped'
    BY <1>9, CountsStep DEF RollbackInitial, CommitFails, RolledBack
  <2>5. BoundsTyped'
    BY <1>9, BoundsStep DEF RollbackInitial, CommitFails
  <2>6. QED
    BY <1>9, <2>1, <2>2, <2>3, <2>4, <2>5, TypeFrames DEF RollbackInitial, CommitFails, RolledBack, database, session, mail, history, bounds
<1>10. ASSUME NEW w \in FollowJob, WriteFollow(w)
      PROVE  TypeOK'
  <2>1. cur[w] \in Contact
    BY <1>10, Hand DEF WriteFollow
  <2>2. LocksTyped'
    BY <1>10, <2>1, NewRowTyped, ReleasedRow DEF WriteFollow, LocksTyped
  <2>3. ThreadsTyped'
    BY <1>10, NoRowTyped DEF WriteFollow, NextContact, ThreadsTyped, Results
  <2>4. QED
    BY <1>10, <2>1, <2>2, <2>3, TypeFrames DEF WriteFollow, database, session, mail, history, bounds
<1>11. ASSUME NEW w \in Job, Finish(w)
      PROVE  TypeOK'
  <2>1. RowTyped'
    BY <1>11, CommittedTyped DEF Finish, RowTyped
  <2>2. LocksTyped' /\ ThreadsTyped'
    BY <1>11, ResetTyped DEF Finish
  <2>3. QED
    BY <1>11, <2>1, <2>2, TypeFrames DEF Finish, database, session, mail, history, bounds
<1>12. ASSUME NEW w \in Session, Dies(w)
      PROVE  TypeOK'
  <2>1. LocksTyped' /\ ThreadsTyped'
    BY <1>12, ResetTyped DEF Dies
  <2>2. SetsTyped'
    BY <1>12 DEF Dies, database, history, SetsTyped
  <2>3. CountsTyped'
    BY <1>12, CountsStep DEF Dies
  <2>4. BoundsTyped'
    BY <1>12, BoundsStep DEF Dies
  <2>5. QED
    BY <1>12, <2>1, <2>2, <2>3, <2>4, TypeFrames DEF Dies, database, session, mail, history, bounds
<1>13. ASSUME NEW w \in Job, ReleaseAllClaims(w)
      PROVE  TypeOK'
  <2>1. RowTyped'
    BY <1>13, ReleasedRow DEF ReleaseAllClaims, RowTyped
  <2>2. CountsTyped'
    BY <1>13, CountsStep DEF ReleaseAllClaims
  <2>3. BoundsTyped'
    BY <1>13, BoundsStep DEF ReleaseAllClaims
  <2>4. QED
    BY <1>13, <2>1, <2>2, <2>3, TypeFrames DEF ReleaseAllClaims, database, session, mail, history, bounds
<1>14. ASSUME NEW c \in Contact, LeaseExpires(c)
      PROVE  TypeOK'
  <2>1. RowTyped'
    BY <1>14, RowEdits DEF LeaseExpires, RowTyped
  <2>2. CountsTyped'
    BY <1>14, CountsStep DEF LeaseExpires
  <2>3. BoundsTyped'
    BY <1>14, BoundsStep DEF LeaseExpires
  <2>4. QED
    BY <1>14, <2>1, <2>2, <2>3, TypeFrames DEF LeaseExpires, database, session, mail, history, bounds
<1>15. ASSUME NEW w \in Forced, NEW c \in Touched, ForceAsk(w, c)
      PROVE  TypeOK'
  <2>1. ThreadsTyped'
    BY <1>15 DEF ForceAsk, ThreadsTyped
  <2>2. BoundsTyped'
    BY <1>15, BoundsStep DEF ForceAsk
  <2>3. QED
    BY <1>15, <2>1, <2>2, TypeFrames DEF ForceAsk, database, session, mail, history, bounds
<1>16. ASSUME NEW w \in Forced, ForceMark(w)
      PROVE  TypeOK'
  <2>1. RowTyped'
    BY <1>16, RowEdits DEF ForceMark, RowTyped
  <2>2. ThreadsTyped'
    BY <1>16 DEF ForceMark, ThreadsTyped
  <2>3. CountsTyped'
    BY <1>16, CountsStep DEF ForceMark
  <2>4. QED
    BY <1>16, <2>1, <2>2, <2>3, TypeFrames DEF ForceMark, database, session, mail, history, bounds
<1>17. ASSUME NEW w \in Forced, WriteForced(w)
      PROVE  TypeOK'
  <2>1. cur[w] \in Contact
    BY <1>17, Hand DEF WriteForced
  <2>2. RowTyped'
    BY <1>17, <2>1, NewRowTyped DEF WriteForced, RowTyped
  <2>3. LocksTyped' /\ ThreadsTyped'
    BY <1>17, ResetTyped DEF WriteForced
  <2>4. QED
    BY <1>17, <2>1, <2>2, <2>3, TypeFrames DEF WriteForced, database, session, mail, history, bounds
<1>18. ASSUME NEW a \in Approval, NEW c \in Touched, ApproveOpen(a, c)
      PROVE  TypeOK'
  <2>1. LocksTyped'
    BY <1>18 DEF ApproveOpen, LockForUpdate, LocksTyped, RowTyped
  <2>2. ThreadsTyped'
    BY <1>18 DEF ApproveOpen, ThreadsTyped
  <2>3. QED
    BY <1>18, <2>1, <2>2, TypeFrames DEF ApproveOpen, database, session, mail, history, bounds
<1>19. ASSUME NEW a \in Approval, NEW o \in Outcomes, ApproveSend(a, o)
      PROVE  TypeOK'
  <2>1. cur[a] \in Contact
    BY <1>19, Hand DEF ApproveSend
  <2>2. ThreadsTyped'
    BY <1>19, <2>1 DEF ApproveSend, ThreadsTyped, Results, Outcomes
  <2>3. SetsTyped'
    BY <1>19 DEF ApproveSend, database, history, SetsTyped
  <2>4. MailTyped'
    BY <1>19 DEF ApproveSend, MailTyped
  <2>5. BoundsTyped'
    BY <1>19, BoundsStep DEF ApproveSend
  <2>6. QED
    BY <1>19, <2>1, <2>2, <2>3, <2>4, <2>5, TypeFrames DEF ApproveSend, database, session, mail, history, bounds
<1>20. ASSUME NEW a \in Approval, ApproveCommit(a)
      PROVE  TypeOK'
  <2>1. cur[a] \in Contact
    BY <1>20, Hand DEF ApproveCommit
  <2>2. RowTyped'
    BY <1>20, <2>1, RowEdits DEF ApproveCommit, RowTyped
  <2>3. LocksTyped' /\ ThreadsTyped'
    BY <1>20, ResetTyped DEF ApproveCommit
  <2>4. QED
    BY <1>20, <2>1, <2>2, <2>3, TypeFrames DEF ApproveCommit, database, session, mail, history, bounds
<1>21. ASSUME NEW r \in Request, NEW op \in {"pause", "resume", "won"}, NEW c \in Touched, Ask(r, op, c)
      PROVE  TypeOK'
  <2>1. RequestsTyped'
    BY <1>21, ManualTyped DEF Ask, RequestsTyped, RowTyped
  <2>2. BoundsTyped'
    BY <1>21, BoundsStep DEF Ask
  <2>3. QED
    BY <1>21, <2>1, <2>2, TypeFrames DEF Ask, database, session, mail, history, bounds
<1>22. ASSUME NEW r \in Request, Start(r)
      PROVE  TypeOK'
  <2>1. RequestsTyped'
    BY <1>22, StartTyped, NoRowTyped DEF Start, RequestsTyped
  <2>2. QED
    BY <1>22, <2>1, TypeFrames DEF Start, database, session, mail, history, bounds
<1>23. ASSUME NEW r \in Request, Commit(r)
      PROVE  TypeOK'
  <2>1. RowTyped'
    BY <1>23, WrittenColumns DEF Commit, RowTyped, RequestsTyped
  <2>2. RequestsTyped'
    BY <1>23 DEF Commit, RequestsTyped
  <2>3. CountsTyped'
    BY <1>23, CountsStep DEF Commit
  <2>4. SetsTyped'
    BY <1>23 DEF Commit, SetsTyped, RequestsTyped
  <2>5. QED
    BY <1>23, <2>1, <2>2, <2>3, <2>4, TypeFrames DEF Commit, database, session, mail, history, bounds
<1>24. ASSUME NEW B \in SUBSET Contact, AddContacts(B)
      PROVE  TypeOK'
  <2>1. RowTyped'
    BY <1>24, NoRowTyped DEF AddContacts, RowTyped
  <2>2. QED
    BY <1>24, <2>1, TypeFrames DEF AddContacts, database, session, mail, history, bounds
<1>25. ASSUME NEW c \in Touched, Suppress(c)
      PROVE  TypeOK'
  <2>1. SetsTyped'
    BY <1>25 DEF Suppress, Suppressed, PastGate, SetsTyped
  <2>2. BoundsTyped'
    BY <1>25, BoundsStep DEF Suppress
  <2>3. QED
    BY <1>25, <2>1, <2>2, TypeFrames DEF Suppress, database, session, mail, history, bounds
<1>26. ASSUME NEW r \in Request, NEW c \in Touched, NEW reply \in Replies,
            NEW answer \in {"none", "manual", "held", "sent", "failed", "unknown"},
            Receive(r, c, reply, answer)
      PROVE  TypeOK'
  <2>1. RequestsTyped'
    BY <1>26, ReactedTyped DEF Receive, RequestsTyped, RowTyped
  <2>2. BoundsTyped'
    BY <1>26, BoundsStep DEF Receive
  <2>3. QED
    BY <1>26, <2>1, <2>2, TypeFrames DEF Receive, database, session, mail, history, bounds
<1>27. ASSUME NEW r \in Request, CommitReply(r)
      PROVE  TypeOK'
  <2>1. RowTyped'
    BY <1>27, WrittenColumns DEF CommitReply, RowTyped, RequestsTyped
  <2>2. RequestsTyped'
    BY <1>27 DEF CommitReply, RequestsTyped
  <2>3. SetsTyped'
    BY <1>27 DEF CommitReply, Suppressed, PastGate, SetsTyped, RequestsTyped
  <2>4. QED
    BY <1>27, <2>1, <2>2, <2>3, TypeFrames DEF CommitReply, database, session, mail, history, bounds
<1>28. ASSUME NEW c \in Contact, TimePasses(c)
      PROVE  TypeOK'
  <2>1. RowTyped'
    <3> DEFINE n == IF row[c].next = "later" THEN "due" ELSE row[c].next
    <3>1. row[c] \in Row /\ n \in {"none", "due", "later"}
      BY DEF RowTyped, Row
    <3>2. row' = [row EXCEPT ![c] = [row[c] EXCEPT !.next = n, !.recent = FALSE]]
      BY <1>28 DEF TimePasses
    <3> HIDE DEF n
    <3>3. QED
      BY <3>1, <3>2, RowEdits DEF RowTyped
  <2>2. QED
    BY <1>28, <2>1, TypeFrames DEF TimePasses, database, session, mail, history, bounds
<1>29. CASE UNCHANGED vars
  BY <1>29, TypeFrames DEF vars, database, session, mail, history, bounds
<1>30. QED
  BY <1>1, <1>2, <1>3, <1>4, <1>5, <1>6, <1>7, <1>8, <1>9, <1>10, <1>11, <1>12, <1>13, <1>14,
     <1>15, <1>16, <1>17, <1>18, <1>19, <1>20, <1>21, <1>22, <1>23, <1>24, <1>25, <1>26, <1>27, <1>28, <1>29,
     NextCases DEF JobCase, SenderCase, EndpointCase, RequestCase, WorldCase

-----------------------------------------------------------------------------
(* Suppression.                                                            *)

\* A session that may still mail a suppressed contact had passed its gate when the contact
\* was suppressed.
SendersPassed ==
  \A w \in Session : pc[w] = "draft" /\ cur[w] \in suppressed => w \in excused[cur[w]]

RepliesPassed ==
  \A r \in Request : req[r] # Null /\ req[r].op = "reply" =>
    \A c \in req[r].on : req[r].mails /\ c \in suppressed => r \in excused[c]

\* SendersPassed is kept by every step.
LEMMA SendersPassedStep == TypeOK /\ Busy /\ SendersPassed /\ [Next]_vars => SendersPassed'
<1> SUFFICES ASSUME TypeOK, Busy, SendersPassed, [Next]_vars
             PROVE  SendersPassed'
  OBVIOUS
<1> USE Actors DEF SendersPassed, TypeOK, ThreadsTyped, SetsTyped, Busy
<1>1. ASSUME NEW w \in Job, Sweep(w)
      PROVE  SendersPassed'
  BY <1>1 DEF Sweep, database, session, history
<1>2. ASSUME NEW w \in Job, Claim(w)
      PROVE  SendersPassed'
  BY <1>2 DEF Claim, database, session, history
<1>3. ASSUME NEW w \in Job, ClaimNothing(w)
      PROVE  SendersPassed'
  BY <1>3 DEF ClaimNothing, Reset, database, session, history
<1>4. ASSUME NEW w \in Sender, NEW c \in Contact, Begin(w, c)
      PROVE  SendersPassed'
  BY <1>4 DEF Begin, is_suppressed, database, session, history
<1>5. ASSUME NEW w \in Sender, Hold(w)
      PROVE  SendersPassed'
  BY <1>5 DEF Hold, database, session, history
<1>6. ASSUME NEW w \in Sender, Raise(w)
      PROVE  SendersPassed'
  BY <1>6 DEF Raise, database, session, history
<1>7. ASSUME NEW w \in Sender, NEW o \in Outcomes, Send(w, o)
      PROVE  SendersPassed'
  BY <1>7 DEF Send, database, session, history
<1>8. ASSUME NEW w \in InitialJob, WriteInitial(w)
      PROVE  SendersPassed'
  BY <1>8 DEF WriteInitial, NextContact, database, session, history
<1>9. ASSUME NEW w \in InitialJob, RollbackInitial(w) \/ CommitFails(w)
      PROVE  SendersPassed'
  BY <1>9 DEF RollbackInitial, CommitFails, RolledBack, NextContact, database, session, history
<1>10. ASSUME NEW w \in FollowJob, WriteFollow(w)
      PROVE  SendersPassed'
  BY <1>10 DEF WriteFollow, NextContact, database, session, history
<1>11. ASSUME NEW w \in Job, Finish(w)
      PROVE  SendersPassed'
  BY <1>11 DEF Finish, Reset, database, session, history
<1>12. ASSUME NEW w \in Session, Dies(w)
      PROVE  SendersPassed'
  BY <1>12 DEF Dies, Reset, database, session, history
<1>13. ASSUME NEW w \in Job, ReleaseAllClaims(w)
      PROVE  SendersPassed'
  BY <1>13 DEF ReleaseAllClaims, database, session, history
<1>14. ASSUME NEW c \in Contact, LeaseExpires(c)
      PROVE  SendersPassed'
  BY <1>14 DEF LeaseExpires, database, session, history
<1>15. ASSUME NEW w \in Forced, NEW c \in Touched, ForceAsk(w, c)
      PROVE  SendersPassed'
  BY <1>15 DEF ForceAsk, database, session, history
<1>16. ASSUME NEW w \in Forced, ForceMark(w)
      PROVE  SendersPassed'
  BY <1>16 DEF ForceMark, database, session, history
<1>17. ASSUME NEW w \in Forced, WriteForced(w)
      PROVE  SendersPassed'
  BY <1>17 DEF WriteForced, Reset, database, session, history
<1>18. ASSUME NEW a \in Approval, NEW c \in Touched, ApproveOpen(a, c)
      PROVE  SendersPassed'
  BY <1>18 DEF ApproveOpen, is_suppressed, database, session, history
<1>19. ASSUME NEW a \in Approval, NEW o \in Outcomes, ApproveSend(a, o)
      PROVE  SendersPassed'
  BY <1>19 DEF ApproveSend, database, session, history
<1>20. ASSUME NEW a \in Approval, ApproveCommit(a)
      PROVE  SendersPassed'
  BY <1>20 DEF ApproveCommit, Reset, database, session, history
<1>21. ASSUME NEW r \in Request, NEW op \in {"pause", "resume", "won"}, NEW c \in Touched, Ask(r, op, c)
      PROVE  SendersPassed'
  BY <1>21 DEF Ask, database, session, history
<1>22. ASSUME NEW r \in Request, Start(r)
      PROVE  SendersPassed'
  BY <1>22 DEF Start, database, session, history
<1>23. ASSUME NEW r \in Request, Commit(r)
      PROVE  SendersPassed'
  BY <1>23 DEF Commit, database, session, history
<1>24. ASSUME NEW B \in SUBSET Contact, AddContacts(B)
      PROVE  SendersPassed'
  BY <1>24 DEF AddContacts, database, session, history
<1>25. ASSUME NEW c \in Touched, Suppress(c)
      PROVE  SendersPassed'
  BY <1>25 DEF Suppress, Suppressed, PastGate, database, session, history
<1>26. ASSUME NEW r \in Request, NEW c \in Touched, NEW reply \in Replies,
            NEW answer \in {"none", "manual", "held", "sent", "failed", "unknown"},
            Receive(r, c, reply, answer)
      PROVE  SendersPassed'
  BY <1>26 DEF Receive, is_suppressed, database, session, history
<1>27. ASSUME NEW r \in Request, CommitReply(r)
      PROVE  SendersPassed'
  BY <1>27 DEF CommitReply, Suppressed, PastGate, database, session, history
<1>28. ASSUME NEW c \in Contact, TimePasses(c)
      PROVE  SendersPassed'
  BY <1>28 DEF TimePasses, database, session, history
<1>29. CASE UNCHANGED vars
  BY <1>29 DEF vars, database, session, history
<1>30. QED
  BY <1>1, <1>2, <1>3, <1>4, <1>5, <1>6, <1>7, <1>8, <1>9, <1>10, <1>11, <1>12, <1>13, <1>14,
     <1>15, <1>16, <1>17, <1>18, <1>19, <1>20, <1>21, <1>22, <1>23, <1>24, <1>25, <1>26, <1>27, <1>28, <1>29,
     NextCases DEF JobCase, SenderCase, EndpointCase, RequestCase, WorldCase

\* RepliesPassed is kept by every step.
LEMMA RepliesPassedStep == TypeOK /\ RepliesPassed /\ [Next]_vars => RepliesPassed'
<1> SUFFICES ASSUME TypeOK, RepliesPassed, [Next]_vars
             PROVE  RepliesPassed'
  OBVIOUS
<1> USE Actors DEF RepliesPassed, TypeOK, RequestsTyped, SetsTyped
<1>1. ASSUME NEW w \in Job, Sweep(w)
      PROVE  RepliesPassed'
  BY <1>1 DEF Sweep, database, session, history
<1>2. ASSUME NEW w \in Job, Claim(w)
      PROVE  RepliesPassed'
  BY <1>2 DEF Claim, database, session, history
<1>3. ASSUME NEW w \in Job, ClaimNothing(w)
      PROVE  RepliesPassed'
  BY <1>3 DEF ClaimNothing, Reset, database, session, history
<1>4. ASSUME NEW w \in Sender, NEW c \in Contact, Begin(w, c)
      PROVE  RepliesPassed'
  BY <1>4 DEF Begin, is_suppressed, database, session, history
<1>5. ASSUME NEW w \in Sender, Hold(w)
      PROVE  RepliesPassed'
  BY <1>5 DEF Hold, database, session, history
<1>6. ASSUME NEW w \in Sender, Raise(w)
      PROVE  RepliesPassed'
  BY <1>6 DEF Raise, database, session, history
<1>7. ASSUME NEW w \in Sender, NEW o \in Outcomes, Send(w, o)
      PROVE  RepliesPassed'
  BY <1>7 DEF Send, database, session, history
<1>8. ASSUME NEW w \in InitialJob, WriteInitial(w)
      PROVE  RepliesPassed'
  BY <1>8 DEF WriteInitial, NextContact, database, session, history
<1>9. ASSUME NEW w \in InitialJob, RollbackInitial(w) \/ CommitFails(w)
      PROVE  RepliesPassed'
  BY <1>9 DEF RollbackInitial, CommitFails, RolledBack, NextContact, database, session, history
<1>10. ASSUME NEW w \in FollowJob, WriteFollow(w)
      PROVE  RepliesPassed'
  BY <1>10 DEF WriteFollow, NextContact, database, session, history
<1>11. ASSUME NEW w \in Job, Finish(w)
      PROVE  RepliesPassed'
  BY <1>11 DEF Finish, Reset, database, session, history
<1>12. ASSUME NEW w \in Session, Dies(w)
      PROVE  RepliesPassed'
  BY <1>12 DEF Dies, Reset, database, session, history
<1>13. ASSUME NEW w \in Job, ReleaseAllClaims(w)
      PROVE  RepliesPassed'
  BY <1>13 DEF ReleaseAllClaims, database, session, history
<1>14. ASSUME NEW c \in Contact, LeaseExpires(c)
      PROVE  RepliesPassed'
  BY <1>14 DEF LeaseExpires, database, session, history
<1>15. ASSUME NEW w \in Forced, NEW c \in Touched, ForceAsk(w, c)
      PROVE  RepliesPassed'
  BY <1>15 DEF ForceAsk, database, session, history
<1>16. ASSUME NEW w \in Forced, ForceMark(w)
      PROVE  RepliesPassed'
  BY <1>16 DEF ForceMark, database, session, history
<1>17. ASSUME NEW w \in Forced, WriteForced(w)
      PROVE  RepliesPassed'
  BY <1>17 DEF WriteForced, Reset, database, session, history
<1>18. ASSUME NEW a \in Approval, NEW c \in Touched, ApproveOpen(a, c)
      PROVE  RepliesPassed'
  BY <1>18 DEF ApproveOpen, is_suppressed, database, session, history
<1>19. ASSUME NEW a \in Approval, NEW o \in Outcomes, ApproveSend(a, o)
      PROVE  RepliesPassed'
  BY <1>19 DEF ApproveSend, database, session, history
<1>20. ASSUME NEW a \in Approval, ApproveCommit(a)
      PROVE  RepliesPassed'
  BY <1>20 DEF ApproveCommit, Reset, database, session, history
<1>21. ASSUME NEW r \in Request, NEW op \in {"pause", "resume", "won"}, NEW c \in Touched, Ask(r, op, c)
      PROVE  RepliesPassed'
  BY <1>21 DEF Ask, database, session, history
<1>22. ASSUME NEW r \in Request, Start(r)
      PROVE  RepliesPassed'
  BY <1>22 DEF Start, database, session, history
<1>23. ASSUME NEW r \in Request, Commit(r)
      PROVE  RepliesPassed'
  BY <1>23 DEF Commit, database, session, history
<1>24. ASSUME NEW B \in SUBSET Contact, AddContacts(B)
      PROVE  RepliesPassed'
  BY <1>24 DEF AddContacts, database, session, history
<1>25. ASSUME NEW c \in Touched, Suppress(c)
      PROVE  RepliesPassed'
  BY <1>25 DEF Suppress, Suppressed, PastGate, database, session, history
<1>26. ASSUME NEW r \in Request, NEW c \in Touched, NEW reply \in Replies,
            NEW answer \in {"none", "manual", "held", "sent", "failed", "unknown"},
            Receive(r, c, reply, answer)
      PROVE  RepliesPassed'
  BY <1>26 DEF Receive, is_suppressed, database, session, history
<1>27. ASSUME NEW r \in Request, CommitReply(r)
      PROVE  RepliesPassed'
  BY <1>27 DEF CommitReply, Suppressed, PastGate, database, session, history
<1>28. ASSUME NEW c \in Contact, TimePasses(c)
      PROVE  RepliesPassed'
  BY <1>28 DEF TimePasses, database, session, history
<1>29. CASE UNCHANGED vars
  BY <1>29 DEF vars, database, session, history
<1>30. QED
  BY <1>1, <1>2, <1>3, <1>4, <1>5, <1>6, <1>7, <1>8, <1>9, <1>10, <1>11, <1>12, <1>13, <1>14,
     <1>15, <1>16, <1>17, <1>18, <1>19, <1>20, <1>21, <1>22, <1>23, <1>24, <1>25, <1>26, <1>27, <1>28, <1>29,
     NextCases DEF JobCase, SenderCase, EndpointCase, RequestCase, WorldCase

\* A status changes only along the table, and never back to new.
LEMMA OutcomeFacts ==
  ASSUME NEW w, NEW s \in Row, NEW result \in Results
  PROVE  /\ Outcome(w, s, result).status # s.status => Outcome(w, s, result).status \in Status \ {"new"}
         /\ result # "held" => Outcome(w, s, result).claim = s.claim /\ Outcome(w, s, result).drafts = 0
         /\ Outcome(w, s, result).index # s.index => result = "sent" /\ w \notin InitialJob
<1> DEFINE go(event) == transition_contact_state(s.status, event)
           n == Outcome(w, s, result)
<1> USE KeptTyped
<1>1. \A e : go(e) # s.status => go(e) \in Status \ {"new"}
  BY Moves
<1>2. \A e, f : transition_contact_state(go(e), f) # s.status =>
                  transition_contact_state(go(e), f) \in Status \ {"new"}
  BY <1>1, Moves
<1> DEFINE off == go("unsubscribed")
           human == go("needs_human")
           first == go("initial_sent")
           more == go("followup_sent")
           done == transition_contact_state(more, "sequence_exhausted")
           later == compute_next_followup(more, s.index + 1, Cadence)
<1>3. /\ off # s.status => off \in Status \ {"new"}
      /\ human # s.status => human \in Status \ {"new"}
      /\ first # s.status => first \in Status \ {"new"}
      /\ more # s.status => more \in Status \ {"new"}
      /\ done # s.status => done \in Status \ {"new"}
  BY <1>1, <1>2
<1>4. CASE result = "suppressed"
  <2>1. n = [Kept(s) EXCEPT !.status = off, !.next = IF w \in InitialJob THEN "keep" ELSE "none"]
    BY <1>4 DEF Outcome
  <2> HIDE DEF n, off
  <2>2. n.status = off /\ n.claim = s.claim /\ n.index = s.index /\ n.drafts = 0
    BY <2>1 DEF Change
  <2>3. QED
    BY <1>3, <1>4, <2>2 DEF n
<1>5. CASE result = "held"
  <2>1. n = [Kept(s) EXCEPT !.status = human, !.next = "none", !.claim = Null, !.drafts = 1]
    BY <1>5 DEF Outcome
  <2> HIDE DEF n, human
  <2>2. n.status = human /\ n.index = s.index
    BY <2>1 DEF Change
  <2>3. QED
    BY <1>3, <1>5, <2>2 DEF n
<1>6. CASE result = "unknown"
  <2>1. n = [Kept(s) EXCEPT !.status = human, !.next = "none"]
    BY <1>6 DEF Outcome, Doubtful
  <2> HIDE DEF n, human
  <2>2. n.status = human /\ n.claim = s.claim /\ n.index = s.index /\ n.drafts = 0
    BY <2>1 DEF Change
  <2>3. QED
    BY <1>3, <1>6, <2>2 DEF n
<1>7. CASE result = "sent" /\ w \in InitialJob
  <2>1. n = [Kept(s) EXCEPT !.status = first, !.next = compute_next_followup(first, s.index, Cadence)]
    BY <1>7 DEF Outcome
  <2> HIDE DEF n, first
  <2>2. n.status = first /\ n.claim = s.claim /\ n.index = s.index /\ n.drafts = 0
    BY <2>1 DEF Change
  <2>3. QED
    BY <1>3, <1>7, <2>2 DEF n
<1>8. CASE result = "sent" /\ w \notin InitialJob
  <2> DEFINE status == IF later = "none" THEN done ELSE more
  <2>1. n = [Kept(s) EXCEPT !.status = status, !.index = s.index + 1, !.next = later]
    BY <1>8 DEF Outcome
  <2>2. status \in {done, more}
    OBVIOUS
  <2> HIDE DEF n, status, done, more, later
  <2>3. n.status = status /\ n.claim = s.claim /\ n.drafts = 0
    BY <2>1 DEF Change
  <2>4. QED
    BY <1>3, <1>8, <2>2, <2>3 DEF n
<1>9. CASE result \in {"none", "skip", "failed", "raised"}
  BY <1>9 DEF Outcome
<1>10. QED
  BY <1>4, <1>5, <1>6, <1>7, <1>8, <1>9 DEF Results

\* A reply that moves a contact never moves it back to new.
LEMMA ReactedFacts ==
  ASSUME NEW s \in Row, NEW reply, NEW answer
  PROVE  Reacted(s, reply, answer).status # s.status =>
           Reacted(s, reply, answer).status \in Status \ {"new"}
<1> DEFINE go(event) == transition_contact_state(s.status, event)
           now == [Kept(s) EXCEPT !.recent = TRUE]
           n == [now EXCEPT !.status = go(infer_event_from_semantic_intent(reply.intents)),
                            !.next = reschedule_after_reply(reply.intents, reply.asked_for)]
           x == Reacted(s, reply, answer)
<1> USE KeptTyped
<1>1. \A e : go(e) # s.status => go(e) \in Status \ {"new"}
  BY Moves
<1>2. \A e, f : transition_contact_state(go(e), f) # s.status =>
                  transition_contact_state(go(e), f) \in Status \ {"new"}
  BY <1>1, Moves
<1>3. now \in Change /\ now.status = s.status
  BY DEF Change
<1>4. \/ \E e : x.status = go(e)
      \/ x = now \/ x = Answer(n, answer)
  <2>1. CASE reply.intents = {}
    BY <2>1, <1>3 DEF Reacted, Change
  <2>2. CASE reply.intents # {} /\ "unsubscribe" \in reply.intents
    BY <2>2, <1>3 DEF Reacted, Change
  <2>3. CASE reply.intents # {} /\ "unsubscribe" \notin reply.intents /\ "not_interested" \in reply.intents
    BY <2>3, <1>3 DEF Reacted, Change
  <2>4. CASE reply.intents # {} /\ "unsubscribe" \notin reply.intents /\ "not_interested" \notin reply.intents
    BY <2>4 DEF Reacted
  <2>5. QED
    BY <2>1, <2>2, <2>3, <2>4
<1> DEFINE st == go(infer_event_from_semantic_intent(reply.intents))
<1>5. n.status = st /\ \E f : f = n
  BY <1>3 DEF Change
<1>6. Answer(n, answer).status \in {st, transition_contact_state(st, "needs_human")}
  <2>0. DOMAIN n = {"status", "next", "claim", "index", "drafts", "recent"}
    BY <1>3 DEF Change
  <2> HIDE DEF n, go, st
  <2>1. CASE answer \in {"manual", "held", "unknown"}
    BY <1>5, <2>0, <2>1 DEF Answer
  <2>2. CASE answer \notin {"manual", "held", "unknown"}
    BY <1>5, <2>2 DEF Answer
  <2>3. QED
    BY <2>1, <2>2
<1>7. /\ st # s.status => st \in Status \ {"new"}
      /\ transition_contact_state(st, "needs_human") # s.status =>
           transition_contact_state(st, "needs_human") \in Status \ {"new"}
  BY <1>1, <1>2
<1>8. CASE x = Answer(n, answer)
  BY <1>6, <1>7, <1>8
<1>9. CASE x = now
  BY <1>3, <1>9
<1>10. CASE \E e : x.status = go(e)
  BY <1>1, <1>10
<1>11. QED
  BY <1>4, <1>8, <1>9, <1>10

-----------------------------------------------------------------------------
(* Requests.                                                               *)

\* What a request is about to write.
Pending ==
  \A r \in Request : req[r] # Null =>
    /\ req[r].new.index = req[r].snap.index /\ req[r].new.claim = req[r].snap.claim
    /\ req[r].op = "start" => req[r].new.status = req[r].snap.status /\ req[r].new.next = "due"
    /\ req[r].op \in {"pause", "won"} =>
         req[r].new.status \in {"paused", "closed_won"} /\ req[r].new.status # req[r].snap.status
    /\ req[r].new.status # req[r].snap.status => req[r].new.status \in Status \ {"new"}

\* Pending is kept by every step.
LEMMA PendingStep == TypeOK /\ Pending /\ [Next]_vars => Pending'
<1> SUFFICES ASSUME TypeOK, Pending, [Next]_vars
             PROVE  Pending'
  OBVIOUS
<1> USE Actors DEF Pending, TypeOK, RequestsTyped
<1>1. ASSUME NEW w \in Job, Sweep(w)
      PROVE  Pending'
  BY <1>1 DEF Sweep
<1>2. ASSUME NEW w \in Job, Claim(w)
      PROVE  Pending'
  BY <1>2 DEF Claim
<1>3. ASSUME NEW w \in Job, ClaimNothing(w)
      PROVE  Pending'
  BY <1>3 DEF ClaimNothing
<1>4. ASSUME NEW w \in Sender, NEW c \in Contact, Begin(w, c)
      PROVE  Pending'
  BY <1>4 DEF Begin
<1>5. ASSUME NEW w \in Sender, Hold(w)
      PROVE  Pending'
  BY <1>5 DEF Hold
<1>6. ASSUME NEW w \in Sender, Raise(w)
      PROVE  Pending'
  BY <1>6 DEF Raise
<1>7. ASSUME NEW w \in Sender, NEW o \in Outcomes, Send(w, o)
      PROVE  Pending'
  BY <1>7 DEF Send
<1>8. ASSUME NEW w \in InitialJob, WriteInitial(w)
      PROVE  Pending'
  BY <1>8 DEF WriteInitial
<1>9. ASSUME NEW w \in InitialJob, RollbackInitial(w) \/ CommitFails(w)
      PROVE  Pending'
  BY <1>9 DEF RollbackInitial, CommitFails, RolledBack
<1>10. ASSUME NEW w \in FollowJob, WriteFollow(w)
      PROVE  Pending'
  BY <1>10 DEF WriteFollow
<1>11. ASSUME NEW w \in Job, Finish(w)
      PROVE  Pending'
  BY <1>11 DEF Finish
<1>12. ASSUME NEW w \in Session, Dies(w)
      PROVE  Pending'
  BY <1>12 DEF Dies
<1>13. ASSUME NEW w \in Job, ReleaseAllClaims(w)
      PROVE  Pending'
  BY <1>13 DEF ReleaseAllClaims
<1>14. ASSUME NEW c \in Contact, LeaseExpires(c)
      PROVE  Pending'
  BY <1>14 DEF LeaseExpires
<1>15. ASSUME NEW w \in Forced, NEW c \in Touched, ForceAsk(w, c)
      PROVE  Pending'
  BY <1>15 DEF ForceAsk
<1>16. ASSUME NEW w \in Forced, ForceMark(w)
      PROVE  Pending'
  BY <1>16 DEF ForceMark
<1>17. ASSUME NEW w \in Forced, WriteForced(w)
      PROVE  Pending'
  BY <1>17 DEF WriteForced
<1>18. ASSUME NEW a \in Approval, NEW c \in Touched, ApproveOpen(a, c)
      PROVE  Pending'
  BY <1>18 DEF ApproveOpen
<1>19. ASSUME NEW a \in Approval, NEW o \in Outcomes, ApproveSend(a, o)
      PROVE  Pending'
  BY <1>19 DEF ApproveSend
<1>20. ASSUME NEW a \in Approval, ApproveCommit(a)
      PROVE  Pending'
  BY <1>20 DEF ApproveCommit
<1>21. ASSUME NEW r \in Request, NEW op \in {"pause", "resume", "won"}, NEW c \in Touched, Ask(r, op, c)
      PROVE  Pending'
  <2>1. row[c] \in Row
    BY DEF TypeOK, RowTyped
  <2>2. /\ Manual(row[c], op).index = row[c].index /\ Manual(row[c], op).claim = row[c].claim
        /\ Manual(row[c], op).status = transition_contact_state(row[c].status, ManualEvent(op))
    BY <2>1, ManualTyped
  <2>3. ManualEvent(op) = IF op = "pause" THEN "manual_pause" ELSE IF op = "won" THEN "manual_won" ELSE "manual_resume"
    BY DEF ManualEvent
  <2>4. /\ op \in {"pause", "won"} => Manual(row[c], op).status \in {"paused", "closed_won"}
        /\ op \in {"pause", "won"} => Manual(row[c], op).status # row[c].status
        /\ Manual(row[c], op).status # row[c].status => Manual(row[c], op).status \in Status \ {"new"}
    BY <1>21, <2>2, <2>3, Moves DEF Ask
  <2>5. QED
    BY <1>21, <2>2, <2>4 DEF Ask
<1>22. ASSUME NEW r \in Request, Start(r)
      PROVE  Pending'
  BY <1>22, StartTyped DEF Start
<1>23. ASSUME NEW r \in Request, Commit(r)
      PROVE  Pending'
  BY <1>23 DEF Commit
<1>24. ASSUME NEW B \in SUBSET Contact, AddContacts(B)
      PROVE  Pending'
  BY <1>24 DEF AddContacts
<1>25. ASSUME NEW c \in Touched, Suppress(c)
      PROVE  Pending'
  BY <1>25 DEF Suppress
<1>26. ASSUME NEW r \in Request, NEW c \in Touched, NEW reply \in Replies,
            NEW answer \in {"none", "manual", "held", "sent", "failed", "unknown"},
            Receive(r, c, reply, answer)
      PROVE  Pending'
  <2>1. row[c] \in Row
    BY DEF TypeOK, RowTyped
  <2>2. QED
    BY <1>26, <2>1, ReactedTyped, ReactedFacts DEF Receive
<1>27. ASSUME NEW r \in Request, CommitReply(r)
      PROVE  Pending'
  BY <1>27 DEF CommitReply
<1>28. ASSUME NEW c \in Contact, TimePasses(c)
      PROVE  Pending'
  BY <1>28 DEF TimePasses
<1>29. CASE UNCHANGED vars
  BY <1>29 DEF vars
<1>30. QED
  BY <1>1, <1>2, <1>3, <1>4, <1>5, <1>6, <1>7, <1>8, <1>9, <1>10, <1>11, <1>12, <1>13, <1>14,
     <1>15, <1>16, <1>17, <1>18, <1>19, <1>20, <1>21, <1>22, <1>23, <1>24, <1>25, <1>26, <1>27, <1>28, <1>29,
     NextCases DEF JobCase, SenderCase, EndpointCase, RequestCase, WorldCase

-----------------------------------------------------------------------------
(* Locks, and what a session knows of the rows it works on.                *)

\* A row is locked by one transaction.
Exclusive == \A v, w \in Session : v # w => DOMAIN tx[v] \cap DOMAIN tx[w] = {}

\* Where the kinds of sessions may be.
Places ==
  /\ \A w \in Approval : pc[w] \in {"idle", "draft", "write"} /\ left[w] = {}
  /\ \A w \in Approval : pc[w] \in {"draft", "write"} => cur[w] \in DOMAIN tx[w]
  /\ \A w \in Forced : pc[w] # "sweep" /\ DOMAIN tx[w] = {}
  /\ \A w \in Job : pc[w] # "forced"
  /\ \A w \in Session : cur[w] \notin left[w]
  /\ \A w \in Session : pc[w] = "idle" => left[w] = {}

\* Exclusive is kept by every step: a lock is taken only on rows nobody has locked.
LEMMA ExclusiveStep == TypeOK /\ Exclusive /\ [Next]_vars => Exclusive'
<1> SUFFICES ASSUME TypeOK, Exclusive, [Next]_vars
             PROVE  Exclusive'
  OBVIOUS
<1> USE Actors DEF Exclusive, TypeOK, LocksTyped
<1>1. ASSUME NEW w \in Job, Sweep(w)
      PROVE  Exclusive'
  BY <1>1 DEF Sweep, session
<1>2. ASSUME NEW w \in Job, Claim(w)
      PROVE  Exclusive'
  BY <1>2 DEF Claim, FreeFor, Due, session
<1>3. ASSUME NEW w \in Job, ClaimNothing(w)
      PROVE  Exclusive'
  BY <1>3 DEF ClaimNothing, Reset, session
<1>4. ASSUME NEW w \in Sender, NEW c \in Contact, Begin(w, c)
      PROVE  Exclusive'
  BY <1>4 DEF Begin, session
<1>5. ASSUME NEW w \in Sender, Hold(w)
      PROVE  Exclusive'
  BY <1>5 DEF Hold, session
<1>6. ASSUME NEW w \in Sender, Raise(w)
      PROVE  Exclusive'
  BY <1>6 DEF Raise, session
<1>7. ASSUME NEW w \in Sender, NEW o \in Outcomes, Send(w, o)
      PROVE  Exclusive'
  BY <1>7 DEF Send, session
<1>8. ASSUME NEW w \in InitialJob, WriteInitial(w)
      PROVE  Exclusive'
  BY <1>8 DEF WriteInitial, release_claim, FreeFor, session
<1>9. ASSUME NEW w \in InitialJob, RollbackInitial(w) \/ CommitFails(w)
      PROVE  Exclusive'
  BY <1>9 DEF RollbackInitial, CommitFails, RolledBack, release_claim, FreeFor, session
<1>10. ASSUME NEW w \in FollowJob, WriteFollow(w)
      PROVE  Exclusive'
  BY <1>10 DEF WriteFollow, session
<1>11. ASSUME NEW w \in Job, Finish(w)
      PROVE  Exclusive'
  BY <1>11 DEF Finish, Reset, session
<1>12. ASSUME NEW w \in Session, Dies(w)
      PROVE  Exclusive'
  BY <1>12 DEF Dies, Reset, session
<1>13. ASSUME NEW w \in Job, ReleaseAllClaims(w)
      PROVE  Exclusive'
  BY <1>13 DEF ReleaseAllClaims, session
<1>14. ASSUME NEW c \in Contact, LeaseExpires(c)
      PROVE  Exclusive'
  BY <1>14 DEF LeaseExpires, session
<1>15. ASSUME NEW w \in Forced, NEW c \in Touched, ForceAsk(w, c)
      PROVE  Exclusive'
  BY <1>15 DEF ForceAsk, session
<1>16. ASSUME NEW w \in Forced, ForceMark(w)
      PROVE  Exclusive'
  BY <1>16 DEF ForceMark, session
<1>17. ASSUME NEW w \in Forced, WriteForced(w)
      PROVE  Exclusive'
  BY <1>17 DEF WriteForced, Reset, session
<1>18. ASSUME NEW a \in Approval, NEW c \in Touched, ApproveOpen(a, c)
      PROVE  Exclusive'
  BY <1>18 DEF ApproveOpen, LockForUpdate, Unlocked, session
<1>19. ASSUME NEW a \in Approval, NEW o \in Outcomes, ApproveSend(a, o)
      PROVE  Exclusive'
  BY <1>19 DEF ApproveSend, session
<1>20. ASSUME NEW a \in Approval, ApproveCommit(a)
      PROVE  Exclusive'
  BY <1>20 DEF ApproveCommit, Reset, session
<1>21. ASSUME NEW r \in Request, NEW op \in {"pause", "resume", "won"}, NEW c \in Touched, Ask(r, op, c)
      PROVE  Exclusive'
  BY <1>21 DEF Ask, session
<1>22. ASSUME NEW r \in Request, Start(r)
      PROVE  Exclusive'
  BY <1>22 DEF Start, session
<1>23. ASSUME NEW r \in Request, Commit(r)
      PROVE  Exclusive'
  BY <1>23 DEF Commit, session
<1>24. ASSUME NEW B \in SUBSET Contact, AddContacts(B)
      PROVE  Exclusive'
  BY <1>24 DEF AddContacts, session
<1>25. ASSUME NEW c \in Touched, Suppress(c)
      PROVE  Exclusive'
  BY <1>25 DEF Suppress, session
<1>26. ASSUME NEW r \in Request, NEW c \in Touched, NEW reply \in Replies,
            NEW answer \in {"none", "manual", "held", "sent", "failed", "unknown"},
            Receive(r, c, reply, answer)
      PROVE  Exclusive'
  BY <1>26 DEF Receive, session
<1>27. ASSUME NEW r \in Request, CommitReply(r)
      PROVE  Exclusive'
  BY <1>27 DEF CommitReply, session
<1>28. ASSUME NEW c \in Contact, TimePasses(c)
      PROVE  Exclusive'
  BY <1>28 DEF TimePasses, session
<1>29. CASE UNCHANGED vars
  BY <1>29 DEF vars, session
<1>30. QED
  BY <1>1, <1>2, <1>3, <1>4, <1>5, <1>6, <1>7, <1>8, <1>9, <1>10, <1>11, <1>12, <1>13, <1>14,
     <1>15, <1>16, <1>17, <1>18, <1>19, <1>20, <1>21, <1>22, <1>23, <1>24, <1>25, <1>26, <1>27, <1>28, <1>29,
     NextCases DEF JobCase, SenderCase, EndpointCase, RequestCase, WorldCase

\* Places is kept by every step.
LEMMA PlacesStep == TypeOK /\ Busy /\ Places /\ [Next]_vars => Places'
<1> SUFFICES ASSUME TypeOK, Busy, Places, [Next]_vars
             PROVE  Places'
  OBVIOUS
<1> USE Actors DEF Places, Busy, TypeOK, LocksTyped, ThreadsTyped
<1>1. ASSUME NEW w \in Job, Sweep(w)
      PROVE  Places'
  <2>1. Expired \subseteq Contact /\ cur[w] = Null
    BY <1>1 DEF Expired, Sweep
  <2>2. QED
    BY <1>1, <2>1 DEF Sweep, session
<1>2. ASSUME NEW w \in Job, Claim(w)
      PROVE  Places'
  <2>1. Due(w) \subseteq Contact /\ cur[w] = Null
    BY <1>2 DEF Due, Claim
  <2>2. /\ pc' = [pc EXCEPT ![w] = "loop"] /\ UNCHANGED cur
        /\ left' = [left EXCEPT ![w] = Due(w) \ dormant] /\ \A v \in Session \ {w} : tx'[v] = tx[v]
    BY <1>2 DEF Claim
  <2>3. QED
    BY <2>1, <2>2
<1>3. ASSUME NEW w \in Job, ClaimNothing(w)
      PROVE  Places'
  BY <1>3 DEF ClaimNothing, Reset, session
<1>4. ASSUME NEW w \in Sender, NEW c \in Contact, Begin(w, c)
      PROVE  Places'
  BY <1>4 DEF Begin, session
<1>5. ASSUME NEW w \in Sender, Hold(w)
      PROVE  Places'
  BY <1>5 DEF Hold, session
<1>6. ASSUME NEW w \in Sender, Raise(w)
      PROVE  Places'
  BY <1>6 DEF Raise, session
<1>7. ASSUME NEW w \in Sender, NEW o \in Outcomes, Send(w, o)
      PROVE  Places'
  BY <1>7 DEF Send, session
<1>8. ASSUME NEW w \in InitialJob, WriteInitial(w)
      PROVE  Places'
  BY <1>8 DEF WriteInitial, release_claim, FreeFor, NextContact, session
<1>9. ASSUME NEW w \in InitialJob, RollbackInitial(w) \/ CommitFails(w)
      PROVE  Places'
  BY <1>9 DEF RollbackInitial, CommitFails, RolledBack, release_claim, FreeFor, NextContact, session
<1>10. ASSUME NEW w \in FollowJob, WriteFollow(w)
      PROVE  Places'
  BY <1>10 DEF WriteFollow, NextContact, session
<1>11. ASSUME NEW w \in Job, Finish(w)
      PROVE  Places'
  BY <1>11 DEF Finish, Reset, session
<1>12. ASSUME NEW w \in Session, Dies(w)
      PROVE  Places'
  BY <1>12 DEF Dies, Reset, session
<1>13. ASSUME NEW w \in Job, ReleaseAllClaims(w)
      PROVE  Places'
  BY <1>13 DEF ReleaseAllClaims, session
<1>14. ASSUME NEW c \in Contact, LeaseExpires(c)
      PROVE  Places'
  BY <1>14 DEF LeaseExpires, session
<1>15. ASSUME NEW w \in Forced, NEW c \in Touched, ForceAsk(w, c)
      PROVE  Places'
  BY <1>15 DEF ForceAsk, session
<1>16. ASSUME NEW w \in Forced, ForceMark(w)
      PROVE  Places'
  BY <1>16 DEF ForceMark, session
<1>17. ASSUME NEW w \in Forced, WriteForced(w)
      PROVE  Places'
  BY <1>17 DEF WriteForced, Reset, session
<1>18. ASSUME NEW a \in Approval, NEW c \in Touched, ApproveOpen(a, c)
      PROVE  Places'
  BY <1>18 DEF ApproveOpen, LockForUpdate, Unlocked, session
<1>19. ASSUME NEW a \in Approval, NEW o \in Outcomes, ApproveSend(a, o)
      PROVE  Places'
  BY <1>19 DEF ApproveSend, session
<1>20. ASSUME NEW a \in Approval, ApproveCommit(a)
      PROVE  Places'
  BY <1>20 DEF ApproveCommit, Reset, session
<1>21. ASSUME NEW r \in Request, NEW op \in {"pause", "resume", "won"}, NEW c \in Touched, Ask(r, op, c)
      PROVE  Places'
  BY <1>21 DEF Ask, session
<1>22. ASSUME NEW r \in Request, Start(r)
      PROVE  Places'
  BY <1>22 DEF Start, session
<1>23. ASSUME NEW r \in Request, Commit(r)
      PROVE  Places'
  BY <1>23 DEF Commit, session
<1>24. ASSUME NEW B \in SUBSET Contact, AddContacts(B)
      PROVE  Places'
  BY <1>24 DEF AddContacts, session
<1>25. ASSUME NEW c \in Touched, Suppress(c)
      PROVE  Places'
  BY <1>25 DEF Suppress, session
<1>26. ASSUME NEW r \in Request, NEW c \in Touched, NEW reply \in Replies,
            NEW answer \in {"none", "manual", "held", "sent", "failed", "unknown"},
            Receive(r, c, reply, answer)
      PROVE  Places'
  BY <1>26 DEF Receive, session
<1>27. ASSUME NEW r \in Request, CommitReply(r)
      PROVE  Places'
  BY <1>27 DEF CommitReply, session
<1>28. ASSUME NEW c \in Contact, TimePasses(c)
      PROVE  Places'
  BY <1>28 DEF TimePasses, session
<1>29. CASE UNCHANGED vars
  BY <1>29 DEF vars, session
<1>30. QED
  BY <1>1, <1>2, <1>3, <1>4, <1>5, <1>6, <1>7, <1>8, <1>9, <1>10, <1>11, <1>12, <1>13, <1>14,
     <1>15, <1>16, <1>17, <1>18, <1>19, <1>20, <1>21, <1>22, <1>23, <1>24, <1>25, <1>26, <1>27, <1>28, <1>29,
     NextCases DEF JobCase, SenderCase, EndpointCase, RequestCase, WorldCase

\* The same, column by column.
LEMMA WrittenFacts ==
  ASSUME NEW base \in Row, NEW s \in Row, NEW n \in Change
  PROVE  /\ Written(base, s, n) \in Row
         /\ Written(base, s, n).lease = base.lease
         /\ Written(base, s, n).handled = base.handled
         /\ Written(base, s, n).drafts \in Nat /\ Written(base, s, n).drafts >= base.drafts
         /\ n.status = s.status => Written(base, s, n).status = base.status
         /\ n.status # s.status => Written(base, s, n).status = n.status
         /\ n.index = s.index => Written(base, s, n).index = base.index
         /\ n.index # s.index => Written(base, s, n).index = n.index
         /\ n.claim = s.claim => Written(base, s, n).claim = base.claim
         /\ n.claim # s.claim => Written(base, s, n).claim = n.claim
         /\ n.next = "keep" => Written(base, s, n).next = base.next
         /\ n.next \in {"due", "later"} => Written(base, s, n).next = n.next
         /\ n.next = "none" /\ s.next = "none" => Written(base, s, n).next = base.next
         /\ n.next = "none" /\ s.next # "none" => Written(base, s, n).next = "none"
<1> DEFINE x == Written(base, s, n)
<1>1. /\ x \in Row /\ x.lease = base.lease /\ x.handled = base.handled
      /\ x.drafts = base.drafts + n.drafts
      /\ x.status = IF n.status = s.status THEN base.status ELSE n.status
      /\ x.index = IF n.index = s.index THEN base.index ELSE n.index
      /\ x.claim = IF n.claim = s.claim THEN base.claim ELSE n.claim
      /\ n.next = "keep" => x.next = base.next
      /\ n.next \in {"due", "later"} => x.next = n.next
      /\ n.next = "none" => x.next = IF s.next = "none" THEN base.next ELSE "none"
  BY WrittenColumns
<1>2. n.drafts \in {0, 1} /\ base.drafts \in Nat
  BY DEF Row, Change
<1> HIDE DEF x
<1>3. x.drafts \in Nat /\ x.drafts >= base.drafts
  BY <1>1, <1>2
<1>4. QED
  BY <1>1, <1>3 DEF x

\* What a session makes of the row it has worked on.
LEMMA NewRowFacts ==
  ASSUME TypeOK, NEW w \in Session, cur[w] \in Contact
  PROVE  /\ NewRow(w) \in Row
         /\ NewRow(w).lease = View(w, cur[w]).lease
         /\ NewRow(w).handled = View(w, cur[w]).handled
         /\ NewRow(w).drafts >= View(w, cur[w]).drafts
         /\ NewRow(w).status # View(w, cur[w]).status => NewRow(w).status \in Status \ {"new"}
         /\ NewRow(w).claim # View(w, cur[w]).claim => out[w] = "held"
<1> DEFINE n == Outcome(w, snap[w], out[w])
           base == View(w, cur[w])
<1>1. n \in Change /\ snap[w] \in Row /\ base \in Row /\ out[w] \in Results
  BY NewRowTyped DEF TypeOK, ThreadsTyped
<1>2. /\ n.status # snap[w].status => n.status \in Status \ {"new"}
      /\ out[w] # "held" => n.claim = snap[w].claim
  <2> DEFINE s == snap[w]
             result == out[w]
  <2>1. s \in Row /\ result \in Results
    BY <1>1
  <2> HIDE DEF s, result
  <2>2. /\ Outcome(w, s, result).status # s.status => Outcome(w, s, result).status \in Status \ {"new"}
        /\ result # "held" => Outcome(w, s, result).claim = s.claim
    BY <2>1, OutcomeFacts, Zenon
  <2>3. QED
    BY <2>2 DEF s, result
<1>3. n.drafts \in {0, 1} /\ base.drafts \in Nat
  BY <1>1 DEF Change, Row
<1> HIDE DEF n, base
<1>4. /\ NewRow(w) = Written(base, snap[w], n)
  BY DEF NewRow, n, base
<1>5. QED
  <2> DEFINE s == snap[w]
  <2>1. s \in Row
    BY <1>1
  <2> HIDE DEF s
  <2>2. /\ Written(base, s, n) \in Row
        /\ Written(base, s, n).lease = base.lease
        /\ Written(base, s, n).handled = base.handled
        /\ Written(base, s, n).drafts >= base.drafts
        /\ n.status = s.status => Written(base, s, n).status = base.status
        /\ n.status # s.status => Written(base, s, n).status = n.status
        /\ n.claim = s.claim => Written(base, s, n).claim = base.claim
    BY <1>1, <2>1, WrittenFacts, Zenon
  <2>3. QED
    BY <1>2, <1>4, <2>2 DEF base, s

\* What a request writes leaves the claim and the step alone.
LEMMA RequestWrites ==
  ASSUME TypeOK, Pending, NEW r \in Request, req[r] # Null, NEW c \in Contact,
         NEW x, x = Written(row[c], req[r].snap, req[r].new)
  PROVE  /\ x \in Row
         /\ x.lease = row[c].lease /\ x.claim = row[c].claim /\ x.index = row[c].index
         /\ x.handled = row[c].handled /\ x.drafts >= row[c].drafts
         /\ x.status # row[c].status => x.status = req[r].new.status /\ x.status \in Status \ {"new"}
         /\ req[r].new.status = req[r].snap.status => x.status = row[c].status
         /\ req[r].new.status # req[r].snap.status => x.status = req[r].new.status
         /\ req[r].new.next = "due" => x.next = "due"
<1> DEFINE base == row[c]
           s == req[r].snap
           n == req[r].new
<1>1. base \in Row /\ s \in Row /\ n \in Change
  BY DEF TypeOK, RowTyped, RequestsTyped
<1>2. /\ n.index = s.index /\ n.claim = s.claim
      /\ n.status # s.status => n.status \in Status \ {"new"}
  BY DEF Pending
<1>3. x = Written(base, s, n)
  OBVIOUS
<1> HIDE DEF base, s, n
<1>4. /\ Written(base, s, n) \in Row
      /\ Written(base, s, n).lease = base.lease
      /\ Written(base, s, n).handled = base.handled
      /\ Written(base, s, n).drafts >= base.drafts
      /\ n.status = s.status => Written(base, s, n).status = base.status
      /\ n.status # s.status => Written(base, s, n).status = n.status
      /\ n.claim = s.claim => Written(base, s, n).claim = base.claim
      /\ n.index = s.index => Written(base, s, n).index = base.index
      /\ n.next = "due" => Written(base, s, n).next = "due"
  BY <1>1, WrittenFacts
<1>5. QED
  BY <1>1, <1>2, <1>3, <1>4 DEF base, s, n

\* No event leaves a row that does not exist.
LEMMA NothingFromAbsent == \A e : ~Allowed("absent", e)
<1>1. STATE_TRANSITIONS("absent") = {}
  BY DEF STATE_TRANSITIONS
<1>2. QED
  BY <1>1 DEF Allowed

Known(c) == row[c].status # "absent"

\* Nothing is remembered of a contact that does not exist yet.
RowsKnown == \A c \in Contact : row[c].claim # Null \/ row[c].drafts > 0 => Known(c)

LocksKnown == \A w \in Session : \A c \in DOMAIN tx[w] : Known(c) /\ tx[w][c].status # "absent"

PlansKnown ==
  /\ \A w \in Session : \A c \in left[w] : Known(c)
  /\ \A w \in Session : cur[w] # Null => Known(cur[w])
  /\ \A r \in Request : req[r] # Null => \A c \in req[r].on : Known(c)

Knowledge == RowsKnown /\ LocksKnown /\ PlansKnown

\* A contact that was never ingested has no status.
LEMMA Absent == "absent" \notin Status
BY DEF Status

\* A contact once ingested stays so.
LEMMA KnownStays == TypeOK /\ Busy /\ Pending /\ Places /\ Knowledge /\ [Next]_vars => (\A x \in Contact : Known(x) => Known(x)')
<1> SUFFICES ASSUME TypeOK, Busy, Pending, Places, Knowledge, [Next]_vars
             PROVE  (\A x \in Contact : Known(x) => Known(x)')
  OBVIOUS
<1> USE Actors DEF Known, TypeOK, RowTyped
<1>1. ASSUME NEW w \in Job, Sweep(w)
      PROVE  (\A x \in Contact : Known(x) => Known(x)')
  BY <1>1 DEF Sweep, database
<1>2. ASSUME NEW w \in Job, Claim(w)
      PROVE  (\A x \in Contact : Known(x) => Known(x)')
  BY <1>2 DEF Claim, database
<1>3. ASSUME NEW w \in Job, ClaimNothing(w)
      PROVE  (\A x \in Contact : Known(x) => Known(x)')
  BY <1>3, ReleasedRow DEF ClaimNothing
<1>4. ASSUME NEW w \in Sender, NEW c \in Contact, Begin(w, c)
      PROVE  (\A x \in Contact : Known(x) => Known(x)')
  BY <1>4 DEF Begin, database
<1>5. ASSUME NEW w \in Sender, Hold(w)
      PROVE  (\A x \in Contact : Known(x) => Known(x)')
  BY <1>5 DEF Hold, database
<1>6. ASSUME NEW w \in Sender, Raise(w)
      PROVE  (\A x \in Contact : Known(x) => Known(x)')
  BY <1>6 DEF Raise, database
<1>7. ASSUME NEW w \in Sender, NEW o \in Outcomes, Send(w, o)
      PROVE  (\A x \in Contact : Known(x) => Known(x)')
  BY <1>7 DEF Send, database
<1>8. ASSUME NEW w \in InitialJob, WriteInitial(w)
      PROVE  (\A x \in Contact : Known(x) => Known(x)')
  <2>1. cur[w] \in Contact
    BY <1>8 DEF WriteInitial, Busy, ThreadsTyped
  <2>2. Known(cur[w]) /\ View(w, cur[w]).status # "absent"
    BY <1>8, <2>1 DEF WriteInitial, Busy, Knowledge, LocksKnown, PlansKnown, View
  <2>3. NewRow(w).status # "absent"
    BY <2>1, <2>2, NewRowFacts, Absent DEF TypeOK
  <2>4. QED
    BY <1>8, <2>1, <2>3 DEF WriteInitial, Committed, View, Knowledge, LocksKnown
<1>9. ASSUME NEW w \in InitialJob, RollbackInitial(w) \/ CommitFails(w)
      PROVE  (\A x \in Contact : Known(x) => Known(x)')
  BY <1>9 DEF RollbackInitial, CommitFails, RolledBack, database
<1>10. ASSUME NEW w \in FollowJob, WriteFollow(w)
      PROVE  (\A x \in Contact : Known(x) => Known(x)')
  BY <1>10 DEF WriteFollow, database
<1>11. ASSUME NEW w \in Job, Finish(w)
      PROVE  (\A x \in Contact : Known(x) => Known(x)')
  BY <1>11 DEF Finish, Committed, View, Knowledge, LocksKnown
<1>12. ASSUME NEW w \in Session, Dies(w)
      PROVE  (\A x \in Contact : Known(x) => Known(x)')
  BY <1>12 DEF Dies, database
<1>13. ASSUME NEW w \in Job, ReleaseAllClaims(w)
      PROVE  (\A x \in Contact : Known(x) => Known(x)')
  BY <1>13, ReleasedRow DEF ReleaseAllClaims
<1>14. ASSUME NEW c \in Contact, LeaseExpires(c)
      PROVE  (\A x \in Contact : Known(x) => Known(x)')
  BY <1>14 DEF LeaseExpires, Row
<1>15. ASSUME NEW w \in Forced, NEW c \in Touched, ForceAsk(w, c)
      PROVE  (\A x \in Contact : Known(x) => Known(x)')
  BY <1>15 DEF ForceAsk, database
<1>16. ASSUME NEW w \in Forced, ForceMark(w)
      PROVE  (\A x \in Contact : Known(x) => Known(x)')
  BY <1>16 DEF ForceMark, Row
<1>17. ASSUME NEW w \in Forced, WriteForced(w)
      PROVE  (\A x \in Contact : Known(x) => Known(x)')
  <2>1. cur[w] \in Contact
    BY <1>17 DEF WriteForced, Busy, ThreadsTyped
  <2>2. Known(cur[w]) /\ View(w, cur[w]).status # "absent"
    BY <1>17, <2>1 DEF WriteForced, Busy, Knowledge, LocksKnown, PlansKnown, View
  <2>3. NewRow(w).status # "absent"
    BY <2>1, <2>2, NewRowFacts, Absent DEF TypeOK
  <2>4. QED
    BY <1>17, <2>1, <2>3 DEF WriteForced
<1>18. ASSUME NEW a \in Approval, NEW c \in Touched, ApproveOpen(a, c)
      PROVE  (\A x \in Contact : Known(x) => Known(x)')
  BY <1>18 DEF ApproveOpen, database
<1>19. ASSUME NEW a \in Approval, NEW o \in Outcomes, ApproveSend(a, o)
      PROVE  (\A x \in Contact : Known(x) => Known(x)')
  BY <1>19 DEF ApproveSend, database
<1>20. ASSUME NEW a \in Approval, ApproveCommit(a)
      PROVE  (\A x \in Contact : Known(x) => Known(x)')
  BY <1>20 DEF ApproveCommit, Row
<1>21. ASSUME NEW r \in Request, NEW op \in {"pause", "resume", "won"}, NEW c \in Touched, Ask(r, op, c)
      PROVE  (\A x \in Contact : Known(x) => Known(x)')
  BY <1>21 DEF Ask, database
<1>22. ASSUME NEW r \in Request, Start(r)
      PROVE  (\A x \in Contact : Known(x) => Known(x)')
  BY <1>22 DEF Start, database
<1>23. ASSUME NEW r \in Request, Commit(r)
      PROVE  (\A x \in Contact : Known(x) => Known(x)')
  <2>1. \A c \in Contact : Known(c) => Written(row[c], req[r].snap, req[r].new).status # "absent"
    BY <1>23, Absent, RequestWrites DEF Commit
  <2>2. QED
    BY <1>23, <2>1 DEF Commit
<1>24. ASSUME NEW B \in SUBSET Contact, AddContacts(B)
      PROVE  (\A x \in Contact : Known(x) => Known(x)')
  BY <1>24 DEF AddContacts, NoRow
<1>25. ASSUME NEW c \in Touched, Suppress(c)
      PROVE  (\A x \in Contact : Known(x) => Known(x)')
  BY <1>25 DEF Suppress, database
<1>26. ASSUME NEW r \in Request, NEW c \in Touched, NEW reply \in Replies,
            NEW answer \in {"none", "manual", "held", "sent", "failed", "unknown"},
            Receive(r, c, reply, answer)
      PROVE  (\A x \in Contact : Known(x) => Known(x)')
  BY <1>26 DEF Receive, database
<1>27. ASSUME NEW r \in Request, CommitReply(r)
      PROVE  (\A x \in Contact : Known(x) => Known(x)')
  <2>1. \A c \in Contact : Known(c) => Written(row[c], req[r].snap, req[r].new).status # "absent"
    BY <1>27, Absent, RequestWrites DEF CommitReply
  <2>2. QED
    BY <1>27, <2>1 DEF CommitReply
<1>28. ASSUME NEW c \in Contact, TimePasses(c)
      PROVE  (\A x \in Contact : Known(x) => Known(x)')
  BY <1>28 DEF TimePasses, Row
<1>29. CASE UNCHANGED vars
  BY <1>29 DEF vars, database
<1>30. QED
  BY <1>1, <1>2, <1>3, <1>4, <1>5, <1>6, <1>7, <1>8, <1>9, <1>10, <1>11, <1>12, <1>13, <1>14,
     <1>15, <1>16, <1>17, <1>18, <1>19, <1>20, <1>21, <1>22, <1>23, <1>24, <1>25, <1>26, <1>27, <1>28, <1>29,
     NextCases DEF JobCase, SenderCase, EndpointCase, RequestCase, WorldCase

\* The columns that claims do not touch.
Same(a, b) ==
  /\ a.status = b.status /\ a.next = b.next /\ a.index = b.index
  /\ a.recent = b.recent /\ a.drafts = b.drafts /\ a.handled = b.handled

\* Claiming, outliving and releasing a claim leave the columns Same compares.
LEMMA SameRows ==
  ASSUME NEW r \in Row, NEW w
  PROVE  /\ Same(Released(r), r)
         /\ Same([r EXCEPT !.claim = w, !.lease = TRUE], r)
         /\ [r EXCEPT !.claim = w, !.lease = TRUE].claim = w
         /\ [r EXCEPT !.claim = w, !.lease = TRUE].lease = TRUE
         /\ Same([r EXCEPT !.lease = FALSE], r)
<1>1. Same(Released(r), r)
  BY DEF Released, Same, Row
<1>2. /\ Same([r EXCEPT !.claim = w, !.lease = TRUE], r)
      /\ [r EXCEPT !.claim = w, !.lease = TRUE].claim = w
      /\ [r EXCEPT !.claim = w, !.lease = TRUE].lease = TRUE
  BY DEF Same, Row
<1>3. Same([r EXCEPT !.lease = FALSE], r)
  BY DEF Same, Row
<1>4. QED
  BY <1>1, <1>2, <1>3

\* What a job has locked after its claim: the due rows, claimed, and the swept ones, released.
Taken(w) ==
  /\ DOMAIN tx'[w] = Due(w) \cup Swept(w)
  /\ \A v \in Session \ {w} : tx'[v] = tx[v]
  /\ \A c \in Due(w) :
       /\ c \in Contact /\ FreeFor(w, c)
       /\ row[c].status = (IF w \in InitialJob THEN "new" ELSE "active") /\ row[c].next = "due"
       /\ tx'[w][c].claim = w /\ tx'[w][c].lease = TRUE
  /\ \A c \in Swept(w) : c \in Contact /\ FreeFor(w, c)
  /\ \A c \in DOMAIN tx'[w] : Same(tx'[w][c], row[c])

\* What claiming does to the rows it takes.
LEMMA ClaimedRows ==
  ASSUME TypeOK, NEW w \in Job, Claim(w)
  PROVE  Taken(w)
<1>0. w \in Session /\ left[w] \subseteq Contact /\ \A c \in Contact : row[c] \in Row
  BY Actors DEF TypeOK, ThreadsTyped, RowTyped
<1>1. /\ DOMAIN tx'[w] = Due(w) \cup Swept(w)
      /\ \A c \in Due(w) : tx'[w][c] = [row[c] EXCEPT !.claim = w, !.lease = TRUE]
      /\ \A c \in Swept(w) \ Due(w) : tx'[w][c] = Released(row[c])
      /\ \A v \in Session \ {w} : tx'[v] = tx[v]
      /\ \A c \in Swept(w) : FreeFor(w, c)
  BY <1>0 DEF Claim, TypeOK, LocksTyped
<1>2. /\ Swept(w) \subseteq Contact
      /\ \A c \in Contact : Released(row[c]).status = row[c].status /\ Released(row[c]).next = row[c].next
  BY <1>0, ReleasedRow DEF Swept
<1>3. \A c \in Due(w) : /\ c \in Contact /\ FreeFor(w, c)
                        /\ row[c].status = (IF w \in InitialJob THEN "new" ELSE "active")
                        /\ row[c].next = "due"
  BY <1>2 DEF Due
<1>4. ASSUME NEW c \in Due(w)
      PROVE  tx'[w][c].claim = w /\ tx'[w][c].lease = TRUE /\ Same(tx'[w][c], row[c])
  <2> DEFINE r == row[c]
             x == [r EXCEPT !.claim = w, !.lease = TRUE]
  <2>1. r \in Row /\ tx'[w][c] = x
    BY <1>0, <1>1, <1>3
  <2> HIDE DEF r
  <2>2. Same(x, r) /\ x.claim = w /\ x.lease = TRUE
    BY <2>1, SameRows, Zenon
  <2> HIDE DEF x
  <2>3. QED
    BY <2>1, <2>2 DEF r
<1>5. ASSUME NEW c \in Swept(w) \ Due(w)
      PROVE  Same(tx'[w][c], row[c])
  BY <1>0, <1>1, <1>2, SameRows
<1>6. QED
  BY <1>1, <1>2, <1>3, <1>4, <1>5 DEF Taken

\* RowsKnown is kept by every step.
LEMMA RowsKnownStep == TypeOK /\ Busy /\ Pending /\ Places /\ Knowledge /\ [Next]_vars => RowsKnown'
<1> SUFFICES ASSUME TypeOK, Busy, Pending, Places, Knowledge, [Next]_vars
             PROVE  RowsKnown'
  OBVIOUS
<1> USE Actors DEF TypeOK, RowTyped, Knowledge
<1>0. \A c \in Contact : Known(c) => Known(c)'
  BY KnownStays
<1>1. ASSUME NEW w \in Job, Sweep(w)
      PROVE  RowsKnown'
  BY <1>0, <1>1 DEF Sweep, RowsKnown, database
<1>2. ASSUME NEW w \in Job, Claim(w)
      PROVE  RowsKnown'
  BY <1>0, <1>2 DEF Claim, RowsKnown, database
<1>3. ASSUME NEW w \in Job, ClaimNothing(w)
      PROVE  RowsKnown'
  BY <1>0, <1>3, ReleasedRow DEF ClaimNothing, RowsKnown
<1>4. ASSUME NEW w \in Sender, NEW c \in Contact, Begin(w, c)
      PROVE  RowsKnown'
  BY <1>0, <1>4 DEF Begin, RowsKnown, database
<1>5. ASSUME NEW w \in Sender, Hold(w)
      PROVE  RowsKnown'
  BY <1>0, <1>5 DEF Hold, RowsKnown, database
<1>6. ASSUME NEW w \in Sender, Raise(w)
      PROVE  RowsKnown'
  BY <1>0, <1>6 DEF Raise, RowsKnown, database
<1>7. ASSUME NEW w \in Sender, NEW o \in Outcomes, Send(w, o)
      PROVE  RowsKnown'
  BY <1>0, <1>7 DEF Send, RowsKnown, database
<1>8. ASSUME NEW w \in InitialJob, WriteInitial(w)
      PROVE  RowsKnown'
  <2>1. cur[w] \in Contact /\ Known(cur[w])
    BY <1>8 DEF WriteInitial, Busy, ThreadsTyped, PlansKnown
  <2>2. \A c \in Contact : row'[c] # row[c] => Known(c)
    BY <1>8, <2>1 DEF WriteInitial, Committed, View, LocksKnown
  <2>3. QED
    BY <1>0, <2>2 DEF RowsKnown
<1>9. ASSUME NEW w \in InitialJob, RollbackInitial(w) \/ CommitFails(w)
      PROVE  RowsKnown'
  BY <1>0, <1>9 DEF RollbackInitial, CommitFails, RolledBack, RowsKnown, database
<1>10. ASSUME NEW w \in FollowJob, WriteFollow(w)
      PROVE  RowsKnown'
  BY <1>0, <1>10 DEF WriteFollow, RowsKnown, database
<1>11. ASSUME NEW w \in Job, Finish(w)
      PROVE  RowsKnown'
  BY <1>0, <1>11 DEF Finish, Committed, View, RowsKnown, LocksKnown, LocksTyped
<1>12. ASSUME NEW w \in Session, Dies(w)
      PROVE  RowsKnown'
  BY <1>0, <1>12 DEF Dies, RowsKnown, database
<1>13. ASSUME NEW w \in Job, ReleaseAllClaims(w)
      PROVE  RowsKnown'
  BY <1>0, <1>13, ReleasedRow DEF ReleaseAllClaims, RowsKnown
<1>14. ASSUME NEW c \in Contact, LeaseExpires(c)
      PROVE  RowsKnown'
  BY <1>0, <1>14 DEF LeaseExpires, Row, RowsKnown
<1>15. ASSUME NEW w \in Forced, NEW c \in Touched, ForceAsk(w, c)
      PROVE  RowsKnown'
  BY <1>0, <1>15 DEF ForceAsk, RowsKnown, database
<1>16. ASSUME NEW w \in Forced, ForceMark(w)
      PROVE  RowsKnown'
  BY <1>0, <1>16 DEF ForceMark, Row, RowsKnown
<1>17. ASSUME NEW w \in Forced, WriteForced(w)
      PROVE  RowsKnown'
  <2>1. cur[w] \in Contact /\ Known(cur[w])
    BY <1>17 DEF WriteForced, Busy, ThreadsTyped, PlansKnown
  <2>2. \A c \in Contact : row'[c] # row[c] => Known(c)
    BY <1>17, <2>1 DEF WriteForced
  <2>3. QED
    BY <1>0, <2>2 DEF RowsKnown
<1>18. ASSUME NEW a \in Approval, NEW c \in Touched, ApproveOpen(a, c)
      PROVE  RowsKnown'
  BY <1>0, <1>18 DEF ApproveOpen, RowsKnown, database
<1>19. ASSUME NEW a \in Approval, NEW o \in Outcomes, ApproveSend(a, o)
      PROVE  RowsKnown'
  BY <1>0, <1>19 DEF ApproveSend, RowsKnown, database
<1>20. ASSUME NEW a \in Approval, ApproveCommit(a)
      PROVE  RowsKnown'
  BY <1>0, <1>20 DEF ApproveCommit, Row, RowsKnown
<1>21. ASSUME NEW r \in Request, NEW op \in {"pause", "resume", "won"}, NEW c \in Touched, Ask(r, op, c)
      PROVE  RowsKnown'
  BY <1>0, <1>21 DEF Ask, RowsKnown, database
<1>22. ASSUME NEW r \in Request, Start(r)
      PROVE  RowsKnown'
  BY <1>0, <1>22 DEF Start, RowsKnown, database
<1>23. ASSUME NEW r \in Request, Commit(r)
      PROVE  RowsKnown'
  <2>1. \A c \in Contact : row'[c] # row[c] => Known(c)
    BY <1>23 DEF Commit, PlansKnown
  <2>2. QED
    BY <1>0, <2>1 DEF RowsKnown
<1>24. ASSUME NEW B \in SUBSET Contact, AddContacts(B)
      PROVE  RowsKnown'
  BY <1>0, <1>24 DEF AddContacts, NoRow, RowsKnown, Known
<1>25. ASSUME NEW c \in Touched, Suppress(c)
      PROVE  RowsKnown'
  BY <1>0, <1>25 DEF Suppress, RowsKnown, database
<1>26. ASSUME NEW r \in Request, NEW c \in Touched, NEW reply \in Replies,
            NEW answer \in {"none", "manual", "held", "sent", "failed", "unknown"},
            Receive(r, c, reply, answer)
      PROVE  RowsKnown'
  BY <1>0, <1>26 DEF Receive, RowsKnown, database
<1>27. ASSUME NEW r \in Request, CommitReply(r)
      PROVE  RowsKnown'
  <2>1. \A c \in Contact : row'[c] # row[c] => Known(c)
    BY <1>27 DEF CommitReply, PlansKnown
  <2>2. QED
    BY <1>0, <2>1 DEF RowsKnown
<1>28. ASSUME NEW c \in Contact, TimePasses(c)
      PROVE  RowsKnown'
  BY <1>0, <1>28 DEF TimePasses, Row, RowsKnown
<1>29. CASE UNCHANGED vars
  BY <1>29, <1>0 DEF vars, database, RowsKnown
<1>30. QED
  BY <1>1, <1>2, <1>3, <1>4, <1>5, <1>6, <1>7, <1>8, <1>9, <1>10, <1>11, <1>12, <1>13, <1>14,
     <1>15, <1>16, <1>17, <1>18, <1>19, <1>20, <1>21, <1>22, <1>23, <1>24, <1>25, <1>26, <1>27, <1>28, <1>29,
     NextCases DEF JobCase, SenderCase, EndpointCase, RequestCase, WorldCase

\* LocksKnown is kept by every step.
LEMMA LocksKnownStep == TypeOK /\ Busy /\ Pending /\ Places /\ Knowledge /\ [Next]_vars => LocksKnown'
<1> SUFFICES ASSUME TypeOK, Busy, Pending, Places, Knowledge, [Next]_vars
             PROVE  LocksKnown'
  OBVIOUS
<1> USE Actors DEF TypeOK, RowTyped, Knowledge
<1>0. \A c \in Contact : Known(c) => Known(c)'
  BY KnownStays
<1>1. ASSUME NEW w \in Job, Sweep(w)
      PROVE  LocksKnown'
  BY <1>0, <1>1 DEF Sweep, LocksKnown, session, LocksTyped
<1>2. ASSUME NEW w \in Job, Claim(w)
      PROVE  LocksKnown'
  <2>1. \A c \in Swept(w) : c \in Contact /\ row[c].status # "absent"
    BY <1>2 DEF Swept, PlansKnown, Known, ThreadsTyped
  <2>2. Taken(w)
    BY <1>2, ClaimedRows
  <2>3. \A c \in DOMAIN tx'[w] : c \in Contact /\ row[c].status # "absent" /\ tx'[w][c].status = row[c].status
    BY <2>1, <2>2 DEF Same, Taken
  <2>4. QED
    BY <1>0, <1>2, <2>2, <2>3 DEF Taken, LocksKnown, Known, LocksTyped
<1>3. ASSUME NEW w \in Job, ClaimNothing(w)
      PROVE  LocksKnown'
  BY <1>0, <1>3 DEF ClaimNothing, Reset, LocksKnown, session, LocksTyped
<1>4. ASSUME NEW w \in Sender, NEW c \in Contact, Begin(w, c)
      PROVE  LocksKnown'
  BY <1>0, <1>4 DEF Begin, LocksKnown, session, LocksTyped
<1>5. ASSUME NEW w \in Sender, Hold(w)
      PROVE  LocksKnown'
  BY <1>0, <1>5 DEF Hold, LocksKnown, session, LocksTyped
<1>6. ASSUME NEW w \in Sender, Raise(w)
      PROVE  LocksKnown'
  BY <1>0, <1>6 DEF Raise, LocksKnown, session, LocksTyped
<1>7. ASSUME NEW w \in Sender, NEW o \in Outcomes, Send(w, o)
      PROVE  LocksKnown'
  BY <1>0, <1>7 DEF Send, LocksKnown, session, LocksTyped
<1>8. ASSUME NEW w \in InitialJob, WriteInitial(w)
      PROVE  LocksKnown'
  <2>1. cur[w] \in Contact
    BY <1>8 DEF WriteInitial, Busy, ThreadsTyped
  <2>2. Known(cur[w]) /\ View(w, cur[w]).status # "absent"
    BY <1>8, <2>1 DEF WriteInitial, Busy, PlansKnown, LocksKnown, View, Known
  <2>3. NewRow(w) \in Row /\ NewRow(w).status # "absent"
    BY <2>1, <2>2, NewRowFacts, Absent DEF TypeOK
  <2>4. Released(NewRow(w)).status # "absent"
    BY <2>3, ReleasedRow
  <2>5. QED
    BY <1>0, <1>8, <2>1, <2>2, <2>4 DEF WriteInitial, release_claim, LocksKnown, LocksTyped
<1>9. ASSUME NEW w \in InitialJob, RollbackInitial(w) \/ CommitFails(w)
      PROVE  LocksKnown'
  <2>1. cur[w] \in Contact /\ Known(cur[w])
    BY <1>9 DEF RollbackInitial, CommitFails, Busy, ThreadsTyped, PlansKnown
  <2>2. Released(row[cur[w]]).status # "absent"
    BY <2>1, ReleasedRow DEF Known
  <2>3. QED
    BY <1>0, <1>9, <2>1, <2>2 DEF RollbackInitial, CommitFails, RolledBack, release_claim, LocksKnown, LocksTyped
<1>10. ASSUME NEW w \in FollowJob, WriteFollow(w)
      PROVE  LocksKnown'
  <2>1. cur[w] \in Contact
    BY <1>10 DEF WriteFollow, Busy, ThreadsTyped
  <2>2. Known(cur[w]) /\ View(w, cur[w]).status # "absent"
    BY <1>10, <2>1 DEF WriteFollow, Busy, PlansKnown, LocksKnown, View, Known
  <2>3. NewRow(w) \in Row /\ NewRow(w).status # "absent"
    BY <2>1, <2>2, NewRowFacts, Absent DEF TypeOK
  <2>4. Released(NewRow(w)).status # "absent"
    BY <2>3, ReleasedRow
  <2>5. QED
    BY <1>0, <1>10, <2>4 DEF WriteFollow, LocksKnown, LocksTyped
<1>11. ASSUME NEW w \in Job, Finish(w)
      PROVE  LocksKnown'
  BY <1>0, <1>11 DEF Finish, Reset, LocksKnown, session, LocksTyped
<1>12. ASSUME NEW w \in Session, Dies(w)
      PROVE  LocksKnown'
  BY <1>0, <1>12 DEF Dies, Reset, LocksKnown, session, LocksTyped
<1>13. ASSUME NEW w \in Job, ReleaseAllClaims(w)
      PROVE  LocksKnown'
  BY <1>0, <1>13 DEF ReleaseAllClaims, LocksKnown, session, LocksTyped
<1>14. ASSUME NEW c \in Contact, LeaseExpires(c)
      PROVE  LocksKnown'
  BY <1>0, <1>14 DEF LeaseExpires, LocksKnown, session, LocksTyped
<1>15. ASSUME NEW w \in Forced, NEW c \in Touched, ForceAsk(w, c)
      PROVE  LocksKnown'
  BY <1>0, <1>15 DEF ForceAsk, LocksKnown, session, LocksTyped
<1>16. ASSUME NEW w \in Forced, ForceMark(w)
      PROVE  LocksKnown'
  BY <1>0, <1>16 DEF ForceMark, LocksKnown, session, LocksTyped
<1>17. ASSUME NEW w \in Forced, WriteForced(w)
      PROVE  LocksKnown'
  BY <1>0, <1>17 DEF WriteForced, Reset, LocksKnown, session, LocksTyped
<1>18. ASSUME NEW a \in Approval, NEW c \in Touched, ApproveOpen(a, c)
      PROVE  LocksKnown'
  <2>1. Known(c)
    BY <1>18 DEF ApproveOpen, RowsKnown, Row
  <2>2. QED
    BY <1>0, <1>18, <2>1 DEF ApproveOpen, LockForUpdate, LocksKnown, LocksTyped, Known
<1>19. ASSUME NEW a \in Approval, NEW o \in Outcomes, ApproveSend(a, o)
      PROVE  LocksKnown'
  BY <1>0, <1>19 DEF ApproveSend, LocksKnown, session, LocksTyped
<1>20. ASSUME NEW a \in Approval, ApproveCommit(a)
      PROVE  LocksKnown'
  BY <1>0, <1>20 DEF ApproveCommit, Reset, LocksKnown, session, LocksTyped
<1>21. ASSUME NEW r \in Request, NEW op \in {"pause", "resume", "won"}, NEW c \in Touched, Ask(r, op, c)
      PROVE  LocksKnown'
  BY <1>0, <1>21 DEF Ask, LocksKnown, session, LocksTyped
<1>22. ASSUME NEW r \in Request, Start(r)
      PROVE  LocksKnown'
  BY <1>0, <1>22 DEF Start, LocksKnown, session, LocksTyped
<1>23. ASSUME NEW r \in Request, Commit(r)
      PROVE  LocksKnown'
  BY <1>0, <1>23 DEF Commit, LocksKnown, session, LocksTyped
<1>24. ASSUME NEW B \in SUBSET Contact, AddContacts(B)
      PROVE  LocksKnown'
  BY <1>0, <1>24 DEF AddContacts, LocksKnown, session, LocksTyped
<1>25. ASSUME NEW c \in Touched, Suppress(c)
      PROVE  LocksKnown'
  BY <1>0, <1>25 DEF Suppress, LocksKnown, session, LocksTyped
<1>26. ASSUME NEW r \in Request, NEW c \in Touched, NEW reply \in Replies,
            NEW answer \in {"none", "manual", "held", "sent", "failed", "unknown"},
            Receive(r, c, reply, answer)
      PROVE  LocksKnown'
  BY <1>0, <1>26 DEF Receive, LocksKnown, session, LocksTyped
<1>27. ASSUME NEW r \in Request, CommitReply(r)
      PROVE  LocksKnown'
  BY <1>0, <1>27 DEF CommitReply, LocksKnown, session, LocksTyped
<1>28. ASSUME NEW c \in Contact, TimePasses(c)
      PROVE  LocksKnown'
  BY <1>0, <1>28 DEF TimePasses, LocksKnown, session, LocksTyped
<1>29. CASE UNCHANGED vars
  BY <1>29, <1>0 DEF vars, session, LocksKnown, LocksTyped
<1>30. QED
  BY <1>1, <1>2, <1>3, <1>4, <1>5, <1>6, <1>7, <1>8, <1>9, <1>10, <1>11, <1>12, <1>13, <1>14,
     <1>15, <1>16, <1>17, <1>18, <1>19, <1>20, <1>21, <1>22, <1>23, <1>24, <1>25, <1>26, <1>27, <1>28, <1>29,
     NextCases DEF JobCase, SenderCase, EndpointCase, RequestCase, WorldCase

\* PlansKnown is kept by every step.
LEMMA PlansKnownStep == TypeOK /\ Busy /\ Pending /\ Places /\ Knowledge /\ [Next]_vars => PlansKnown'
<1> SUFFICES ASSUME TypeOK, Busy, Pending, Places, Knowledge, [Next]_vars
             PROVE  PlansKnown'
  OBVIOUS
<1> USE Actors DEF TypeOK, RowTyped, Knowledge
<1>0. \A c \in Contact : Known(c) => Known(c)'
  BY KnownStays
<1>1. ASSUME NEW w \in Job, Sweep(w)
      PROVE  PlansKnown'
  BY <1>0, <1>1 DEF Sweep, Expired, RowsKnown, PlansKnown, session, ThreadsTyped, RequestsTyped
<1>2. ASSUME NEW w \in Job, Claim(w)
      PROVE  PlansKnown'
  <2>1. \A c \in Due(w) : c \in Contact /\ Known(c)
    BY <1>2, ReleasedRow DEF Due, Known
  <2>2. QED
    BY <1>0, <1>2, <2>1 DEF Claim, PlansKnown, ThreadsTyped, RequestsTyped
<1>3. ASSUME NEW w \in Job, ClaimNothing(w)
      PROVE  PlansKnown'
  BY <1>0, <1>3 DEF ClaimNothing, Reset, PlansKnown, session, ThreadsTyped, RequestsTyped
<1>4. ASSUME NEW w \in Sender, NEW c \in Contact, Begin(w, c)
      PROVE  PlansKnown'
  BY <1>0, <1>4 DEF Begin, PlansKnown, session, ThreadsTyped, RequestsTyped
<1>5. ASSUME NEW w \in Sender, Hold(w)
      PROVE  PlansKnown'
  BY <1>0, <1>5 DEF Hold, PlansKnown, session, ThreadsTyped, RequestsTyped
<1>6. ASSUME NEW w \in Sender, Raise(w)
      PROVE  PlansKnown'
  BY <1>0, <1>6 DEF Raise, PlansKnown, session, ThreadsTyped, RequestsTyped
<1>7. ASSUME NEW w \in Sender, NEW o \in Outcomes, Send(w, o)
      PROVE  PlansKnown'
  BY <1>0, <1>7 DEF Send, PlansKnown, session, ThreadsTyped, RequestsTyped
<1>8. ASSUME NEW w \in InitialJob, WriteInitial(w)
      PROVE  PlansKnown'
  BY <1>0, <1>8 DEF WriteInitial, NextContact, PlansKnown, session, ThreadsTyped, RequestsTyped
<1>9. ASSUME NEW w \in InitialJob, RollbackInitial(w) \/ CommitFails(w)
      PROVE  PlansKnown'
  BY <1>0, <1>9 DEF RollbackInitial, CommitFails, RolledBack, NextContact, PlansKnown, session, ThreadsTyped, RequestsTyped
<1>10. ASSUME NEW w \in FollowJob, WriteFollow(w)
      PROVE  PlansKnown'
  BY <1>0, <1>10 DEF WriteFollow, NextContact, PlansKnown, session, ThreadsTyped, RequestsTyped
<1>11. ASSUME NEW w \in Job, Finish(w)
      PROVE  PlansKnown'
  BY <1>0, <1>11 DEF Finish, Reset, PlansKnown, session, ThreadsTyped, RequestsTyped
<1>12. ASSUME NEW w \in Session, Dies(w)
      PROVE  PlansKnown'
  BY <1>0, <1>12 DEF Dies, Reset, PlansKnown, session, ThreadsTyped, RequestsTyped
<1>13. ASSUME NEW w \in Job, ReleaseAllClaims(w)
      PROVE  PlansKnown'
  BY <1>0, <1>13 DEF ReleaseAllClaims, PlansKnown, session, ThreadsTyped, RequestsTyped
<1>14. ASSUME NEW c \in Contact, LeaseExpires(c)
      PROVE  PlansKnown'
  BY <1>0, <1>14 DEF LeaseExpires, PlansKnown, session, ThreadsTyped, RequestsTyped
<1>15. ASSUME NEW w \in Forced, NEW c \in Touched, ForceAsk(w, c)
      PROVE  PlansKnown'
  BY <1>0, <1>15 DEF ForceAsk, can_send_followup, Known, PlansKnown, ThreadsTyped, RequestsTyped
<1>16. ASSUME NEW w \in Forced, ForceMark(w)
      PROVE  PlansKnown'
  BY <1>0, <1>16 DEF ForceMark, PlansKnown, session, ThreadsTyped, RequestsTyped
<1>17. ASSUME NEW w \in Forced, WriteForced(w)
      PROVE  PlansKnown'
  BY <1>0, <1>17 DEF WriteForced, Reset, PlansKnown, session, ThreadsTyped, RequestsTyped
<1>18. ASSUME NEW a \in Approval, NEW c \in Touched, ApproveOpen(a, c)
      PROVE  PlansKnown'
  <2>1. Known(c)
    BY <1>18 DEF ApproveOpen, RowsKnown, Row
  <2>2. QED
    BY <1>0, <1>18, <2>1 DEF ApproveOpen, PlansKnown, ThreadsTyped, RequestsTyped
<1>19. ASSUME NEW a \in Approval, NEW o \in Outcomes, ApproveSend(a, o)
      PROVE  PlansKnown'
  BY <1>0, <1>19 DEF ApproveSend, PlansKnown, session, ThreadsTyped, RequestsTyped
<1>20. ASSUME NEW a \in Approval, ApproveCommit(a)
      PROVE  PlansKnown'
  BY <1>0, <1>20 DEF ApproveCommit, Reset, PlansKnown, session, ThreadsTyped, RequestsTyped
<1>21. ASSUME NEW r \in Request, NEW op \in {"pause", "resume", "won"}, NEW c \in Touched, Ask(r, op, c)
      PROVE  PlansKnown'
  <2>1. Known(c)
    BY <1>21, NothingFromAbsent DEF Ask, Known
  <2>2. QED
    BY <1>0, <1>21, <2>1 DEF Ask, PlansKnown, session, ThreadsTyped, RequestsTyped
<1>22. ASSUME NEW r \in Request, Start(r)
      PROVE  PlansKnown'
  BY <1>0, <1>22 DEF Start, Known, PlansKnown, session, ThreadsTyped, RequestsTyped
<1>23. ASSUME NEW r \in Request, Commit(r)
      PROVE  PlansKnown'
  BY <1>0, <1>23 DEF Commit, PlansKnown, session, ThreadsTyped, RequestsTyped
<1>24. ASSUME NEW B \in SUBSET Contact, AddContacts(B)
      PROVE  PlansKnown'
  BY <1>0, <1>24 DEF AddContacts, PlansKnown, session, ThreadsTyped, RequestsTyped
<1>25. ASSUME NEW c \in Touched, Suppress(c)
      PROVE  PlansKnown'
  BY <1>0, <1>25 DEF Suppress, PlansKnown, session, ThreadsTyped, RequestsTyped
<1>26. ASSUME NEW r \in Request, NEW c \in Touched, NEW reply \in Replies,
            NEW answer \in {"none", "manual", "held", "sent", "failed", "unknown"},
            Receive(r, c, reply, answer)
      PROVE  PlansKnown'
  BY <1>0, <1>26 DEF Receive, Known, PlansKnown, session, ThreadsTyped, RequestsTyped
<1>27. ASSUME NEW r \in Request, CommitReply(r)
      PROVE  PlansKnown'
  BY <1>0, <1>27 DEF CommitReply, PlansKnown, session, ThreadsTyped, RequestsTyped
<1>28. ASSUME NEW c \in Contact, TimePasses(c)
      PROVE  PlansKnown'
  BY <1>0, <1>28 DEF TimePasses, PlansKnown, session, ThreadsTyped, RequestsTyped
<1>29. CASE UNCHANGED vars
  BY <1>29, <1>0 DEF vars, session, PlansKnown, ThreadsTyped, RequestsTyped
<1>30. QED
  BY <1>1, <1>2, <1>3, <1>4, <1>5, <1>6, <1>7, <1>8, <1>9, <1>10, <1>11, <1>12, <1>13, <1>14,
     <1>15, <1>16, <1>17, <1>18, <1>19, <1>20, <1>21, <1>22, <1>23, <1>24, <1>25, <1>26, <1>27, <1>28, <1>29,
     NextCases DEF JobCase, SenderCase, EndpointCase, RequestCase, WorldCase

-----------------------------------------------------------------------------
(* Locked copies.                                                          *)

\* The locked copy was made from the committed row, which nobody has moved since.
Copies ==
  \A w \in Session : \A c \in DOMAIN tx[w] :
    /\ tx[w][c].handled = row[c].handled
    /\ tx[w][c].drafts >= row[c].drafts
    /\ tx[w][c].status = "new" => row[c].status = "new"

LockInv == Pending /\ Places /\ Knowledge /\ Exclusive /\ Copies

\* What a sender writes and releases, by its columns.
LEMMA ReleasedNew ==
  ASSUME TypeOK, NEW w \in Session, cur[w] \in Contact
  PROVE  /\ NewRow(w) \in Row /\ NewRow(w).drafts \in Nat
         /\ Released(NewRow(w)) \in Row
         /\ Released(NewRow(w)).status = NewRow(w).status
         /\ Released(NewRow(w)).next = NewRow(w).next
         /\ Released(NewRow(w)).index = NewRow(w).index
         /\ Released(NewRow(w)).drafts = NewRow(w).drafts
         /\ Released(NewRow(w)).handled = NewRow(w).handled
         /\ Released(NewRow(w)).claim = Null
<1> DEFINE x == NewRow(w)
<1>1. x \in Row
  BY NewRowTyped
<1> HIDE DEF x
<1>2. x.drafts \in Nat
  BY <1>1 DEF Row
<1>3. Released(x) \in Row /\ Released(x).claim = Null
  BY <1>1, ReleasedRow
<1>4. Same(Released(x), x)
  BY <1>1, SameRows
<1>5. QED
  BY <1>1, <1>2, <1>3, <1>4 DEF x, Same

\* Claims apart, nobody writes a row that another session has locked.
Steady(v) == pc'[v] = pc[v] => \A c \in DOMAIN tx[v] : Same(row'[c], row[c])

\* While a session waits with a row locked, no other step changes the columns Same compares.
LEMMA LockedRows == TypeOK /\ Busy /\ LockInv /\ [Next]_vars => (\A v \in Session : Steady(v))
<1> SUFFICES ASSUME TypeOK, Busy, LockInv, [Next]_vars
             PROVE  (\A v \in Session : Steady(v))
  OBVIOUS
<1> USE Actors DEF Steady, TypeOK, RowTyped, LocksTyped, ThreadsTyped, LockInv
<1>1. ASSUME NEW w \in Job, Sweep(w)
      PROVE  (\A v \in Session : Steady(v))
  BY <1>1 DEF Sweep, Same, database
<1>2. ASSUME NEW w \in Job, Claim(w)
      PROVE  (\A v \in Session : Steady(v))
  BY <1>2 DEF Claim, Same, database
<1>3. ASSUME NEW w \in Job, ClaimNothing(w)
      PROVE  (\A v \in Session : Steady(v))
  <2>1. \A d \in Contact : row'[d] = row[d] \/ row'[d] = Released(row[d])
    BY <1>3 DEF ClaimNothing
  <2>2. \A d \in Contact : Same(row[d], row[d]) /\ Same(Released(row[d]), row[d]) /\ Same([row[d] EXCEPT !.lease = FALSE], row[d])
    BY SameRows DEF Same
  <2>3. QED
    BY <2>1, <2>2
<1>4. ASSUME NEW w \in Sender, NEW c \in Contact, Begin(w, c)
      PROVE  (\A v \in Session : Steady(v))
  BY <1>4 DEF Begin, Same, database
<1>5. ASSUME NEW w \in Sender, Hold(w)
      PROVE  (\A v \in Session : Steady(v))
  BY <1>5 DEF Hold, Same, database
<1>6. ASSUME NEW w \in Sender, Raise(w)
      PROVE  (\A v \in Session : Steady(v))
  BY <1>6 DEF Raise, Same, database
<1>7. ASSUME NEW w \in Sender, NEW o \in Outcomes, Send(w, o)
      PROVE  (\A v \in Session : Steady(v))
  BY <1>7 DEF Send, Same, database
<1>8. ASSUME NEW w \in InitialJob, WriteInitial(w)
      PROVE  (\A v \in Session : Steady(v))
  <2>1. \A v \in Session : pc'[v] = pc[v] => \A x \in DOMAIN tx[v] : row'[x] = row[x]
    BY <1>8 DEF WriteInitial, NextContact, Committed, View, Exclusive, FreeFor
  <2>2. QED
    BY <2>1 DEF Same
<1>9. ASSUME NEW w \in InitialJob, RollbackInitial(w) \/ CommitFails(w)
      PROVE  (\A v \in Session : Steady(v))
  BY <1>9 DEF RollbackInitial, CommitFails, RolledBack, Same, database
<1>10. ASSUME NEW w \in FollowJob, WriteFollow(w)
      PROVE  (\A v \in Session : Steady(v))
  BY <1>10 DEF WriteFollow, Same, database
<1>11. ASSUME NEW w \in Job, Finish(w)
      PROVE  (\A v \in Session : Steady(v))
  <2>1. \A v \in Session : pc'[v] = pc[v] => \A x \in DOMAIN tx[v] : row'[x] = row[x]
    BY <1>11 DEF Finish, Reset, Committed, View, Exclusive
  <2>2. QED
    BY <2>1 DEF Same
<1>12. ASSUME NEW w \in Session, Dies(w)
      PROVE  (\A v \in Session : Steady(v))
  BY <1>12 DEF Dies, Same, database
<1>13. ASSUME NEW w \in Job, ReleaseAllClaims(w)
      PROVE  (\A v \in Session : Steady(v))
  <2>1. \A d \in Contact : row'[d] = row[d] \/ row'[d] = Released(row[d])
    BY <1>13 DEF ReleaseAllClaims
  <2>2. \A d \in Contact : Same(row[d], row[d]) /\ Same(Released(row[d]), row[d]) /\ Same([row[d] EXCEPT !.lease = FALSE], row[d])
    BY SameRows DEF Same
  <2>3. QED
    BY <2>1, <2>2
<1>14. ASSUME NEW c \in Contact, LeaseExpires(c)
      PROVE  (\A v \in Session : Steady(v))
  <2>1. \A d \in Contact : row'[d] = row[d] \/ row'[d] = [row[d] EXCEPT !.lease = FALSE]
    BY <1>14 DEF LeaseExpires
  <2>2. \A d \in Contact : Same(row[d], row[d]) /\ Same(Released(row[d]), row[d]) /\ Same([row[d] EXCEPT !.lease = FALSE], row[d])
    BY SameRows DEF Same
  <2>3. QED
    BY <2>1, <2>2
<1>15. ASSUME NEW w \in Forced, NEW c \in Touched, ForceAsk(w, c)
      PROVE  (\A v \in Session : Steady(v))
  BY <1>15 DEF ForceAsk, Same, database
<1>16. ASSUME NEW w \in Forced, ForceMark(w)
      PROVE  (\A v \in Session : Steady(v))
  <2>1. \A v \in Session : pc'[v] = pc[v] => \A x \in DOMAIN tx[v] : row'[x] = row[x]
    BY <1>16 DEF ForceMark, Unlocked
  <2>2. QED
    BY <2>1 DEF Same
<1>17. ASSUME NEW w \in Forced, WriteForced(w)
      PROVE  (\A v \in Session : Steady(v))
  <2>1. \A v \in Session : pc'[v] = pc[v] => \A x \in DOMAIN tx[v] : row'[x] = row[x]
    BY <1>17 DEF WriteForced, Reset, FreeFor
  <2>2. QED
    BY <2>1 DEF Same
<1>18. ASSUME NEW a \in Approval, NEW c \in Touched, ApproveOpen(a, c)
      PROVE  (\A v \in Session : Steady(v))
  BY <1>18 DEF ApproveOpen, Same, database
<1>19. ASSUME NEW a \in Approval, NEW o \in Outcomes, ApproveSend(a, o)
      PROVE  (\A v \in Session : Steady(v))
  BY <1>19 DEF ApproveSend, Same, database
<1>20. ASSUME NEW a \in Approval, ApproveCommit(a)
      PROVE  (\A v \in Session : Steady(v))
  <2>1. cur[a] \in DOMAIN tx[a] /\ cur[a] \in Contact
    BY <1>20 DEF ApproveCommit, Places
  <2>2. \A v \in Session : pc'[v] = pc[v] => \A x \in DOMAIN tx[v] : row'[x] = row[x]
    BY <1>20, <2>1 DEF ApproveCommit, Reset, Exclusive
  <2>3. QED
    BY <2>2 DEF Same
<1>21. ASSUME NEW r \in Request, NEW op \in {"pause", "resume", "won"}, NEW c \in Touched, Ask(r, op, c)
      PROVE  (\A v \in Session : Steady(v))
  BY <1>21 DEF Ask, Same, database
<1>22. ASSUME NEW r \in Request, Start(r)
      PROVE  (\A v \in Session : Steady(v))
  BY <1>22 DEF Start, Same, database
<1>23. ASSUME NEW r \in Request, Commit(r)
      PROVE  (\A v \in Session : Steady(v))
  <2>1. \A v \in Session : pc'[v] = pc[v] => \A x \in DOMAIN tx[v] : row'[x] = row[x]
    BY <1>23 DEF Commit, Unlocked
  <2>2. QED
    BY <2>1 DEF Same
<1>24. ASSUME NEW B \in SUBSET Contact, AddContacts(B)
      PROVE  (\A v \in Session : Steady(v))
  <2>1. \A v \in Session : pc'[v] = pc[v] => \A x \in DOMAIN tx[v] : row'[x] = row[x]
    BY <1>24 DEF AddContacts, Knowledge, LocksKnown, Known
  <2>2. QED
    BY <2>1 DEF Same
<1>25. ASSUME NEW c \in Touched, Suppress(c)
      PROVE  (\A v \in Session : Steady(v))
  BY <1>25 DEF Suppress, Same, database
<1>26. ASSUME NEW r \in Request, NEW c \in Touched, NEW reply \in Replies,
            NEW answer \in {"none", "manual", "held", "sent", "failed", "unknown"},
            Receive(r, c, reply, answer)
      PROVE  (\A v \in Session : Steady(v))
  BY <1>26 DEF Receive, Same, database
<1>27. ASSUME NEW r \in Request, CommitReply(r)
      PROVE  (\A v \in Session : Steady(v))
  <2>1. \A v \in Session : pc'[v] = pc[v] => \A x \in DOMAIN tx[v] : row'[x] = row[x]
    BY <1>27 DEF CommitReply, Unlocked
  <2>2. QED
    BY <2>1 DEF Same
<1>28. ASSUME NEW c \in Contact, TimePasses(c)
      PROVE  (\A v \in Session : Steady(v))
  <2>1. \A v \in Session : pc'[v] = pc[v] => \A x \in DOMAIN tx[v] : row'[x] = row[x]
    BY <1>28 DEF TimePasses, Unlocked
  <2>2. QED
    BY <2>1 DEF Same
<1>29. CASE UNCHANGED vars
  BY <1>29 DEF vars, database, Same
<1>30. QED
  BY <1>1, <1>2, <1>3, <1>4, <1>5, <1>6, <1>7, <1>8, <1>9, <1>10, <1>11, <1>12, <1>13, <1>14,
     <1>15, <1>16, <1>17, <1>18, <1>19, <1>20, <1>21, <1>22, <1>23, <1>24, <1>25, <1>26, <1>27, <1>28, <1>29,
     NextCases DEF JobCase, SenderCase, EndpointCase, RequestCase, WorldCase

\* Copies is kept by every step.
LEMMA CopiesStep == TypeOK /\ Busy /\ LockInv /\ [Next]_vars => Copies'
<1> SUFFICES ASSUME TypeOK, Busy, LockInv, [Next]_vars
             PROVE  Copies'
  OBVIOUS
<1> USE Actors DEF TypeOK, LocksTyped, ThreadsTyped, LockInv
<1>0. \A v \in Session : pc'[v] = pc[v] =>
        \A c \in DOMAIN tx[v] : /\ row'[c].status = row[c].status
                              /\ row'[c].drafts = row[c].drafts /\ row'[c].handled = row[c].handled
  BY LockedRows DEF Steady, Same
<1>1. ASSUME NEW w \in Job, Sweep(w)
      PROVE  Copies'
  BY <1>0, <1>1 DEF Sweep, Copies, session, database
<1>2. ASSUME NEW w \in Job, Claim(w)
      PROVE  Copies'
  <2>1. Taken(w)
    BY <1>2, ClaimedRows
  <2>2. \A c \in DOMAIN tx'[w] : tx'[w][c].status = row[c].status /\ tx'[w][c].drafts = row[c].drafts
                               /\ tx'[w][c].handled = row[c].handled /\ c \in Contact
    BY <2>1 DEF Taken, Same
  <2>3. UNCHANGED row /\ \A c \in Contact : row[c].drafts \in Nat
    BY <1>2 DEF Claim, database, RowTyped, Row
  <2>4. QED
    BY <2>1, <2>2, <2>3 DEF Copies, Taken
<1>3. ASSUME NEW w \in Job, ClaimNothing(w)
      PROVE  Copies'
  <2>1. DOMAIN tx'[w] = {} /\ \A v \in Session \ {w} : tx'[v] = tx[v] /\ pc'[v] = pc[v]
    BY <1>3 DEF ClaimNothing, Reset
  <2>2. \A v \in Session : \A c \in DOMAIN tx'[v] :
          /\ tx'[v] = tx[v] /\ row'[c].status = row[c].status
          /\ row'[c].drafts = row[c].drafts /\ row'[c].handled = row[c].handled
    BY <1>0, <2>1
  <2>3. QED
    BY <2>2 DEF Copies
<1>4. ASSUME NEW w \in Sender, NEW c \in Contact, Begin(w, c)
      PROVE  Copies'
  BY <1>0, <1>4 DEF Begin, Copies, session, database
<1>5. ASSUME NEW w \in Sender, Hold(w)
      PROVE  Copies'
  BY <1>0, <1>5 DEF Hold, Copies, session, database
<1>6. ASSUME NEW w \in Sender, Raise(w)
      PROVE  Copies'
  BY <1>0, <1>6 DEF Raise, Copies, session, database
<1>7. ASSUME NEW w \in Sender, NEW o \in Outcomes, Send(w, o)
      PROVE  Copies'
  BY <1>0, <1>7 DEF Send, Copies, session, database
<1>8. ASSUME NEW w \in InitialJob, WriteInitial(w)
      PROVE  Copies'
  <2>1. cur[w] \in Contact
    BY <1>8 DEF WriteInitial, Busy
  <2>2. row'[cur[w]] = NewRow(w) /\ DOMAIN tx'[w] = {cur[w]} /\ tx'[w][cur[w]] = Released(NewRow(w))
        /\ \A v \in Session \ {w} : tx'[v] = tx[v] /\ pc'[v] = pc[v]
    BY <1>8, <2>1 DEF WriteInitial, release_claim, NextContact, Committed
  <2>3. QED
    BY <1>0, <2>1, <2>2, ReleasedNew DEF TypeOK, Copies
<1>9. ASSUME NEW w \in InitialJob, RollbackInitial(w) \/ CommitFails(w)
      PROVE  Copies'
  <2>1. cur[w] \in Contact /\ row[cur[w]] \in Row
    BY <1>9 DEF RollbackInitial, CommitFails, Busy, RowTyped
  <2>2. Released(row[cur[w]]).status = row[cur[w]].status /\ Released(row[cur[w]]).drafts = row[cur[w]].drafts
        /\ Released(row[cur[w]]).handled = row[cur[w]].handled /\ row[cur[w]].drafts \in Nat
    BY <2>1, ReleasedRow DEF Row
  <2>3. UNCHANGED row /\ DOMAIN tx'[w] = {cur[w]} /\ tx'[w][cur[w]] = Released(row[cur[w]])
        /\ \A v \in Session \ {w} : tx'[v] = tx[v]
    BY <1>9, <2>1 DEF RollbackInitial, CommitFails, RolledBack, release_claim, database
  <2>4. QED
    BY <2>2, <2>3 DEF Copies
<1>10. ASSUME NEW w \in FollowJob, WriteFollow(w)
      PROVE  Copies'
  <2>1. cur[w] \in Contact
    BY <1>10 DEF WriteFollow, Busy
  <2>2. Released(NewRow(w)).handled = View(w, cur[w]).handled /\ Released(NewRow(w)).drafts >= View(w, cur[w]).drafts
        /\ Released(NewRow(w)).drafts \in Nat /\ (Released(NewRow(w)).status = "new" => View(w, cur[w]).status = "new")
    BY <2>1, NewRowFacts, ReleasedNew
  <2>3. cur[w] \in DOMAIN tx[w] => View(w, cur[w]) = tx[w][cur[w]]
    BY DEF View
  <2>4. /\ UNCHANGED row /\ DOMAIN tx'[w] = DOMAIN tx[w]
        /\ \A c \in DOMAIN tx[w] \ {cur[w]} : tx'[w][c] = tx[w][c]
        /\ cur[w] \in DOMAIN tx[w] => tx'[w][cur[w]] = Released(NewRow(w))
        /\ \A v \in Session \ {w} : tx'[v] = tx[v]
    BY <1>10, <2>1 DEF WriteFollow, database
  <2>5. \A c \in Contact : row[c].drafts \in Nat
    BY DEF RowTyped, Row
  <2>6. \A c \in DOMAIN tx[w] : tx[w][c].drafts \in Nat
    BY DEF Row
  <2>7. QED
    BY <2>2, <2>3, <2>4, <2>5, <2>6 DEF Copies
<1>11. ASSUME NEW w \in Job, Finish(w)
      PROVE  Copies'
  <2>1. DOMAIN tx'[w] = {} /\ \A v \in Session \ {w} : tx'[v] = tx[v] /\ pc'[v] = pc[v]
    BY <1>11 DEF Finish, Reset
  <2>2. \A v \in Session : \A c \in DOMAIN tx'[v] :
          /\ tx'[v] = tx[v] /\ row'[c].status = row[c].status
          /\ row'[c].drafts = row[c].drafts /\ row'[c].handled = row[c].handled
    BY <1>0, <2>1
  <2>3. QED
    BY <2>2 DEF Copies
<1>12. ASSUME NEW w \in Session, Dies(w)
      PROVE  Copies'
  <2>1. DOMAIN tx'[w] = {} /\ \A v \in Session \ {w} : tx'[v] = tx[v] /\ pc'[v] = pc[v]
    BY <1>12 DEF Dies, Reset
  <2>2. \A v \in Session : \A c \in DOMAIN tx'[v] :
          /\ tx'[v] = tx[v] /\ row'[c].status = row[c].status
          /\ row'[c].drafts = row[c].drafts /\ row'[c].handled = row[c].handled
    BY <1>0, <2>1
  <2>3. QED
    BY <2>2 DEF Copies
<1>13. ASSUME NEW w \in Job, ReleaseAllClaims(w)
      PROVE  Copies'
  <2>1. UNCHANGED <<tx, pc>>
    BY <1>13 DEF ReleaseAllClaims, session
  <2>2. QED
    BY <1>0, <2>1 DEF Copies
<1>14. ASSUME NEW c \in Contact, LeaseExpires(c)
      PROVE  Copies'
  <2>1. UNCHANGED <<tx, pc>>
    BY <1>14 DEF LeaseExpires, session
  <2>2. QED
    BY <1>0, <2>1 DEF Copies
<1>15. ASSUME NEW w \in Forced, NEW c \in Touched, ForceAsk(w, c)
      PROVE  Copies'
  BY <1>0, <1>15 DEF ForceAsk, Copies, session, database
<1>16. ASSUME NEW w \in Forced, ForceMark(w)
      PROVE  Copies'
  BY <1>0, <1>16 DEF ForceMark, Copies, session, database
<1>17. ASSUME NEW w \in Forced, WriteForced(w)
      PROVE  Copies'
  <2>1. DOMAIN tx'[w] = {} /\ \A v \in Session \ {w} : tx'[v] = tx[v] /\ pc'[v] = pc[v]
    BY <1>17 DEF WriteForced, Reset
  <2>2. \A v \in Session : \A c \in DOMAIN tx'[v] :
          /\ tx'[v] = tx[v] /\ row'[c].status = row[c].status
          /\ row'[c].drafts = row[c].drafts /\ row'[c].handled = row[c].handled
    BY <1>0, <2>1
  <2>3. QED
    BY <2>2 DEF Copies
<1>18. ASSUME NEW a \in Approval, NEW c \in Touched, ApproveOpen(a, c)
      PROVE  Copies'
  <2>1. /\ UNCHANGED row /\ DOMAIN tx'[a] = {c} /\ tx'[a][c] = row[c] /\ row[c].drafts \in Nat
        /\ \A v \in Session \ {a} : tx'[v] = tx[v]
    BY <1>18 DEF ApproveOpen, LockForUpdate, database, RowTyped, Row
  <2>2. QED
    BY <2>1 DEF Copies
<1>19. ASSUME NEW a \in Approval, NEW o \in Outcomes, ApproveSend(a, o)
      PROVE  Copies'
  BY <1>0, <1>19 DEF ApproveSend, Copies, session, database
<1>20. ASSUME NEW a \in Approval, ApproveCommit(a)
      PROVE  Copies'
  <2>1. DOMAIN tx'[a] = {} /\ \A v \in Session \ {a} : tx'[v] = tx[v] /\ pc'[v] = pc[v]
    BY <1>20 DEF ApproveCommit, Reset
  <2>2. \A v \in Session : \A c \in DOMAIN tx'[v] :
          /\ tx'[v] = tx[v] /\ row'[c].status = row[c].status
          /\ row'[c].drafts = row[c].drafts /\ row'[c].handled = row[c].handled
    BY <1>0, <2>1
  <2>3. QED
    BY <2>2 DEF Copies
<1>21. ASSUME NEW r \in Request, NEW op \in {"pause", "resume", "won"}, NEW c \in Touched, Ask(r, op, c)
      PROVE  Copies'
  <2>1. UNCHANGED <<tx, pc>>
    BY <1>21 DEF Ask, session
  <2>2. QED
    BY <1>0, <2>1 DEF Copies
<1>22. ASSUME NEW r \in Request, Start(r)
      PROVE  Copies'
  <2>1. UNCHANGED <<tx, pc>>
    BY <1>22 DEF Start, session
  <2>2. QED
    BY <1>0, <2>1 DEF Copies
<1>23. ASSUME NEW r \in Request, Commit(r)
      PROVE  Copies'
  <2>1. UNCHANGED <<tx, pc>>
    BY <1>23 DEF Commit, session
  <2>2. QED
    BY <1>0, <2>1 DEF Copies
<1>24. ASSUME NEW B \in SUBSET Contact, AddContacts(B)
      PROVE  Copies'
  <2>1. UNCHANGED <<tx, pc>>
    BY <1>24 DEF AddContacts, session
  <2>2. QED
    BY <1>0, <2>1 DEF Copies
<1>25. ASSUME NEW c \in Touched, Suppress(c)
      PROVE  Copies'
  <2>1. UNCHANGED <<tx, pc>>
    BY <1>25 DEF Suppress, session
  <2>2. QED
    BY <1>0, <2>1 DEF Copies
<1>26. ASSUME NEW r \in Request, NEW c \in Touched, NEW reply \in Replies,
            NEW answer \in {"none", "manual", "held", "sent", "failed", "unknown"},
            Receive(r, c, reply, answer)
      PROVE  Copies'
  <2>1. UNCHANGED <<tx, pc>>
    BY <1>26 DEF Receive, session
  <2>2. QED
    BY <1>0, <2>1 DEF Copies
<1>27. ASSUME NEW r \in Request, CommitReply(r)
      PROVE  Copies'
  <2>1. UNCHANGED <<tx, pc>>
    BY <1>27 DEF CommitReply, session
  <2>2. QED
    BY <1>0, <2>1 DEF Copies
<1>28. ASSUME NEW c \in Contact, TimePasses(c)
      PROVE  Copies'
  <2>1. UNCHANGED <<tx, pc>>
    BY <1>28 DEF TimePasses, session
  <2>2. QED
    BY <1>0, <2>1 DEF Copies
<1>29. CASE UNCHANGED vars
  BY <1>29 DEF vars, database, session, Copies
<1>30. QED
  BY <1>1, <1>2, <1>3, <1>4, <1>5, <1>6, <1>7, <1>8, <1>9, <1>10, <1>11, <1>12, <1>13, <1>14,
     <1>15, <1>16, <1>17, <1>18, <1>19, <1>20, <1>21, <1>22, <1>23, <1>24, <1>25, <1>26, <1>27, <1>28, <1>29,
     NextCases DEF JobCase, SenderCase, EndpointCase, RequestCase, WorldCase

-----------------------------------------------------------------------------
(* Draft approval.                                                         *)

\* The approval in hand has its row locked, with a draft left to send.
Approvals ==
  \A a \in Approval :
    /\ pc[a] \in {"draft", "write"} => row[cur[a]].handled < row[cur[a]].drafts
    /\ sent[a] \subseteq {cur[a]}
    /\ pc[a] # "write" => sent[a] = {}

\* Every mailed draft is accounted for: handled, lost with its transaction, or in the hands
\* of the one approval that is about to commit.
Spent ==
  \A c \in Contact :
    /\ row[c].handled <= row[c].drafts
    /\ \/ approved[c] <= row[c].handled + spoiled[c]
       \/ /\ \E a \in Approval : c \in sent[a]
          /\ approved[c] <= row[c].handled + spoiled[c] + 1

DraftInv == Approvals /\ Spent

\* Approvals is kept by every step.
LEMMA ApprovalsStep == TypeOK /\ Busy /\ LockInv /\ Approvals /\ [Next]_vars => Approvals'
<1> SUFFICES ASSUME TypeOK, Busy, LockInv, Approvals, [Next]_vars
             PROVE  Approvals'
  OBVIOUS
<1> USE Actors DEF TypeOK, ThreadsTyped
<1>0. \A a \in Approval : pc'[a] = pc[a] /\ pc[a] \in {"draft", "write"} =>
        row'[cur[a]].drafts = row[cur[a]].drafts /\ row'[cur[a]].handled = row[cur[a]].handled
  BY LockedRows DEF Steady, Same, LockInv, Places
<1>1. ASSUME NEW w \in Job, Sweep(w)
      PROVE  Approvals'
  <2>1. \A a \in Approval : pc'[a] = pc[a] /\ cur'[a] = cur[a] /\ sent'[a] = sent[a]
    BY <1>1 DEF Sweep, session
  <2>2. QED
    BY <1>0, <2>1 DEF Approvals
<1>2. ASSUME NEW w \in Job, Claim(w)
      PROVE  Approvals'
  <2>1. \A a \in Approval : pc'[a] = pc[a] /\ cur'[a] = cur[a] /\ sent'[a] = sent[a]
    BY <1>2 DEF Claim, session
  <2>2. QED
    BY <1>0, <2>1 DEF Approvals
<1>3. ASSUME NEW w \in Job, ClaimNothing(w)
      PROVE  Approvals'
  <2>1. \A a \in Approval : pc'[a] = pc[a] /\ cur'[a] = cur[a] /\ sent'[a] = sent[a]
    BY <1>3 DEF ClaimNothing, Reset, session
  <2>2. QED
    BY <1>0, <2>1 DEF Approvals
<1>4. ASSUME NEW w \in Sender, NEW c \in Contact, Begin(w, c)
      PROVE  Approvals'
  <2>1. \A a \in Approval : pc'[a] = pc[a] /\ cur'[a] = cur[a] /\ sent'[a] = sent[a]
    BY <1>4 DEF Begin, session
  <2>2. QED
    BY <1>0, <2>1 DEF Approvals
<1>5. ASSUME NEW w \in Sender, Hold(w)
      PROVE  Approvals'
  <2>1. \A a \in Approval : pc'[a] = pc[a] /\ cur'[a] = cur[a] /\ sent'[a] = sent[a]
    BY <1>5 DEF Hold, session
  <2>2. QED
    BY <1>0, <2>1 DEF Approvals
<1>6. ASSUME NEW w \in Sender, Raise(w)
      PROVE  Approvals'
  <2>1. \A a \in Approval : pc'[a] = pc[a] /\ cur'[a] = cur[a] /\ sent'[a] = sent[a]
    BY <1>6 DEF Raise, session
  <2>2. QED
    BY <1>0, <2>1 DEF Approvals
<1>7. ASSUME NEW w \in Sender, NEW o \in Outcomes, Send(w, o)
      PROVE  Approvals'
  <2>1. \A a \in Approval : pc'[a] = pc[a] /\ cur'[a] = cur[a] /\ sent'[a] = sent[a]
    BY <1>7 DEF Send, session
  <2>2. QED
    BY <1>0, <2>1 DEF Approvals
<1>8. ASSUME NEW w \in InitialJob, WriteInitial(w)
      PROVE  Approvals'
  <2>1. \A a \in Approval : pc'[a] = pc[a] /\ cur'[a] = cur[a] /\ sent'[a] = sent[a]
    BY <1>8 DEF WriteInitial, NextContact, release_claim, session
  <2>2. QED
    BY <1>0, <2>1 DEF Approvals
<1>9. ASSUME NEW w \in InitialJob, RollbackInitial(w) \/ CommitFails(w)
      PROVE  Approvals'
  <2>1. \A a \in Approval : pc'[a] = pc[a] /\ cur'[a] = cur[a] /\ sent'[a] = sent[a]
    BY <1>9 DEF RollbackInitial, CommitFails, RolledBack, NextContact, release_claim, session
  <2>2. QED
    BY <1>0, <2>1 DEF Approvals
<1>10. ASSUME NEW w \in FollowJob, WriteFollow(w)
      PROVE  Approvals'
  <2>1. \A a \in Approval : pc'[a] = pc[a] /\ cur'[a] = cur[a] /\ sent'[a] = sent[a]
    BY <1>10 DEF WriteFollow, NextContact, session
  <2>2. QED
    BY <1>0, <2>1 DEF Approvals
<1>11. ASSUME NEW w \in Job, Finish(w)
      PROVE  Approvals'
  <2>1. \A a \in Approval : pc'[a] = pc[a] /\ cur'[a] = cur[a] /\ sent'[a] = sent[a]
    BY <1>11 DEF Finish, Reset, session
  <2>2. QED
    BY <1>0, <2>1 DEF Approvals
<1>12. ASSUME NEW w \in Session, Dies(w)
      PROVE  Approvals'
  <2>1. sent'[w] = {} /\ pc'[w] = "idle"
    BY <1>12 DEF Dies, Reset
  <2>2. \A a \in Approval : a # w => pc'[a] = pc[a] /\ cur'[a] = cur[a] /\ sent'[a] = sent[a]
    BY <1>12 DEF Dies, Reset
  <2>3. QED
    BY <1>0, <2>1, <2>2 DEF Approvals
<1>13. ASSUME NEW w \in Job, ReleaseAllClaims(w)
      PROVE  Approvals'
  <2>1. \A a \in Approval : pc'[a] = pc[a] /\ cur'[a] = cur[a] /\ sent'[a] = sent[a]
    BY <1>13 DEF ReleaseAllClaims, session
  <2>2. QED
    BY <1>0, <2>1 DEF Approvals
<1>14. ASSUME NEW c \in Contact, LeaseExpires(c)
      PROVE  Approvals'
  <2>1. \A a \in Approval : pc'[a] = pc[a] /\ cur'[a] = cur[a] /\ sent'[a] = sent[a]
    BY <1>14 DEF LeaseExpires, session
  <2>2. QED
    BY <1>0, <2>1 DEF Approvals
<1>15. ASSUME NEW w \in Forced, NEW c \in Touched, ForceAsk(w, c)
      PROVE  Approvals'
  <2>1. \A a \in Approval : pc'[a] = pc[a] /\ cur'[a] = cur[a] /\ sent'[a] = sent[a]
    BY <1>15 DEF ForceAsk, session
  <2>2. QED
    BY <1>0, <2>1 DEF Approvals
<1>16. ASSUME NEW w \in Forced, ForceMark(w)
      PROVE  Approvals'
  <2>1. \A a \in Approval : pc'[a] = pc[a] /\ cur'[a] = cur[a] /\ sent'[a] = sent[a]
    BY <1>16 DEF ForceMark, session
  <2>2. QED
    BY <1>0, <2>1 DEF Approvals
<1>17. ASSUME NEW w \in Forced, WriteForced(w)
      PROVE  Approvals'
  <2>1. \A a \in Approval : pc'[a] = pc[a] /\ cur'[a] = cur[a] /\ sent'[a] = sent[a]
    BY <1>17 DEF WriteForced, Reset, session
  <2>2. QED
    BY <1>0, <2>1 DEF Approvals
<1>18. ASSUME NEW a \in Approval, NEW c \in Touched, ApproveOpen(a, c)
      PROVE  Approvals'
  BY <1>18 DEF ApproveOpen, database, Approvals
<1>19. ASSUME NEW a \in Approval, NEW o \in Outcomes, ApproveSend(a, o)
      PROVE  Approvals'
  BY <1>19 DEF ApproveSend, database, Approvals
<1>20. ASSUME NEW a \in Approval, ApproveCommit(a)
      PROVE  Approvals'
  <2>1. sent'[a] = {} /\ pc'[a] = "idle"
    BY <1>20 DEF ApproveCommit, Reset
  <2>2. \A b \in Approval : b # a => pc'[b] = pc[b] /\ cur'[b] = cur[b] /\ sent'[b] = sent[b]
    BY <1>20 DEF ApproveCommit, Reset
  <2>3. QED
    BY <1>0, <2>1, <2>2 DEF Approvals
<1>21. ASSUME NEW r \in Request, NEW op \in {"pause", "resume", "won"}, NEW c \in Touched, Ask(r, op, c)
      PROVE  Approvals'
  <2>1. \A a \in Approval : pc'[a] = pc[a] /\ cur'[a] = cur[a] /\ sent'[a] = sent[a]
    BY <1>21 DEF Ask, session
  <2>2. QED
    BY <1>0, <2>1 DEF Approvals
<1>22. ASSUME NEW r \in Request, Start(r)
      PROVE  Approvals'
  <2>1. \A a \in Approval : pc'[a] = pc[a] /\ cur'[a] = cur[a] /\ sent'[a] = sent[a]
    BY <1>22 DEF Start, session
  <2>2. QED
    BY <1>0, <2>1 DEF Approvals
<1>23. ASSUME NEW r \in Request, Commit(r)
      PROVE  Approvals'
  <2>1. \A a \in Approval : pc'[a] = pc[a] /\ cur'[a] = cur[a] /\ sent'[a] = sent[a]
    BY <1>23 DEF Commit, session
  <2>2. QED
    BY <1>0, <2>1 DEF Approvals
<1>24. ASSUME NEW B \in SUBSET Contact, AddContacts(B)
      PROVE  Approvals'
  <2>1. \A a \in Approval : pc'[a] = pc[a] /\ cur'[a] = cur[a] /\ sent'[a] = sent[a]
    BY <1>24 DEF AddContacts, session
  <2>2. QED
    BY <1>0, <2>1 DEF Approvals
<1>25. ASSUME NEW c \in Touched, Suppress(c)
      PROVE  Approvals'
  <2>1. \A a \in Approval : pc'[a] = pc[a] /\ cur'[a] = cur[a] /\ sent'[a] = sent[a]
    BY <1>25 DEF Suppress, session
  <2>2. QED
    BY <1>0, <2>1 DEF Approvals
<1>26. ASSUME NEW r \in Request, NEW c \in Touched, NEW reply \in Replies,
            NEW answer \in {"none", "manual", "held", "sent", "failed", "unknown"},
            Receive(r, c, reply, answer)
      PROVE  Approvals'
  <2>1. \A a \in Approval : pc'[a] = pc[a] /\ cur'[a] = cur[a] /\ sent'[a] = sent[a]
    BY <1>26 DEF Receive, session
  <2>2. QED
    BY <1>0, <2>1 DEF Approvals
<1>27. ASSUME NEW r \in Request, CommitReply(r)
      PROVE  Approvals'
  <2>1. \A a \in Approval : pc'[a] = pc[a] /\ cur'[a] = cur[a] /\ sent'[a] = sent[a]
    BY <1>27 DEF CommitReply, session
  <2>2. QED
    BY <1>0, <2>1 DEF Approvals
<1>28. ASSUME NEW c \in Contact, TimePasses(c)
      PROVE  Approvals'
  <2>1. \A a \in Approval : pc'[a] = pc[a] /\ cur'[a] = cur[a] /\ sent'[a] = sent[a]
    BY <1>28 DEF TimePasses, session
  <2>2. QED
    BY <1>0, <2>1 DEF Approvals
<1>29. CASE UNCHANGED vars
  BY <1>29 DEF vars, database, session, Approvals
<1>30. QED
  BY <1>1, <1>2, <1>3, <1>4, <1>5, <1>6, <1>7, <1>8, <1>9, <1>10, <1>11, <1>12, <1>13, <1>14,
     <1>15, <1>16, <1>17, <1>18, <1>19, <1>20, <1>21, <1>22, <1>23, <1>24, <1>25, <1>26, <1>27, <1>28, <1>29,
     NextCases DEF JobCase, SenderCase, EndpointCase, RequestCase, WorldCase

\* Drafts are only added and only approvals handle one.
DraftsGrow == \A c \in Contact : /\ row'[c].drafts >= row[c].drafts /\ row'[c].handled >= row[c].handled
                              /\ row'[c].handled <= row'[c].drafts

\* Drafts made and drafts handled never get fewer, and no more are handled than were made.
LEMMA DraftsGrowStep == TypeOK /\ Busy /\ LockInv /\ DraftInv /\ [Next]_vars => DraftsGrow
<1> SUFFICES ASSUME TypeOK, Busy, LockInv, DraftInv, [Next]_vars
             PROVE  DraftsGrow
  OBVIOUS
<1> USE Actors DEF TypeOK, RowTyped, DraftInv, LockInv
<1>0. \A c \in Contact : /\ row[c] \in Row /\ row[c].drafts \in Nat /\ row[c].handled \in Nat
                        /\ row[c].handled <= row[c].drafts
  BY DEF Row, Spent
<1>1. ASSUME NEW w \in Job, Sweep(w)
      PROVE  DraftsGrow
  BY <1>0, <1>1 DEF Sweep, database, DraftsGrow
<1>2. ASSUME NEW w \in Job, Claim(w)
      PROVE  DraftsGrow
  <2>1. UNCHANGED row
    BY <1>2 DEF Claim, database
  <2>2. QED
    BY <1>0, <2>1 DEF DraftsGrow
<1>3. ASSUME NEW w \in Job, ClaimNothing(w)
      PROVE  DraftsGrow
  <2>1. \A d \in Contact : row'[d] = row[d] \/ row'[d] = Released(row[d])
    BY <1>3 DEF ClaimNothing
  <2>2. \A d \in Contact : row'[d].drafts = row[d].drafts /\ row'[d].handled = row[d].handled
    BY <1>0, <2>1, SameRows DEF Same
  <2>3. QED
    BY <1>0, <2>2 DEF DraftsGrow
<1>4. ASSUME NEW w \in Sender, NEW c \in Contact, Begin(w, c)
      PROVE  DraftsGrow
  BY <1>0, <1>4 DEF Begin, database, DraftsGrow
<1>5. ASSUME NEW w \in Sender, Hold(w)
      PROVE  DraftsGrow
  BY <1>0, <1>5 DEF Hold, database, DraftsGrow
<1>6. ASSUME NEW w \in Sender, Raise(w)
      PROVE  DraftsGrow
  BY <1>0, <1>6 DEF Raise, database, DraftsGrow
<1>7. ASSUME NEW w \in Sender, NEW o \in Outcomes, Send(w, o)
      PROVE  DraftsGrow
  BY <1>0, <1>7 DEF Send, database, DraftsGrow
<1>8. ASSUME NEW w \in InitialJob, WriteInitial(w)
      PROVE  DraftsGrow
  <2>1. cur[w] \in Contact
    BY <1>8 DEF WriteInitial, Busy, ThreadsTyped
  <2>2. \A d \in DOMAIN tx[w] : d \in Contact /\ tx[w][d].handled = row[d].handled /\ tx[w][d].drafts >= row[d].drafts /\ tx[w][d].drafts \in Nat
    BY DEF LocksTyped, Row, Copies
  <2>3. View(w, cur[w]).handled = row[cur[w]].handled /\ View(w, cur[w]).drafts >= row[cur[w]].drafts /\ View(w, cur[w]).drafts \in Nat
    BY <1>0, <2>1, <2>2 DEF View
  <2>4. NewRow(w).handled = View(w, cur[w]).handled /\ NewRow(w).drafts >= View(w, cur[w]).drafts /\ NewRow(w).drafts \in Nat
    BY <2>1, NewRowFacts, ReleasedNew
  <2>5. NewRow(w).handled = row[cur[w]].handled /\ NewRow(w).drafts >= row[cur[w]].drafts /\ NewRow(w).drafts \in Nat
    BY <1>0, <2>1, <2>3, <2>4
  <2>6. QED
    BY <1>0, <1>8, <2>1, <2>2, <2>5 DEF WriteInitial, Committed, View, DraftsGrow
<1>9. ASSUME NEW w \in InitialJob, RollbackInitial(w) \/ CommitFails(w)
      PROVE  DraftsGrow
  BY <1>0, <1>9 DEF RollbackInitial, CommitFails, RolledBack, database, DraftsGrow
<1>10. ASSUME NEW w \in FollowJob, WriteFollow(w)
      PROVE  DraftsGrow
  BY <1>0, <1>10 DEF WriteFollow, database, DraftsGrow
<1>11. ASSUME NEW w \in Job, Finish(w)
      PROVE  DraftsGrow
  <2>1. \A d \in DOMAIN tx[w] : d \in Contact /\ tx[w][d].handled = row[d].handled /\ tx[w][d].drafts >= row[d].drafts /\ tx[w][d].drafts \in Nat
    BY DEF LocksTyped, Row, Copies
  <2>2. QED
    BY <1>0, <1>11, <2>1 DEF Finish, Committed, View, DraftsGrow
<1>12. ASSUME NEW w \in Session, Dies(w)
      PROVE  DraftsGrow
  BY <1>0, <1>12 DEF Dies, database, DraftsGrow
<1>13. ASSUME NEW w \in Job, ReleaseAllClaims(w)
      PROVE  DraftsGrow
  <2>1. \A d \in Contact : row'[d] = row[d] \/ row'[d] = Released(row[d])
    BY <1>13 DEF ReleaseAllClaims
  <2>2. \A d \in Contact : row'[d].drafts = row[d].drafts /\ row'[d].handled = row[d].handled
    BY <1>0, <2>1, SameRows DEF Same
  <2>3. QED
    BY <1>0, <2>2 DEF DraftsGrow
<1>14. ASSUME NEW c \in Contact, LeaseExpires(c)
      PROVE  DraftsGrow
  <2>1. \A d \in Contact : row'[d].drafts = row[d].drafts /\ row'[d].handled = row[d].handled
    BY <1>0, <1>14 DEF LeaseExpires, Row
  <2>2. QED
    BY <1>0, <2>1 DEF DraftsGrow
<1>15. ASSUME NEW w \in Forced, NEW c \in Touched, ForceAsk(w, c)
      PROVE  DraftsGrow
  BY <1>0, <1>15 DEF ForceAsk, database, DraftsGrow
<1>16. ASSUME NEW w \in Forced, ForceMark(w)
      PROVE  DraftsGrow
  <2>1. \A d \in Contact : row'[d].drafts = row[d].drafts /\ row'[d].handled = row[d].handled
    BY <1>0, <1>16 DEF ForceMark, Row
  <2>2. QED
    BY <1>0, <2>1 DEF DraftsGrow
<1>17. ASSUME NEW w \in Forced, WriteForced(w)
      PROVE  DraftsGrow
  <2>1. cur[w] \in Contact
    BY <1>17 DEF WriteForced, Busy, ThreadsTyped
  <2>2. \A d \in DOMAIN tx[w] : d \in Contact /\ tx[w][d].handled = row[d].handled /\ tx[w][d].drafts >= row[d].drafts /\ tx[w][d].drafts \in Nat
    BY DEF LocksTyped, Row, Copies
  <2>3. View(w, cur[w]).handled = row[cur[w]].handled /\ View(w, cur[w]).drafts >= row[cur[w]].drafts /\ View(w, cur[w]).drafts \in Nat
    BY <1>0, <2>1, <2>2 DEF View
  <2>4. NewRow(w).handled = View(w, cur[w]).handled /\ NewRow(w).drafts >= View(w, cur[w]).drafts /\ NewRow(w).drafts \in Nat
    BY <2>1, NewRowFacts, ReleasedNew
  <2>5. NewRow(w).handled = row[cur[w]].handled /\ NewRow(w).drafts >= row[cur[w]].drafts /\ NewRow(w).drafts \in Nat
    BY <1>0, <2>1, <2>3, <2>4
  <2>6. QED
    BY <1>0, <1>17, <2>1, <2>2, <2>5 DEF WriteForced, Committed, View, DraftsGrow
<1>18. ASSUME NEW a \in Approval, NEW c \in Touched, ApproveOpen(a, c)
      PROVE  DraftsGrow
  BY <1>0, <1>18 DEF ApproveOpen, database, DraftsGrow
<1>19. ASSUME NEW a \in Approval, NEW o \in Outcomes, ApproveSend(a, o)
      PROVE  DraftsGrow
  BY <1>0, <1>19 DEF ApproveSend, database, DraftsGrow
<1>20. ASSUME NEW a \in Approval, ApproveCommit(a)
      PROVE  DraftsGrow
  <2>1. cur[a] \in Contact /\ row[cur[a]].handled < row[cur[a]].drafts
    BY <1>20 DEF ApproveCommit, Busy, ThreadsTyped, Approvals
  <2>2. QED
    BY <1>0, <1>20, <2>1 DEF ApproveCommit, Row, DraftsGrow
<1>21. ASSUME NEW r \in Request, NEW op \in {"pause", "resume", "won"}, NEW c \in Touched, Ask(r, op, c)
      PROVE  DraftsGrow
  BY <1>0, <1>21 DEF Ask, database, DraftsGrow
<1>22. ASSUME NEW r \in Request, Start(r)
      PROVE  DraftsGrow
  BY <1>0, <1>22 DEF Start, database, DraftsGrow
<1>23. ASSUME NEW r \in Request, Commit(r)
      PROVE  DraftsGrow
  <2>1. \A c \in Contact : /\ Written(row[c], req[r].snap, req[r].new).handled = row[c].handled
                           /\ Written(row[c], req[r].snap, req[r].new).drafts >= row[c].drafts
                           /\ Written(row[c], req[r].snap, req[r].new) \in Row
    BY <1>23, RequestWrites DEF Commit
  <2>2. \A c \in Contact : Written(row[c], req[r].snap, req[r].new).drafts \in Nat
    BY <2>1 DEF Row
  <2>3. QED
    BY <1>0, <1>23, <2>1, <2>2 DEF Commit, DraftsGrow
<1>24. ASSUME NEW B \in SUBSET Contact, AddContacts(B)
      PROVE  DraftsGrow
  <2>1. \A c \in B : c \in Contact /\ row[c].drafts = 0 /\ row[c].handled = 0
    BY <1>0, <1>24 DEF AddContacts, Knowledge, RowsKnown, Known
  <2>2. QED
    BY <1>0, <1>24, <2>1 DEF AddContacts, NoRow, DraftsGrow
<1>25. ASSUME NEW c \in Touched, Suppress(c)
      PROVE  DraftsGrow
  BY <1>0, <1>25 DEF Suppress, database, DraftsGrow
<1>26. ASSUME NEW r \in Request, NEW c \in Touched, NEW reply \in Replies,
            NEW answer \in {"none", "manual", "held", "sent", "failed", "unknown"},
            Receive(r, c, reply, answer)
      PROVE  DraftsGrow
  BY <1>0, <1>26 DEF Receive, database, DraftsGrow
<1>27. ASSUME NEW r \in Request, CommitReply(r)
      PROVE  DraftsGrow
  <2>1. \A c \in Contact : /\ Written(row[c], req[r].snap, req[r].new).handled = row[c].handled
                           /\ Written(row[c], req[r].snap, req[r].new).drafts >= row[c].drafts
                           /\ Written(row[c], req[r].snap, req[r].new) \in Row
    BY <1>27, RequestWrites DEF CommitReply
  <2>2. \A c \in Contact : Written(row[c], req[r].snap, req[r].new).drafts \in Nat
    BY <2>1 DEF Row
  <2>3. QED
    BY <1>0, <1>27, <2>1, <2>2 DEF CommitReply, DraftsGrow
<1>28. ASSUME NEW c \in Contact, TimePasses(c)
      PROVE  DraftsGrow
  <2>1. \A d \in Contact : row'[d].drafts = row[d].drafts /\ row'[d].handled = row[d].handled
    BY <1>0, <1>28 DEF TimePasses, Row
  <2>2. QED
    BY <1>0, <2>1 DEF DraftsGrow
<1>29. CASE UNCHANGED vars
  BY <1>29, <1>0 DEF vars, database, DraftsGrow
<1>30. QED
  BY <1>1, <1>2, <1>3, <1>4, <1>5, <1>6, <1>7, <1>8, <1>9, <1>10, <1>11, <1>12, <1>13, <1>14,
     <1>15, <1>16, <1>17, <1>18, <1>19, <1>20, <1>21, <1>22, <1>23, <1>24, <1>25, <1>26, <1>27, <1>28, <1>29,
     NextCases DEF JobCase, SenderCase, EndpointCase, RequestCase, WorldCase

\* Spent is kept by every step.
LEMMA SpentStep == TypeOK /\ Busy /\ LockInv /\ DraftInv /\ [Next]_vars => Spent'
<1> SUFFICES ASSUME TypeOK, Busy, LockInv, DraftInv, [Next]_vars
             PROVE  Spent'
  OBVIOUS
<1> USE Actors DEF TypeOK, ThreadsTyped
<1>0. /\ DraftsGrow
      /\ \A c \in Contact : row[c].handled \in Nat /\ row'[c].handled \in Nat /\ row'[c].drafts \in Nat
      /\ approved \in [Contact -> Nat] /\ spoiled \in [Contact -> Nat]
      /\ approved' \in [Contact -> Nat] /\ spoiled' \in [Contact -> Nat]
  BY DraftsGrowStep, TypeStep DEF TypeOK, RowTyped, Row, MailTyped, CountsTyped
<1>1. ASSUME NEW w \in Job, Sweep(w)
      PROVE  Spent'
  <2>1. UNCHANGED approved /\ (\A x \in Contact : spoiled'[x] >= spoiled[x]) /\ \A b \in Approval : sent'[b] = sent[b]
    BY <1>0, <1>1 DEF Sweep, session, mail, history
  <2>2. QED
    BY <1>0, <2>1 DEF Spent, DraftsGrow, DraftInv
<1>2. ASSUME NEW w \in Job, Claim(w)
      PROVE  Spent'
  <2>1. UNCHANGED <<approved, spoiled, sent>>
    BY <1>2 DEF Claim, mail
  <2>2. QED
    BY <1>0, <2>1 DEF Spent, DraftsGrow, DraftInv
<1>3. ASSUME NEW w \in Job, ClaimNothing(w)
      PROVE  Spent'
  <2>1. UNCHANGED approved /\ (\A x \in Contact : spoiled'[x] >= spoiled[x]) /\ \A b \in Approval : sent'[b] = sent[b]
    BY <1>0, <1>3 DEF ClaimNothing, Reset, session, mail, history
  <2>2. QED
    BY <1>0, <2>1 DEF Spent, DraftsGrow, DraftInv
<1>4. ASSUME NEW w \in Sender, NEW c \in Contact, Begin(w, c)
      PROVE  Spent'
  <2>1. UNCHANGED approved /\ (\A x \in Contact : spoiled'[x] >= spoiled[x]) /\ \A b \in Approval : sent'[b] = sent[b]
    BY <1>0, <1>4 DEF Begin, session, mail, history
  <2>2. QED
    BY <1>0, <2>1 DEF Spent, DraftsGrow, DraftInv
<1>5. ASSUME NEW w \in Sender, Hold(w)
      PROVE  Spent'
  <2>1. UNCHANGED approved /\ (\A x \in Contact : spoiled'[x] >= spoiled[x]) /\ \A b \in Approval : sent'[b] = sent[b]
    BY <1>0, <1>5 DEF Hold, session, mail, history
  <2>2. QED
    BY <1>0, <2>1 DEF Spent, DraftsGrow, DraftInv
<1>6. ASSUME NEW w \in Sender, Raise(w)
      PROVE  Spent'
  <2>1. UNCHANGED approved /\ (\A x \in Contact : spoiled'[x] >= spoiled[x]) /\ \A b \in Approval : sent'[b] = sent[b]
    BY <1>0, <1>6 DEF Raise, session, mail, history
  <2>2. QED
    BY <1>0, <2>1 DEF Spent, DraftsGrow, DraftInv
<1>7. ASSUME NEW w \in Sender, NEW o \in Outcomes, Send(w, o)
      PROVE  Spent'
  <2>1. UNCHANGED approved /\ (\A x \in Contact : spoiled'[x] >= spoiled[x]) /\ \A b \in Approval : sent'[b] = sent[b]
    BY <1>0, <1>7 DEF Send, session, mail, history
  <2>2. QED
    BY <1>0, <2>1 DEF Spent, DraftsGrow, DraftInv
<1>8. ASSUME NEW w \in InitialJob, WriteInitial(w)
      PROVE  Spent'
  <2>1. UNCHANGED approved /\ (\A x \in Contact : spoiled'[x] >= spoiled[x]) /\ \A b \in Approval : sent'[b] = sent[b]
    BY <1>0, <1>8 DEF WriteInitial, NextContact, release_claim, session, mail, history
  <2>2. QED
    BY <1>0, <2>1 DEF Spent, DraftsGrow, DraftInv
<1>9. ASSUME NEW w \in InitialJob, RollbackInitial(w) \/ CommitFails(w)
      PROVE  Spent'
  <2>1. UNCHANGED approved /\ (\A x \in Contact : spoiled'[x] >= spoiled[x]) /\ \A b \in Approval : sent'[b] = sent[b]
    BY <1>0, <1>9, TallyTyped DEF RollbackInitial, CommitFails, RolledBack, release_claim, mail
  <2>2. QED
    BY <1>0, <2>1 DEF Spent, DraftsGrow, DraftInv
<1>10. ASSUME NEW w \in FollowJob, WriteFollow(w)
      PROVE  Spent'
  <2>1. UNCHANGED approved /\ (\A x \in Contact : spoiled'[x] >= spoiled[x]) /\ \A b \in Approval : sent'[b] = sent[b]
    BY <1>0, <1>10 DEF WriteFollow, NextContact, session, mail, history
  <2>2. QED
    BY <1>0, <2>1 DEF Spent, DraftsGrow, DraftInv
<1>11. ASSUME NEW w \in Job, Finish(w)
      PROVE  Spent'
  <2>1. UNCHANGED approved /\ (\A x \in Contact : spoiled'[x] >= spoiled[x]) /\ \A b \in Approval : sent'[b] = sent[b]
    BY <1>0, <1>11 DEF Finish, Reset, session, mail, history
  <2>2. QED
    BY <1>0, <2>1 DEF Spent, DraftsGrow, DraftInv
<1>12. ASSUME NEW w \in Session, Dies(w)
      PROVE  Spent'
  <2>1. UNCHANGED <<row, approved>> /\ (\A v \in Session : v # w => sent'[v] = sent[v]) /\ spoiled' = Tally(spoiled, sent[w])
    BY <1>12 DEF Dies, Reset, database, mail
  <2>2. \A c \in Contact : spoiled'[c] = IF c \in sent[w] THEN spoiled[c] + 1 ELSE spoiled[c]
    BY <1>0, <2>1, TallyTyped
  <2>3. \A c \in Contact : c \in sent[w] \/ \A a \in Approval : c \in sent[a] => c \in sent'[a]
    BY <2>1
  <2>4. QED
    BY <1>0, <2>1, <2>2, <2>3 DEF Spent, DraftsGrow, DraftInv
<1>13. ASSUME NEW w \in Job, ReleaseAllClaims(w)
      PROVE  Spent'
  <2>1. UNCHANGED approved /\ (\A x \in Contact : spoiled'[x] >= spoiled[x]) /\ \A b \in Approval : sent'[b] = sent[b]
    BY <1>0, <1>13 DEF ReleaseAllClaims, session, mail, history
  <2>2. QED
    BY <1>0, <2>1 DEF Spent, DraftsGrow, DraftInv
<1>14. ASSUME NEW c \in Contact, LeaseExpires(c)
      PROVE  Spent'
  <2>1. UNCHANGED approved /\ (\A x \in Contact : spoiled'[x] >= spoiled[x]) /\ \A b \in Approval : sent'[b] = sent[b]
    BY <1>0, <1>14 DEF LeaseExpires, session, mail, history
  <2>2. QED
    BY <1>0, <2>1 DEF Spent, DraftsGrow, DraftInv
<1>15. ASSUME NEW w \in Forced, NEW c \in Touched, ForceAsk(w, c)
      PROVE  Spent'
  <2>1. UNCHANGED approved /\ (\A x \in Contact : spoiled'[x] >= spoiled[x]) /\ \A b \in Approval : sent'[b] = sent[b]
    BY <1>0, <1>15 DEF ForceAsk, session, mail, history
  <2>2. QED
    BY <1>0, <2>1 DEF Spent, DraftsGrow, DraftInv
<1>16. ASSUME NEW w \in Forced, ForceMark(w)
      PROVE  Spent'
  <2>1. UNCHANGED approved /\ (\A x \in Contact : spoiled'[x] >= spoiled[x]) /\ \A b \in Approval : sent'[b] = sent[b]
    BY <1>0, <1>16 DEF ForceMark, session, mail, history
  <2>2. QED
    BY <1>0, <2>1 DEF Spent, DraftsGrow, DraftInv
<1>17. ASSUME NEW w \in Forced, WriteForced(w)
      PROVE  Spent'
  <2>1. UNCHANGED approved /\ (\A x \in Contact : spoiled'[x] >= spoiled[x]) /\ \A b \in Approval : sent'[b] = sent[b]
    BY <1>0, <1>17 DEF WriteForced, Reset, session, mail, history
  <2>2. QED
    BY <1>0, <2>1 DEF Spent, DraftsGrow, DraftInv
<1>18. ASSUME NEW a \in Approval, NEW c \in Touched, ApproveOpen(a, c)
      PROVE  Spent'
  <2>1. UNCHANGED approved /\ (\A x \in Contact : spoiled'[x] >= spoiled[x]) /\ \A b \in Approval : sent'[b] = sent[b]
    BY <1>0, <1>18 DEF ApproveOpen, session, mail, history
  <2>2. QED
    BY <1>0, <2>1 DEF Spent, DraftsGrow, DraftInv
<1>19. ASSUME NEW a \in Approval, NEW o \in Outcomes, ApproveSend(a, o)
      PROVE  Spent'
  <2>1. cur[a] \in Contact /\ cur[a] \in DOMAIN tx[a]
    BY <1>19 DEF ApproveSend, Busy, LockInv, Places
  <2>2. sent[a] = {} /\ \A b \in Approval : cur[a] \notin sent[b]
    BY <1>19, <2>1 DEF ApproveSend, DraftInv, Approvals, LockInv, Places, Exclusive
  <2>3. UNCHANGED <<row, spoiled>>
    BY <1>19 DEF ApproveSend, database
  <2>4. approved[cur[a]] <= row[cur[a]].handled + spoiled[cur[a]]
    BY <2>1, <2>2 DEF DraftInv, Spent
  <2>5. \/ UNCHANGED <<approved, sent>>
        \/ approved' = [approved EXCEPT ![cur[a]] = approved[cur[a]] + 1] /\ sent' = [sent EXCEPT ![a] = {cur[a]}]
    BY <1>19 DEF ApproveSend
  <2>6. \A c \in Contact : c # cur[a] => approved'[c] = approved[c] /\ \A b \in Approval : c \in sent[b] => c \in sent'[b]
    BY <1>0, <2>2, <2>5
  <2>7. approved'[cur[a]] <= row[cur[a]].handled + spoiled[cur[a]] \/
        (approved'[cur[a]] <= row[cur[a]].handled + spoiled[cur[a]] + 1 /\ cur[a] \in sent'[a])
    BY <1>0, <2>1, <2>4, <2>5
  <2>8. QED
    BY <1>0, <2>1, <2>3, <2>6, <2>7 DEF Spent, DraftsGrow, DraftInv
<1>20. ASSUME NEW a \in Approval, ApproveCommit(a)
      PROVE  Spent'
  <2>1. cur[a] \in Contact
    BY <1>20 DEF ApproveCommit, Busy
  <2>2. row'[cur[a]].handled = row[cur[a]].handled + 1 /\ UNCHANGED <<approved, spoiled>>
    BY <1>20, <2>1 DEF ApproveCommit, RowTyped, Row, mail, history
  <2>3. \A b \in Approval : b # a => sent'[b] = sent[b]
    BY <1>20 DEF ApproveCommit, Reset
  <2>4. \A c \in Contact : c = cur[a] \/ \A b \in Approval : c \in sent[b] => c \in sent'[b]
    BY <2>3 DEF DraftInv, Approvals
  <2>5. QED
    BY <1>0, <2>2, <2>4 DEF Spent, DraftsGrow, DraftInv
<1>21. ASSUME NEW r \in Request, NEW op \in {"pause", "resume", "won"}, NEW c \in Touched, Ask(r, op, c)
      PROVE  Spent'
  <2>1. UNCHANGED approved /\ (\A x \in Contact : spoiled'[x] >= spoiled[x]) /\ \A b \in Approval : sent'[b] = sent[b]
    BY <1>0, <1>21 DEF Ask, session, mail, history
  <2>2. QED
    BY <1>0, <2>1 DEF Spent, DraftsGrow, DraftInv
<1>22. ASSUME NEW r \in Request, Start(r)
      PROVE  Spent'
  <2>1. UNCHANGED approved /\ (\A x \in Contact : spoiled'[x] >= spoiled[x]) /\ \A b \in Approval : sent'[b] = sent[b]
    BY <1>0, <1>22 DEF Start, session, mail, history
  <2>2. QED
    BY <1>0, <2>1 DEF Spent, DraftsGrow, DraftInv
<1>23. ASSUME NEW r \in Request, Commit(r)
      PROVE  Spent'
  <2>1. UNCHANGED approved /\ (\A x \in Contact : spoiled'[x] >= spoiled[x]) /\ \A b \in Approval : sent'[b] = sent[b]
    BY <1>0, <1>23 DEF Commit, session, mail, history
  <2>2. QED
    BY <1>0, <2>1 DEF Spent, DraftsGrow, DraftInv
<1>24. ASSUME NEW B \in SUBSET Contact, AddContacts(B)
      PROVE  Spent'
  <2>1. UNCHANGED approved /\ (\A x \in Contact : spoiled'[x] >= spoiled[x]) /\ \A b \in Approval : sent'[b] = sent[b]
    BY <1>0, <1>24 DEF AddContacts, session, mail, history
  <2>2. QED
    BY <1>0, <2>1 DEF Spent, DraftsGrow, DraftInv
<1>25. ASSUME NEW c \in Touched, Suppress(c)
      PROVE  Spent'
  <2>1. UNCHANGED approved /\ (\A x \in Contact : spoiled'[x] >= spoiled[x]) /\ \A b \in Approval : sent'[b] = sent[b]
    BY <1>0, <1>25 DEF Suppress, session, mail, history
  <2>2. QED
    BY <1>0, <2>1 DEF Spent, DraftsGrow, DraftInv
<1>26. ASSUME NEW r \in Request, NEW c \in Touched, NEW reply \in Replies,
            NEW answer \in {"none", "manual", "held", "sent", "failed", "unknown"},
            Receive(r, c, reply, answer)
      PROVE  Spent'
  <2>1. UNCHANGED approved /\ (\A x \in Contact : spoiled'[x] >= spoiled[x]) /\ \A b \in Approval : sent'[b] = sent[b]
    BY <1>0, <1>26 DEF Receive, session, mail, history
  <2>2. QED
    BY <1>0, <2>1 DEF Spent, DraftsGrow, DraftInv
<1>27. ASSUME NEW r \in Request, CommitReply(r)
      PROVE  Spent'
  <2>1. UNCHANGED approved /\ (\A x \in Contact : spoiled'[x] >= spoiled[x]) /\ \A b \in Approval : sent'[b] = sent[b]
    BY <1>0, <1>27 DEF CommitReply, session, mail, history
  <2>2. QED
    BY <1>0, <2>1 DEF Spent, DraftsGrow, DraftInv
<1>28. ASSUME NEW c \in Contact, TimePasses(c)
      PROVE  Spent'
  <2>1. UNCHANGED approved /\ (\A x \in Contact : spoiled'[x] >= spoiled[x]) /\ \A b \in Approval : sent'[b] = sent[b]
    BY <1>0, <1>28 DEF TimePasses, session, mail, history
  <2>2. QED
    BY <1>0, <2>1 DEF Spent, DraftsGrow, DraftInv
<1>29. CASE UNCHANGED vars
  BY <1>29, <1>0 DEF vars, database, session, mail, history, Spent, DraftsGrow, DraftInv
<1>30. QED
  BY <1>1, <1>2, <1>3, <1>4, <1>5, <1>6, <1>7, <1>8, <1>9, <1>10, <1>11, <1>12, <1>13, <1>14,
     <1>15, <1>16, <1>17, <1>18, <1>19, <1>20, <1>21, <1>22, <1>23, <1>24, <1>25, <1>26, <1>27, <1>28, <1>29,
     NextCases DEF JobCase, SenderCase, EndpointCase, RequestCase, WorldCase

-----------------------------------------------------------------------------
(* The follow-up cycle.                                                    *)

Agree(a, b) == a.status = b.status /\ a.next = b.next /\ a.recent = b.recent

\* What the follow-up cycle still means to mail is locked and unchanged, and the copy in hand
\* is the row itself.
Follows ==
  \A w \in FollowJob : pc[w] \in {"loop", "draft", "write"} =>
    /\ \A c \in left[w] : c \in DOMAIN tx[w] /\ Agree(tx[w][c], row[c])
    /\ cur[w] # Null =>
         /\ cur[w] \in DOMAIN tx[w]
         /\ snap[w] = tx[w][cur[w]]
         /\ Agree(tx[w][cur[w]], row[cur[w]])

\* What the gates have decided of the contact in hand.
Decided ==
  /\ \A w \in Sender : w \notin InitialJob =>
       (pc[w] = "draft" \/ (pc[w] = "write" /\ out[w] \in {"held", "sent", "unknown"}) =>
          should_send_followup_now(snap[w].status, snap[w].next, snap[w].recent))
  /\ \A w \in Sender : pc[w] = "write" => out[w] # "none"
  /\ \A w \in Sender : pc[w] = "write" /\ out[w] = "suppressed" => cur[w] \in suppressed

\* Agree goes along with Same.
LEMMA AgreeAlong ==
  ASSUME NEW a, NEW b, NEW d, Agree(a, b)
  PROVE  /\ Same(d, b) => Agree(a, d)
         /\ Same(b, d) => Agree(a, d)
         /\ Agree(a, a)
<1> USE DEF Agree, Same
<1>1. Same(d, b) => Agree(a, d)
  BY Zenon
<1>2. Same(b, d) => Agree(a, d)
  BY Zenon
<1>3. QED
  BY <1>1, <1>2

\* Same rows agree.
LEMMA SameAgrees ==
  ASSUME NEW a, NEW b, Same(a, b)
  PROVE  Agree(a, b)
BY DEF Agree, Same

\* Follows is kept by every step: no commit changes a row that a follow-up job has locked.
LEMMA FollowsStep == TypeOK /\ Busy /\ LockInv /\ Follows /\ [Next]_vars => Follows'
<1> SUFFICES ASSUME TypeOK, Busy, LockInv, Follows, [Next]_vars
             PROVE  Follows'
  OBVIOUS
<1> USE Actors DEF TypeOK, ThreadsTyped
<1>0. \A v \in FollowJob : \A c \in DOMAIN tx[v] :
        pc'[v] = pc[v] /\ Agree(tx[v][c], row[c]) => Agree(tx[v][c], row'[c])
  BY LockedRows, AgreeAlong DEF Steady
<1>1. ASSUME NEW w \in Job, Sweep(w)
      PROVE  Follows'
  <2>1. \A v \in FollowJob \ {w} : pc'[v] = pc[v] /\ tx'[v] = tx[v] /\ left'[v] = left[v] /\ cur'[v] = cur[v] /\ snap'[v] = snap[v]
    BY <1>1 DEF Sweep, session, LocksTyped
  <2>2. pc'[w] \in {"idle", "sweep"}
    BY <1>1 DEF Sweep
  <2>3. QED
    BY <1>0, <2>1, <2>2 DEF Follows
<1>2. ASSUME NEW w \in Job, Claim(w)
      PROVE  Follows'
  <2>1. \A v \in FollowJob \ {w} : pc'[v] = pc[v] /\ tx'[v] = tx[v] /\ left'[v] = left[v] /\ cur'[v] = cur[v] /\ snap'[v] = snap[v]
    BY <1>2 DEF Claim, session, LocksTyped
  <2>2. Taken(w) /\ left'[w] = Due(w) \ dormant /\ cur'[w] = Null /\ UNCHANGED row
    BY <1>2, ClaimedRows DEF Claim, database, Busy
  <2>3. \A c \in left'[w] : c \in DOMAIN tx'[w] /\ Agree(tx'[w][c], row'[c])
    BY <2>2, SameAgrees DEF Taken
  <2>4. QED
    BY <1>0, <2>1, <2>2, <2>3 DEF Follows
<1>3. ASSUME NEW w \in Job, ClaimNothing(w)
      PROVE  Follows'
  <2>1. \A v \in FollowJob \ {w} : pc'[v] = pc[v] /\ tx'[v] = tx[v] /\ left'[v] = left[v] /\ cur'[v] = cur[v] /\ snap'[v] = snap[v]
    BY <1>3 DEF ClaimNothing, Reset, session, LocksTyped
  <2>2. pc'[w] \in {"idle", "sweep"}
    BY <1>3 DEF ClaimNothing, Reset
  <2>3. QED
    BY <1>0, <2>1, <2>2 DEF Follows
<1>4. ASSUME NEW w \in Sender, NEW c \in Contact, Begin(w, c)
      PROVE  Follows'
  <2>1. \A v \in FollowJob \ {w} : pc'[v] = pc[v] /\ tx'[v] = tx[v] /\ left'[v] = left[v] /\ cur'[v] = cur[v] /\ snap'[v] = snap[v]
    BY <1>4 DEF Begin, session, LocksTyped
  <2>2. /\ pc[w] = "loop" /\ c \in left[w] /\ left'[w] = left[w] \ {c} /\ cur'[w] = c
        /\ snap'[w] = View(w, c) /\ UNCHANGED <<tx, row>>
    BY <1>4 DEF Begin, database
  <2>3. QED
    BY <1>0, <2>1, <2>2 DEF Follows, View
<1>5. ASSUME NEW w \in Sender, Hold(w)
      PROVE  Follows'
  <2>1. \A v \in FollowJob \ {w} : pc'[v] = pc[v] /\ tx'[v] = tx[v] /\ left'[v] = left[v] /\ cur'[v] = cur[v] /\ snap'[v] = snap[v]
    BY <1>5 DEF Hold, session, LocksTyped
  <2>2. UNCHANGED <<tx, left, cur, snap, row>> /\ pc[w] = "draft"
    BY <1>5 DEF Hold, database
  <2>3. QED
    BY <1>0, <2>1, <2>2 DEF Follows
<1>6. ASSUME NEW w \in Sender, Raise(w)
      PROVE  Follows'
  <2>1. \A v \in FollowJob \ {w} : pc'[v] = pc[v] /\ tx'[v] = tx[v] /\ left'[v] = left[v] /\ cur'[v] = cur[v] /\ snap'[v] = snap[v]
    BY <1>6 DEF Raise, session, LocksTyped
  <2>2. UNCHANGED <<tx, left, cur, snap, row>> /\ pc[w] = "draft"
    BY <1>6 DEF Raise, database
  <2>3. QED
    BY <1>0, <2>1, <2>2 DEF Follows
<1>7. ASSUME NEW w \in Sender, NEW o \in Outcomes, Send(w, o)
      PROVE  Follows'
  <2>1. \A v \in FollowJob \ {w} : pc'[v] = pc[v] /\ tx'[v] = tx[v] /\ left'[v] = left[v] /\ cur'[v] = cur[v] /\ snap'[v] = snap[v]
    BY <1>7 DEF Send, session, LocksTyped
  <2>2. UNCHANGED <<tx, left, cur, snap, row>> /\ pc[w] = "draft"
    BY <1>7 DEF Send, database
  <2>3. QED
    BY <1>0, <2>1, <2>2 DEF Follows
<1>8. ASSUME NEW w \in InitialJob, WriteInitial(w)
      PROVE  Follows'
  <2>1. \A v \in FollowJob : pc'[v] = pc[v] /\ tx'[v] = tx[v] /\ left'[v] = left[v] /\ cur'[v] = cur[v] /\ snap'[v] = snap[v]
    BY <1>8 DEF WriteInitial, NextContact, release_claim, session
  <2>2. QED
    BY <1>0, <2>1 DEF Follows
<1>9. ASSUME NEW w \in InitialJob, RollbackInitial(w) \/ CommitFails(w)
      PROVE  Follows'
  <2>1. \E m : RolledBack(w, m)
    BY <1>9 DEF RollbackInitial, CommitFails
  <2>2. \A v \in FollowJob : pc'[v] = pc[v] /\ tx'[v] = tx[v] /\ left'[v] = left[v] /\ cur'[v] = cur[v] /\ snap'[v] = snap[v]
    BY <2>1 DEF RolledBack, NextContact, release_claim
  <2>3. QED
    BY <1>0, <2>2 DEF Follows
<1>10. ASSUME NEW w \in FollowJob, WriteFollow(w)
      PROVE  Follows'
  <2>1. \A v \in FollowJob \ {w} : pc'[v] = pc[v] /\ tx'[v] = tx[v] /\ left'[v] = left[v] /\ cur'[v] = cur[v] /\ snap'[v] = snap[v]
    BY <1>10 DEF WriteFollow, NextContact, LocksTyped
  <2>2. UNCHANGED <<left, row>> /\ cur'[w] = Null /\ cur[w] \notin left[w] /\ pc[w] = "write"
    BY <1>10 DEF WriteFollow, NextContact, database, LockInv, Places
  <2>3. DOMAIN tx'[w] = DOMAIN tx[w] /\ \A c \in DOMAIN tx[w] \ {cur[w]} : tx'[w][c] = tx[w][c]
    BY <1>10 DEF WriteFollow, LocksTyped
  <2>4. QED
    BY <1>0, <2>1, <2>2, <2>3 DEF Follows
<1>11. ASSUME NEW w \in Job, Finish(w)
      PROVE  Follows'
  <2>1. \A v \in FollowJob \ {w} : pc'[v] = pc[v] /\ tx'[v] = tx[v] /\ left'[v] = left[v] /\ cur'[v] = cur[v] /\ snap'[v] = snap[v]
    BY <1>11 DEF Finish, Reset, session, LocksTyped
  <2>2. pc'[w] \in {"idle", "sweep"}
    BY <1>11 DEF Finish, Reset
  <2>3. QED
    BY <1>0, <2>1, <2>2 DEF Follows
<1>12. ASSUME NEW w \in Session, Dies(w)
      PROVE  Follows'
  <2>1. \A v \in FollowJob \ {w} : pc'[v] = pc[v] /\ tx'[v] = tx[v] /\ left'[v] = left[v] /\ cur'[v] = cur[v] /\ snap'[v] = snap[v]
    BY <1>12 DEF Dies, Reset, session, LocksTyped
  <2>2. pc'[w] \in {"idle", "sweep"}
    BY <1>12 DEF Dies, Reset
  <2>3. QED
    BY <1>0, <2>1, <2>2 DEF Follows
<1>13. ASSUME NEW w \in Job, ReleaseAllClaims(w)
      PROVE  Follows'
  <2>1. \A v \in FollowJob : pc'[v] = pc[v] /\ tx'[v] = tx[v] /\ left'[v] = left[v] /\ cur'[v] = cur[v] /\ snap'[v] = snap[v]
    BY <1>13 DEF ReleaseAllClaims, session
  <2>2. QED
    BY <1>0, <2>1 DEF Follows
<1>14. ASSUME NEW c \in Contact, LeaseExpires(c)
      PROVE  Follows'
  <2>1. \A v \in FollowJob : pc'[v] = pc[v] /\ tx'[v] = tx[v] /\ left'[v] = left[v] /\ cur'[v] = cur[v] /\ snap'[v] = snap[v]
    BY <1>14 DEF LeaseExpires, session
  <2>2. QED
    BY <1>0, <2>1 DEF Follows
<1>15. ASSUME NEW w \in Forced, NEW c \in Touched, ForceAsk(w, c)
      PROVE  Follows'
  <2>1. \A v \in FollowJob : pc'[v] = pc[v] /\ tx'[v] = tx[v] /\ left'[v] = left[v] /\ cur'[v] = cur[v] /\ snap'[v] = snap[v]
    BY <1>15 DEF ForceAsk, session
  <2>2. QED
    BY <1>0, <2>1 DEF Follows
<1>16. ASSUME NEW w \in Forced, ForceMark(w)
      PROVE  Follows'
  <2>1. \A v \in FollowJob : pc'[v] = pc[v] /\ tx'[v] = tx[v] /\ left'[v] = left[v] /\ cur'[v] = cur[v] /\ snap'[v] = snap[v]
    BY <1>16 DEF ForceMark, session
  <2>2. QED
    BY <1>0, <2>1 DEF Follows
<1>17. ASSUME NEW w \in Forced, WriteForced(w)
      PROVE  Follows'
  <2>1. \A v \in FollowJob : pc'[v] = pc[v] /\ tx'[v] = tx[v] /\ left'[v] = left[v] /\ cur'[v] = cur[v] /\ snap'[v] = snap[v]
    BY <1>17 DEF WriteForced, Reset, session
  <2>2. QED
    BY <1>0, <2>1 DEF Follows
<1>18. ASSUME NEW a \in Approval, NEW c \in Touched, ApproveOpen(a, c)
      PROVE  Follows'
  <2>1. \A v \in FollowJob : pc'[v] = pc[v] /\ tx'[v] = tx[v] /\ left'[v] = left[v] /\ cur'[v] = cur[v] /\ snap'[v] = snap[v]
    BY <1>18 DEF ApproveOpen, session
  <2>2. QED
    BY <1>0, <2>1 DEF Follows
<1>19. ASSUME NEW a \in Approval, NEW o \in Outcomes, ApproveSend(a, o)
      PROVE  Follows'
  <2>1. \A v \in FollowJob : pc'[v] = pc[v] /\ tx'[v] = tx[v] /\ left'[v] = left[v] /\ cur'[v] = cur[v] /\ snap'[v] = snap[v]
    BY <1>19 DEF ApproveSend, session
  <2>2. QED
    BY <1>0, <2>1 DEF Follows
<1>20. ASSUME NEW a \in Approval, ApproveCommit(a)
      PROVE  Follows'
  <2>1. \A v \in FollowJob : pc'[v] = pc[v] /\ tx'[v] = tx[v] /\ left'[v] = left[v] /\ cur'[v] = cur[v] /\ snap'[v] = snap[v]
    BY <1>20 DEF ApproveCommit, Reset, session
  <2>2. QED
    BY <1>0, <2>1 DEF Follows
<1>21. ASSUME NEW r \in Request, NEW op \in {"pause", "resume", "won"}, NEW c \in Touched, Ask(r, op, c)
      PROVE  Follows'
  <2>1. \A v \in FollowJob : pc'[v] = pc[v] /\ tx'[v] = tx[v] /\ left'[v] = left[v] /\ cur'[v] = cur[v] /\ snap'[v] = snap[v]
    BY <1>21 DEF Ask, session
  <2>2. QED
    BY <1>0, <2>1 DEF Follows
<1>22. ASSUME NEW r \in Request, Start(r)
      PROVE  Follows'
  <2>1. \A v \in FollowJob : pc'[v] = pc[v] /\ tx'[v] = tx[v] /\ left'[v] = left[v] /\ cur'[v] = cur[v] /\ snap'[v] = snap[v]
    BY <1>22 DEF Start, session
  <2>2. QED
    BY <1>0, <2>1 DEF Follows
<1>23. ASSUME NEW r \in Request, Commit(r)
      PROVE  Follows'
  <2>1. \A v \in FollowJob : pc'[v] = pc[v] /\ tx'[v] = tx[v] /\ left'[v] = left[v] /\ cur'[v] = cur[v] /\ snap'[v] = snap[v]
    BY <1>23 DEF Commit, session
  <2>2. QED
    BY <1>0, <2>1 DEF Follows
<1>24. ASSUME NEW B \in SUBSET Contact, AddContacts(B)
      PROVE  Follows'
  <2>1. \A v \in FollowJob : pc'[v] = pc[v] /\ tx'[v] = tx[v] /\ left'[v] = left[v] /\ cur'[v] = cur[v] /\ snap'[v] = snap[v]
    BY <1>24 DEF AddContacts, session
  <2>2. QED
    BY <1>0, <2>1 DEF Follows
<1>25. ASSUME NEW c \in Touched, Suppress(c)
      PROVE  Follows'
  <2>1. \A v \in FollowJob : pc'[v] = pc[v] /\ tx'[v] = tx[v] /\ left'[v] = left[v] /\ cur'[v] = cur[v] /\ snap'[v] = snap[v]
    BY <1>25 DEF Suppress, session
  <2>2. QED
    BY <1>0, <2>1 DEF Follows
<1>26. ASSUME NEW r \in Request, NEW c \in Touched, NEW reply \in Replies,
            NEW answer \in {"none", "manual", "held", "sent", "failed", "unknown"},
            Receive(r, c, reply, answer)
      PROVE  Follows'
  <2>1. \A v \in FollowJob : pc'[v] = pc[v] /\ tx'[v] = tx[v] /\ left'[v] = left[v] /\ cur'[v] = cur[v] /\ snap'[v] = snap[v]
    BY <1>26 DEF Receive, session
  <2>2. QED
    BY <1>0, <2>1 DEF Follows
<1>27. ASSUME NEW r \in Request, CommitReply(r)
      PROVE  Follows'
  <2>1. \A v \in FollowJob : pc'[v] = pc[v] /\ tx'[v] = tx[v] /\ left'[v] = left[v] /\ cur'[v] = cur[v] /\ snap'[v] = snap[v]
    BY <1>27 DEF CommitReply, session
  <2>2. QED
    BY <1>0, <2>1 DEF Follows
<1>28. ASSUME NEW c \in Contact, TimePasses(c)
      PROVE  Follows'
  <2>1. \A v \in FollowJob : pc'[v] = pc[v] /\ tx'[v] = tx[v] /\ left'[v] = left[v] /\ cur'[v] = cur[v] /\ snap'[v] = snap[v]
    BY <1>28 DEF TimePasses, session
  <2>2. QED
    BY <1>0, <2>1 DEF Follows
<1>29. CASE UNCHANGED vars
  BY <1>29 DEF vars, database, session, Follows
<1>30. QED
  BY <1>1, <1>2, <1>3, <1>4, <1>5, <1>6, <1>7, <1>8, <1>9, <1>10, <1>11, <1>12, <1>13, <1>14,
     <1>15, <1>16, <1>17, <1>18, <1>19, <1>20, <1>21, <1>22, <1>23, <1>24, <1>25, <1>26, <1>27, <1>28, <1>29,
     NextCases DEF JobCase, SenderCase, EndpointCase, RequestCase, WorldCase

\* Decided is kept by every step.
LEMMA DecidedStep == TypeOK /\ Busy /\ Decided /\ [Next]_vars => Decided'
<1> SUFFICES ASSUME TypeOK, Busy, Decided, [Next]_vars
             PROVE  Decided'
  OBVIOUS
<1> USE Actors DEF TypeOK, ThreadsTyped, Busy, Decided
<1>1. ASSUME NEW w \in Job, Sweep(w)
      PROVE  Decided'
  BY <1>1 DEF Sweep, database, session
<1>2. ASSUME NEW w \in Job, Claim(w)
      PROVE  Decided'
  BY <1>2 DEF Claim, database, session
<1>3. ASSUME NEW w \in Job, ClaimNothing(w)
      PROVE  Decided'
  BY <1>3 DEF ClaimNothing, Reset, database, session
<1>4. ASSUME NEW w \in Sender, NEW c \in Contact, Begin(w, c)
      PROVE  Decided'
  <2>1. UNCHANGED suppressed /\ \A v \in Sender \ {w} : pc'[v] = pc[v] /\ out'[v] = out[v] /\ cur'[v] = cur[v] /\ snap'[v] = snap[v]
    BY <1>4 DEF Begin, database
  <2>2. /\ pc'[w] = "draft" => w \in InitialJob \/ should_send_followup_now(snap'[w].status, snap'[w].next, snap'[w].recent)
        /\ pc'[w] = "write" => out'[w] \in {"skip", "suppressed"}
        /\ out'[w] = "suppressed" => cur'[w] \in suppressed
    BY <1>4 DEF Begin, MaySend, is_suppressed
  <2>3. QED
    BY <2>1, <2>2
<1>5. ASSUME NEW w \in Sender, Hold(w)
      PROVE  Decided'
  <2>1. UNCHANGED suppressed /\ \A v \in Sender \ {w} : pc'[v] = pc[v] /\ out'[v] = out[v] /\ cur'[v] = cur[v] /\ snap'[v] = snap[v]
    BY <1>5 DEF Hold, database
  <2>2. pc[w] = "draft" /\ snap'[w] = snap[w] /\ out'[w] = "held"
    BY <1>5 DEF Hold
  <2>3. QED
    BY <2>1, <2>2 DEF Outcomes
<1>6. ASSUME NEW w \in Sender, Raise(w)
      PROVE  Decided'
  <2>1. UNCHANGED suppressed /\ \A v \in Sender \ {w} : pc'[v] = pc[v] /\ out'[v] = out[v] /\ cur'[v] = cur[v] /\ snap'[v] = snap[v]
    BY <1>6 DEF Raise, database
  <2>2. pc[w] = "draft" /\ snap'[w] = snap[w] /\ out'[w] = "raised"
    BY <1>6 DEF Raise
  <2>3. QED
    BY <2>1, <2>2 DEF Outcomes
<1>7. ASSUME NEW w \in Sender, NEW o \in Outcomes, Send(w, o)
      PROVE  Decided'
  <2>1. UNCHANGED suppressed /\ \A v \in Sender \ {w} : pc'[v] = pc[v] /\ out'[v] = out[v] /\ cur'[v] = cur[v] /\ snap'[v] = snap[v]
    BY <1>7 DEF Send, database
  <2>2. pc[w] = "draft" /\ snap'[w] = snap[w] /\ out'[w] = o
    BY <1>7 DEF Send
  <2>3. QED
    BY <2>1, <2>2 DEF Outcomes
<1>8. ASSUME NEW w \in InitialJob, WriteInitial(w)
      PROVE  Decided'
  BY <1>8 DEF WriteInitial, NextContact, release_claim, database, session
<1>9. ASSUME NEW w \in InitialJob, RollbackInitial(w) \/ CommitFails(w)
      PROVE  Decided'
  BY <1>9 DEF RollbackInitial, CommitFails, RolledBack, NextContact, release_claim, database, session
<1>10. ASSUME NEW w \in FollowJob, WriteFollow(w)
      PROVE  Decided'
  BY <1>10 DEF WriteFollow, NextContact, database, session
<1>11. ASSUME NEW w \in Job, Finish(w)
      PROVE  Decided'
  BY <1>11 DEF Finish, Reset, database, session
<1>12. ASSUME NEW w \in Session, Dies(w)
      PROVE  Decided'
  BY <1>12 DEF Dies, Reset, database, session
<1>13. ASSUME NEW w \in Job, ReleaseAllClaims(w)
      PROVE  Decided'
  BY <1>13 DEF ReleaseAllClaims, database, session
<1>14. ASSUME NEW c \in Contact, LeaseExpires(c)
      PROVE  Decided'
  BY <1>14 DEF LeaseExpires, database, session
<1>15. ASSUME NEW w \in Forced, NEW c \in Touched, ForceAsk(w, c)
      PROVE  Decided'
  BY <1>15 DEF ForceAsk, database, session
<1>16. ASSUME NEW w \in Forced, ForceMark(w)
      PROVE  Decided'
  BY <1>16 DEF ForceMark, database, session
<1>17. ASSUME NEW w \in Forced, WriteForced(w)
      PROVE  Decided'
  BY <1>17 DEF WriteForced, Reset, database, session
<1>18. ASSUME NEW a \in Approval, NEW c \in Touched, ApproveOpen(a, c)
      PROVE  Decided'
  BY <1>18 DEF ApproveOpen, database, session
<1>19. ASSUME NEW a \in Approval, NEW o \in Outcomes, ApproveSend(a, o)
      PROVE  Decided'
  BY <1>19 DEF ApproveSend, database, session
<1>20. ASSUME NEW a \in Approval, ApproveCommit(a)
      PROVE  Decided'
  BY <1>20 DEF ApproveCommit, Reset, database, session
<1>21. ASSUME NEW r \in Request, NEW op \in {"pause", "resume", "won"}, NEW c \in Touched, Ask(r, op, c)
      PROVE  Decided'
  BY <1>21 DEF Ask, database, session
<1>22. ASSUME NEW r \in Request, Start(r)
      PROVE  Decided'
  BY <1>22 DEF Start, database, session
<1>23. ASSUME NEW r \in Request, Commit(r)
      PROVE  Decided'
  BY <1>23 DEF Commit, database, session
<1>24. ASSUME NEW B \in SUBSET Contact, AddContacts(B)
      PROVE  Decided'
  BY <1>24 DEF AddContacts, database, session
<1>25. ASSUME NEW c \in Touched, Suppress(c)
      PROVE  Decided'
  BY <1>25 DEF Suppress, Suppressed, session
<1>26. ASSUME NEW r \in Request, NEW c \in Touched, NEW reply \in Replies,
            NEW answer \in {"none", "manual", "held", "sent", "failed", "unknown"},
            Receive(r, c, reply, answer)
      PROVE  Decided'
  BY <1>26 DEF Receive, database, session
<1>27. ASSUME NEW r \in Request, CommitReply(r)
      PROVE  Decided'
  BY <1>27 DEF CommitReply, Suppressed, session
<1>28. ASSUME NEW c \in Contact, TimePasses(c)
      PROVE  Decided'
  BY <1>28 DEF TimePasses, database, session
<1>29. CASE UNCHANGED vars
  BY <1>29 DEF vars, database, session
<1>30. QED
  BY <1>1, <1>2, <1>3, <1>4, <1>5, <1>6, <1>7, <1>8, <1>9, <1>10, <1>11, <1>12, <1>13, <1>14,
     <1>15, <1>16, <1>17, <1>18, <1>19, <1>20, <1>21, <1>22, <1>23, <1>24, <1>25, <1>26, <1>27, <1>28, <1>29,
     NextCases DEF JobCase, SenderCase, EndpointCase, RequestCase, WorldCase

-----------------------------------------------------------------------------
(* The inductive invariant of every lock, gate and draft.                  *)

NativeInv ==
  /\ TypeOK /\ Busy /\ SendersPassed /\ RepliesPassed
  /\ LockInv /\ Follows /\ Decided /\ DraftInv

\* The invariant holds initially.
LEMMA NativeInit == Init => NativeInv
<1> SUFFICES ASSUME Init PROVE NativeInv
  OBVIOUS
<1>1. TypeOK
  BY TypeInit
<1>2. /\ \A w \in Session : /\ pc[w] = "idle" /\ cur[w] = Null /\ left[w] = {}
                            /\ sent[w] = {} /\ DOMAIN tx[w] = {}
      /\ \A r \in Request : req[r] = Null
      /\ \A c \in Contact : row[c] = NoRow /\ approved[c] = 0 /\ spoiled[c] = 0
  BY DEF Init
<1>3. NoRow.claim = Null /\ NoRow.drafts = 0 /\ NoRow.handled = 0
  BY DEF NoRow
<1>4. Busy /\ SendersPassed /\ RepliesPassed /\ Follows /\ Decided
  BY <1>2, Actors DEF Busy, SendersPassed, RepliesPassed, Follows, Decided
<1>5. LockInv
  BY <1>2, <1>3, Actors DEF LockInv, Pending, Places, Knowledge, RowsKnown, LocksKnown, PlansKnown, Exclusive, Copies
<1>6. DraftInv
  BY <1>2, <1>3, Actors DEF DraftInv, Approvals, Spent
<1>7. QED
  BY <1>1, <1>4, <1>5, <1>6 DEF NativeInv

\* The invariant is inductive.
LEMMA NativeStep == NativeInv /\ [Next]_vars => NativeInv'
<1> SUFFICES ASSUME NativeInv, [Next]_vars
             PROVE  NativeInv'
  OBVIOUS
<1> USE DEF NativeInv
<1>1. TypeOK' /\ Busy'
  BY TypeStep, BusyStep
<1>2. SendersPassed' /\ RepliesPassed'
  BY SendersPassedStep, RepliesPassedStep
<1>3. Pending' /\ Places' /\ Exclusive' /\ Copies'
  BY PendingStep, PlacesStep, ExclusiveStep, CopiesStep DEF LockInv
<1>4. Knowledge'
  BY RowsKnownStep, LocksKnownStep, PlansKnownStep DEF LockInv, Knowledge
<1>5. LockInv'
  BY <1>3, <1>4 DEF LockInv
<1>6. Follows' /\ Decided'
  BY FollowsStep, DecidedStep
<1>7. DraftInv'
  BY ApprovalsStep, SpentStep DEF DraftInv
<1>8. QED
  BY <1>1, <1>2, <1>5, <1>6, <1>7

\* The invariant holds in every reachable state.
LEMMA NativeInvariant == Spec => []NativeInv
<1>1. Init /\ [][Next]_vars => []NativeInv
  BY NativeInit, NativeStep, PTL
<1>2. QED
  BY <1>1, PTL DEF Spec

\* Every variable of the contact database, of its sending sessions and of the requests keeps
\* its type, for any number of contacts, worker processes and requests.
THEOREM TypeCorrectness == Spec => []TypeOK
<1>1. NativeInv => TypeOK
  BY DEF NativeInv
<1>2. QED
  BY <1>1, NativeInvariant, PTL

\* approve_and_send_draft: the drafts of a contact are mailed once each, plus once for each
\* approval that was rolled back after its mail had left, however many requests approve them
\* and whatever the jobs, requests and replies write meanwhile.
THEOREM DraftsAreSentOnce == Spec => []DraftSentOnce
<1>1. NativeInv => DraftSentOnce
  <2> SUFFICES ASSUME NativeInv, NEW c \in Contact
               PROVE  approved[c] <= row[c].drafts + spoiled[c]
    BY DEF DraftSentOnce
  <2> USE DEF NativeInv, DraftInv
  <2>1. row[c].drafts \in Nat /\ row[c].handled \in Nat /\ approved[c] \in Nat /\ spoiled[c] \in Nat
    BY DEF TypeOK, RowTyped, Row, MailTyped, CountsTyped
  <2>2. CASE approved[c] <= row[c].handled + spoiled[c]
    BY <2>1, <2>2 DEF Spent
  <2>3. CASE approved[c] > row[c].handled + spoiled[c]
    <3>1. approved[c] <= row[c].handled + spoiled[c] + 1
      BY <2>1, <2>3 DEF Spent
    <3>2. PICK a \in Approval : c \in sent[a]
      BY <2>1, <2>3 DEF Spent
    <3>3. pc[a] = "write" /\ cur[a] = c
      BY <3>2 DEF Approvals
    <3>4. row[c].handled < row[c].drafts
      BY <3>3 DEF Approvals
    <3>5. QED
      BY <2>1, <3>1, <3>4
  <2>4. QED
    BY <2>1, <2>2, <2>3
<1>2. QED
  BY <1>1, NativeInvariant, PTL

-----------------------------------------------------------------------------
(* What a step may do.                                                     *)

FollowUpStep ==
  \A w \in FollowJob :
    (cur[w] # Null /\ sent'[w] # sent[w] /\ sent'[w] # {}) =>
      should_send_followup_now(row[cur[w]].status, row[cur[w]].next, row[cur[w]].recent)

\* Every step is one FollowUpsOnCurrentRow allows.
LEMMA FollowUpSteps == NativeInv /\ [Next]_vars => FollowUpStep
<1> SUFFICES ASSUME NativeInv, [Next]_vars
             PROVE  FollowUpStep
  OBVIOUS
<1> USE Actors DEF NativeInv, TypeOK, ThreadsTyped
<1>1. ASSUME NEW w \in Job, Sweep(w)
      PROVE  FollowUpStep
  BY <1>1 DEF Sweep, session, FollowUpStep
<1>2. ASSUME NEW w \in Job, Claim(w)
      PROVE  FollowUpStep
  BY <1>2 DEF Claim, session, FollowUpStep
<1>3. ASSUME NEW w \in Job, ClaimNothing(w)
      PROVE  FollowUpStep
  BY <1>3 DEF ClaimNothing, Reset, session, FollowUpStep
<1>4. ASSUME NEW w \in Sender, NEW c \in Contact, Begin(w, c)
      PROVE  FollowUpStep
  BY <1>4 DEF Begin, session, FollowUpStep
<1>5. ASSUME NEW w \in Sender, Hold(w)
      PROVE  FollowUpStep
  BY <1>5 DEF Hold, session, FollowUpStep
<1>6. ASSUME NEW w \in Sender, Raise(w)
      PROVE  FollowUpStep
  BY <1>6 DEF Raise, session, FollowUpStep
<1>7. ASSUME NEW w \in Sender, NEW o \in Outcomes, Send(w, o)
      PROVE  FollowUpStep
  <2>1. \A v \in Session \ {w} : sent'[v] = sent[v]
    BY <1>7 DEF Send
  <2>2. w \in FollowJob => should_send_followup_now(row[cur[w]].status, row[cur[w]].next, row[cur[w]].recent)
    BY <1>7 DEF Send, Decided, Follows, Busy, Agree, should_send_followup_now, can_send_followup
  <2>3. QED
    BY <2>1, <2>2 DEF FollowUpStep
<1>8. ASSUME NEW w \in InitialJob, WriteInitial(w)
      PROVE  FollowUpStep
  BY <1>8 DEF WriteInitial, release_claim, session, FollowUpStep
<1>9. ASSUME NEW w \in InitialJob, RollbackInitial(w) \/ CommitFails(w)
      PROVE  FollowUpStep
  BY <1>9 DEF RollbackInitial, CommitFails, RolledBack, release_claim, session, FollowUpStep
<1>10. ASSUME NEW w \in FollowJob, WriteFollow(w)
      PROVE  FollowUpStep
  BY <1>10 DEF WriteFollow, session, FollowUpStep
<1>11. ASSUME NEW w \in Job, Finish(w)
      PROVE  FollowUpStep
  BY <1>11 DEF Finish, Reset, session, FollowUpStep
<1>12. ASSUME NEW w \in Session, Dies(w)
      PROVE  FollowUpStep
  BY <1>12 DEF Dies, Reset, session, FollowUpStep
<1>13. ASSUME NEW w \in Job, ReleaseAllClaims(w)
      PROVE  FollowUpStep
  BY <1>13 DEF ReleaseAllClaims, session, FollowUpStep
<1>14. ASSUME NEW c \in Contact, LeaseExpires(c)
      PROVE  FollowUpStep
  BY <1>14 DEF LeaseExpires, session, FollowUpStep
<1>15. ASSUME NEW w \in Forced, NEW c \in Touched, ForceAsk(w, c)
      PROVE  FollowUpStep
  BY <1>15 DEF ForceAsk, session, FollowUpStep
<1>16. ASSUME NEW w \in Forced, ForceMark(w)
      PROVE  FollowUpStep
  BY <1>16 DEF ForceMark, session, FollowUpStep
<1>17. ASSUME NEW w \in Forced, WriteForced(w)
      PROVE  FollowUpStep
  BY <1>17 DEF WriteForced, Reset, session, FollowUpStep
<1>18. ASSUME NEW a \in Approval, NEW c \in Touched, ApproveOpen(a, c)
      PROVE  FollowUpStep
  BY <1>18 DEF ApproveOpen, session, FollowUpStep
<1>19. ASSUME NEW a \in Approval, NEW o \in Outcomes, ApproveSend(a, o)
      PROVE  FollowUpStep
  BY <1>19 DEF ApproveSend, session, FollowUpStep
<1>20. ASSUME NEW a \in Approval, ApproveCommit(a)
      PROVE  FollowUpStep
  BY <1>20 DEF ApproveCommit, Reset, session, FollowUpStep
<1>21. ASSUME NEW r \in Request, NEW op \in {"pause", "resume", "won"}, NEW c \in Touched, Ask(r, op, c)
      PROVE  FollowUpStep
  BY <1>21 DEF Ask, session, FollowUpStep
<1>22. ASSUME NEW r \in Request, Start(r)
      PROVE  FollowUpStep
  BY <1>22 DEF Start, session, FollowUpStep
<1>23. ASSUME NEW r \in Request, Commit(r)
      PROVE  FollowUpStep
  BY <1>23 DEF Commit, session, FollowUpStep
<1>24. ASSUME NEW B \in SUBSET Contact, AddContacts(B)
      PROVE  FollowUpStep
  BY <1>24 DEF AddContacts, session, FollowUpStep
<1>25. ASSUME NEW c \in Touched, Suppress(c)
      PROVE  FollowUpStep
  BY <1>25 DEF Suppress, session, FollowUpStep
<1>26. ASSUME NEW r \in Request, NEW c \in Touched, NEW reply \in Replies,
            NEW answer \in {"none", "manual", "held", "sent", "failed", "unknown"},
            Receive(r, c, reply, answer)
      PROVE  FollowUpStep
  BY <1>26 DEF Receive, session, FollowUpStep
<1>27. ASSUME NEW r \in Request, CommitReply(r)
      PROVE  FollowUpStep
  BY <1>27 DEF CommitReply, session, FollowUpStep
<1>28. ASSUME NEW c \in Contact, TimePasses(c)
      PROVE  FollowUpStep
  BY <1>28 DEF TimePasses, session, FollowUpStep
<1>29. CASE UNCHANGED vars
  BY <1>29 DEF vars, session, FollowUpStep
<1>30. QED
  BY <1>1, <1>2, <1>3, <1>4, <1>5, <1>6, <1>7, <1>8, <1>9, <1>10, <1>11, <1>12, <1>13, <1>14,
     <1>15, <1>16, <1>17, <1>18, <1>19, <1>20, <1>21, <1>22, <1>23, <1>24, <1>25, <1>26, <1>27, <1>28, <1>29,
     NextCases DEF JobCase, SenderCase, EndpointCase, RequestCase, WorldCase

\* When a mail of run_followup_cycle leaves, the committed contact is still active, due and
\* unanswered: the row lock of the claim protects the decision for as long as the cycle runs.
THEOREM FollowUpsAreCurrent == Spec => FollowUpsOnCurrentRow
<1>1. NativeInv /\ [Next]_vars => FollowUpStep
  BY FollowUpSteps
<1>2. Spec => [][Next]_vars
  BY PTL DEF Spec
<1>3. QED
  BY <1>1, <1>2, NativeInvariant, PTL DEF FollowUpsOnCurrentRow, FollowUpStep

SuppressionStep ==
  \A c \in suppressed :
    /\ (mailed'[c] # mailed[c] \/ approved'[c] # approved[c]) =>
          \E w \in Session : w \in excused[c] /\ w \notin excused'[c]
    /\ \A r \in Request :
          (req[r] # Null /\ req'[r] = Null /\ req[r].op = "reply" /\ req[r].on = {c}
             /\ req[r].mails) => r \in excused[c]

\* Every step is one SuppressedNotMailed allows.
LEMMA SuppressionSteps == NativeInv /\ [Next]_vars => SuppressionStep
<1> SUFFICES ASSUME NativeInv, [Next]_vars
             PROVE  SuppressionStep
  OBVIOUS
<1> USE Actors DEF NativeInv, TypeOK, ThreadsTyped, SetsTyped, RequestsTyped, MailTyped
<1>1. ASSUME NEW w \in Job, Sweep(w)
      PROVE  SuppressionStep
  <2>1. UNCHANGED <<mailed, approved, req>>
    BY <1>1 DEF Sweep, mail
  <2>2. QED
    BY <2>1 DEF SuppressionStep
<1>2. ASSUME NEW w \in Job, Claim(w)
      PROVE  SuppressionStep
  <2>1. UNCHANGED <<mailed, approved, req>>
    BY <1>2 DEF Claim, mail
  <2>2. QED
    BY <2>1 DEF SuppressionStep
<1>3. ASSUME NEW w \in Job, ClaimNothing(w)
      PROVE  SuppressionStep
  <2>1. UNCHANGED <<mailed, approved, req>>
    BY <1>3 DEF ClaimNothing, mail
  <2>2. QED
    BY <2>1 DEF SuppressionStep
<1>4. ASSUME NEW w \in Sender, NEW c \in Contact, Begin(w, c)
      PROVE  SuppressionStep
  <2>1. UNCHANGED <<mailed, approved, req>>
    BY <1>4 DEF Begin, mail
  <2>2. QED
    BY <2>1 DEF SuppressionStep
<1>5. ASSUME NEW w \in Sender, Hold(w)
      PROVE  SuppressionStep
  <2>1. UNCHANGED <<mailed, approved, req>>
    BY <1>5 DEF Hold, mail
  <2>2. QED
    BY <2>1 DEF SuppressionStep
<1>6. ASSUME NEW w \in Sender, Raise(w)
      PROVE  SuppressionStep
  <2>1. UNCHANGED <<mailed, approved, req>>
    BY <1>6 DEF Raise, mail
  <2>2. QED
    BY <2>1 DEF SuppressionStep
<1>7. ASSUME NEW w \in Sender, NEW o \in Outcomes, Send(w, o)
      PROVE  SuppressionStep
  <2>1. UNCHANGED req /\ cur[w] \in Contact
    BY <1>7 DEF Send, Busy
  <2>2. \A c \in Contact : c # cur[w] => mailed'[c] = mailed[c] /\ approved'[c] = approved[c]
    BY <1>7, <2>1 DEF Send
  <2>3. cur[w] \in suppressed => w \in excused[cur[w]]
    BY <1>7 DEF Send, SendersPassed
  <2>4. w \notin excused'[cur[w]]
    BY <1>7, <2>1 DEF Send
  <2>5. QED
    BY <2>1, <2>2, <2>3, <2>4 DEF SuppressionStep
<1>8. ASSUME NEW w \in InitialJob, WriteInitial(w)
      PROVE  SuppressionStep
  <2>1. UNCHANGED <<mailed, approved, req>>
    BY <1>8 DEF WriteInitial, mail
  <2>2. QED
    BY <2>1 DEF SuppressionStep
<1>9. ASSUME NEW w \in InitialJob, RollbackInitial(w) \/ CommitFails(w)
      PROVE  SuppressionStep
  <2>1. UNCHANGED <<mailed, approved, req>>
    BY <1>9 DEF RollbackInitial, CommitFails, RolledBack, mail
  <2>2. QED
    BY <2>1 DEF SuppressionStep
<1>10. ASSUME NEW w \in FollowJob, WriteFollow(w)
      PROVE  SuppressionStep
  <2>1. UNCHANGED <<mailed, approved, req>>
    BY <1>10 DEF WriteFollow, mail
  <2>2. QED
    BY <2>1 DEF SuppressionStep
<1>11. ASSUME NEW w \in Job, Finish(w)
      PROVE  SuppressionStep
  <2>1. UNCHANGED <<mailed, approved, req>>
    BY <1>11 DEF Finish, mail
  <2>2. QED
    BY <2>1 DEF SuppressionStep
<1>12. ASSUME NEW w \in Session, Dies(w)
      PROVE  SuppressionStep
  <2>1. UNCHANGED <<mailed, approved, req>>
    BY <1>12 DEF Dies, mail
  <2>2. QED
    BY <2>1 DEF SuppressionStep
<1>13. ASSUME NEW w \in Job, ReleaseAllClaims(w)
      PROVE  SuppressionStep
  <2>1. UNCHANGED <<mailed, approved, req>>
    BY <1>13 DEF ReleaseAllClaims, mail
  <2>2. QED
    BY <2>1 DEF SuppressionStep
<1>14. ASSUME NEW c \in Contact, LeaseExpires(c)
      PROVE  SuppressionStep
  <2>1. UNCHANGED <<mailed, approved, req>>
    BY <1>14 DEF LeaseExpires, mail
  <2>2. QED
    BY <2>1 DEF SuppressionStep
<1>15. ASSUME NEW w \in Forced, NEW c \in Touched, ForceAsk(w, c)
      PROVE  SuppressionStep
  <2>1. UNCHANGED <<mailed, approved, req>>
    BY <1>15 DEF ForceAsk, mail
  <2>2. QED
    BY <2>1 DEF SuppressionStep
<1>16. ASSUME NEW w \in Forced, ForceMark(w)
      PROVE  SuppressionStep
  <2>1. UNCHANGED <<mailed, approved, req>>
    BY <1>16 DEF ForceMark, mail
  <2>2. QED
    BY <2>1 DEF SuppressionStep
<1>17. ASSUME NEW w \in Forced, WriteForced(w)
      PROVE  SuppressionStep
  <2>1. UNCHANGED <<mailed, approved, req>>
    BY <1>17 DEF WriteForced, mail
  <2>2. QED
    BY <2>1 DEF SuppressionStep
<1>18. ASSUME NEW a \in Approval, NEW c \in Touched, ApproveOpen(a, c)
      PROVE  SuppressionStep
  <2>1. UNCHANGED <<mailed, approved, req>>
    BY <1>18 DEF ApproveOpen, mail
  <2>2. QED
    BY <2>1 DEF SuppressionStep
<1>19. ASSUME NEW a \in Approval, NEW o \in Outcomes, ApproveSend(a, o)
      PROVE  SuppressionStep
  <2>1. UNCHANGED req /\ cur[a] \in Contact
    BY <1>19 DEF ApproveSend, Busy
  <2>2. \A c \in Contact : c # cur[a] => mailed'[c] = mailed[c] /\ approved'[c] = approved[c]
    BY <1>19, <2>1 DEF ApproveSend
  <2>3. cur[a] \in suppressed => a \in excused[cur[a]]
    BY <1>19 DEF ApproveSend, SendersPassed
  <2>4. a \notin excused'[cur[a]]
    BY <1>19, <2>1 DEF ApproveSend
  <2>5. QED
    BY <2>1, <2>2, <2>3, <2>4 DEF SuppressionStep
<1>20. ASSUME NEW a \in Approval, ApproveCommit(a)
      PROVE  SuppressionStep
  <2>1. UNCHANGED <<mailed, approved, req>>
    BY <1>20 DEF ApproveCommit, mail
  <2>2. QED
    BY <2>1 DEF SuppressionStep
<1>21. ASSUME NEW r \in Request, NEW op \in {"pause", "resume", "won"}, NEW c \in Touched, Ask(r, op, c)
      PROVE  SuppressionStep
  <2>1. UNCHANGED <<mailed, approved>>
    BY <1>21 DEF Ask, mail
  <2>2. req[r] = Null /\ \A q \in Request \ {r} : req'[q] = req[q]
    BY <1>21 DEF Ask
  <2>3. QED
    BY <2>1, <2>2 DEF SuppressionStep
<1>22. ASSUME NEW r \in Request, Start(r)
      PROVE  SuppressionStep
  <2>1. UNCHANGED <<mailed, approved>>
    BY <1>22 DEF Start, mail
  <2>2. req[r] = Null /\ \A q \in Request \ {r} : req'[q] = req[q]
    BY <1>22 DEF Start
  <2>3. QED
    BY <2>1, <2>2 DEF SuppressionStep
<1>23. ASSUME NEW r \in Request, Commit(r)
      PROVE  SuppressionStep
  <2>1. UNCHANGED <<mailed, approved>>
    BY <1>23 DEF Commit, mail
  <2>2. \A q \in Request \ {r} : req'[q] = req[q]
    BY <1>23 DEF Commit
  <2>3. QED
    BY <1>23, <2>1, <2>2 DEF Commit, SuppressionStep, RepliesPassed
<1>24. ASSUME NEW B \in SUBSET Contact, AddContacts(B)
      PROVE  SuppressionStep
  <2>1. UNCHANGED <<mailed, approved, req>>
    BY <1>24 DEF AddContacts, mail
  <2>2. QED
    BY <2>1 DEF SuppressionStep
<1>25. ASSUME NEW c \in Touched, Suppress(c)
      PROVE  SuppressionStep
  <2>1. UNCHANGED <<mailed, approved, req>>
    BY <1>25 DEF Suppress, mail
  <2>2. QED
    BY <2>1 DEF SuppressionStep
<1>26. ASSUME NEW r \in Request, NEW c \in Touched, NEW reply \in Replies,
            NEW answer \in {"none", "manual", "held", "sent", "failed", "unknown"},
            Receive(r, c, reply, answer)
      PROVE  SuppressionStep
  <2>1. UNCHANGED <<mailed, approved>>
    BY <1>26 DEF Receive, mail
  <2>2. req[r] = Null /\ \A q \in Request \ {r} : req'[q] = req[q]
    BY <1>26 DEF Receive
  <2>3. QED
    BY <2>1, <2>2 DEF SuppressionStep
<1>27. ASSUME NEW r \in Request, CommitReply(r)
      PROVE  SuppressionStep
  <2>1. UNCHANGED <<mailed, approved>>
    BY <1>27 DEF CommitReply, mail
  <2>2. \A q \in Request \ {r} : req'[q] = req[q]
    BY <1>27 DEF CommitReply
  <2>3. QED
    BY <2>1, <2>2 DEF SuppressionStep, RepliesPassed
<1>28. ASSUME NEW c \in Contact, TimePasses(c)
      PROVE  SuppressionStep
  <2>1. UNCHANGED <<mailed, approved, req>>
    BY <1>28 DEF TimePasses, mail
  <2>2. QED
    BY <2>1 DEF SuppressionStep
<1>29. CASE UNCHANGED vars
  BY <1>29 DEF vars, mail, SuppressionStep
<1>30. QED
  BY <1>1, <1>2, <1>3, <1>4, <1>5, <1>6, <1>7, <1>8, <1>9, <1>10, <1>11, <1>12, <1>13, <1>14,
     <1>15, <1>16, <1>17, <1>18, <1>19, <1>20, <1>21, <1>22, <1>23, <1>24, <1>25, <1>26, <1>27, <1>28, <1>29,
     NextCases DEF JobCase, SenderCase, EndpointCase, RequestCase, WorldCase

\* After an address is suppressed, by the endpoint or by an unsubscribe, the only mail that
\* still leaves for it is of sessions that had passed is_suppressed before, and at most one from
\* each: no job, forced follow-up, approval or automatic answer reads the list too late.
THEOREM SuppressedIsNotMailed == Spec => SuppressedNotMailed
<1>1. NativeInv /\ [Next]_vars => SuppressionStep
  BY SuppressionSteps
<1>2. Spec => [][Next]_vars
  BY PTL DEF Spec
<1>3. QED
  BY <1>1, <1>2, NativeInvariant, PTL DEF SuppressedNotMailed, SuppressionStep

-----------------------------------------------------------------------------
(* The schedule of a contact.                                              *)

\* No contact that exists becomes new.
NotNewAgain == \A c \in Contact : row'[c].status = "new" /\ Known(c) => row[c].status = "new"

\* A contact that has left the state new never returns to it.
LEMMA NeverNewAgain == NativeInv /\ [Next]_vars => NotNewAgain
<1> SUFFICES ASSUME NativeInv, [Next]_vars
             PROVE  NotNewAgain
  OBVIOUS
<1> USE Actors DEF NativeInv, TypeOK, RowTyped, LockInv, NotNewAgain
<1>0. \A c \in Contact : row[c] \in Row
  OBVIOUS
<1>1. ASSUME NEW w \in Job, Sweep(w)
      PROVE  NotNewAgain
  <2>1. UNCHANGED row
    BY <1>1 DEF Sweep, database
  <2>2. QED
    BY <2>1
<1>2. ASSUME NEW w \in Job, Claim(w)
      PROVE  NotNewAgain
  <2>1. UNCHANGED row
    BY <1>2 DEF Claim, database
  <2>2. QED
    BY <2>1
<1>3. ASSUME NEW w \in Job, ClaimNothing(w)
      PROVE  NotNewAgain
  <2>1. \A d \in Contact : row'[d] = row[d] \/ row'[d] = Released(row[d])
    BY <1>3 DEF ClaimNothing
  <2>2. \A d \in Contact : Released(row[d]).status = row[d].status
    BY <1>0, SameRows DEF Same
  <2>3. QED
    BY <2>1, <2>2
<1>4. ASSUME NEW w \in Sender, NEW c \in Contact, Begin(w, c)
      PROVE  NotNewAgain
  <2>1. UNCHANGED row
    BY <1>4 DEF Begin, database
  <2>2. QED
    BY <2>1
<1>5. ASSUME NEW w \in Sender, Hold(w)
      PROVE  NotNewAgain
  <2>1. UNCHANGED row
    BY <1>5 DEF Hold, database
  <2>2. QED
    BY <2>1
<1>6. ASSUME NEW w \in Sender, Raise(w)
      PROVE  NotNewAgain
  <2>1. UNCHANGED row
    BY <1>6 DEF Raise, database
  <2>2. QED
    BY <2>1
<1>7. ASSUME NEW w \in Sender, NEW o \in Outcomes, Send(w, o)
      PROVE  NotNewAgain
  <2>1. UNCHANGED row
    BY <1>7 DEF Send, database
  <2>2. QED
    BY <2>1
<1>8. ASSUME NEW w \in InitialJob, WriteInitial(w)
      PROVE  NotNewAgain
  <2>1. cur[w] \in Contact
    BY <1>8 DEF WriteInitial, Busy, ThreadsTyped
  <2>2. View(w, cur[w]).status = "new" => row[cur[w]].status = "new"
    BY <2>1 DEF View, Copies
  <2>3. NewRow(w).status = "new" => row[cur[w]].status = "new"
    BY <2>1, <2>2, NewRowFacts
  <2>4. QED
    BY <1>8, <2>1, <2>3 DEF WriteInitial, Committed, View, Copies
<1>9. ASSUME NEW w \in InitialJob, RollbackInitial(w) \/ CommitFails(w)
      PROVE  NotNewAgain
  <2>1. UNCHANGED row
    BY <1>9 DEF RollbackInitial, CommitFails, RolledBack, database
  <2>2. QED
    BY <2>1
<1>10. ASSUME NEW w \in FollowJob, WriteFollow(w)
      PROVE  NotNewAgain
  <2>1. UNCHANGED row
    BY <1>10 DEF WriteFollow, database
  <2>2. QED
    BY <2>1
<1>11. ASSUME NEW w \in Job, Finish(w)
      PROVE  NotNewAgain
  BY <1>11 DEF Finish, Committed, View, Copies
<1>12. ASSUME NEW w \in Session, Dies(w)
      PROVE  NotNewAgain
  <2>1. UNCHANGED row
    BY <1>12 DEF Dies, database
  <2>2. QED
    BY <2>1
<1>13. ASSUME NEW w \in Job, ReleaseAllClaims(w)
      PROVE  NotNewAgain
  <2>1. \A d \in Contact : row'[d] = row[d] \/ row'[d] = Released(row[d])
    BY <1>13 DEF ReleaseAllClaims
  <2>2. \A d \in Contact : Released(row[d]).status = row[d].status
    BY <1>0, SameRows DEF Same
  <2>3. QED
    BY <2>1, <2>2
<1>14. ASSUME NEW c \in Contact, LeaseExpires(c)
      PROVE  NotNewAgain
  <2>1. \A d \in Contact : row'[d].status = row[d].status
    BY <1>0, <1>14 DEF LeaseExpires, Row
  <2>2. QED
    BY <2>1
<1>15. ASSUME NEW w \in Forced, NEW c \in Touched, ForceAsk(w, c)
      PROVE  NotNewAgain
  <2>1. UNCHANGED row
    BY <1>15 DEF ForceAsk, database
  <2>2. QED
    BY <2>1
<1>16. ASSUME NEW w \in Forced, ForceMark(w)
      PROVE  NotNewAgain
  <2>1. \A d \in Contact : row'[d].status = row[d].status
    BY <1>0, <1>16 DEF ForceMark, Row
  <2>2. QED
    BY <2>1
<1>17. ASSUME NEW w \in Forced, WriteForced(w)
      PROVE  NotNewAgain
  <2>1. cur[w] \in Contact
    BY <1>17 DEF WriteForced, Busy, ThreadsTyped
  <2>2. View(w, cur[w]).status = "new" => row[cur[w]].status = "new"
    BY <2>1 DEF View, Copies
  <2>3. NewRow(w).status = "new" => row[cur[w]].status = "new"
    BY <2>1, <2>2, NewRowFacts
  <2>4. QED
    BY <1>17, <2>1, <2>3 DEF WriteForced, Committed, View, Copies
<1>18. ASSUME NEW a \in Approval, NEW c \in Touched, ApproveOpen(a, c)
      PROVE  NotNewAgain
  <2>1. UNCHANGED row
    BY <1>18 DEF ApproveOpen, database
  <2>2. QED
    BY <2>1
<1>19. ASSUME NEW a \in Approval, NEW o \in Outcomes, ApproveSend(a, o)
      PROVE  NotNewAgain
  <2>1. UNCHANGED row
    BY <1>19 DEF ApproveSend, database
  <2>2. QED
    BY <2>1
<1>20. ASSUME NEW a \in Approval, ApproveCommit(a)
      PROVE  NotNewAgain
  <2>1. \A d \in Contact : row'[d].status = row[d].status
    BY <1>0, <1>20 DEF ApproveCommit, Row
  <2>2. QED
    BY <2>1
<1>21. ASSUME NEW r \in Request, NEW op \in {"pause", "resume", "won"}, NEW c \in Touched, Ask(r, op, c)
      PROVE  NotNewAgain
  <2>1. UNCHANGED row
    BY <1>21 DEF Ask, database
  <2>2. QED
    BY <2>1
<1>22. ASSUME NEW r \in Request, Start(r)
      PROVE  NotNewAgain
  <2>1. UNCHANGED row
    BY <1>22 DEF Start, database
  <2>2. QED
    BY <2>1
<1>23. ASSUME NEW r \in Request, Commit(r)
      PROVE  NotNewAgain
  <2>1. \A c \in Contact : Written(row[c], req[r].snap, req[r].new).status = "new" => row[c].status = "new"
    BY <1>23, RequestWrites DEF Commit
  <2>2. QED
    BY <1>23, <2>1 DEF Commit
<1>24. ASSUME NEW B \in SUBSET Contact, AddContacts(B)
      PROVE  NotNewAgain
  BY <1>24 DEF AddContacts, Known
<1>25. ASSUME NEW c \in Touched, Suppress(c)
      PROVE  NotNewAgain
  <2>1. UNCHANGED row
    BY <1>25 DEF Suppress, database
  <2>2. QED
    BY <2>1
<1>26. ASSUME NEW r \in Request, NEW c \in Touched, NEW reply \in Replies,
            NEW answer \in {"none", "manual", "held", "sent", "failed", "unknown"},
            Receive(r, c, reply, answer)
      PROVE  NotNewAgain
  <2>1. UNCHANGED row
    BY <1>26 DEF Receive, database
  <2>2. QED
    BY <2>1
<1>27. ASSUME NEW r \in Request, CommitReply(r)
      PROVE  NotNewAgain
  <2>1. \A c \in Contact : Written(row[c], req[r].snap, req[r].new).status = "new" => row[c].status = "new"
    BY <1>27, RequestWrites DEF CommitReply
  <2>2. QED
    BY <1>27, <2>1 DEF CommitReply
<1>28. ASSUME NEW c \in Contact, TimePasses(c)
      PROVE  NotNewAgain
  <2>1. \A d \in Contact : row'[d].status = row[d].status
    BY <1>0, <1>28 DEF TimePasses, Row
  <2>2. QED
    BY <2>1
<1>29. CASE UNCHANGED vars
  BY <1>29 DEF vars, database
<1>30. QED
  BY <1>1, <1>2, <1>3, <1>4, <1>5, <1>6, <1>7, <1>8, <1>9, <1>10, <1>11, <1>12, <1>13, <1>14,
     <1>15, <1>16, <1>17, <1>18, <1>19, <1>20, <1>21, <1>22, <1>23, <1>24, <1>25, <1>26, <1>27, <1>28, <1>29,
     NextCases DEF JobCase, SenderCase, EndpointCase, RequestCase, WorldCase

\* A new contact has had no follow-up, and a forced follow-up concerns no new contact.
FreshRows == \A c \in Contact : row[c].status = "new" => row[c].index = 0

FreshLocks ==
  \A w \in Session : \A c \in DOMAIN tx[w] : tx[w][c].status = "new" => tx[w][c].index = 0

FreshCopies == \A w \in Session : snap[w].status = "new" => snap[w].index = 0

ForcedLater ==
  /\ \A w \in Forced : \A c \in left[w] : row[c].status # "new"
  /\ \A w \in Forced : cur[w] # Null => row[cur[w]].status # "new"

Fresh == FreshRows /\ FreshLocks /\ FreshCopies /\ ForcedLater

\* No sender writes a step number into a contact that is still new.
LEMMA FreshNewRow ==
  ASSUME NativeInv, Fresh, NEW w \in Sender, pc[w] = "write"
  PROVE  /\ cur[w] \in Contact
         /\ NewRow(w).status = "new" => NewRow(w).index = 0
<1> DEFINE base == View(w, cur[w])
           s == snap[w]
           n == Outcome(w, s, out[w])
<1>1. w \in Session /\ cur[w] \in Contact /\ out[w] \in Results
  BY Actors DEF NativeInv, Busy, TypeOK, ThreadsTyped
<1>2. base \in Row /\ s \in Row /\ n \in Change
  BY <1>1, NewRowTyped DEF NativeInv
<1>3. /\ n.status # s.status => n.status # "new"
      /\ n.index # s.index => out[w] = "sent" /\ w \notin InitialJob
  <2> DEFINE result == out[w]
  <2>1. s \in Row /\ result \in Results
    BY <1>1, <1>2
  <2> HIDE DEF s, result, n
  <2>2. /\ Outcome(w, s, result).status # s.status => Outcome(w, s, result).status \in Status \ {"new"}
        /\ Outcome(w, s, result).index # s.index => result = "sent" /\ w \notin InitialJob
    BY <2>1, OutcomeFacts, Zenon
  <2>3. QED
    BY <2>2 DEF n, result
<1>4. base.status = "new" => base.index = 0
  BY <1>1 DEF View, Fresh, FreshRows, FreshLocks
<1>5. n.index # s.index => base.status # "new"
  <2> SUFFICES ASSUME n.index # s.index PROVE base.status # "new"
    OBVIOUS
  <2>1. out[w] = "sent" /\ w \notin InitialJob
    BY <1>3
  <2>2. s.status = "active"
    BY <2>1 DEF NativeInv, Decided, should_send_followup_now, can_send_followup
  <2>3. CASE w \in FollowJob
    BY <1>1, <2>2, <2>3, Actors DEF NativeInv, Follows, Busy, View
  <2>4. CASE w \in Forced
    BY <1>1, <2>4, Actors DEF NativeInv, LockInv, Places, View, Fresh, ForcedLater
  <2>5. QED
    BY <2>1, <2>3, <2>4, Actors
<1> HIDE DEF base, s, n
<1>6. /\ n.status = s.status => Written(base, s, n).status = base.status
      /\ n.status # s.status => Written(base, s, n).status = n.status
      /\ n.index = s.index => Written(base, s, n).index = base.index
  BY <1>2, WrittenFacts, Zenon
<1>7. NewRow(w) = Written(base, s, n)
  BY DEF NewRow, base, s, n
<1>8. QED
  BY <1>1, <1>3, <1>4, <1>5, <1>6, <1>7

\* FreshRows is kept by every step.
LEMMA FreshRowsStep == NativeInv /\ Fresh /\ [Next]_vars => FreshRows'
<1> SUFFICES ASSUME NativeInv, Fresh, [Next]_vars
             PROVE  FreshRows'
  OBVIOUS
<1> USE Actors DEF NativeInv, TypeOK, RowTyped, LockInv, Fresh
<1>0. \A c \in Contact : row[c] \in Row
  OBVIOUS
<1>1. ASSUME NEW w \in Job, Sweep(w)
      PROVE  FreshRows'
  <2>1. UNCHANGED row
    BY <1>1 DEF Sweep, database
  <2>2. QED
    BY <2>1 DEF FreshRows
<1>2. ASSUME NEW w \in Job, Claim(w)
      PROVE  FreshRows'
  <2>1. UNCHANGED row
    BY <1>2 DEF Claim, database
  <2>2. QED
    BY <2>1 DEF FreshRows
<1>3. ASSUME NEW w \in Job, ClaimNothing(w)
      PROVE  FreshRows'
  <2>1. \A d \in Contact : row'[d] = row[d] \/ row'[d] = Released(row[d])
    BY <1>3 DEF ClaimNothing
  <2>2. \A d \in Contact : Released(row[d]).status = row[d].status /\ Released(row[d]).index = row[d].index
    BY <1>0, SameRows DEF Same
  <2>3. QED
    BY <2>1, <2>2 DEF FreshRows
<1>4. ASSUME NEW w \in Sender, NEW c \in Contact, Begin(w, c)
      PROVE  FreshRows'
  <2>1. UNCHANGED row
    BY <1>4 DEF Begin, database
  <2>2. QED
    BY <2>1 DEF FreshRows
<1>5. ASSUME NEW w \in Sender, Hold(w)
      PROVE  FreshRows'
  <2>1. UNCHANGED row
    BY <1>5 DEF Hold, database
  <2>2. QED
    BY <2>1 DEF FreshRows
<1>6. ASSUME NEW w \in Sender, Raise(w)
      PROVE  FreshRows'
  <2>1. UNCHANGED row
    BY <1>6 DEF Raise, database
  <2>2. QED
    BY <2>1 DEF FreshRows
<1>7. ASSUME NEW w \in Sender, NEW o \in Outcomes, Send(w, o)
      PROVE  FreshRows'
  <2>1. UNCHANGED row
    BY <1>7 DEF Send, database
  <2>2. QED
    BY <2>1 DEF FreshRows
<1>8. ASSUME NEW w \in InitialJob, WriteInitial(w)
      PROVE  FreshRows'
  <2>1. cur[w] \in Contact /\ (NewRow(w).status = "new" => NewRow(w).index = 0)
    BY <1>8, FreshNewRow DEF WriteInitial
  <2>2. QED
    BY <1>8, <2>1 DEF WriteInitial, Committed, View, FreshRows, FreshLocks
<1>9. ASSUME NEW w \in InitialJob, RollbackInitial(w) \/ CommitFails(w)
      PROVE  FreshRows'
  <2>1. UNCHANGED row
    BY <1>9 DEF RollbackInitial, CommitFails, RolledBack, database
  <2>2. QED
    BY <2>1 DEF FreshRows
<1>10. ASSUME NEW w \in FollowJob, WriteFollow(w)
      PROVE  FreshRows'
  <2>1. UNCHANGED row
    BY <1>10 DEF WriteFollow, database
  <2>2. QED
    BY <2>1 DEF FreshRows
<1>11. ASSUME NEW w \in Job, Finish(w)
      PROVE  FreshRows'
  BY <1>11 DEF Finish, Committed, View, FreshRows, FreshLocks
<1>12. ASSUME NEW w \in Session, Dies(w)
      PROVE  FreshRows'
  <2>1. UNCHANGED row
    BY <1>12 DEF Dies, database
  <2>2. QED
    BY <2>1 DEF FreshRows
<1>13. ASSUME NEW w \in Job, ReleaseAllClaims(w)
      PROVE  FreshRows'
  <2>1. \A d \in Contact : row'[d] = row[d] \/ row'[d] = Released(row[d])
    BY <1>13 DEF ReleaseAllClaims
  <2>2. \A d \in Contact : Released(row[d]).status = row[d].status /\ Released(row[d]).index = row[d].index
    BY <1>0, SameRows DEF Same
  <2>3. QED
    BY <2>1, <2>2 DEF FreshRows
<1>14. ASSUME NEW c \in Contact, LeaseExpires(c)
      PROVE  FreshRows'
  <2>1. \A d \in Contact : row'[d].status = row[d].status /\ row'[d].index = row[d].index
    BY <1>0, <1>14 DEF LeaseExpires, Row
  <2>2. QED
    BY <2>1 DEF FreshRows
<1>15. ASSUME NEW w \in Forced, NEW c \in Touched, ForceAsk(w, c)
      PROVE  FreshRows'
  <2>1. UNCHANGED row
    BY <1>15 DEF ForceAsk, database
  <2>2. QED
    BY <2>1 DEF FreshRows
<1>16. ASSUME NEW w \in Forced, ForceMark(w)
      PROVE  FreshRows'
  <2>1. \A d \in Contact : row'[d].status = row[d].status /\ row'[d].index = row[d].index
    BY <1>0, <1>16 DEF ForceMark, Row
  <2>2. QED
    BY <2>1 DEF FreshRows
<1>17. ASSUME NEW w \in Forced, WriteForced(w)
      PROVE  FreshRows'
  <2>1. cur[w] \in Contact /\ (NewRow(w).status = "new" => NewRow(w).index = 0)
    BY <1>17, FreshNewRow DEF WriteForced
  <2>2. QED
    BY <1>17, <2>1 DEF WriteForced, Committed, View, FreshRows, FreshLocks
<1>18. ASSUME NEW a \in Approval, NEW c \in Touched, ApproveOpen(a, c)
      PROVE  FreshRows'
  <2>1. UNCHANGED row
    BY <1>18 DEF ApproveOpen, database
  <2>2. QED
    BY <2>1 DEF FreshRows
<1>19. ASSUME NEW a \in Approval, NEW o \in Outcomes, ApproveSend(a, o)
      PROVE  FreshRows'
  <2>1. UNCHANGED row
    BY <1>19 DEF ApproveSend, database
  <2>2. QED
    BY <2>1 DEF FreshRows
<1>20. ASSUME NEW a \in Approval, ApproveCommit(a)
      PROVE  FreshRows'
  <2>1. \A d \in Contact : row'[d].status = row[d].status /\ row'[d].index = row[d].index
    BY <1>0, <1>20 DEF ApproveCommit, Row
  <2>2. QED
    BY <2>1 DEF FreshRows
<1>21. ASSUME NEW r \in Request, NEW op \in {"pause", "resume", "won"}, NEW c \in Touched, Ask(r, op, c)
      PROVE  FreshRows'
  <2>1. UNCHANGED row
    BY <1>21 DEF Ask, database
  <2>2. QED
    BY <2>1 DEF FreshRows
<1>22. ASSUME NEW r \in Request, Start(r)
      PROVE  FreshRows'
  <2>1. UNCHANGED row
    BY <1>22 DEF Start, database
  <2>2. QED
    BY <2>1 DEF FreshRows
<1>23. ASSUME NEW r \in Request, Commit(r)
      PROVE  FreshRows'
  <2>1. \A c \in Contact : Written(row[c], req[r].snap, req[r].new).status = "new" =>
          row[c].status = "new" /\ Written(row[c], req[r].snap, req[r].new).index = row[c].index
    BY <1>23, RequestWrites DEF Commit
  <2>2. QED
    BY <1>23, <2>1 DEF Commit, FreshRows
<1>24. ASSUME NEW B \in SUBSET Contact, AddContacts(B)
      PROVE  FreshRows'
  BY <1>24 DEF AddContacts, NoRow, FreshRows
<1>25. ASSUME NEW c \in Touched, Suppress(c)
      PROVE  FreshRows'
  <2>1. UNCHANGED row
    BY <1>25 DEF Suppress, database
  <2>2. QED
    BY <2>1 DEF FreshRows
<1>26. ASSUME NEW r \in Request, NEW c \in Touched, NEW reply \in Replies,
            NEW answer \in {"none", "manual", "held", "sent", "failed", "unknown"},
            Receive(r, c, reply, answer)
      PROVE  FreshRows'
  <2>1. UNCHANGED row
    BY <1>26 DEF Receive, database
  <2>2. QED
    BY <2>1 DEF FreshRows
<1>27. ASSUME NEW r \in Request, CommitReply(r)
      PROVE  FreshRows'
  <2>1. \A c \in Contact : Written(row[c], req[r].snap, req[r].new).status = "new" =>
          row[c].status = "new" /\ Written(row[c], req[r].snap, req[r].new).index = row[c].index
    BY <1>27, RequestWrites DEF CommitReply
  <2>2. QED
    BY <1>27, <2>1 DEF CommitReply, FreshRows
<1>28. ASSUME NEW c \in Contact, TimePasses(c)
      PROVE  FreshRows'
  <2>1. \A d \in Contact : row'[d].status = row[d].status /\ row'[d].index = row[d].index
    BY <1>0, <1>28 DEF TimePasses, Row
  <2>2. QED
    BY <2>1 DEF FreshRows
<1>29. CASE UNCHANGED vars
  BY <1>29 DEF vars, database, FreshRows
<1>30. QED
  BY <1>1, <1>2, <1>3, <1>4, <1>5, <1>6, <1>7, <1>8, <1>9, <1>10, <1>11, <1>12, <1>13, <1>14,
     <1>15, <1>16, <1>17, <1>18, <1>19, <1>20, <1>21, <1>22, <1>23, <1>24, <1>25, <1>26, <1>27, <1>28, <1>29,
     NextCases DEF JobCase, SenderCase, EndpointCase, RequestCase, WorldCase

\* FreshLocks is kept by every step.
LEMMA FreshLocksStep == NativeInv /\ Fresh /\ [Next]_vars => FreshLocks'
<1> SUFFICES ASSUME NativeInv, Fresh, [Next]_vars
             PROVE  FreshLocks'
  OBVIOUS
<1> USE Actors DEF NativeInv, TypeOK, RowTyped, LocksTyped, Fresh
<1>0. \A c \in Contact : row[c] \in Row
  OBVIOUS
<1>1. ASSUME NEW w \in Job, Sweep(w)
      PROVE  FreshLocks'
  <2>1. UNCHANGED tx
    BY <1>1 DEF Sweep, session
  <2>2. QED
    BY <2>1 DEF FreshLocks
<1>2. ASSUME NEW w \in Job, Claim(w)
      PROVE  FreshLocks'
  <2>1. Taken(w)
    BY <1>2, ClaimedRows
  <2>2. \A c \in DOMAIN tx'[w] : c \in Contact /\ tx'[w][c].status = row[c].status /\ tx'[w][c].index = row[c].index
    BY <2>1 DEF Taken, Same
  <2>3. QED
    BY <2>1, <2>2 DEF FreshLocks, FreshRows, Taken
<1>3. ASSUME NEW w \in Job, ClaimNothing(w)
      PROVE  FreshLocks'
  <2>1. DOMAIN tx'[w] = {} /\ \A v \in Session \ {w} : tx'[v] = tx[v]
    BY <1>3 DEF ClaimNothing, Reset
  <2>2. QED
    BY <2>1 DEF FreshLocks
<1>4. ASSUME NEW w \in Sender, NEW c \in Contact, Begin(w, c)
      PROVE  FreshLocks'
  <2>1. UNCHANGED tx
    BY <1>4 DEF Begin, session
  <2>2. QED
    BY <2>1 DEF FreshLocks
<1>5. ASSUME NEW w \in Sender, Hold(w)
      PROVE  FreshLocks'
  <2>1. UNCHANGED tx
    BY <1>5 DEF Hold, session
  <2>2. QED
    BY <2>1 DEF FreshLocks
<1>6. ASSUME NEW w \in Sender, Raise(w)
      PROVE  FreshLocks'
  <2>1. UNCHANGED tx
    BY <1>6 DEF Raise, session
  <2>2. QED
    BY <2>1 DEF FreshLocks
<1>7. ASSUME NEW w \in Sender, NEW o \in Outcomes, Send(w, o)
      PROVE  FreshLocks'
  <2>1. UNCHANGED tx
    BY <1>7 DEF Send, session
  <2>2. QED
    BY <2>1 DEF FreshLocks
<1>8. ASSUME NEW w \in InitialJob, WriteInitial(w)
      PROVE  FreshLocks'
  <2>1. cur[w] \in Contact /\ (NewRow(w).status = "new" => NewRow(w).index = 0)
    BY <1>8, FreshNewRow DEF WriteInitial
  <2>2. Released(NewRow(w)).status = NewRow(w).status /\ Released(NewRow(w)).index = NewRow(w).index
    BY <2>1, ReleasedNew
  <2>3. DOMAIN tx'[w] = {cur[w]} /\ tx'[w][cur[w]] = Released(NewRow(w)) /\ \A v \in Session \ {w} : tx'[v] = tx[v]
    BY <1>8 DEF WriteInitial, release_claim
  <2>4. QED
    BY <2>1, <2>2, <2>3 DEF FreshLocks
<1>9. ASSUME NEW w \in InitialJob, RollbackInitial(w) \/ CommitFails(w)
      PROVE  FreshLocks'
  <2>1. cur[w] \in Contact /\ row[cur[w]] \in Row
    BY <1>0, <1>9 DEF RollbackInitial, CommitFails, Busy, ThreadsTyped
  <2>2. Released(row[cur[w]]).status = row[cur[w]].status /\ Released(row[cur[w]]).index = row[cur[w]].index
    BY <2>1, SameRows DEF Same
  <2>3. DOMAIN tx'[w] = {cur[w]} /\ tx'[w][cur[w]] = Released(row[cur[w]]) /\ \A v \in Session \ {w} : tx'[v] = tx[v]
    BY <1>9 DEF RollbackInitial, CommitFails, RolledBack, release_claim
  <2>4. QED
    BY <2>1, <2>2, <2>3 DEF FreshLocks, FreshRows
<1>10. ASSUME NEW w \in FollowJob, WriteFollow(w)
      PROVE  FreshLocks'
  <2>1. cur[w] \in Contact /\ (NewRow(w).status = "new" => NewRow(w).index = 0)
    BY <1>10, FreshNewRow DEF WriteFollow
  <2>2. Released(NewRow(w)).status = NewRow(w).status /\ Released(NewRow(w)).index = NewRow(w).index
    BY <2>1, ReleasedNew
  <2>3. /\ DOMAIN tx'[w] = DOMAIN tx[w]
        /\ \A c \in DOMAIN tx[w] \ {cur[w]} : tx'[w][c] = tx[w][c]
        /\ cur[w] \in DOMAIN tx[w] => tx'[w][cur[w]] = Released(NewRow(w))
        /\ \A v \in Session \ {w} : tx'[v] = tx[v]
    BY <1>10 DEF WriteFollow
  <2>4. QED
    BY <2>1, <2>2, <2>3 DEF FreshLocks
<1>11. ASSUME NEW w \in Job, Finish(w)
      PROVE  FreshLocks'
  <2>1. DOMAIN tx'[w] = {} /\ \A v \in Session \ {w} : tx'[v] = tx[v]
    BY <1>11 DEF Finish, Reset
  <2>2. QED
    BY <2>1 DEF FreshLocks
<1>12. ASSUME NEW w \in Session, Dies(w)
      PROVE  FreshLocks'
  <2>1. DOMAIN tx'[w] = {} /\ \A v \in Session \ {w} : tx'[v] = tx[v]
    BY <1>12 DEF Dies, Reset
  <2>2. QED
    BY <2>1 DEF FreshLocks
<1>13. ASSUME NEW w \in Job, ReleaseAllClaims(w)
      PROVE  FreshLocks'
  <2>1. UNCHANGED tx
    BY <1>13 DEF ReleaseAllClaims, session
  <2>2. QED
    BY <2>1 DEF FreshLocks
<1>14. ASSUME NEW c \in Contact, LeaseExpires(c)
      PROVE  FreshLocks'
  <2>1. UNCHANGED tx
    BY <1>14 DEF LeaseExpires, session
  <2>2. QED
    BY <2>1 DEF FreshLocks
<1>15. ASSUME NEW w \in Forced, NEW c \in Touched, ForceAsk(w, c)
      PROVE  FreshLocks'
  <2>1. UNCHANGED tx
    BY <1>15 DEF ForceAsk, session
  <2>2. QED
    BY <2>1 DEF FreshLocks
<1>16. ASSUME NEW w \in Forced, ForceMark(w)
      PROVE  FreshLocks'
  <2>1. UNCHANGED tx
    BY <1>16 DEF ForceMark, session
  <2>2. QED
    BY <2>1 DEF FreshLocks
<1>17. ASSUME NEW w \in Forced, WriteForced(w)
      PROVE  FreshLocks'
  <2>1. DOMAIN tx'[w] = {} /\ \A v \in Session \ {w} : tx'[v] = tx[v]
    BY <1>17 DEF WriteForced, Reset
  <2>2. QED
    BY <2>1 DEF FreshLocks
<1>18. ASSUME NEW a \in Approval, NEW c \in Touched, ApproveOpen(a, c)
      PROVE  FreshLocks'
  <2>1. DOMAIN tx'[a] = {c} /\ tx'[a][c] = row[c] /\ \A v \in Session \ {a} : tx'[v] = tx[v]
    BY <1>18 DEF ApproveOpen, LockForUpdate
  <2>2. QED
    BY <2>1 DEF FreshLocks, FreshRows
<1>19. ASSUME NEW a \in Approval, NEW o \in Outcomes, ApproveSend(a, o)
      PROVE  FreshLocks'
  <2>1. UNCHANGED tx
    BY <1>19 DEF ApproveSend, session
  <2>2. QED
    BY <2>1 DEF FreshLocks
<1>20. ASSUME NEW a \in Approval, ApproveCommit(a)
      PROVE  FreshLocks'
  <2>1. DOMAIN tx'[a] = {} /\ \A v \in Session \ {a} : tx'[v] = tx[v]
    BY <1>20 DEF ApproveCommit, Reset
  <2>2. QED
    BY <2>1 DEF FreshLocks
<1>21. ASSUME NEW r \in Request, NEW op \in {"pause", "resume", "won"}, NEW c \in Touched, Ask(r, op, c)
      PROVE  FreshLocks'
  <2>1. UNCHANGED tx
    BY <1>21 DEF Ask, session
  <2>2. QED
    BY <2>1 DEF FreshLocks
<1>22. ASSUME NEW r \in Request, Start(r)
      PROVE  FreshLocks'
  <2>1. UNCHANGED tx
    BY <1>22 DEF Start, session
  <2>2. QED
    BY <2>1 DEF FreshLocks
<1>23. ASSUME NEW r \in Request, Commit(r)
      PROVE  FreshLocks'
  <2>1. UNCHANGED tx
    BY <1>23 DEF Commit, session
  <2>2. QED
    BY <2>1 DEF FreshLocks
<1>24. ASSUME NEW B \in SUBSET Contact, AddContacts(B)
      PROVE  FreshLocks'
  <2>1. UNCHANGED tx
    BY <1>24 DEF AddContacts, session
  <2>2. QED
    BY <2>1 DEF FreshLocks
<1>25. ASSUME NEW c \in Touched, Suppress(c)
      PROVE  FreshLocks'
  <2>1. UNCHANGED tx
    BY <1>25 DEF Suppress, session
  <2>2. QED
    BY <2>1 DEF FreshLocks
<1>26. ASSUME NEW r \in Request, NEW c \in Touched, NEW reply \in Replies,
            NEW answer \in {"none", "manual", "held", "sent", "failed", "unknown"},
            Receive(r, c, reply, answer)
      PROVE  FreshLocks'
  <2>1. UNCHANGED tx
    BY <1>26 DEF Receive, session
  <2>2. QED
    BY <2>1 DEF FreshLocks
<1>27. ASSUME NEW r \in Request, CommitReply(r)
      PROVE  FreshLocks'
  <2>1. UNCHANGED tx
    BY <1>27 DEF CommitReply, session
  <2>2. QED
    BY <2>1 DEF FreshLocks
<1>28. ASSUME NEW c \in Contact, TimePasses(c)
      PROVE  FreshLocks'
  <2>1. UNCHANGED tx
    BY <1>28 DEF TimePasses, session
  <2>2. QED
    BY <2>1 DEF FreshLocks
<1>29. CASE UNCHANGED vars
  BY <1>29 DEF vars, session, FreshLocks
<1>30. QED
  BY <1>1, <1>2, <1>3, <1>4, <1>5, <1>6, <1>7, <1>8, <1>9, <1>10, <1>11, <1>12, <1>13, <1>14,
     <1>15, <1>16, <1>17, <1>18, <1>19, <1>20, <1>21, <1>22, <1>23, <1>24, <1>25, <1>26, <1>27, <1>28, <1>29,
     NextCases DEF JobCase, SenderCase, EndpointCase, RequestCase, WorldCase

\* FreshCopies is kept by every step.
LEMMA FreshCopiesStep == NativeInv /\ Fresh /\ [Next]_vars => FreshCopies'
<1> SUFFICES ASSUME NativeInv, Fresh, [Next]_vars
             PROVE  FreshCopies'
  OBVIOUS
<1> USE Actors DEF NativeInv, TypeOK, ThreadsTyped, Fresh
<1>0. NoRow.status # "new"
  BY DEF NoRow
<1>1. ASSUME NEW w \in Job, Sweep(w)
      PROVE  FreshCopies'
  BY <1>0, <1>1 DEF Sweep, session, FreshCopies
<1>2. ASSUME NEW w \in Job, Claim(w)
      PROVE  FreshCopies'
  BY <1>0, <1>2 DEF Claim, session, FreshCopies
<1>3. ASSUME NEW w \in Job, ClaimNothing(w)
      PROVE  FreshCopies'
  BY <1>0, <1>3 DEF ClaimNothing, Reset, session, FreshCopies
<1>4. ASSUME NEW w \in Sender, NEW c \in Contact, Begin(w, c)
      PROVE  FreshCopies'
  BY <1>4 DEF Begin, View, FreshCopies, FreshRows, FreshLocks
<1>5. ASSUME NEW w \in Sender, Hold(w)
      PROVE  FreshCopies'
  BY <1>0, <1>5 DEF Hold, session, FreshCopies
<1>6. ASSUME NEW w \in Sender, Raise(w)
      PROVE  FreshCopies'
  BY <1>0, <1>6 DEF Raise, session, FreshCopies
<1>7. ASSUME NEW w \in Sender, NEW o \in Outcomes, Send(w, o)
      PROVE  FreshCopies'
  BY <1>0, <1>7 DEF Send, session, FreshCopies
<1>8. ASSUME NEW w \in InitialJob, WriteInitial(w)
      PROVE  FreshCopies'
  BY <1>0, <1>8 DEF WriteInitial, NextContact, release_claim, session, FreshCopies
<1>9. ASSUME NEW w \in InitialJob, RollbackInitial(w) \/ CommitFails(w)
      PROVE  FreshCopies'
  BY <1>0, <1>9 DEF RollbackInitial, CommitFails, RolledBack, NextContact, release_claim, session, FreshCopies
<1>10. ASSUME NEW w \in FollowJob, WriteFollow(w)
      PROVE  FreshCopies'
  BY <1>0, <1>10 DEF WriteFollow, NextContact, session, FreshCopies
<1>11. ASSUME NEW w \in Job, Finish(w)
      PROVE  FreshCopies'
  BY <1>0, <1>11 DEF Finish, Reset, session, FreshCopies
<1>12. ASSUME NEW w \in Session, Dies(w)
      PROVE  FreshCopies'
  BY <1>0, <1>12 DEF Dies, Reset, session, FreshCopies
<1>13. ASSUME NEW w \in Job, ReleaseAllClaims(w)
      PROVE  FreshCopies'
  BY <1>0, <1>13 DEF ReleaseAllClaims, session, FreshCopies
<1>14. ASSUME NEW c \in Contact, LeaseExpires(c)
      PROVE  FreshCopies'
  BY <1>0, <1>14 DEF LeaseExpires, session, FreshCopies
<1>15. ASSUME NEW w \in Forced, NEW c \in Touched, ForceAsk(w, c)
      PROVE  FreshCopies'
  BY <1>0, <1>15 DEF ForceAsk, session, FreshCopies
<1>16. ASSUME NEW w \in Forced, ForceMark(w)
      PROVE  FreshCopies'
  BY <1>0, <1>16 DEF ForceMark, session, FreshCopies
<1>17. ASSUME NEW w \in Forced, WriteForced(w)
      PROVE  FreshCopies'
  BY <1>0, <1>17 DEF WriteForced, Reset, session, FreshCopies
<1>18. ASSUME NEW a \in Approval, NEW c \in Touched, ApproveOpen(a, c)
      PROVE  FreshCopies'
  BY <1>0, <1>18 DEF ApproveOpen, session, FreshCopies
<1>19. ASSUME NEW a \in Approval, NEW o \in Outcomes, ApproveSend(a, o)
      PROVE  FreshCopies'
  BY <1>0, <1>19 DEF ApproveSend, session, FreshCopies
<1>20. ASSUME NEW a \in Approval, ApproveCommit(a)
      PROVE  FreshCopies'
  BY <1>0, <1>20 DEF ApproveCommit, Reset, session, FreshCopies
<1>21. ASSUME NEW r \in Request, NEW op \in {"pause", "resume", "won"}, NEW c \in Touched, Ask(r, op, c)
      PROVE  FreshCopies'
  BY <1>0, <1>21 DEF Ask, session, FreshCopies
<1>22. ASSUME NEW r \in Request, Start(r)
      PROVE  FreshCopies'
  BY <1>0, <1>22 DEF Start, session, FreshCopies
<1>23. ASSUME NEW r \in Request, Commit(r)
      PROVE  FreshCopies'
  BY <1>0, <1>23 DEF Commit, session, FreshCopies
<1>24. ASSUME NEW B \in SUBSET Contact, AddContacts(B)
      PROVE  FreshCopies'
  BY <1>0, <1>24 DEF AddContacts, session, FreshCopies
<1>25. ASSUME NEW c \in Touched, Suppress(c)
      PROVE  FreshCopies'
  BY <1>0, <1>25 DEF Suppress, session, FreshCopies
<1>26. ASSUME NEW r \in Request, NEW c \in Touched, NEW reply \in Replies,
            NEW answer \in {"none", "manual", "held", "sent", "failed", "unknown"},
            Receive(r, c, reply, answer)
      PROVE  FreshCopies'
  BY <1>0, <1>26 DEF Receive, session, FreshCopies
<1>27. ASSUME NEW r \in Request, CommitReply(r)
      PROVE  FreshCopies'
  BY <1>0, <1>27 DEF CommitReply, session, FreshCopies
<1>28. ASSUME NEW c \in Contact, TimePasses(c)
      PROVE  FreshCopies'
  BY <1>0, <1>28 DEF TimePasses, session, FreshCopies
<1>29. CASE UNCHANGED vars
  BY <1>29 DEF vars, session, FreshCopies
<1>30. QED
  BY <1>1, <1>2, <1>3, <1>4, <1>5, <1>6, <1>7, <1>8, <1>9, <1>10, <1>11, <1>12, <1>13, <1>14,
     <1>15, <1>16, <1>17, <1>18, <1>19, <1>20, <1>21, <1>22, <1>23, <1>24, <1>25, <1>26, <1>27, <1>28, <1>29,
     NextCases DEF JobCase, SenderCase, EndpointCase, RequestCase, WorldCase

\* ForcedLater is kept by every step.
LEMMA ForcedLaterStep == NativeInv /\ Fresh /\ [Next]_vars => ForcedLater'
<1> SUFFICES ASSUME NativeInv, Fresh, [Next]_vars
             PROVE  ForcedLater'
  OBVIOUS
<1> USE Actors DEF ForcedLater
<1>0. /\ \A w \in Forced : \A c \in left[w] : row'[c].status # "new"
      /\ \A w \in Forced : cur[w] # Null => row'[cur[w]].status # "new"
  BY NeverNewAgain DEF NotNewAgain, Fresh, LockInv, Knowledge, PlansKnown, NativeInv, TypeOK, ThreadsTyped
<1> USE DEF NativeInv, TypeOK, ThreadsTyped
<1>1. ASSUME NEW w \in Job, Sweep(w)
      PROVE  ForcedLater'
  <2>1. \A f \in Forced : left'[f] \subseteq left[f] /\ cur'[f] \in {Null, cur[f]} \cup left[f]
    BY <1>1 DEF Sweep, session
  <2>2. QED
    BY <1>0, <2>1
<1>2. ASSUME NEW w \in Job, Claim(w)
      PROVE  ForcedLater'
  <2>1. \A f \in Forced : left'[f] \subseteq left[f] /\ cur'[f] \in {Null, cur[f]} \cup left[f]
    BY <1>2 DEF Claim, session
  <2>2. QED
    BY <1>0, <2>1
<1>3. ASSUME NEW w \in Job, ClaimNothing(w)
      PROVE  ForcedLater'
  <2>1. \A f \in Forced : left'[f] \subseteq left[f] /\ cur'[f] \in {Null, cur[f]} \cup left[f]
    BY <1>3 DEF ClaimNothing, Reset, session
  <2>2. QED
    BY <1>0, <2>1
<1>4. ASSUME NEW w \in Sender, NEW c \in Contact, Begin(w, c)
      PROVE  ForcedLater'
  <2>1. \A f \in Forced : left'[f] \subseteq left[f] /\ cur'[f] \in {Null, cur[f]} \cup left[f]
    BY <1>4 DEF Begin, session
  <2>2. QED
    BY <1>0, <2>1
<1>5. ASSUME NEW w \in Sender, Hold(w)
      PROVE  ForcedLater'
  <2>1. \A f \in Forced : left'[f] \subseteq left[f] /\ cur'[f] \in {Null, cur[f]} \cup left[f]
    BY <1>5 DEF Hold, session
  <2>2. QED
    BY <1>0, <2>1
<1>6. ASSUME NEW w \in Sender, Raise(w)
      PROVE  ForcedLater'
  <2>1. \A f \in Forced : left'[f] \subseteq left[f] /\ cur'[f] \in {Null, cur[f]} \cup left[f]
    BY <1>6 DEF Raise, session
  <2>2. QED
    BY <1>0, <2>1
<1>7. ASSUME NEW w \in Sender, NEW o \in Outcomes, Send(w, o)
      PROVE  ForcedLater'
  <2>1. \A f \in Forced : left'[f] \subseteq left[f] /\ cur'[f] \in {Null, cur[f]} \cup left[f]
    BY <1>7 DEF Send, session
  <2>2. QED
    BY <1>0, <2>1
<1>8. ASSUME NEW w \in InitialJob, WriteInitial(w)
      PROVE  ForcedLater'
  <2>1. \A f \in Forced : left'[f] \subseteq left[f] /\ cur'[f] \in {Null, cur[f]} \cup left[f]
    BY <1>8 DEF WriteInitial, NextContact, release_claim, session
  <2>2. QED
    BY <1>0, <2>1
<1>9. ASSUME NEW w \in InitialJob, RollbackInitial(w) \/ CommitFails(w)
      PROVE  ForcedLater'
  <2>1. \A f \in Forced : left'[f] \subseteq left[f] /\ cur'[f] \in {Null, cur[f]} \cup left[f]
    BY <1>9 DEF RollbackInitial, CommitFails, RolledBack, NextContact, release_claim, session
  <2>2. QED
    BY <1>0, <2>1
<1>10. ASSUME NEW w \in FollowJob, WriteFollow(w)
      PROVE  ForcedLater'
  <2>1. \A f \in Forced : left'[f] \subseteq left[f] /\ cur'[f] \in {Null, cur[f]} \cup left[f]
    BY <1>10 DEF WriteFollow, NextContact, session
  <2>2. QED
    BY <1>0, <2>1
<1>11. ASSUME NEW w \in Job, Finish(w)
      PROVE  ForcedLater'
  <2>1. \A f \in Forced : left'[f] \subseteq left[f] /\ cur'[f] \in {Null, cur[f]} \cup left[f]
    BY <1>11 DEF Finish, Reset, session
  <2>2. QED
    BY <1>0, <2>1
<1>12. ASSUME NEW w \in Session, Dies(w)
      PROVE  ForcedLater'
  <2>1. \A f \in Forced : left'[f] \subseteq left[f] /\ cur'[f] \in {Null, cur[f]} \cup left[f]
    BY <1>12 DEF Dies, Reset, session
  <2>2. QED
    BY <1>0, <2>1
<1>13. ASSUME NEW w \in Job, ReleaseAllClaims(w)
      PROVE  ForcedLater'
  <2>1. \A f \in Forced : left'[f] \subseteq left[f] /\ cur'[f] \in {Null, cur[f]} \cup left[f]
    BY <1>13 DEF ReleaseAllClaims, session
  <2>2. QED
    BY <1>0, <2>1
<1>14. ASSUME NEW c \in Contact, LeaseExpires(c)
      PROVE  ForcedLater'
  <2>1. \A f \in Forced : left'[f] \subseteq left[f] /\ cur'[f] \in {Null, cur[f]} \cup left[f]
    BY <1>14 DEF LeaseExpires, session
  <2>2. QED
    BY <1>0, <2>1
<1>15. ASSUME NEW w \in Forced, NEW c \in Touched, ForceAsk(w, c)
      PROVE  ForcedLater'
  <2>1. row'[c].status # "new" /\ left'[w] = {c} /\ UNCHANGED cur /\ \A f \in Forced \ {w} : left'[f] = left[f]
    BY <1>15 DEF ForceAsk, can_send_followup, database
  <2>2. QED
    BY <1>0, <2>1
<1>16. ASSUME NEW w \in Forced, ForceMark(w)
      PROVE  ForcedLater'
  <2>1. \A f \in Forced : left'[f] \subseteq left[f] /\ cur'[f] \in {Null, cur[f]} \cup left[f]
    BY <1>16 DEF ForceMark, session
  <2>2. QED
    BY <1>0, <2>1
<1>17. ASSUME NEW w \in Forced, WriteForced(w)
      PROVE  ForcedLater'
  <2>1. \A f \in Forced : left'[f] \subseteq left[f] /\ cur'[f] \in {Null, cur[f]} \cup left[f]
    BY <1>17 DEF WriteForced, Reset, session
  <2>2. QED
    BY <1>0, <2>1
<1>18. ASSUME NEW a \in Approval, NEW c \in Touched, ApproveOpen(a, c)
      PROVE  ForcedLater'
  <2>1. \A f \in Forced : left'[f] \subseteq left[f] /\ cur'[f] \in {Null, cur[f]} \cup left[f]
    BY <1>18 DEF ApproveOpen, session
  <2>2. QED
    BY <1>0, <2>1
<1>19. ASSUME NEW a \in Approval, NEW o \in Outcomes, ApproveSend(a, o)
      PROVE  ForcedLater'
  <2>1. \A f \in Forced : left'[f] \subseteq left[f] /\ cur'[f] \in {Null, cur[f]} \cup left[f]
    BY <1>19 DEF ApproveSend, session
  <2>2. QED
    BY <1>0, <2>1
<1>20. ASSUME NEW a \in Approval, ApproveCommit(a)
      PROVE  ForcedLater'
  <2>1. \A f \in Forced : left'[f] \subseteq left[f] /\ cur'[f] \in {Null, cur[f]} \cup left[f]
    BY <1>20 DEF ApproveCommit, Reset, session
  <2>2. QED
    BY <1>0, <2>1
<1>21. ASSUME NEW r \in Request, NEW op \in {"pause", "resume", "won"}, NEW c \in Touched, Ask(r, op, c)
      PROVE  ForcedLater'
  <2>1. \A f \in Forced : left'[f] \subseteq left[f] /\ cur'[f] \in {Null, cur[f]} \cup left[f]
    BY <1>21 DEF Ask, session
  <2>2. QED
    BY <1>0, <2>1
<1>22. ASSUME NEW r \in Request, Start(r)
      PROVE  ForcedLater'
  <2>1. \A f \in Forced : left'[f] \subseteq left[f] /\ cur'[f] \in {Null, cur[f]} \cup left[f]
    BY <1>22 DEF Start, session
  <2>2. QED
    BY <1>0, <2>1
<1>23. ASSUME NEW r \in Request, Commit(r)
      PROVE  ForcedLater'
  <2>1. \A f \in Forced : left'[f] \subseteq left[f] /\ cur'[f] \in {Null, cur[f]} \cup left[f]
    BY <1>23 DEF Commit, session
  <2>2. QED
    BY <1>0, <2>1
<1>24. ASSUME NEW B \in SUBSET Contact, AddContacts(B)
      PROVE  ForcedLater'
  <2>1. \A f \in Forced : left'[f] \subseteq left[f] /\ cur'[f] \in {Null, cur[f]} \cup left[f]
    BY <1>24 DEF AddContacts, session
  <2>2. QED
    BY <1>0, <2>1
<1>25. ASSUME NEW c \in Touched, Suppress(c)
      PROVE  ForcedLater'
  <2>1. \A f \in Forced : left'[f] \subseteq left[f] /\ cur'[f] \in {Null, cur[f]} \cup left[f]
    BY <1>25 DEF Suppress, session
  <2>2. QED
    BY <1>0, <2>1
<1>26. ASSUME NEW r \in Request, NEW c \in Touched, NEW reply \in Replies,
            NEW answer \in {"none", "manual", "held", "sent", "failed", "unknown"},
            Receive(r, c, reply, answer)
      PROVE  ForcedLater'
  <2>1. \A f \in Forced : left'[f] \subseteq left[f] /\ cur'[f] \in {Null, cur[f]} \cup left[f]
    BY <1>26 DEF Receive, session
  <2>2. QED
    BY <1>0, <2>1
<1>27. ASSUME NEW r \in Request, CommitReply(r)
      PROVE  ForcedLater'
  <2>1. \A f \in Forced : left'[f] \subseteq left[f] /\ cur'[f] \in {Null, cur[f]} \cup left[f]
    BY <1>27 DEF CommitReply, session
  <2>2. QED
    BY <1>0, <2>1
<1>28. ASSUME NEW c \in Contact, TimePasses(c)
      PROVE  ForcedLater'
  <2>1. \A f \in Forced : left'[f] \subseteq left[f] /\ cur'[f] \in {Null, cur[f]} \cup left[f]
    BY <1>28 DEF TimePasses, session
  <2>2. QED
    BY <1>0, <2>1
<1>29. CASE UNCHANGED vars
  BY <1>29, <1>0 DEF vars, session, ForcedLater
<1>30. QED
  BY <1>1, <1>2, <1>3, <1>4, <1>5, <1>6, <1>7, <1>8, <1>9, <1>10, <1>11, <1>12, <1>13, <1>14,
     <1>15, <1>16, <1>17, <1>18, <1>19, <1>20, <1>21, <1>22, <1>23, <1>24, <1>25, <1>26, <1>27, <1>28, <1>29,
     NextCases DEF JobCase, SenderCase, EndpointCase, RequestCase, WorldCase

\* Fresh is kept by every step.
LEMMA FreshStep == NativeInv /\ Fresh /\ [Next]_vars => Fresh'
BY FreshRowsStep, FreshLocksStep, FreshCopiesStep, ForcedLaterStep DEF Fresh

Before == {"new", "paused", "closed_won"}

\* An initial job whose claim was not dropped holds it, is alone with its contact, and nobody
\* has moved the contact into the sequence.
Carries(w, c) == View(w, c).claim = w /\ View(w, c).lease = TRUE

Alone(w, c) ==
  /\ \A v \in Job : v # w => c \notin DOMAIN tx[v]
  /\ \A v \in InitialJob : v # w => c \notin Batch(v)
  /\ \A v \in Forced : c \notin left[v] /\ cur[v] # c

Unsent(w, c) ==
  /\ row[c].status \in Before
  /\ c \in DOMAIN tx[w] => tx[w][c].status \in Before
  /\ cur[w] = c => snap[w].status \in Before

Owned ==
  \A w \in InitialJob : \A c \in Batch(w) :
    ~Excepted(c) => Carries(w, c) /\ Alone(w, c) /\ Unsent(w, c)

\* Once excepted, a contact stays so.
Grows == /\ suppressed \subseteq suppressed' /\ moved \subseteq moved'
         /\ \A c \in Contact : dropped'[c] >= dropped[c]

\* The sets and counters behind Excepted only grow.
LEMMA GrowsStep == TypeOK /\ [Next]_vars => Grows
<1> SUFFICES ASSUME TypeOK, [Next]_vars
             PROVE  Grows
  OBVIOUS
<1> USE TallyTyped DEF TypeOK, CountsTyped, Grows
<1>0. /\ \A c \in Contact : dropped[c] \in Nat
      /\ \A S : \A c \in Contact : Tally(dropped, S)[c] >= dropped[c]
  BY TallyTyped
<1>1. ASSUME NEW w \in Job, Sweep(w)
      PROVE  Grows
  BY <1>0, <1>1 DEF Sweep, database, history
<1>2. ASSUME NEW w \in Job, Claim(w)
      PROVE  Grows
  <2>1. UNCHANGED <<suppressed, moved>> /\ \E S : dropped' = Tally(dropped, S)
    BY <1>2 DEF Claim, database
  <2>2. QED
    BY <1>0, <2>1
<1>3. ASSUME NEW w \in Job, ClaimNothing(w)
      PROVE  Grows
  <2>1. UNCHANGED <<suppressed, moved>> /\ \E S : dropped' = Tally(dropped, S)
    BY <1>3 DEF ClaimNothing, database
  <2>2. QED
    BY <1>0, <2>1
<1>4. ASSUME NEW w \in Sender, NEW c \in Contact, Begin(w, c)
      PROVE  Grows
  BY <1>0, <1>4 DEF Begin, database, history
<1>5. ASSUME NEW w \in Sender, Hold(w)
      PROVE  Grows
  BY <1>0, <1>5 DEF Hold, database, history
<1>6. ASSUME NEW w \in Sender, Raise(w)
      PROVE  Grows
  BY <1>0, <1>6 DEF Raise, database, history
<1>7. ASSUME NEW w \in Sender, NEW o \in Outcomes, Send(w, o)
      PROVE  Grows
  BY <1>0, <1>7 DEF Send, database, history
<1>8. ASSUME NEW w \in InitialJob, WriteInitial(w)
      PROVE  Grows
  <2>1. UNCHANGED <<suppressed, moved>> /\ \E S : dropped' = Tally(dropped, S)
    BY <1>8 DEF WriteInitial, database
  <2>2. QED
    BY <1>0, <2>1
<1>9. ASSUME NEW w \in InitialJob, RollbackInitial(w) \/ CommitFails(w)
      PROVE  Grows
  <2>1. \E m : RolledBack(w, m)
    BY <1>9 DEF RollbackInitial, CommitFails
  <2>2. UNCHANGED <<suppressed, moved>> /\ \E S : dropped' = Tally(dropped, S)
    BY <2>1 DEF RolledBack, database
  <2>3. QED
    BY <1>0, <2>2
<1>10. ASSUME NEW w \in FollowJob, WriteFollow(w)
      PROVE  Grows
  BY <1>0, <1>10 DEF WriteFollow, database, history
<1>11. ASSUME NEW w \in Job, Finish(w)
      PROVE  Grows
  BY <1>0, <1>11 DEF Finish, database, history
<1>12. ASSUME NEW w \in Session, Dies(w)
      PROVE  Grows
  BY <1>0, <1>12 DEF Dies, database, history
<1>13. ASSUME NEW w \in Job, ReleaseAllClaims(w)
      PROVE  Grows
  <2>1. UNCHANGED <<suppressed, moved>> /\ \E S : dropped' = Tally(dropped, S)
    BY <1>13 DEF ReleaseAllClaims, database
  <2>2. QED
    BY <1>0, <2>1
<1>14. ASSUME NEW c \in Contact, LeaseExpires(c)
      PROVE  Grows
  <2>1. UNCHANGED <<suppressed, moved>> /\ (dropped' = dropped \/ \E S : dropped' = Tally(dropped, S))
    BY <1>14 DEF LeaseExpires
  <2>2. QED
    BY <1>0, <2>1
<1>15. ASSUME NEW w \in Forced, NEW c \in Touched, ForceAsk(w, c)
      PROVE  Grows
  BY <1>0, <1>15 DEF ForceAsk, database, history
<1>16. ASSUME NEW w \in Forced, ForceMark(w)
      PROVE  Grows
  BY <1>0, <1>16 DEF ForceMark, database, history
<1>17. ASSUME NEW w \in Forced, WriteForced(w)
      PROVE  Grows
  BY <1>0, <1>17 DEF WriteForced, database, history
<1>18. ASSUME NEW a \in Approval, NEW c \in Touched, ApproveOpen(a, c)
      PROVE  Grows
  BY <1>0, <1>18 DEF ApproveOpen, database, history
<1>19. ASSUME NEW a \in Approval, NEW o \in Outcomes, ApproveSend(a, o)
      PROVE  Grows
  BY <1>0, <1>19 DEF ApproveSend, database, history
<1>20. ASSUME NEW a \in Approval, ApproveCommit(a)
      PROVE  Grows
  BY <1>0, <1>20 DEF ApproveCommit, database, history
<1>21. ASSUME NEW r \in Request, NEW op \in {"pause", "resume", "won"}, NEW c \in Touched, Ask(r, op, c)
      PROVE  Grows
  BY <1>0, <1>21 DEF Ask, database, history
<1>22. ASSUME NEW r \in Request, Start(r)
      PROVE  Grows
  BY <1>0, <1>22 DEF Start, database, history
<1>23. ASSUME NEW r \in Request, Commit(r)
      PROVE  Grows
  BY <1>0, <1>23 DEF Commit, database, history
<1>24. ASSUME NEW B \in SUBSET Contact, AddContacts(B)
      PROVE  Grows
  BY <1>0, <1>24 DEF AddContacts, database, history
<1>25. ASSUME NEW c \in Touched, Suppress(c)
      PROVE  Grows
  BY <1>0, <1>25 DEF Suppress, Suppressed
<1>26. ASSUME NEW r \in Request, NEW c \in Touched, NEW reply \in Replies,
            NEW answer \in {"none", "manual", "held", "sent", "failed", "unknown"},
            Receive(r, c, reply, answer)
      PROVE  Grows
  BY <1>0, <1>26 DEF Receive, database, history
<1>27. ASSUME NEW r \in Request, CommitReply(r)
      PROVE  Grows
  BY <1>0, <1>27 DEF CommitReply, Suppressed
<1>28. ASSUME NEW c \in Contact, TimePasses(c)
      PROVE  Grows
  BY <1>0, <1>28 DEF TimePasses, database, history
<1>29. CASE UNCHANGED vars
  BY <1>29, <1>0 DEF vars, database, history
<1>30. QED
  BY <1>1, <1>2, <1>3, <1>4, <1>5, <1>6, <1>7, <1>8, <1>9, <1>10, <1>11, <1>12, <1>13, <1>14,
     <1>15, <1>16, <1>17, <1>18, <1>19, <1>20, <1>21, <1>22, <1>23, <1>24, <1>25, <1>26, <1>27, <1>28, <1>29,
     NextCases DEF JobCase, SenderCase, EndpointCase, RequestCase, WorldCase

\* A contact once excepted stays so.
LEMMA ExceptedStays ==
  ASSUME TypeOK, [Next]_vars, TypeOK'
  PROVE  \A c \in Contact : Excepted(c) => Excepted(c)'
<1>1. Grows
  BY GrowsStep
<1>2. \A c \in Contact : dropped[c] \in Nat /\ dropped'[c] \in Nat
  BY DEF TypeOK, CountsTyped
<1>3. QED
  BY <1>1, <1>2 DEF Grows, Excepted

Owns(w, c) == Carries(w, c) /\ Alone(w, c) /\ Unsent(w, c)

\* The sessions of S do not move.
Rest(S) ==
  \A u \in S : /\ pc'[u] = pc[u] /\ tx'[u] = tx[u] /\ left'[u] = left[u]
               /\ cur'[u] = cur[u] /\ snap'[u] = snap[u]

RowKept(c) ==
  /\ row'[c].claim = row[c].claim /\ row'[c].lease = row[c].lease
  /\ row'[c].status = row[c].status \/ row'[c].status \in Before

\* Nobody else comes near c.
StaysAlone(w, c) ==
  /\ \A u \in Job : u # w /\ c \in DOMAIN tx'[u] => c \in DOMAIN tx[u]
  /\ \A u \in InitialJob : u # w /\ c \in Batch(u)' => c \in Batch(u)
  /\ \A u \in Forced : c \in left'[u] \/ cur'[u] = c => c \in left[u] \/ cur[u] = c

\* What an initial job owns it still owns after a step that leaves its session, the row and its
\* solitude alone.
LEMMA OwnsKept ==
  ASSUME NEW w \in InitialJob, NEW c \in Contact, Owns(w, c), RowKept(c), StaysAlone(w, c),
         tx'[w] = tx[w],
         cur'[w] = c => (cur[w] = c /\ snap'[w] = snap[w]) \/ snap'[w].status \in Before
  PROVE  Owns(w, c)'
<1>1. Carries(w, c)'
  BY DEF Owns, Carries, View, RowKept
<1>2. Alone(w, c)'
  BY DEF Owns, Alone, StaysAlone
<1>3. Unsent(w, c)'
  BY DEF Owns, Unsent, RowKept
<1>4. QED
  BY <1>1, <1>2, <1>3 DEF Owns

\* Sessions at rest keep their batches and come near no contact.
LEMMA RestIsQuiet ==
  ASSUME NEW S, Rest(S), NEW w \in InitialJob, NEW c
  PROVE  /\ w \in S => Batch(w)' = Batch(w) /\ tx'[w] = tx[w] /\ cur'[w] = cur[w] /\ snap'[w] = snap[w]
         /\ Sender \subseteq S => StaysAlone(w, c)
<1>1. \A u \in InitialJob : u \in S => Batch(u)' = Batch(u)
  BY DEF Rest, Batch
<1>2. w \in S => Batch(w)' = Batch(w) /\ tx'[w] = tx[w] /\ cur'[w] = cur[w] /\ snap'[w] = snap[w]
  BY <1>1 DEF Rest
<1>3. Sender \subseteq S => StaysAlone(w, c)
  BY <1>1, Actors DEF Rest, StaysAlone
<1>4. QED
  BY <1>2, <1>3

\* Owned is kept by every step: what would take a claim from an initial job is counted in
\* dropped.
LEMMA OwnedStep == NativeInv /\ Fresh /\ Owned /\ [Next]_vars => Owned'
<1> SUFFICES ASSUME NativeInv, Fresh, Owned, [Next]_vars,
                    NEW v \in InitialJob, NEW d \in Batch(v)', ~Excepted(d)'
             PROVE  Owns(v, d)'
  BY DEF Owned, Owns
<1> USE Actors
<1>0. /\ d \in Contact /\ v \in Session /\ v # Null /\ row[d] \in Row /\ row[d].lease \in BOOLEAN
      /\ \A u \in InitialJob : d \in Batch(u) => Owns(u, d)
      /\ \A S : dropped' = Tally(dropped, S) => d \notin S
      /\ ~Excepted(d)'
  <2>1. TypeOK'
    BY TypeStep DEF NativeInv
  <2>2. d \in Contact
    BY <2>1, Actors DEF TypeOK, ThreadsTyped, Batch
  <2>3. ~Excepted(d)
    BY <2>1, <2>2, ExceptedStays DEF NativeInv
  <2>4. \A u \in InitialJob : d \in Batch(u) => Owns(u, d)
    BY <2>3 DEF Owned, Owns
  <2>5. row[d] \in Row /\ row[d].lease \in BOOLEAN
    BY <2>2 DEF NativeInv, TypeOK, RowTyped, Row
  <2>6. ASSUME NEW S, dropped' = Tally(dropped, S), d \in S PROVE FALSE
    <3>1. dropped'[d] = dropped[d] + 1 /\ dropped[d] \in Nat
      BY <2>2, <2>6, TallyTyped DEF NativeInv, TypeOK, CountsTyped
    <3>2. QED
      BY <3>1 DEF Excepted
  <2>7. QED
    BY <2>2, <2>4, <2>5, <2>6, Actors
<1>1. ASSUME NEW w \in Job, Sweep(w)
      PROVE  Owns(v, d)'
  <2>1. Rest(Sender \ {w})
    BY <1>1 DEF Sweep, session, Rest, TypeOK, ThreadsTyped, LocksTyped, NativeInv
  <2>2. /\ pc'[w] \in {"idle", "sweep"} /\ cur'[w] = Null /\ DOMAIN tx'[w] \subseteq DOMAIN tx[w]
        /\ w \in Forced => left'[w] = {}
    BY <1>1 DEF Sweep, session, Busy, TypeOK, ThreadsTyped, LocksTyped, NativeInv
  <2>3. v # w
    BY <2>2 DEF Batch
  <2>4. Batch(v)' = Batch(v) /\ tx'[v] = tx[v] /\ cur'[v] = cur[v] /\ snap'[v] = snap[v]
    BY <2>1, <2>3, RestIsQuiet
  <2>5. Owns(v, d)
    BY <1>0, <2>4
  <2>6. StaysAlone(v, d)
    BY <1>0, <2>1, <2>2, <2>3 DEF StaysAlone, Rest, Batch
  <2>7. RowKept(d)
    BY <1>1 DEF Sweep, database, RowKept
  <2>8. QED
    BY <1>0, <2>4, <2>5, <2>6, <2>7, OwnsKept
<1>2. ASSUME NEW w \in Job, Claim(w)
      PROVE  Owns(v, d)'
  <2>1. /\ Taken(w) /\ UNCHANGED <<row, cur, snap>> /\ left' = [left EXCEPT ![w] = Due(w) \ dormant]
        /\ pc' = [pc EXCEPT ![w] = "loop"] /\ cur[w] = Null
    BY <1>2, ClaimedRows DEF Claim, database, Busy, TypeOK, ThreadsTyped, LocksTyped, NativeInv
  <2>2. Rest(Sender \ {w}) /\ Batch(w)' \subseteq Due(w)
    BY <2>1 DEF Rest, Taken, Batch, TypeOK, ThreadsTyped, LocksTyped, NativeInv
  <2>3. d \in Due(w) => d \in Swept(w) \/ row[d].claim = Null \/ row[d].lease = FALSE
    BY <1>0 DEF Due, Claimable
  <2>4. ~(d \in Swept(w) /\ Counted(w, d))
    BY <1>0, <1>2 DEF Claim, Excepted
  <2>5. \A u \in InitialJob : u # w /\ d \in Batch(u) => d \notin Due(w) /\ d \notin Swept(w)
    BY <1>0, <2>1, <2>3, <2>4 DEF Owns, Carries, View, Taken, FreeFor, Counted
  <2>6. v # w => Batch(v)' = Batch(v) /\ tx'[v] = tx[v] /\ cur'[v] = cur[v] /\ snap'[v] = snap[v]
    BY <2>2, RestIsQuiet
  <2>7. v # w => Owns(v, d) /\ RowKept(d) /\ d \notin Due(w) \cup Swept(w)
    BY <1>0, <2>1, <2>5, <2>6 DEF RowKept
  <2>8. \A u \in InitialJob : u # w => Batch(u)' = Batch(u)
    BY <2>2, RestIsQuiet
  <2>9. v # w => StaysAlone(v, d)
    BY <2>1, <2>2, <2>7, <2>8 DEF StaysAlone, Rest, Taken
  <2>10. v # w => Owns(v, d)'
    BY <1>0, <2>6, <2>7, <2>9, OwnsKept
  <2>11. v = w => d \in Due(w)
    BY <2>2
  <2>12. v = w => Carries(v, d)' /\ Unsent(v, d)'
    BY <1>0, <2>1, <2>11 DEF Carries, Unsent, Before, View, Taken, Same
  <2>13. v = w => Alone(v, d)'
    BY <1>0, <2>1, <2>2, <2>5, <2>8, <2>11 DEF Alone, Taken, FreeFor, Rest, Fresh, ForcedLater
  <2>14. QED
    BY <2>10, <2>12, <2>13 DEF Owns
<1>3. ASSUME NEW w \in Job, ClaimNothing(w)
      PROVE  Owns(v, d)'
  <2>1. Rest(Sender \ {w})
    BY <1>3 DEF ClaimNothing, Reset, session, Rest, TypeOK, ThreadsTyped, LocksTyped, NativeInv
  <2>2. /\ pc'[w] \in {"idle", "sweep"} /\ cur'[w] = Null /\ DOMAIN tx'[w] \subseteq DOMAIN tx[w]
        /\ w \in Forced => left'[w] = {}
    BY <1>3 DEF ClaimNothing, Reset, session, Busy, TypeOK, ThreadsTyped, LocksTyped, NativeInv
  <2>3. v # w
    BY <2>2 DEF Batch
  <2>4. Batch(v)' = Batch(v) /\ tx'[v] = tx[v] /\ cur'[v] = cur[v] /\ snap'[v] = snap[v]
    BY <2>1, <2>3, RestIsQuiet
  <2>5. Owns(v, d)
    BY <1>0, <2>4
  <2>6. StaysAlone(v, d)
    BY <1>0, <2>1, <2>2, <2>3 DEF StaysAlone, Rest, Batch
  <2>7. ~(d \in Swept(w) /\ Counted(w, d))
    BY <1>0, <1>3 DEF ClaimNothing, Excepted
  <2>8. d \notin Swept(w)
    BY <1>0, <1>3, <2>3, <2>4, <2>5, <2>7 DEF ClaimNothing, Counted, Owns, Carries, View, FreeFor
  <2>9. RowKept(d)
    BY <1>0, <1>3, <2>8 DEF ClaimNothing, RowKept
  <2>10. QED
    BY <1>0, <2>4, <2>5, <2>6, <2>9, OwnsKept
<1>4. ASSUME NEW w \in Sender, NEW c \in Contact, Begin(w, c)
      PROVE  Owns(v, d)'
  <2>1. Rest(Sender \ {w})
    BY <1>4 DEF Begin, session, Rest, TypeOK, ThreadsTyped, LocksTyped, NativeInv
  <2>2. /\ UNCHANGED <<row, tx>> /\ pc[w] = "loop" /\ cur[w] = Null /\ c \in left[w] /\ left'[w] = left[w] \ {c}
        /\ cur'[w] = c /\ pc'[w] \in {"draft", "write"} /\ snap'[w] = View(w, c)
    BY <1>4 DEF Begin, database, Busy, TypeOK, ThreadsTyped, LocksTyped, NativeInv
  <2>3. Batch(w)' = Batch(w)
    BY <1>0, <2>2 DEF Batch
  <2>4. Batch(v)' = Batch(v) /\ Owns(v, d)
    BY <1>0, <2>1, <2>3, RestIsQuiet
  <2>5. StaysAlone(v, d) /\ RowKept(d)
    BY <1>0, <2>1, <2>2, <2>3 DEF StaysAlone, Rest, RowKept, Batch
  <2>6. cur'[v] = d => (cur[v] = d /\ snap'[v] = snap[v]) \/ snap'[v].status \in Before
    BY <1>0, <2>1, <2>2, <2>4 DEF Rest, Owns, Unsent, View
  <2>7. QED
    BY <1>0, <2>2, <2>4, <2>5, <2>6, OwnsKept
<1>5. ASSUME NEW w \in Sender, Hold(w)
      PROVE  Owns(v, d)'
  <2>1. UNCHANGED <<row, tx, left, cur, snap>> /\ \A u \in Session : pc'[u] = pc[u] \/ (pc[u] = "draft" /\ pc'[u] = "write")
    BY <1>5 DEF Hold, database, TypeOK, ThreadsTyped, LocksTyped, NativeInv
  <2>2. \A u \in InitialJob : Batch(u)' = Batch(u)
    BY <2>1 DEF Batch
  <2>3. Owns(v, d) /\ StaysAlone(v, d) /\ RowKept(d)
    BY <1>0, <2>1, <2>2 DEF StaysAlone, RowKept
  <2>4. QED
    BY <1>0, <2>1, <2>3, OwnsKept
<1>6. ASSUME NEW w \in Sender, Raise(w)
      PROVE  Owns(v, d)'
  <2>1. UNCHANGED <<row, tx, left, cur, snap>> /\ \A u \in Session : pc'[u] = pc[u] \/ (pc[u] = "draft" /\ pc'[u] = "write")
    BY <1>6 DEF Raise, database, TypeOK, ThreadsTyped, LocksTyped, NativeInv
  <2>2. \A u \in InitialJob : Batch(u)' = Batch(u)
    BY <2>1 DEF Batch
  <2>3. Owns(v, d) /\ StaysAlone(v, d) /\ RowKept(d)
    BY <1>0, <2>1, <2>2 DEF StaysAlone, RowKept
  <2>4. QED
    BY <1>0, <2>1, <2>3, OwnsKept
<1>7. ASSUME NEW w \in Sender, NEW o \in Outcomes, Send(w, o)
      PROVE  Owns(v, d)'
  <2>1. UNCHANGED <<row, tx, left, cur, snap>> /\ \A u \in Session : pc'[u] = pc[u] \/ (pc[u] = "draft" /\ pc'[u] = "write")
    BY <1>7 DEF Send, database, TypeOK, ThreadsTyped, LocksTyped, NativeInv
  <2>2. \A u \in InitialJob : Batch(u)' = Batch(u)
    BY <2>1 DEF Batch
  <2>3. Owns(v, d) /\ StaysAlone(v, d) /\ RowKept(d)
    BY <1>0, <2>1, <2>2 DEF StaysAlone, RowKept
  <2>4. QED
    BY <1>0, <2>1, <2>3, OwnsKept
<1>8. ASSUME NEW w \in InitialJob, WriteInitial(w)
      PROVE  Owns(v, d)'
  <2>1. Rest(Sender \ {w})
    BY <1>8 DEF WriteInitial, NextContact, release_claim, Rest, TypeOK, ThreadsTyped, LocksTyped, NativeInv
  <2>2. /\ cur[w] \in Contact /\ cur[w] \notin left[w] /\ UNCHANGED left /\ cur'[w] = Null /\ pc'[w] = "loop"
        /\ pc[w] = "write" /\ DOMAIN tx'[w] = {cur[w]}
    BY <1>8 DEF WriteInitial, NextContact, release_claim, Busy, LockInv, Places, TypeOK, ThreadsTyped, LocksTyped, NativeInv
  <2>3. v # w => Batch(v)' = Batch(v) /\ tx'[v] = tx[v] /\ cur'[v] = cur[v] /\ snap'[v] = snap[v]
    BY <2>1, RestIsQuiet
  <2>4. cur[w] \in Batch(w) /\ (v = w => d \in left[w] /\ d # cur[w] /\ d \in Batch(w) /\ d \notin DOMAIN tx'[w])
    BY <1>0, <2>2 DEF Batch
  <2>5. Owns(v, d)
    BY <1>0, <2>3, <2>4
  <2>6. v # w => d # cur[w] /\ d \notin DOMAIN tx[w]
    BY <1>0, <1>8, <2>4, <2>5 DEF Owns, Alone
  <2>7. StaysAlone(v, d)
    BY <1>0, <2>1, <2>2, <2>6 DEF StaysAlone, Rest, Batch
  <2>8. row'[d] = IF v = w THEN View(w, d) ELSE row[d]
    BY <1>0, <1>8, <2>2, <2>4, <2>6 DEF WriteInitial, Committed, View
  <2>9. v = w => row'[d].claim = w /\ row'[d].lease = TRUE /\ row'[d].status \in Before
    BY <2>5, <2>8 DEF Owns, Carries, Unsent, View
  <2>10. v = w => Carries(v, d)' /\ Unsent(v, d)'
    BY <1>0, <2>2, <2>4, <2>9 DEF Carries, Unsent, View
  <2>11. v = w => Owns(v, d)'
    BY <2>5, <2>7, <2>10 DEF Owns, Alone, StaysAlone
  <2>12. v # w => RowKept(d)
    BY <2>8 DEF RowKept
  <2>13. QED
    BY <1>0, <2>3, <2>5, <2>7, <2>11, <2>12, OwnsKept
<1>9. ASSUME NEW w \in InitialJob, RollbackInitial(w) \/ CommitFails(w)
      PROVE  Owns(v, d)'
  <2>1. Rest(Sender \ {w})
    BY <1>9 DEF RollbackInitial, CommitFails, RolledBack, NextContact, release_claim, Rest, TypeOK, ThreadsTyped, LocksTyped, NativeInv
  <2>2. /\ cur[w] \in Contact /\ cur[w] \notin left[w] /\ UNCHANGED left /\ cur'[w] = Null /\ pc'[w] = "loop"
        /\ pc[w] = "write" /\ DOMAIN tx'[w] = {cur[w]}
    BY <1>9 DEF RollbackInitial, CommitFails, RolledBack, NextContact, release_claim, Busy, LockInv, Places, TypeOK, ThreadsTyped, LocksTyped, NativeInv
  <2>3. v # w => Batch(v)' = Batch(v) /\ tx'[v] = tx[v] /\ cur'[v] = cur[v] /\ snap'[v] = snap[v]
    BY <2>1, RestIsQuiet
  <2>4. cur[w] \in Batch(w) /\ (v = w => d \in left[w] /\ d # cur[w] /\ d \in Batch(w) /\ d \notin DOMAIN tx'[w])
    BY <1>0, <2>2 DEF Batch
  <2>5. Owns(v, d)
    BY <1>0, <2>3, <2>4
  <2>6. v # w => d # cur[w] /\ d \notin DOMAIN tx[w]
    BY <1>0, <1>9, <2>4, <2>5 DEF Owns, Alone
  <2>7. StaysAlone(v, d)
    BY <1>0, <2>1, <2>2, <2>6 DEF StaysAlone, Rest, Batch
  <2>8. UNCHANGED row /\ (d \in left[w] /\ d \in DOMAIN tx[w] /\ ~Holds(w, d) => Excepted(d)')
    BY <1>0, <1>9 DEF RollbackInitial, CommitFails, RolledBack, database, Excepted
  <2>9. v = w => row[d].claim = w /\ row[d].lease = TRUE
    BY <1>0, <2>4, <2>5, <2>8 DEF Owns, Carries, View, Holds
  <2>10. v = w => Carries(v, d)' /\ row'[d].status \in Before
    BY <1>0, <2>4, <2>5, <2>8, <2>9 DEF Carries, View, Owns, Unsent
  <2>11. v = w => Unsent(v, d)'
    BY <1>0, <2>2, <2>4, <2>10 DEF Unsent
  <2>12. v = w => Owns(v, d)'
    BY <2>5, <2>7, <2>10, <2>11 DEF Owns, Alone, StaysAlone
  <2>13. RowKept(d)
    BY <2>8 DEF RowKept
  <2>14. QED
    BY <1>0, <2>3, <2>5, <2>7, <2>12, <2>13, OwnsKept
<1>10. ASSUME NEW w \in FollowJob, WriteFollow(w)
      PROVE  Owns(v, d)'
  <2>1. Rest(Sender \ {w})
    BY <1>10 DEF WriteFollow, NextContact, Rest, TypeOK, ThreadsTyped, LocksTyped, NativeInv
  <2>2. v # w /\ UNCHANGED row /\ DOMAIN tx'[w] = DOMAIN tx[w]
    BY <1>0, <1>10 DEF WriteFollow, database, TypeOK, ThreadsTyped, LocksTyped, NativeInv
  <2>3. Batch(v)' = Batch(v) /\ tx'[v] = tx[v] /\ cur'[v] = cur[v] /\ snap'[v] = snap[v]
    BY <2>1, <2>2, RestIsQuiet
  <2>4. Owns(v, d)
    BY <1>0, <2>3
  <2>5. StaysAlone(v, d) /\ RowKept(d)
    BY <1>0, <2>1, <2>2 DEF StaysAlone, Rest, RowKept, Batch
  <2>6. QED
    BY <1>0, <2>3, <2>4, <2>5, OwnsKept
<1>11. ASSUME NEW w \in Job, Finish(w)
      PROVE  Owns(v, d)'
  <2>1. Rest(Sender \ {w})
    BY <1>11 DEF Finish, Reset, session, Rest, TypeOK, ThreadsTyped, LocksTyped, NativeInv
  <2>2. /\ pc'[w] \in {"idle", "sweep"} /\ cur'[w] = Null /\ DOMAIN tx'[w] \subseteq DOMAIN tx[w]
        /\ w \in Forced => left'[w] = {}
    BY <1>11 DEF Finish, Reset, session, Busy, TypeOK, ThreadsTyped, LocksTyped, NativeInv
  <2>3. v # w
    BY <2>2 DEF Batch
  <2>4. Batch(v)' = Batch(v) /\ tx'[v] = tx[v] /\ cur'[v] = cur[v] /\ snap'[v] = snap[v]
    BY <2>1, <2>3, RestIsQuiet
  <2>5. Owns(v, d)
    BY <1>0, <2>4
  <2>6. StaysAlone(v, d)
    BY <1>0, <2>1, <2>2, <2>3 DEF StaysAlone, Rest, Batch
  <2>7. RowKept(d)
    BY <1>0, <1>11, <2>3, <2>5 DEF Finish, Committed, View, RowKept, Owns, Alone
  <2>8. QED
    BY <1>0, <2>4, <2>5, <2>6, <2>7, OwnsKept
<1>12. ASSUME NEW w \in Session, Dies(w)
      PROVE  Owns(v, d)'
  <2>1. Rest(Sender \ {w})
    BY <1>12 DEF Dies, Reset, session, Rest, TypeOK, ThreadsTyped, LocksTyped, NativeInv
  <2>2. /\ pc'[w] \in {"idle", "sweep"} /\ cur'[w] = Null /\ DOMAIN tx'[w] \subseteq DOMAIN tx[w]
        /\ w \in Forced => left'[w] = {}
    BY <1>12 DEF Dies, Reset, session, Busy, TypeOK, ThreadsTyped, LocksTyped, NativeInv
  <2>3. v # w
    BY <2>2 DEF Batch
  <2>4. Batch(v)' = Batch(v) /\ tx'[v] = tx[v] /\ cur'[v] = cur[v] /\ snap'[v] = snap[v]
    BY <2>1, <2>3, RestIsQuiet
  <2>5. Owns(v, d)
    BY <1>0, <2>4
  <2>6. StaysAlone(v, d)
    BY <1>0, <2>1, <2>2, <2>3 DEF StaysAlone, Rest, Batch
  <2>7. RowKept(d)
    BY <1>12 DEF Dies, database, RowKept
  <2>8. QED
    BY <1>0, <2>4, <2>5, <2>6, <2>7, OwnsKept
<1>13. ASSUME NEW w \in Job, ReleaseAllClaims(w)
      PROVE  Owns(v, d)'
  <2>1. Rest(Sender)
    BY <1>13 DEF ReleaseAllClaims, session, Rest
  <2>2. d \in Batch(v)
    BY <2>1, RestIsQuiet
  <2>3. Owns(v, d)
    BY <1>0, <2>2
  <2>4. row[d].claim = w => v = w
    BY <1>0, <1>13, <2>3 DEF ReleaseAllClaims, Unlocked, Owns, Carries, View
  <2>5. row[d].claim = w /\ d \in Batch(w) => Excepted(d)'
    BY <1>0, <1>13 DEF ReleaseAllClaims, Excepted
  <2>6. RowKept(d)
    BY <1>0, <1>13, <2>2, <2>4, <2>5 DEF ReleaseAllClaims, RowKept
  <2>7. QED
    BY <1>0, <2>1, <2>2, <2>3, <2>6, RestIsQuiet, OwnsKept
<1>14. ASSUME NEW c \in Contact, LeaseExpires(c)
      PROVE  Owns(v, d)'
  <2>1. Rest(Sender)
    BY <1>14 DEF LeaseExpires, session, Rest
  <2>2. d \in Batch(v)
    BY <2>1, RestIsQuiet
  <2>3. Owns(v, d)
    BY <1>0, <2>2
  <2>4. d = c => Excepted(d)'
    BY <1>0, <1>14, <2>2 DEF LeaseExpires, Excepted
  <2>5. row'[d] = row[d]
    BY <1>0, <1>14, <2>4 DEF LeaseExpires
  <2>6. RowKept(d)
    BY <2>5 DEF RowKept
  <2>7. QED
    BY <1>0, <2>1, <2>2, <2>3, <2>6, RestIsQuiet, OwnsKept
<1>15. ASSUME NEW w \in Forced, NEW c \in Touched, ForceAsk(w, c)
      PROVE  Owns(v, d)'
  <2>1. Rest(Sender \ {w})
    BY <1>15 DEF ForceAsk, session, Rest, TypeOK, ThreadsTyped, LocksTyped, NativeInv
  <2>2. Batch(v)' = Batch(v) /\ tx'[v] = tx[v] /\ cur'[v] = cur[v] /\ snap'[v] = snap[v]
    BY <1>0, <1>15, <2>1, RestIsQuiet
  <2>3. Owns(v, d)
    BY <1>0, <2>2
  <2>4. left'[w] = {c} /\ cur'[w] = cur[w] /\ c # d /\ w \notin Job
    BY <1>15, <2>3 DEF ForceAsk, can_send_followup, Owns, Unsent, Before, TypeOK, ThreadsTyped, LocksTyped, NativeInv
  <2>5. StaysAlone(v, d)
    BY <1>0, <2>1, <2>4 DEF StaysAlone, Rest, Batch
  <2>6. RowKept(d)
    BY <1>15 DEF ForceAsk, database, RowKept
  <2>7. QED
    BY <1>0, <2>2, <2>3, <2>5, <2>6, OwnsKept
<1>16. ASSUME NEW w \in Forced, ForceMark(w)
      PROVE  Owns(v, d)'
  <2>1. Rest(Sender \ {w})
    BY <1>16 DEF ForceMark, session, Rest, TypeOK, ThreadsTyped, LocksTyped, NativeInv
  <2>2. Batch(v)' = Batch(v) /\ tx'[v] = tx[v] /\ cur'[v] = cur[v] /\ snap'[v] = snap[v]
    BY <1>0, <1>16, <2>1, RestIsQuiet
  <2>3. Owns(v, d)
    BY <1>0, <2>2
  <2>4. left'[w] = left[w] /\ cur'[w] = cur[w] /\ w \notin Job
    BY <1>16 DEF ForceMark
  <2>5. StaysAlone(v, d)
    BY <1>0, <2>1, <2>4 DEF StaysAlone, Rest, Batch
  <2>6. RowKept(d)
    BY <1>0, <1>16, <2>3 DEF ForceMark, Owns, Alone, RowKept
  <2>7. QED
    BY <1>0, <2>2, <2>3, <2>5, <2>6, OwnsKept
<1>17. ASSUME NEW w \in Forced, WriteForced(w)
      PROVE  Owns(v, d)'
  <2>1. Rest(Sender \ {w})
    BY <1>17 DEF WriteForced, Reset, session, Rest, TypeOK, ThreadsTyped, LocksTyped, NativeInv
  <2>2. Batch(v)' = Batch(v) /\ tx'[v] = tx[v] /\ cur'[v] = cur[v] /\ snap'[v] = snap[v]
    BY <1>0, <1>17, <2>1, RestIsQuiet
  <2>3. Owns(v, d)
    BY <1>0, <2>2
  <2>4. left'[w] = {} /\ cur'[w] = Null /\ w \notin Job
    BY <1>17 DEF WriteForced, Reset, TypeOK, ThreadsTyped, LocksTyped, NativeInv
  <2>5. StaysAlone(v, d)
    BY <1>0, <2>1, <2>4 DEF StaysAlone, Rest, Batch
  <2>6. RowKept(d)
    BY <1>0, <1>17, <2>3 DEF WriteForced, Owns, Alone, RowKept, TypeOK, RowTyped
  <2>7. QED
    BY <1>0, <2>2, <2>3, <2>5, <2>6, OwnsKept
<1>18. ASSUME NEW a \in Approval, NEW c \in Touched, ApproveOpen(a, c)
      PROVE  Owns(v, d)'
  <2>1. Rest(Sender)
    BY <1>18 DEF ApproveOpen, session, Rest, TypeOK, ThreadsTyped, LocksTyped, NativeInv
  <2>2. d \in Batch(v)
    BY <2>1, RestIsQuiet
  <2>3. RowKept(d)
    BY <1>18 DEF ApproveOpen, database, RowKept
  <2>4. QED
    BY <1>0, <2>1, <2>2, <2>3, RestIsQuiet, OwnsKept
<1>19. ASSUME NEW a \in Approval, NEW o \in Outcomes, ApproveSend(a, o)
      PROVE  Owns(v, d)'
  <2>1. Rest(Sender)
    BY <1>19 DEF ApproveSend, session, Rest, TypeOK, ThreadsTyped, LocksTyped, NativeInv
  <2>2. d \in Batch(v)
    BY <2>1, RestIsQuiet
  <2>3. RowKept(d)
    BY <1>19 DEF ApproveSend, database, RowKept
  <2>4. QED
    BY <1>0, <2>1, <2>2, <2>3, RestIsQuiet, OwnsKept
<1>20. ASSUME NEW a \in Approval, ApproveCommit(a)
      PROVE  Owns(v, d)'
  <2>1. Rest(Sender)
    BY <1>20 DEF ApproveCommit, Reset, session, Rest, TypeOK, ThreadsTyped, LocksTyped, NativeInv
  <2>2. d \in Batch(v)
    BY <2>1, RestIsQuiet
  <2>3. RowKept(d)
    BY <1>0, <1>20 DEF ApproveCommit, RowKept, Row
  <2>4. QED
    BY <1>0, <2>1, <2>2, <2>3, RestIsQuiet, OwnsKept
<1>21. ASSUME NEW r \in Request, NEW op \in {"pause", "resume", "won"}, NEW c \in Touched, Ask(r, op, c)
      PROVE  Owns(v, d)'
  <2>1. Rest(Sender)
    BY <1>21 DEF Ask, session, Rest, TypeOK, ThreadsTyped, LocksTyped, NativeInv
  <2>2. d \in Batch(v)
    BY <2>1, RestIsQuiet
  <2>3. RowKept(d)
    BY <1>21 DEF Ask, database, RowKept
  <2>4. QED
    BY <1>0, <2>1, <2>2, <2>3, RestIsQuiet, OwnsKept
<1>22. ASSUME NEW r \in Request, Start(r)
      PROVE  Owns(v, d)'
  <2>1. Rest(Sender)
    BY <1>22 DEF Start, session, Rest, TypeOK, ThreadsTyped, LocksTyped, NativeInv
  <2>2. d \in Batch(v)
    BY <2>1, RestIsQuiet
  <2>3. RowKept(d)
    BY <1>22 DEF Start, database, RowKept
  <2>4. QED
    BY <1>0, <2>1, <2>2, <2>3, RestIsQuiet, OwnsKept
<1>23. ASSUME NEW r \in Request, Commit(r)
      PROVE  Owns(v, d)'
  <2>1. Rest(Sender)
    BY <1>23 DEF Commit, session, Rest, TypeOK, ThreadsTyped, LocksTyped, NativeInv
  <2>2. d \in Batch(v)
    BY <2>1, RestIsQuiet
  <2>3. d \in req[r].on => req[r].op # "resume"
    BY <1>0, <1>23 DEF Commit, Excepted
  <2>4. row'[d] = row[d] \/ (d \in req[r].on /\ row'[d] = Written(row[d], req[r].snap, req[r].new))
    BY <1>0, <1>23 DEF Commit
  <2>5. \A x : x = Written(row[d], req[r].snap, req[r].new) =>
          /\ x.lease = row[d].lease /\ x.claim = row[d].claim
          /\ req[r].new.status = req[r].snap.status => x.status = row[d].status
          /\ req[r].new.status # req[r].snap.status => x.status = req[r].new.status
    BY <1>0, <1>23, RequestWrites DEF Commit, NativeInv, LockInv
  <2>6. d \in req[r].on /\ req[r].new.status # req[r].snap.status => req[r].new.status \in Before
    BY <2>3, <1>23 DEF Commit, Pending, Before, NativeInv, LockInv, TypeOK, RequestsTyped
  <2>7. RowKept(d)
    BY <2>4, <2>5, <2>6 DEF RowKept
  <2>8. QED
    BY <1>0, <2>1, <2>2, <2>7, RestIsQuiet, OwnsKept
<1>24. ASSUME NEW B \in SUBSET Contact, AddContacts(B)
      PROVE  Owns(v, d)'
  <2>1. Rest(Sender)
    BY <1>24 DEF AddContacts, session, Rest, TypeOK, ThreadsTyped, LocksTyped, NativeInv
  <2>2. d \in Batch(v)
    BY <2>1, RestIsQuiet
  <2>3. RowKept(d)
    BY <1>0, <2>2, <1>24 DEF AddContacts, RowKept, Known, Batch, NativeInv, LockInv, Knowledge, PlansKnown
  <2>4. QED
    BY <1>0, <2>1, <2>2, <2>3, RestIsQuiet, OwnsKept
<1>25. ASSUME NEW c \in Touched, Suppress(c)
      PROVE  Owns(v, d)'
  <2>1. Rest(Sender)
    BY <1>25 DEF Suppress, session, Rest, TypeOK, ThreadsTyped, LocksTyped, NativeInv
  <2>2. d \in Batch(v)
    BY <2>1, RestIsQuiet
  <2>3. RowKept(d)
    BY <1>25 DEF Suppress, RowKept
  <2>4. QED
    BY <1>0, <2>1, <2>2, <2>3, RestIsQuiet, OwnsKept
<1>26. ASSUME NEW r \in Request, NEW c \in Touched, NEW reply \in Replies,
            NEW answer \in {"none", "manual", "held", "sent", "failed", "unknown"},
            Receive(r, c, reply, answer)
      PROVE  Owns(v, d)'
  <2>1. Rest(Sender)
    BY <1>26 DEF Receive, session, Rest, TypeOK, ThreadsTyped, LocksTyped, NativeInv
  <2>2. d \in Batch(v)
    BY <2>1, RestIsQuiet
  <2>3. RowKept(d)
    BY <1>26 DEF Receive, database, RowKept
  <2>4. QED
    BY <1>0, <2>1, <2>2, <2>3, RestIsQuiet, OwnsKept
<1>27. ASSUME NEW r \in Request, CommitReply(r)
      PROVE  Owns(v, d)'
  <2>1. Rest(Sender)
    BY <1>27 DEF CommitReply, session, Rest, TypeOK, ThreadsTyped, LocksTyped, NativeInv
  <2>2. d \in Batch(v)
    BY <2>1, RestIsQuiet
  <2>3. d \notin req[r].on
    BY <1>0, <1>27 DEF CommitReply, Excepted
  <2>4. RowKept(d)
    BY <1>0, <2>3, <1>27 DEF CommitReply, RowKept
  <2>5. QED
    BY <1>0, <2>1, <2>2, <2>4, RestIsQuiet, OwnsKept
<1>28. ASSUME NEW c \in Contact, TimePasses(c)
      PROVE  Owns(v, d)'
  <2>1. Rest(Sender)
    BY <1>28 DEF TimePasses, session, Rest, TypeOK, ThreadsTyped, LocksTyped, NativeInv
  <2>2. d \in Batch(v)
    BY <2>1, RestIsQuiet
  <2>3. row'[d] = row[d] \/ row'[d] = [row[d] EXCEPT !.next = IF row[d].next = "later" THEN "due" ELSE row[d].next, !.recent = FALSE]
    BY <1>0, <1>28 DEF TimePasses, NativeInv, TypeOK, RowTyped
  <2>4. row'[d].claim = row[d].claim /\ row'[d].status = row[d].status /\ row'[d].lease = row[d].lease
    BY <1>0, <2>3 DEF Row
  <2>5. RowKept(d)
    BY <2>4 DEF RowKept
  <2>6. QED
    BY <1>0, <2>1, <2>2, <2>5, RestIsQuiet, OwnsKept
<1>29. CASE UNCHANGED vars
  <2>1. Rest(Sender) /\ RowKept(d)
    BY <1>29 DEF vars, session, database, Rest, RowKept
  <2>2. d \in Batch(v)
    BY <2>1, RestIsQuiet
  <2>3. QED
    BY <1>0, <2>1, <2>2, RestIsQuiet, OwnsKept
<1>30. QED
  BY <1>1, <1>2, <1>3, <1>4, <1>5, <1>6, <1>7, <1>8, <1>9, <1>10, <1>11, <1>12, <1>13, <1>14,
     <1>15, <1>16, <1>17, <1>18, <1>19, <1>20, <1>21, <1>22, <1>23, <1>24, <1>25, <1>26, <1>27, <1>28, <1>29,
     NextCases DEF JobCase, SenderCase, EndpointCase, RequestCase, WorldCase

LostSchedule(r) == r.status = "active" /\ r.next = "none"

\* What an initial job makes of a contact nobody has moved into the sequence, and a follow-up of
\* one it found active, has a date whenever it is active.
LEMMA OutcomeKeepsSchedule ==
  ASSUME NEW w, NEW s \in Row, NEW base \in Row, NEW result \in Results, result # "suppressed",
         Cadence > 0, ~LostSchedule(base),
         w \in InitialJob => /\ s.status \in Before /\ base.status \in Before
                             /\ s.status = "new" => s.index = 0,
         w \notin InitialJob => (result \in {"held", "sent", "unknown"} => s.status = "active")
  PROVE  ~LostSchedule(Written(base, s, Outcome(w, s, result)))
<1> DEFINE n == Outcome(w, s, result)
           x == Written(base, s, n)
           human == transition_contact_state(s.status, "needs_human")
           first == transition_contact_state(s.status, "initial_sent")
           more == transition_contact_state(s.status, "followup_sent")
           done == transition_contact_state(more, "sequence_exhausted")
           later == compute_next_followup(more, s.index + 1, Cadence)
<1>1. n \in Change
  BY OutcomeTyped
<1>2. /\ n.status = s.status => x.status = base.status
      /\ n.status # s.status => x.status = n.status
      /\ n.next = "keep" => x.next = base.next
      /\ n.next = "later" => x.next = "later"
  <2> HIDE DEF n
  <2>1. /\ n.status = s.status => Written(base, s, n).status = base.status
        /\ n.status # s.status => Written(base, s, n).status = n.status
        /\ n.next = "keep" => Written(base, s, n).next = base.next
        /\ n.next \in {"due", "later"} => Written(base, s, n).next = n.next
    BY <1>1, WrittenFacts, Zenon
  <2>2. QED
    BY <2>1
<1> USE KeptTyped
<1>3. /\ w \in InitialJob => human \in {s.status, "needs_review"}
      /\ w \notin InitialJob /\ result \in {"held", "unknown"} => human = "needs_review" /\ s.status = "active"
  BY SequenceMoves DEF Before
<1>4. CASE result \in {"held", "unknown"}
  <2>1. n.status = human
    <3>1. CASE result = "held"
      <4>1. n = [Kept(s) EXCEPT !.status = human, !.next = "none", !.claim = Null, !.drafts = 1]
        BY <3>1 DEF Outcome
      <4> HIDE DEF n, human
      <4>2. QED
        BY <4>1 DEF Change
    <3>2. CASE result = "unknown"
      <4>1. n = [Kept(s) EXCEPT !.status = human, !.next = "none"]
        BY <3>2 DEF Outcome, Doubtful
      <4> HIDE DEF n, human
      <4>2. QED
        BY <4>1 DEF Change
    <3>3. QED
      BY <1>4, <3>1, <3>2
  <2>2. x.status # "active"
    <3> HIDE DEF n, x, human
    <3>1. QED
      BY <1>2, <1>3, <1>4, <2>1 DEF Before
  <2>3. QED
    BY <2>2 DEF LostSchedule
<1>5. CASE result = "sent" /\ w \in InitialJob
  <2>1. n = [Kept(s) EXCEPT !.status = first, !.next = compute_next_followup(first, s.index, Cadence)]
    BY <1>5 DEF Outcome
  <2>2. n.status = first /\ n.next = compute_next_followup(first, s.index, Cadence)
    <3> HIDE DEF n, first
    <3>1. QED
      BY <2>1 DEF Change
  <2>3. CASE s.status = "new"
    <3>1. first = "active" /\ s.index = 0
      BY <1>5, <2>3, SequenceMoves
    <3>2. compute_next_followup("active", 0, Cadence) = "later"
      BY NativeAssumption DEF compute_next_followup, should_cancel_scheduled_followup
    <3>3. n.next = "later"
      BY <2>2, <3>1, <3>2
    <3> HIDE DEF n, x
    <3>4. x.next = "later"
      BY <1>2, <3>3
    <3>5. QED
      BY <3>4 DEF LostSchedule, x, n
  <2>4. CASE s.status # "new"
    <3>1. first = s.status
      BY <1>5, <2>4, SequenceMoves DEF Before
    <3>2. n.status = s.status
      BY <2>2, <3>1
    <3> HIDE DEF n, x
    <3>3. x.status \in Before
      BY <1>2, <1>5, <3>2
    <3>4. x.status # "active"
      BY <3>3 DEF Before
    <3>5. QED
      BY <3>4 DEF LostSchedule, x, n
  <2>5. QED
    BY <2>3, <2>4
<1>6. CASE result = "sent" /\ w \notin InitialJob
  <2>1. n = [Kept(s) EXCEPT !.status = IF later = "none" THEN done ELSE more, !.index = s.index + 1, !.next = later]
    BY <1>6 DEF Outcome
  <2>2. n.status = (IF later = "none" THEN done ELSE more) /\ n.next = later
    <3> HIDE DEF n, later, done, more
    <3>1. QED
      BY <2>1 DEF Change
  <2>3. s.status = "active" /\ more = "active" /\ done = "sequence_complete"
    BY <1>6, SequenceMoves
  <2>4. later \in {"none", "later"}
    BY NextTyped
  <2>5. x.status = "sequence_complete" \/ x.next = "later"
    <3> HIDE DEF n, x, later, done, more
    <3>1. QED
      BY <1>2, <2>2, <2>3, <2>4
  <2>6. QED
    BY <2>5 DEF LostSchedule
<1>7. CASE result \in {"none", "skip", "failed", "raised"}
  <2>1. n = Kept(s)
    BY <1>7 DEF Outcome
  <2>2. n.status = s.status /\ n.next = "keep"
    BY <2>1
  <2>3. x.status = base.status /\ x.next = base.next
    <3> HIDE DEF n, x
    <3>1. QED
      BY <1>2, <2>2
  <2>4. QED
    BY <2>3 DEF LostSchedule
<1>8. QED
  BY <1>4, <1>5, <1>6, <1>7 DEF Results

\* Neither a committed row nor one that a job has locked loses its schedule unaccounted for.
RowsScheduled == \A c \in Contact : LostSchedule(row[c]) => Excepted(c)

LocksScheduled == \A w \in Job : \A c \in DOMAIN tx[w] : LostSchedule(tx[w][c]) => Excepted(c)

Scheduled == RowsScheduled /\ LocksScheduled

\* What a sender writes back.
LEMMA WriteKeepsSchedule ==
  ASSUME NativeInv, Fresh, Owned, Scheduled, Cadence > 0, NEW w \in Sender, pc[w] = "write",
         ~Excepted(cur[w])
  PROVE  cur[w] \in Contact /\ ~LostSchedule(NewRow(w))
<1> DEFINE base == View(w, cur[w])
           s == snap[w]
           result == out[w]
<1>1. w \in Session /\ cur[w] \in Contact /\ result \in Results /\ cur[w] # Null
  BY Actors DEF NativeInv, Busy, TypeOK, ThreadsTyped
<1>2. base \in Row /\ s \in Row
  BY <1>1, NewRowTyped DEF NativeInv
<1>3. result # "suppressed"
  BY <1>1 DEF NativeInv, Decided, Excepted
<1>4. ~LostSchedule(base)
  <2>1. CASE w \in Job
    BY <1>1, <2>1 DEF Scheduled, RowsScheduled, LocksScheduled, View
  <2>2. CASE w \in Forced
    BY <1>1, <2>2 DEF Scheduled, RowsScheduled, View, NativeInv, LockInv, Places
  <2>3. QED
    BY <2>1, <2>2 DEF Sender
<1>5. w \in InitialJob => /\ s.status \in Before /\ base.status \in Before
                          /\ s.status = "new" => s.index = 0
  <2> SUFFICES ASSUME w \in InitialJob
               PROVE  s.status \in Before /\ base.status \in Before /\ (s.status = "new" => s.index = 0)
    OBVIOUS
  <2>1. cur[w] \in Batch(w)
    BY <1>1 DEF Batch
  <2>2. Unsent(w, cur[w])
    BY <2>1 DEF Owned
  <2>3. QED
    BY <1>1, <2>2 DEF Unsent, View, Fresh, FreshCopies
<1>6. w \notin InitialJob => (result \in {"held", "sent", "unknown"} => s.status = "active")
  BY DEF NativeInv, Decided, should_send_followup_now, can_send_followup
<1> HIDE DEF base, s, result
<1>7. ~LostSchedule(Written(base, s, Outcome(w, s, result)))
  BY <1>1, <1>2, <1>3, <1>4, <1>5, <1>6, OutcomeKeepsSchedule
<1>8. QED
  BY <1>1, <1>7 DEF NewRow, base, s, result

\* RowsScheduled is kept by every step of a campaign that has follow-ups.
LEMMA RowsScheduledStep == NativeInv /\ Fresh /\ Owned /\ Scheduled /\ Cadence > 0 /\ [Next]_vars => RowsScheduled'
<1> SUFFICES ASSUME NativeInv, Fresh, Owned, Scheduled, Cadence > 0, [Next]_vars,
                    NEW d \in Contact, ~Excepted(d)'
             PROVE  ~LostSchedule(row'[d])
  BY DEF RowsScheduled, LostSchedule
<1> USE Actors
<1>0. /\ ~Excepted(d) /\ row[d] \in Row /\ ~LostSchedule(row[d])
      /\ \A w \in Job : d \in DOMAIN tx[w] => ~LostSchedule(tx[w][d])
  <2>1. TypeOK'
    BY TypeStep DEF NativeInv
  <2>2. ~Excepted(d)
    BY <2>1, ExceptedStays DEF NativeInv
  <2>3. QED
    BY <2>2 DEF NativeInv, TypeOK, RowTyped, Scheduled, RowsScheduled, LocksScheduled
<1>1. ASSUME NEW w \in Job, Sweep(w)
      PROVE  ~LostSchedule(row'[d])
  <2>1. UNCHANGED row
    BY <1>1 DEF Sweep, database
  <2>2. QED
    BY <1>0, <2>1
<1>2. ASSUME NEW w \in Job, Claim(w)
      PROVE  ~LostSchedule(row'[d])
  <2>1. UNCHANGED row
    BY <1>2 DEF Claim, database
  <2>2. QED
    BY <1>0, <2>1
<1>3. ASSUME NEW w \in Job, ClaimNothing(w)
      PROVE  ~LostSchedule(row'[d])
  <2>1. row'[d] = row[d] \/ row'[d] = Released(row[d])
    BY <1>3 DEF ClaimNothing
  <2>2. row'[d].status = row[d].status /\ row'[d].next = row[d].next
    BY <1>0, <2>1, SameRows DEF Same
  <2>3. QED
    BY <1>0, <2>2 DEF LostSchedule
<1>4. ASSUME NEW w \in Sender, NEW c \in Contact, Begin(w, c)
      PROVE  ~LostSchedule(row'[d])
  <2>1. UNCHANGED row
    BY <1>4 DEF Begin, database
  <2>2. QED
    BY <1>0, <2>1
<1>5. ASSUME NEW w \in Sender, Hold(w)
      PROVE  ~LostSchedule(row'[d])
  <2>1. UNCHANGED row
    BY <1>5 DEF Hold, database
  <2>2. QED
    BY <1>0, <2>1
<1>6. ASSUME NEW w \in Sender, Raise(w)
      PROVE  ~LostSchedule(row'[d])
  <2>1. UNCHANGED row
    BY <1>6 DEF Raise, database
  <2>2. QED
    BY <1>0, <2>1
<1>7. ASSUME NEW w \in Sender, NEW o \in Outcomes, Send(w, o)
      PROVE  ~LostSchedule(row'[d])
  <2>1. UNCHANGED row
    BY <1>7 DEF Send, database
  <2>2. QED
    BY <1>0, <2>1
<1>8. ASSUME NEW w \in InitialJob, WriteInitial(w)
      PROVE  ~LostSchedule(row'[d])
  <2>1. cur[w] = d => ~LostSchedule(NewRow(w))
    BY <1>0, <1>8, WriteKeepsSchedule DEF WriteInitial
  <2>2. row'[d] = IF cur[w] = d THEN NewRow(w) ELSE View(w, d)
    BY <1>8 DEF WriteInitial, Committed
  <2>3. QED
    BY <1>0, <2>1, <2>2 DEF View
<1>9. ASSUME NEW w \in InitialJob, RollbackInitial(w) \/ CommitFails(w)
      PROVE  ~LostSchedule(row'[d])
  <2>1. UNCHANGED row
    BY <1>9 DEF RollbackInitial, CommitFails, RolledBack, database
  <2>2. QED
    BY <1>0, <2>1
<1>10. ASSUME NEW w \in FollowJob, WriteFollow(w)
      PROVE  ~LostSchedule(row'[d])
  <2>1. UNCHANGED row
    BY <1>10 DEF WriteFollow, database
  <2>2. QED
    BY <1>0, <2>1
<1>11. ASSUME NEW w \in Job, Finish(w)
      PROVE  ~LostSchedule(row'[d])
  BY <1>0, <1>11 DEF Finish, Committed, View
<1>12. ASSUME NEW w \in Session, Dies(w)
      PROVE  ~LostSchedule(row'[d])
  <2>1. UNCHANGED row
    BY <1>12 DEF Dies, database
  <2>2. QED
    BY <1>0, <2>1
<1>13. ASSUME NEW w \in Job, ReleaseAllClaims(w)
      PROVE  ~LostSchedule(row'[d])
  <2>1. row'[d] = row[d] \/ row'[d] = Released(row[d])
    BY <1>13 DEF ReleaseAllClaims
  <2>2. row'[d].status = row[d].status /\ row'[d].next = row[d].next
    BY <1>0, <2>1, SameRows DEF Same
  <2>3. QED
    BY <1>0, <2>2 DEF LostSchedule
<1>14. ASSUME NEW c \in Contact, LeaseExpires(c)
      PROVE  ~LostSchedule(row'[d])
  <2>1. row'[d].status = row[d].status /\ row'[d].next = row[d].next
    BY <1>0, <1>14 DEF LeaseExpires, Row, NativeInv, TypeOK, RowTyped
  <2>2. QED
    BY <1>0, <2>1 DEF LostSchedule
<1>15. ASSUME NEW w \in Forced, NEW c \in Touched, ForceAsk(w, c)
      PROVE  ~LostSchedule(row'[d])
  <2>1. UNCHANGED row
    BY <1>15 DEF ForceAsk, database
  <2>2. QED
    BY <1>0, <2>1
<1>16. ASSUME NEW w \in Forced, ForceMark(w)
      PROVE  ~LostSchedule(row'[d])
  <2>1. row'[d] = row[d] \/ row'[d] = [row[d] EXCEPT !.next = "due"]
    BY <1>16 DEF ForceMark
  <2>2. row'[d] = row[d] \/ row'[d].next = "due"
    BY <1>0, <2>1 DEF Row
  <2>3. QED
    BY <1>0, <2>2 DEF LostSchedule
<1>17. ASSUME NEW w \in Forced, WriteForced(w)
      PROVE  ~LostSchedule(row'[d])
  <2>1. cur[w] = d => ~LostSchedule(NewRow(w))
    BY <1>0, <1>17, WriteKeepsSchedule DEF WriteForced
  <2>2. row'[d] = IF cur[w] = d THEN NewRow(w) ELSE row[d]
    BY <1>17 DEF WriteForced, NativeInv, TypeOK, RowTyped
  <2>3. QED
    BY <1>0, <2>1, <2>2
<1>18. ASSUME NEW a \in Approval, NEW c \in Touched, ApproveOpen(a, c)
      PROVE  ~LostSchedule(row'[d])
  <2>1. UNCHANGED row
    BY <1>18 DEF ApproveOpen, database
  <2>2. QED
    BY <1>0, <2>1
<1>19. ASSUME NEW a \in Approval, NEW o \in Outcomes, ApproveSend(a, o)
      PROVE  ~LostSchedule(row'[d])
  <2>1. UNCHANGED row
    BY <1>19 DEF ApproveSend, database
  <2>2. QED
    BY <1>0, <2>1
<1>20. ASSUME NEW a \in Approval, ApproveCommit(a)
      PROVE  ~LostSchedule(row'[d])
  <2>1. row'[d].status = row[d].status /\ row'[d].next = row[d].next
    BY <1>0, <1>20 DEF ApproveCommit, Row, NativeInv, TypeOK, RowTyped
  <2>2. QED
    BY <1>0, <2>1 DEF LostSchedule
<1>21. ASSUME NEW r \in Request, NEW op \in {"pause", "resume", "won"}, NEW c \in Touched, Ask(r, op, c)
      PROVE  ~LostSchedule(row'[d])
  <2>1. UNCHANGED row
    BY <1>21 DEF Ask, database
  <2>2. QED
    BY <1>0, <2>1
<1>22. ASSUME NEW r \in Request, Start(r)
      PROVE  ~LostSchedule(row'[d])
  <2>1. UNCHANGED row
    BY <1>22 DEF Start, database
  <2>2. QED
    BY <1>0, <2>1
<1>23. ASSUME NEW r \in Request, Commit(r)
      PROVE  ~LostSchedule(row'[d])
  <2>1. d \in req[r].on => req[r].op # "resume"
    BY <1>23 DEF Commit, Excepted
  <2>2. row'[d] = row[d] \/ (d \in req[r].on /\ row'[d] = Written(row[d], req[r].snap, req[r].new))
    BY <1>23 DEF Commit
  <2>3. \A x : x = Written(row[d], req[r].snap, req[r].new) =>
          /\ req[r].new.next = "due" => x.next = "due"
          /\ req[r].new.status # req[r].snap.status => x.status = req[r].new.status
    BY <1>23, RequestWrites DEF Commit, NativeInv, LockInv
  <2>4. d \in req[r].on => \/ req[r].new.next = "due"
                           \/ req[r].new.status # req[r].snap.status /\ req[r].new.status # "active"
    BY <2>1, <1>23 DEF Commit, Pending, NativeInv, LockInv, TypeOK, RequestsTyped
  <2>5. row'[d] = row[d] \/ row'[d].next = "due" \/ row'[d].status # "active"
    BY <2>2, <2>3, <2>4
  <2>6. QED
    BY <1>0, <2>5 DEF LostSchedule
<1>24. ASSUME NEW B \in SUBSET Contact, AddContacts(B)
      PROVE  ~LostSchedule(row'[d])
  <2>1. row'[d] = row[d] \/ row'[d].status = "new"
    BY <1>24 DEF AddContacts, NoRow
  <2>2. QED
    BY <1>0, <2>1 DEF LostSchedule
<1>25. ASSUME NEW c \in Touched, Suppress(c)
      PROVE  ~LostSchedule(row'[d])
  <2>1. UNCHANGED row
    BY <1>25 DEF Suppress, database
  <2>2. QED
    BY <1>0, <2>1
<1>26. ASSUME NEW r \in Request, NEW c \in Touched, NEW reply \in Replies,
            NEW answer \in {"none", "manual", "held", "sent", "failed", "unknown"},
            Receive(r, c, reply, answer)
      PROVE  ~LostSchedule(row'[d])
  <2>1. UNCHANGED row
    BY <1>26 DEF Receive, database
  <2>2. QED
    BY <1>0, <2>1
<1>27. ASSUME NEW r \in Request, CommitReply(r)
      PROVE  ~LostSchedule(row'[d])
  <2>1. d \notin req[r].on
    BY <1>27 DEF CommitReply, Excepted
  <2>2. row'[d] = row[d]
    BY <1>27, <2>1 DEF CommitReply, NativeInv, TypeOK, RowTyped
  <2>3. QED
    BY <1>0, <2>2
<1>28. ASSUME NEW c \in Contact, TimePasses(c)
      PROVE  ~LostSchedule(row'[d])
  <2>1. row'[d] = row[d] \/ row'[d] = [row[d] EXCEPT !.next = IF row[d].next = "later" THEN "due" ELSE row[d].next, !.recent = FALSE]
    BY <1>0, <1>28 DEF TimePasses, NativeInv, TypeOK, RowTyped
  <2>2. row'[d].status = row[d].status /\ (row'[d].next = row[d].next \/ row'[d].next = "due")
    BY <1>0, <2>1 DEF Row
  <2>3. QED
    BY <1>0, <2>2 DEF LostSchedule
<1>29. CASE UNCHANGED vars
  BY <1>29, <1>0 DEF vars, database
<1>30. QED
  BY <1>1, <1>2, <1>3, <1>4, <1>5, <1>6, <1>7, <1>8, <1>9, <1>10, <1>11, <1>12, <1>13, <1>14,
     <1>15, <1>16, <1>17, <1>18, <1>19, <1>20, <1>21, <1>22, <1>23, <1>24, <1>25, <1>26, <1>27, <1>28, <1>29,
     NextCases DEF JobCase, SenderCase, EndpointCase, RequestCase, WorldCase

\* LocksScheduled is kept by every step of a campaign that has follow-ups.
LEMMA LocksScheduledStep == NativeInv /\ Fresh /\ Owned /\ Scheduled /\ Cadence > 0 /\ [Next]_vars => LocksScheduled'
<1> SUFFICES ASSUME NativeInv, Fresh, Owned, Scheduled, Cadence > 0, [Next]_vars,
                    NEW v \in Job, NEW d \in DOMAIN tx'[v], ~Excepted(d)'
             PROVE  ~LostSchedule(tx'[v][d])
  BY DEF LocksScheduled, LostSchedule
<1> USE Actors
<1>0. /\ d \in Contact /\ v \in Session /\ ~Excepted(d) /\ row[d] \in Row /\ ~LostSchedule(row[d])
      /\ d \in DOMAIN tx[v] => ~LostSchedule(tx[v][d])
  <2>1. TypeOK' /\ v \in Session
    BY TypeStep, Actors DEF NativeInv
  <2>2. d \in Contact
    BY <2>1 DEF TypeOK, LocksTyped
  <2>3. ~Excepted(d)
    BY <2>1, <2>2, ExceptedStays DEF NativeInv
  <2>4. QED
    BY <2>1, <2>2, <2>3 DEF NativeInv, TypeOK, RowTyped, Scheduled, RowsScheduled, LocksScheduled
<1>1. ASSUME NEW w \in Job, Sweep(w)
      PROVE  ~LostSchedule(tx'[v][d])
  <2>1. UNCHANGED tx
    BY <1>1 DEF Sweep, session
  <2>2. QED
    BY <1>0, <2>1
<1>2. ASSUME NEW w \in Job, Claim(w)
      PROVE  ~LostSchedule(tx'[v][d])
  <2>1. Taken(w)
    BY <1>2, ClaimedRows DEF NativeInv
  <2>2. v = w => tx'[v][d].status = row[d].status /\ tx'[v][d].next = row[d].next
    BY <2>1 DEF Taken, Same
  <2>3. v # w => tx'[v] = tx[v]
    BY <1>0, <2>1 DEF Taken
  <2>4. QED
    BY <1>0, <2>2, <2>3 DEF LostSchedule
<1>3. ASSUME NEW w \in Job, ClaimNothing(w)
      PROVE  ~LostSchedule(tx'[v][d])
  <2>1. tx'[v] = tx[v]
    BY <1>0, <1>3 DEF ClaimNothing, Reset, NativeInv, TypeOK, LocksTyped
  <2>2. QED
    BY <1>0, <2>1
<1>4. ASSUME NEW w \in Sender, NEW c \in Contact, Begin(w, c)
      PROVE  ~LostSchedule(tx'[v][d])
  <2>1. UNCHANGED tx
    BY <1>4 DEF Begin, session
  <2>2. QED
    BY <1>0, <2>1
<1>5. ASSUME NEW w \in Sender, Hold(w)
      PROVE  ~LostSchedule(tx'[v][d])
  <2>1. UNCHANGED tx
    BY <1>5 DEF Hold, session
  <2>2. QED
    BY <1>0, <2>1
<1>6. ASSUME NEW w \in Sender, Raise(w)
      PROVE  ~LostSchedule(tx'[v][d])
  <2>1. UNCHANGED tx
    BY <1>6 DEF Raise, session
  <2>2. QED
    BY <1>0, <2>1
<1>7. ASSUME NEW w \in Sender, NEW o \in Outcomes, Send(w, o)
      PROVE  ~LostSchedule(tx'[v][d])
  <2>1. UNCHANGED tx
    BY <1>7 DEF Send, session
  <2>2. QED
    BY <1>0, <2>1
<1>8. ASSUME NEW w \in InitialJob, WriteInitial(w)
      PROVE  ~LostSchedule(tx'[v][d])
  <2>1. cur[w] \in Contact
    BY <1>8 DEF WriteInitial, NativeInv, Busy, TypeOK, ThreadsTyped
  <2>2. d = cur[w] => ~LostSchedule(NewRow(w))
    BY <1>0, <1>8, WriteKeepsSchedule DEF WriteInitial
  <2>3. Released(NewRow(w)).status = NewRow(w).status /\ Released(NewRow(w)).next = NewRow(w).next
    BY <2>1, ReleasedNew DEF NativeInv
  <2>4. tx'[v] = tx[v] \/ (d = cur[w] /\ tx'[v][d] = Released(NewRow(w)))
    BY <1>0, <1>8 DEF WriteInitial, release_claim, NativeInv, TypeOK, LocksTyped
  <2>5. QED
    BY <1>0, <2>2, <2>3, <2>4 DEF LostSchedule
<1>9. ASSUME NEW w \in InitialJob, RollbackInitial(w) \/ CommitFails(w)
      PROVE  ~LostSchedule(tx'[v][d])
  <2>1. tx'[v] = tx[v] \/ (d = cur[w] /\ tx'[v][d] = Released(row[cur[w]]))
    BY <1>0, <1>9 DEF RollbackInitial, CommitFails, RolledBack, release_claim, NativeInv, TypeOK, LocksTyped
  <2>2. Released(row[d]).status = row[d].status /\ Released(row[d]).next = row[d].next
    BY <1>0, SameRows DEF Same
  <2>3. QED
    BY <1>0, <2>1, <2>2 DEF LostSchedule
<1>10. ASSUME NEW w \in FollowJob, WriteFollow(w)
      PROVE  ~LostSchedule(tx'[v][d])
  <2>1. cur[w] \in Contact
    BY <1>10 DEF WriteFollow, NativeInv, Busy, TypeOK, ThreadsTyped
  <2>2. d = cur[w] => ~LostSchedule(NewRow(w))
    BY <1>0, <1>10, WriteKeepsSchedule DEF WriteFollow
  <2>3. Released(NewRow(w)).status = NewRow(w).status /\ Released(NewRow(w)).next = NewRow(w).next
    BY <2>1, ReleasedNew DEF NativeInv
  <2>4. d \in DOMAIN tx[v] /\ (tx'[v][d] = tx[v][d] \/ (d = cur[w] /\ tx'[v][d] = Released(NewRow(w))))
    BY <1>0, <1>10 DEF WriteFollow, release_claim, NativeInv, TypeOK, LocksTyped
  <2>5. QED
    BY <1>0, <2>2, <2>3, <2>4 DEF LostSchedule
<1>11. ASSUME NEW w \in Job, Finish(w)
      PROVE  ~LostSchedule(tx'[v][d])
  <2>1. tx'[v] = tx[v]
    BY <1>0, <1>11 DEF Finish, Reset, NativeInv, TypeOK, LocksTyped
  <2>2. QED
    BY <1>0, <2>1
<1>12. ASSUME NEW w \in Session, Dies(w)
      PROVE  ~LostSchedule(tx'[v][d])
  <2>1. tx'[v] = tx[v]
    BY <1>0, <1>12 DEF Dies, Reset, NativeInv, TypeOK, LocksTyped
  <2>2. QED
    BY <1>0, <2>1
<1>13. ASSUME NEW w \in Job, ReleaseAllClaims(w)
      PROVE  ~LostSchedule(tx'[v][d])
  <2>1. UNCHANGED tx
    BY <1>13 DEF ReleaseAllClaims, session
  <2>2. QED
    BY <1>0, <2>1
<1>14. ASSUME NEW c \in Contact, LeaseExpires(c)
      PROVE  ~LostSchedule(tx'[v][d])
  <2>1. UNCHANGED tx
    BY <1>14 DEF LeaseExpires, session
  <2>2. QED
    BY <1>0, <2>1
<1>15. ASSUME NEW w \in Forced, NEW c \in Touched, ForceAsk(w, c)
      PROVE  ~LostSchedule(tx'[v][d])
  <2>1. UNCHANGED tx
    BY <1>15 DEF ForceAsk, session
  <2>2. QED
    BY <1>0, <2>1
<1>16. ASSUME NEW w \in Forced, ForceMark(w)
      PROVE  ~LostSchedule(tx'[v][d])
  <2>1. UNCHANGED tx
    BY <1>16 DEF ForceMark, session
  <2>2. QED
    BY <1>0, <2>1
<1>17. ASSUME NEW w \in Forced, WriteForced(w)
      PROVE  ~LostSchedule(tx'[v][d])
  <2>1. tx'[v] = tx[v]
    BY <1>0, <1>17 DEF WriteForced, Reset, NativeInv, TypeOK, LocksTyped
  <2>2. QED
    BY <1>0, <2>1
<1>18. ASSUME NEW a \in Approval, NEW c \in Touched, ApproveOpen(a, c)
      PROVE  ~LostSchedule(tx'[v][d])
  <2>1. tx'[v] = tx[v]
    BY <1>0, <1>18 DEF ApproveOpen, Reset, NativeInv, TypeOK, LocksTyped
  <2>2. QED
    BY <1>0, <2>1
<1>19. ASSUME NEW a \in Approval, NEW o \in Outcomes, ApproveSend(a, o)
      PROVE  ~LostSchedule(tx'[v][d])
  <2>1. UNCHANGED tx
    BY <1>19 DEF ApproveSend, session
  <2>2. QED
    BY <1>0, <2>1
<1>20. ASSUME NEW a \in Approval, ApproveCommit(a)
      PROVE  ~LostSchedule(tx'[v][d])
  <2>1. tx'[v] = tx[v]
    BY <1>0, <1>20 DEF ApproveCommit, Reset, NativeInv, TypeOK, LocksTyped
  <2>2. QED
    BY <1>0, <2>1
<1>21. ASSUME NEW r \in Request, NEW op \in {"pause", "resume", "won"}, NEW c \in Touched, Ask(r, op, c)
      PROVE  ~LostSchedule(tx'[v][d])
  <2>1. UNCHANGED tx
    BY <1>21 DEF Ask, session
  <2>2. QED
    BY <1>0, <2>1
<1>22. ASSUME NEW r \in Request, Start(r)
      PROVE  ~LostSchedule(tx'[v][d])
  <2>1. UNCHANGED tx
    BY <1>22 DEF Start, session
  <2>2. QED
    BY <1>0, <2>1
<1>23. ASSUME NEW r \in Request, Commit(r)
      PROVE  ~LostSchedule(tx'[v][d])
  <2>1. UNCHANGED tx
    BY <1>23 DEF Commit, session
  <2>2. QED
    BY <1>0, <2>1
<1>24. ASSUME NEW B \in SUBSET Contact, AddContacts(B)
      PROVE  ~LostSchedule(tx'[v][d])
  <2>1. UNCHANGED tx
    BY <1>24 DEF AddContacts, session
  <2>2. QED
    BY <1>0, <2>1
<1>25. ASSUME NEW c \in Touched, Suppress(c)
      PROVE  ~LostSchedule(tx'[v][d])
  <2>1. UNCHANGED tx
    BY <1>25 DEF Suppress, session
  <2>2. QED
    BY <1>0, <2>1
<1>26. ASSUME NEW r \in Request, NEW c \in Touched, NEW reply \in Replies,
            NEW answer \in {"none", "manual", "held", "sent", "failed", "unknown"},
            Receive(r, c, reply, answer)
      PROVE  ~LostSchedule(tx'[v][d])
  <2>1. UNCHANGED tx
    BY <1>26 DEF Receive, session
  <2>2. QED
    BY <1>0, <2>1
<1>27. ASSUME NEW r \in Request, CommitReply(r)
      PROVE  ~LostSchedule(tx'[v][d])
  <2>1. UNCHANGED tx
    BY <1>27 DEF CommitReply, session
  <2>2. QED
    BY <1>0, <2>1
<1>28. ASSUME NEW c \in Contact, TimePasses(c)
      PROVE  ~LostSchedule(tx'[v][d])
  <2>1. UNCHANGED tx
    BY <1>28 DEF TimePasses, session
  <2>2. QED
    BY <1>0, <2>1
<1>29. CASE UNCHANGED vars
  BY <1>29, <1>0 DEF vars, session
<1>30. QED
  BY <1>1, <1>2, <1>3, <1>4, <1>5, <1>6, <1>7, <1>8, <1>9, <1>10, <1>11, <1>12, <1>13, <1>14,
     <1>15, <1>16, <1>17, <1>18, <1>19, <1>20, <1>21, <1>22, <1>23, <1>24, <1>25, <1>26, <1>27, <1>28, <1>29,
     NextCases DEF JobCase, SenderCase, EndpointCase, RequestCase, WorldCase

ScheduleInv == NativeInv /\ Fresh /\ Owned /\ (Cadence > 0 => Scheduled)

\* The invariant holds initially.
LEMMA ScheduleInit == Init => ScheduleInv
<1> SUFFICES ASSUME Init PROVE ScheduleInv
  OBVIOUS
<1>1. NativeInv
  BY NativeInit
<1>2. /\ \A w \in Session : /\ pc[w] = "idle" /\ cur[w] = Null /\ left[w] = {}
                            /\ snap[w] = NoRow /\ DOMAIN tx[w] = {}
      /\ \A c \in Contact : row[c] = NoRow
  BY DEF Init
<1>3. NoRow.status = "absent"
  BY DEF NoRow
<1>4. Fresh
  BY <1>2, <1>3, Actors DEF Fresh, FreshRows, FreshLocks, FreshCopies, ForcedLater
<1>5. Owned
  BY <1>2, Actors DEF Owned, Batch
<1>6. Scheduled
  BY <1>2, <1>3, Actors DEF Scheduled, RowsScheduled, LocksScheduled, LostSchedule
<1>7. QED
  BY <1>1, <1>4, <1>5, <1>6 DEF ScheduleInv

\* The invariant is inductive.
LEMMA ScheduleStep == ScheduleInv /\ [Next]_vars => ScheduleInv'
<1> SUFFICES ASSUME ScheduleInv, [Next]_vars
             PROVE  ScheduleInv'
  OBVIOUS
<1> USE DEF ScheduleInv
<1>1. NativeInv' /\ Fresh' /\ Owned'
  BY NativeStep, FreshStep, OwnedStep
<1>2. Cadence > 0 => Scheduled'
  BY RowsScheduledStep, LocksScheduledStep DEF Scheduled
<1>3. QED
  BY <1>1, <1>2

\* In a campaign that has follow-ups, an active contact without a next_action_at, which no job
\* ever looks at again, is suppressed, was left so by its own reply or a resume, or had its
\* initial claim dropped: no failed send, lost update, forced follow-up or pause drops it out of
\* the sequence, for any number of jobs, requests and faults.
THEOREM SchedulesAreKept == Spec => []ActiveIsScheduled
<1>1. Init /\ [][Next]_vars => []ScheduleInv
  BY ScheduleInit, ScheduleStep, PTL
<1>2. ScheduleInv => ActiveIsScheduled
  BY DEF ScheduleInv, Scheduled, RowsScheduled, LostSchedule, ActiveIsScheduled
<1>3. QED
  BY <1>1, <1>2, PTL DEF Spec

-----------------------------------------------------------------------------
(* Who makes a contact active.                                             *)

\* The events whose edges lead into active.
Enters == {"initial_sent", "followup_sent", "out_of_office", "manual_resume"}

\* Every edge of the table that leads to active carries one of these events.
LEMMA ActiveEdges ==
  ASSUME NEW s, NEW edge \in STATE_TRANSITIONS(s), edge[2] = "active"
  PROVE  edge[1] \in Enters
<1> USE DEF STATE_TRANSITIONS, Enters
<1>1. CASE s \in {"new", "active"}
  BY <1>1
<1>2. CASE s \in {"replied", "engaged"}
  BY <1>2
<1>3. CASE s \in {"evaluating", "meeting_requested"}
  BY <1>3
<1>4. CASE s \in {"meeting_scheduled", "negotiating"}
  BY <1>4
<1>5. CASE s \in {"nurture", "sequence_complete"}
  BY <1>5
<1>6. CASE s \in {"needs_review", "paused", "closed_lost"}
  BY <1>6
<1>7. CASE s \notin {"new", "active", "replied", "engaged", "evaluating", "meeting_requested",
                     "meeting_scheduled", "negotiating", "nurture", "sequence_complete",
                     "needs_review", "paused", "closed_lost"}
  <2>1. STATE_TRANSITIONS(s) = {}
    BY <1>7
  <2>2. QED
    BY <2>1
<1>8. QED
  BY <1>1, <1>2, <1>3, <1>4, <1>5, <1>6, <1>7

\* No other event makes a contact active.
LEMMA NotIntoActive ==
  ASSUME NEW s, NEW e, e \notin Enters, transition_contact_state(s, e) = "active"
  PROVE  s = "active"
<1>1. CASE Allowed(s, e)
  <2>1. PICK edge \in STATE_TRANSITIONS(s) :
          edge[1] = e /\ transition_contact_state(s, e) = edge[2]
    BY <1>1 DEF Allowed, transition_contact_state
  <2>2. QED
    BY <2>1, ActiveEdges
<1>2. CASE ~Allowed(s, e)
  BY <1>2 DEF transition_contact_state
<1>3. QED
  BY <1>1, <1>2

\* A session that has not sent makes no contact active; one that has, and was told so, leaves a
\* new contact active and moves a follow-up's index by one; one that was told nothing parks it.
LEMMA OutcomeMoves ==
  ASSUME NEW w, NEW s \in Row, NEW result \in Results
  PROVE  /\ result # "sent" /\ Outcome(w, s, result).status = "active" => s.status = "active"
         /\ result = "sent" /\ w \in InitialJob /\ s.status = "new" => Outcome(w, s, result).status = "active"
         /\ result = "sent" /\ w \notin InitialJob => Outcome(w, s, result).index = s.index + 1
         /\ result = "unknown" /\ s.status \in {"new", "active"} =>
              Outcome(w, s, result).status = "needs_review"
         /\ result = "sent" /\ w \notin InitialJob /\ s.status = "active" =>
              Outcome(w, s, result).status \in {"active", "sequence_complete"}
<1> DEFINE go(event) == transition_contact_state(s.status, event)
           n == Outcome(w, s, result)
<1> USE KeptTyped
<1> DEFINE off == go("unsubscribed")
           human == go("needs_human")
           first == go("initial_sent")
           more == go("followup_sent")
           done == transition_contact_state(more, "sequence_exhausted")
           later == compute_next_followup(more, s.index + 1, Cadence)
<1>1. /\ off = "active" => s.status = "active"
      /\ human = "active" => s.status = "active"
      /\ s.status = "new" => first = "active"
      /\ s.status \in {"new", "active"} => human = "needs_review"
      /\ s.status = "active" => more = "active" /\ done = "sequence_complete"
  <2>1. "unsubscribed" \notin Enters /\ "needs_human" \notin Enters
    BY DEF Enters
  <2>2. QED
    BY <2>1, NotIntoActive, SequenceMoves
<1>4. CASE result = "suppressed"
  <2>1. n = [Kept(s) EXCEPT !.status = off, !.next = IF w \in InitialJob THEN "keep" ELSE "none"]
    BY <1>4 DEF Outcome
  <2> HIDE DEF n, off
  <2>2. n.status = off
    BY <2>1 DEF Change
  <2>3. QED
    BY <1>1, <1>4, <2>2 DEF n
<1>5. CASE result = "held"
  <2>1. n = [Kept(s) EXCEPT !.status = human, !.next = "none", !.claim = Null, !.drafts = 1]
    BY <1>5 DEF Outcome
  <2> HIDE DEF n, human
  <2>2. n.status = human
    BY <2>1 DEF Change
  <2>3. QED
    BY <1>1, <1>5, <2>2 DEF n
<1>6. CASE result = "unknown"
  <2>1. n = [Kept(s) EXCEPT !.status = human, !.next = "none"]
    BY <1>6 DEF Outcome, Doubtful
  <2> HIDE DEF n, human
  <2>2. n.status = human
    BY <2>1 DEF Change
  <2>3. QED
    BY <1>1, <1>6, <2>2 DEF n
<1>7. CASE result = "sent" /\ w \in InitialJob
  <2>1. n = [Kept(s) EXCEPT !.status = first, !.next = compute_next_followup(first, s.index, Cadence)]
    BY <1>7 DEF Outcome
  <2> HIDE DEF n, first
  <2>2. n.status = first
    BY <2>1 DEF Change
  <2>3. QED
    BY <1>1, <1>7, <2>2 DEF n
<1>8. CASE result = "sent" /\ w \notin InitialJob
  <2> DEFINE status == IF later = "none" THEN done ELSE more
  <2>1. n = [Kept(s) EXCEPT !.status = status, !.index = s.index + 1, !.next = later]
    BY <1>8 DEF Outcome
  <2>2. status \in {done, more}
    OBVIOUS
  <2> HIDE DEF n, status, done, more, later
  <2>3. n.status = status /\ n.index = s.index + 1
    BY <2>1 DEF Change
  <2>4. QED
    BY <1>1, <1>8, <2>2, <2>3 DEF n
<1>9. CASE result \in {"none", "skip", "failed", "raised"}
  BY <1>9 DEF Outcome
<1>10. QED
  BY <1>4, <1>5, <1>6, <1>7, <1>8, <1>9 DEF Results

\* The event of a reply without an out-of-office notice does not lead into active.
LEMMA InferredEvent ==
  ASSUME NEW intents, "out_of_office" \notin intents
  PROVE  infer_event_from_semantic_intent(intents) \notin Enters
<1> DEFINE known == {i \in DOMAIN IntentEvents : IntentEvents[i][1] \in intents}
<1>1. CASE known = {}
  BY <1>1 DEF infer_event_from_semantic_intent, Enters
<1>2. CASE known # {}
  <2> DEFINE i == CHOOSE i \in known : \A j \in known : i <= j
  <2>1. DOMAIN IntentEvents = 1..7
    BY DEF IntentEvents
  <2>2. \E m \in known : \A j \in known : m <= j
    <3>1. known \in SUBSET (1..7) /\ known # {}
      BY <1>2, <2>1
    <3> HIDE DEF known
    <3>2. PICK m \in 1..7 : m \in known /\ \A j \in 1..7 : j < m => j \notin known
      <4>1. PICK x : x \in known /\ x \in 1..7
        BY <3>1
      <4>2. x = 1 \/ x = 2 \/ x = 3 \/ x = 4 \/ x = 5 \/ x = 6 \/ x = 7
        BY <4>1
      <4>3. CASE 1 \in known
        BY <4>3
      <4>4. CASE 2 \in known /\ 1 \notin known
        BY <4>4
      <4>5. CASE 3 \in known /\ 1 \notin known /\ 2 \notin known
        BY <4>5
      <4>6. CASE 4 \in known /\ 1 \notin known /\ 2 \notin known /\ 3 \notin known
        BY <4>6
      <4>7. CASE 5 \in known /\ 1 \notin known /\ 2 \notin known /\ 3 \notin known /\ 4 \notin known
        BY <4>7
      <4>8. CASE 6 \in known /\ 1 \notin known /\ 2 \notin known /\ 3 \notin known /\ 4 \notin known /\ 5 \notin known
        BY <4>8
      <4>9. CASE 7 \in known /\ 1 \notin known /\ 2 \notin known /\ 3 \notin known /\ 4 \notin known /\ 5 \notin known /\ 6 \notin known
        BY <4>9
      <4>10. QED
        BY <4>1, <4>2, <4>3, <4>4, <4>5, <4>6, <4>7, <4>8, <4>9
    <3>3. \A j \in known : m <= j
      BY <3>1, <3>2
    <3>4. QED
      BY <3>2, <3>3
  <2>3. i \in known
    BY <2>2, Zenon
  <2>4. infer_event_from_semantic_intent(intents) = IntentEvents[i][2]
    BY <1>2 DEF infer_event_from_semantic_intent
  <2> HIDE DEF i
  <2>5. i \in 1..7 /\ IntentEvents[i][1] \in intents
    BY <2>1, <2>3
  <2>6. \A m \in 1..7 : IntentEvents[m][2] \in Enters => IntentEvents[m][1] = "out_of_office"
    BY DEF IntentEvents, Enters
  <2>7. QED
    BY <2>4, <2>5, <2>6
<1>3. QED
  BY <1>1, <1>2

\* No reply makes a contact active.
LEMMA ReactedMoves ==
  ASSUME NEW s \in Row, NEW reply, NEW answer, Reacted(s, reply, answer).status = "active"
  PROVE  s.status = "active"
<1> DEFINE go(event) == transition_contact_state(s.status, event)
           now == [Kept(s) EXCEPT !.recent = TRUE]
           st == go(infer_event_from_semantic_intent(reply.intents))
           n == [now EXCEPT !.status = st,
                            !.next = reschedule_after_reply(reply.intents, reply.asked_for)]
           x == Reacted(s, reply, answer)
<1> USE KeptTyped
<1>1. now \in Change /\ now.status = s.status
  BY DEF Change
<1>2. /\ "needs_human" \notin Enters /\ "unsubscribed" \notin Enters /\ "not_interested" \notin Enters
      /\ x.status = "active"
  BY DEF Enters
<1>3. ASSUME x = [now EXCEPT !.status = go("needs_human"), !.next = "none"]
      PROVE  s.status = "active"
  <2>1. x.status = go("needs_human")
    BY <1>1, <1>3 DEF Change
  <2>2. QED
    BY <1>2, <2>1, NotIntoActive
<1>4. ASSUME x = [now EXCEPT !.status = go("unsubscribed"), !.next = "none"]
      PROVE  s.status = "active"
  <2>1. x.status = go("unsubscribed")
    BY <1>1, <1>4 DEF Change
  <2>2. QED
    BY <1>2, <2>1, NotIntoActive
<1>5. ASSUME x = [now EXCEPT !.status = go("not_interested"), !.next = "none"]
      PROVE  s.status = "active"
  <2>1. x.status = go("not_interested")
    BY <1>1, <1>5 DEF Change
  <2>2. QED
    BY <1>2, <2>1, NotIntoActive
<1>6. ASSUME x = Answer(n, answer), "out_of_office" \notin reply.intents
      PROVE  s.status = "active"
  <2>1. n.status = st /\ DOMAIN n = {"status", "next", "claim", "index", "drafts", "recent"}
    BY <1>1 DEF Change
  <2>2. infer_event_from_semantic_intent(reply.intents) \notin Enters
    BY <1>6, InferredEvent
  <2>3. st = "active" => s.status = "active"
    BY <2>2, NotIntoActive
  <2>4. transition_contact_state(st, "needs_human") = "active" => st = "active"
    BY <1>2, NotIntoActive
  <2> HIDE DEF n, st, go
  <2>5. x.status \in {st, transition_contact_state(st, "needs_human")}
    <3> HIDE DEF x
    <3>1. CASE answer \in {"manual", "held", "unknown"}
      BY <1>6, <2>1, <3>1 DEF Answer
    <3>2. CASE answer \notin {"manual", "held", "unknown"}
      BY <1>6, <2>1, <3>2 DEF Answer
    <3>3. QED
      BY <3>1, <3>2
  <2>6. QED
    BY <1>2, <2>3, <2>4, <2>5
<1>7. \/ x = [now EXCEPT !.status = go("needs_human"), !.next = "none"]
      \/ x = [now EXCEPT !.status = go("unsubscribed"), !.next = "none"]
      \/ x = [now EXCEPT !.status = go("not_interested"), !.next = "none"]
      \/ x = now
      \/ x = Answer(n, answer) /\ "out_of_office" \notin reply.intents
  BY DEF Reacted
<1>8. QED
  BY <1>1, <1>2, <1>3, <1>4, <1>5, <1>6, <1>7, Zenon

\* What a sender makes of the status and of the step of the row it has worked on.
LEMMA NewRowMoves ==
  ASSUME TypeOK, NEW w \in Session, cur[w] \in Contact
  PROVE  /\ out[w] # "sent" /\ NewRow(w).status = "active" => View(w, cur[w]).status = "active"
         /\ out[w] = "sent" /\ w \in InitialJob /\ snap[w].status = "new" => NewRow(w).status = "active"
         /\ out[w] = "unknown" /\ snap[w].status \in {"new", "active"} => NewRow(w).status = "needs_review"
         /\ out[w] = "sent" /\ w \notin InitialJob /\ snap[w].status = "active" /\ NewRow(w).status = "active" =>
              View(w, cur[w]).status = "active"
         /\ out[w] = "sent" /\ w \notin InitialJob => NewRow(w).index = snap[w].index + 1
         /\ out[w] # "sent" \/ w \in InitialJob => NewRow(w).index = View(w, cur[w]).index
<1> DEFINE s == snap[w]
           result == out[w]
           base == View(w, cur[w])
           n == Outcome(w, s, result)
<1>1. n \in Change /\ s \in Row /\ base \in Row /\ result \in Results
  BY NewRowTyped DEF TypeOK, ThreadsTyped
<1>2. s.index \in Nat /\ NewRow(w) = Written(base, s, n)
  BY <1>1 DEF Row, NewRow
<1> HIDE DEF s, result, base
<1>3. /\ result # "sent" /\ n.status = "active" => s.status = "active"
      /\ result = "sent" /\ w \in InitialJob /\ s.status = "new" => n.status = "active"
      /\ result = "sent" /\ w \notin InitialJob => n.index = s.index + 1
      /\ result = "unknown" /\ s.status \in {"new", "active"} => n.status = "needs_review"
      /\ result = "sent" /\ w \notin InitialJob /\ s.status = "active" => n.status \in {"active", "sequence_complete"}
  BY <1>1, OutcomeMoves, Zenon
<1>4. n.index # s.index => result = "sent" /\ w \notin InitialJob
  BY <1>1, OutcomeFacts, Zenon
<1> HIDE DEF n
<1>5. /\ Written(base, s, n).status = IF n.status = s.status THEN base.status ELSE n.status
      /\ Written(base, s, n).index = IF n.index = s.index THEN base.index ELSE n.index
  BY <1>1, WrittenColumns
<1>6. QED
  BY <1>2, <1>3, <1>4, <1>5 DEF s, result, base

\* Only a resume is about to make a contact active.
Revived ==
  \A r \in Request :
    req[r] # Null /\ req[r].op # "resume" /\ req[r].new.status = "active" => req[r].snap.status = "active"

\* Revived is kept by every step.
LEMMA RevivedStep == TypeOK /\ Revived /\ [Next]_vars => Revived'
<1> SUFFICES ASSUME TypeOK, Revived, [Next]_vars
             PROVE  Revived'
  OBVIOUS
<1> USE Actors DEF Revived, TypeOK, RequestsTyped
<1>1. ASSUME NEW w \in Job, Sweep(w)
      PROVE  Revived'
  BY <1>1 DEF Sweep
<1>2. ASSUME NEW w \in Job, Claim(w)
      PROVE  Revived'
  BY <1>2 DEF Claim
<1>3. ASSUME NEW w \in Job, ClaimNothing(w)
      PROVE  Revived'
  BY <1>3 DEF ClaimNothing
<1>4. ASSUME NEW w \in Sender, NEW c \in Contact, Begin(w, c)
      PROVE  Revived'
  BY <1>4 DEF Begin
<1>5. ASSUME NEW w \in Sender, Hold(w)
      PROVE  Revived'
  BY <1>5 DEF Hold
<1>6. ASSUME NEW w \in Sender, Raise(w)
      PROVE  Revived'
  BY <1>6 DEF Raise
<1>7. ASSUME NEW w \in Sender, NEW o \in Outcomes, Send(w, o)
      PROVE  Revived'
  BY <1>7 DEF Send
<1>8. ASSUME NEW w \in InitialJob, WriteInitial(w)
      PROVE  Revived'
  BY <1>8 DEF WriteInitial
<1>9. ASSUME NEW w \in InitialJob, RollbackInitial(w) \/ CommitFails(w)
      PROVE  Revived'
  BY <1>9 DEF RollbackInitial, CommitFails, RolledBack
<1>10. ASSUME NEW w \in FollowJob, WriteFollow(w)
      PROVE  Revived'
  BY <1>10 DEF WriteFollow
<1>11. ASSUME NEW w \in Job, Finish(w)
      PROVE  Revived'
  BY <1>11 DEF Finish
<1>12. ASSUME NEW w \in Session, Dies(w)
      PROVE  Revived'
  BY <1>12 DEF Dies
<1>13. ASSUME NEW w \in Job, ReleaseAllClaims(w)
      PROVE  Revived'
  BY <1>13 DEF ReleaseAllClaims
<1>14. ASSUME NEW c \in Contact, LeaseExpires(c)
      PROVE  Revived'
  BY <1>14 DEF LeaseExpires
<1>15. ASSUME NEW w \in Forced, NEW c \in Touched, ForceAsk(w, c)
      PROVE  Revived'
  BY <1>15 DEF ForceAsk
<1>16. ASSUME NEW w \in Forced, ForceMark(w)
      PROVE  Revived'
  BY <1>16 DEF ForceMark
<1>17. ASSUME NEW w \in Forced, WriteForced(w)
      PROVE  Revived'
  BY <1>17 DEF WriteForced
<1>18. ASSUME NEW a \in Approval, NEW c \in Touched, ApproveOpen(a, c)
      PROVE  Revived'
  BY <1>18 DEF ApproveOpen
<1>19. ASSUME NEW a \in Approval, NEW o \in Outcomes, ApproveSend(a, o)
      PROVE  Revived'
  BY <1>19 DEF ApproveSend
<1>20. ASSUME NEW a \in Approval, ApproveCommit(a)
      PROVE  Revived'
  BY <1>20 DEF ApproveCommit
<1>21. ASSUME NEW r \in Request, NEW op \in {"pause", "resume", "won"}, NEW c \in Touched, Ask(r, op, c)
      PROVE  Revived'
  <2>1. row[c] \in Row
    BY DEF TypeOK, RowTyped
  <2>2. Manual(row[c], op).status = transition_contact_state(row[c].status, ManualEvent(op))
    BY <2>1, ManualTyped
  <2>3. ManualEvent(op) = IF op = "pause" THEN "manual_pause" ELSE IF op = "won" THEN "manual_won" ELSE "manual_resume"
    BY DEF ManualEvent
  <2>4. op # "resume" => Manual(row[c], op).status \in {"paused", "closed_won"}
    BY <1>21, <2>2, <2>3, Moves DEF Ask
  <2>5. QED
    BY <1>21, <2>4 DEF Ask
<1>22. ASSUME NEW r \in Request, Start(r)
      PROVE  Revived'
  BY <1>22, StartTyped DEF Start, NoRow
<1>23. ASSUME NEW r \in Request, Commit(r)
      PROVE  Revived'
  BY <1>23 DEF Commit
<1>24. ASSUME NEW B \in SUBSET Contact, AddContacts(B)
      PROVE  Revived'
  BY <1>24 DEF AddContacts
<1>25. ASSUME NEW c \in Touched, Suppress(c)
      PROVE  Revived'
  BY <1>25 DEF Suppress
<1>26. ASSUME NEW r \in Request, NEW c \in Touched, NEW reply \in Replies,
            NEW answer \in {"none", "manual", "held", "sent", "failed", "unknown"},
            Receive(r, c, reply, answer)
      PROVE  Revived'
  <2>1. row[c] \in Row
    BY DEF TypeOK, RowTyped
  <2>2. QED
    BY <1>26, <2>1, ReactedMoves DEF Receive
<1>27. ASSUME NEW r \in Request, CommitReply(r)
      PROVE  Revived'
  BY <1>27 DEF CommitReply
<1>28. ASSUME NEW c \in Contact, TimePasses(c)
      PROVE  Revived'
  BY <1>28 DEF TimePasses
<1>29. CASE UNCHANGED vars
  BY <1>29 DEF vars
<1>30. QED
  BY <1>1, <1>2, <1>3, <1>4, <1>5, <1>6, <1>7, <1>8, <1>9, <1>10, <1>11, <1>12, <1>13, <1>14,
     <1>15, <1>16, <1>17, <1>18, <1>19, <1>20, <1>21, <1>22, <1>23, <1>24, <1>25, <1>26, <1>27, <1>28, <1>29,
     NextCases DEF JobCase, SenderCase, EndpointCase, RequestCase, WorldCase

-----------------------------------------------------------------------------
(* Which session a step moves.                                             *)

\* The session w does not move.
Still(w) ==
  /\ pc'[w] = pc[w] /\ left'[w] = left[w] /\ cur'[w] = cur[w] /\ snap'[w] = snap[w]
  /\ out'[w] = out[w] /\ sent'[w] = sent[w] /\ tx'[w] = tx[w]

\* The steps that move no sender, and the others.
Outside ==
  \/ RequestCase \/ WorldCase \/ UNCHANGED vars
  \/ \E w \in Job : ReleaseAllClaims(w)
  \/ \E a \in Approval, c \in Touched : ApproveOpen(a, c)
  \/ \E a \in Approval, o \in Outcomes : ApproveSend(a, o)
  \/ \E a \in Approval : ApproveCommit(a)

ActorCase ==
  \/ \E w \in Job : Sweep(w) \/ Claim(w) \/ ClaimNothing(w) \/ Finish(w)
  \/ \E w \in InitialJob : WriteInitial(w) \/ RollbackInitial(w) \/ CommitFails(w)
  \/ \E w \in FollowJob : WriteFollow(w)
  \/ \E w \in Sender, c \in Contact : Begin(w, c)
  \/ \E w \in Sender : Hold(w) \/ Raise(w)
  \/ \E w \in Sender, o \in Outcomes : Send(w, o)
  \/ \E w \in Session : Dies(w)
  \/ \E w \in Forced, c \in Touched : ForceAsk(w, c)
  \/ \E w \in Forced : ForceMark(w) \/ WriteForced(w)

\* A step is one of these.
LEMMA StepCases ==
  ASSUME [Next]_vars
  PROVE  ActorCase \/ Outside
BY NextCases, Zenon DEF JobCase, SenderCase, EndpointCase, ActorCase, Outside

\* What a sender does.
Acts(w) ==
  \/ Sweep(w) \/ Claim(w) \/ ClaimNothing(w) \/ Finish(w) \/ Dies(w)
  \/ WriteInitial(w) \/ RollbackInitial(w) \/ CommitFails(w) \/ WriteFollow(w)
  \/ \E c \in Contact : Begin(w, c)
  \/ Hold(w) \/ Raise(w) \/ \E o \in Outcomes : Send(w, o)
  \/ \E c \in Touched : ForceAsk(w, c)
  \/ ForceMark(w) \/ WriteForced(w)

\* A session that acts moves no other.
LEMMA OthersStill ==
  ASSUME TypeOK, NEW w \in Session, Acts(w), NEW v \in Session, v # w
  PROVE  Still(v)
<1> USE DEF Still, TypeOK, ThreadsTyped, LocksTyped
<1>1. CASE Sweep(w) \/ Claim(w)
  BY <1>1 DEF Sweep, Claim
<1>2. CASE ClaimNothing(w) \/ Finish(w) \/ Dies(w) \/ WriteForced(w)
  BY <1>2 DEF ClaimNothing, Finish, Dies, WriteForced, Reset
<1>3. CASE WriteInitial(w)
  BY <1>3 DEF WriteInitial, NextContact, release_claim
<1>4. CASE RollbackInitial(w) \/ CommitFails(w)
  <2>1. \E m : RolledBack(w, m)
    BY <1>4 DEF RollbackInitial, CommitFails
  <2>2. QED
    BY <2>1 DEF RolledBack, NextContact, release_claim
<1>5. CASE WriteFollow(w)
  BY <1>5 DEF WriteFollow, NextContact
<1>6. CASE \E c \in Contact : Begin(w, c)
  BY <1>6 DEF Begin
<1>7. CASE Hold(w) \/ Raise(w)
  BY <1>7 DEF Hold, Raise
<1>8. CASE \E o \in Outcomes : Send(w, o)
  BY <1>8 DEF Send
<1>9. CASE \E c \in Touched : ForceAsk(w, c)
  BY <1>9 DEF ForceAsk
<1>10. CASE ForceMark(w)
  BY <1>10 DEF ForceMark
<1>11. QED
  BY <1>1, <1>2, <1>3, <1>4, <1>5, <1>6, <1>7, <1>8, <1>9, <1>10 DEF Acts

\* The other steps move no sender.
LEMMA SendersStill ==
  ASSUME TypeOK, Outside, NEW v \in Sender
  PROVE  Still(v)
<1> USE Actors DEF Still, TypeOK, ThreadsTyped, LocksTyped
<1>1. CASE RequestCase
  <2>1. UNCHANGED session
    BY <1>1 DEF RequestCase, Ask, Start, Commit, CommitReply, Receive
  <2>2. QED
    BY <2>1 DEF session
<1>2. CASE WorldCase
  <2>1. UNCHANGED session
    BY <1>2 DEF WorldCase, AddContacts, Suppress, LeaseExpires, TimePasses
  <2>2. QED
    BY <2>1 DEF session
<1>3. CASE UNCHANGED vars
  BY <1>3 DEF vars, session
<1>4. CASE \E w \in Job : ReleaseAllClaims(w)
  BY <1>4 DEF ReleaseAllClaims, session
<1>5. CASE \E a \in Approval, c \in Touched : ApproveOpen(a, c)
  BY <1>5 DEF ApproveOpen
<1>6. CASE \E a \in Approval, o \in Outcomes : ApproveSend(a, o)
  BY <1>6 DEF ApproveSend
<1>7. CASE \E a \in Approval : ApproveCommit(a)
  BY <1>7 DEF ApproveCommit, Reset
<1>8. QED
  BY <1>1, <1>2, <1>3, <1>4, <1>5, <1>6, <1>7 DEF Outside

-----------------------------------------------------------------------------
(* What a sender has mailed in its open transaction.                       *)

\* A contact is in sent from its send until its transaction ends, and is not mailed again in it.
SentOnce(w) ==
  /\ pc[w] \in {"idle", "sweep", "forced"} => sent[w] = {}
  /\ left[w] \cap sent[w] = {}
  /\ pc[w] = "draft" => cur[w] \notin sent[w]
  /\ pc[w] = "write" => (cur[w] \in sent[w] <=> out[w] \in {"sent", "unknown"})
  /\ w \in FollowJob => sent[w] \subseteq DOMAIN tx[w]

Sending == \A w \in Sender : SentOnce(w)

\* Sending is kept by every step.
LEMMA SendingStep == NativeInv /\ Sending /\ [Next]_vars => Sending'
<1> SUFFICES ASSUME NativeInv, Sending, [Next]_vars
             PROVE  Sending'
  OBVIOUS
<1> USE Actors DEF NativeInv
<1>0. \A v \in Sender : Still(v) => SentOnce(v)'
  BY DEF Still, Sending, SentOnce
<1>1. ASSUME NEW w \in Job, Sweep(w)
      PROVE  Sending'
  <2>1. \A v \in Sender : v # w => Still(v)
    BY <1>1, OthersStill DEF Acts
  <2>2. SentOnce(w)'
    BY <1>1 DEF Sweep, SentOnce, Sending, TypeOK, ThreadsTyped, LocksTyped, Busy
  <2>3. QED
    BY <1>0, <2>1, <2>2 DEF Sending
<1>2. ASSUME NEW w \in Job, Claim(w)
      PROVE  Sending'
  <2>1. \A v \in Sender : v # w => Still(v)
    BY <1>2, OthersStill DEF Acts
  <2>2. SentOnce(w)'
    BY <1>2 DEF Claim, SentOnce, Sending, TypeOK, ThreadsTyped, LocksTyped, Busy
  <2>3. QED
    BY <1>0, <2>1, <2>2 DEF Sending
<1>3. ASSUME NEW w \in Job, ClaimNothing(w)
      PROVE  Sending'
  <2>1. \A v \in Sender : v # w => Still(v)
    BY <1>3, OthersStill DEF Acts
  <2>2. SentOnce(w)'
    BY <1>3 DEF ClaimNothing, Reset, SentOnce, Sending, TypeOK, ThreadsTyped, LocksTyped
  <2>3. QED
    BY <1>0, <2>1, <2>2 DEF Sending
<1>4. ASSUME NEW w \in Sender, NEW c \in Contact, Begin(w, c)
      PROVE  Sending'
  <2>1. \A v \in Sender : v # w => Still(v)
    BY <1>4, OthersStill DEF Acts
  <2>2. SentOnce(w)'
    BY <1>4 DEF Begin, SentOnce, Sending, TypeOK, ThreadsTyped, LocksTyped
  <2>3. QED
    BY <1>0, <2>1, <2>2 DEF Sending
<1>5. ASSUME NEW w \in Sender, Hold(w)
      PROVE  Sending'
  <2>1. \A v \in Sender : v # w => Still(v)
    BY <1>5, OthersStill DEF Acts
  <2>2. SentOnce(w)'
    BY <1>5 DEF Hold, SentOnce, Sending, TypeOK, ThreadsTyped, LocksTyped
  <2>3. QED
    BY <1>0, <2>1, <2>2 DEF Sending
<1>6. ASSUME NEW w \in Sender, Raise(w)
      PROVE  Sending'
  <2>1. \A v \in Sender : v # w => Still(v)
    BY <1>6, OthersStill DEF Acts
  <2>2. SentOnce(w)'
    BY <1>6 DEF Raise, SentOnce, Sending, TypeOK, ThreadsTyped, LocksTyped
  <2>3. QED
    BY <1>0, <2>1, <2>2 DEF Sending
<1>7. ASSUME NEW w \in Sender, NEW o \in Outcomes, Send(w, o)
      PROVE  Sending'
  <2>1. \A v \in Sender : v # w => Still(v)
    BY <1>7, OthersStill DEF Acts
  <2>2. /\ pc[w] = "draft" /\ pc'[w] = "write" /\ out'[w] = o /\ UNCHANGED <<left, cur, tx>>
        /\ sent'[w] = IF o = "failed" THEN sent[w] ELSE sent[w] \cup {cur[w]}
    BY <1>7 DEF Send, TypeOK, ThreadsTyped
  <2>3. cur[w] \notin left[w] /\ (w \in FollowJob => cur[w] \in DOMAIN tx[w])
    BY <2>2 DEF LockInv, Places, Busy, Follows
  <2>4. SentOnce(w)'
    BY <2>2, <2>3 DEF Sending, SentOnce, Outcomes
  <2>5. QED
    BY <1>0, <2>1, <2>2, <2>3, <2>4 DEF Sending
<1>8. ASSUME NEW w \in InitialJob, WriteInitial(w)
      PROVE  Sending'
  <2>1. \A v \in Sender : v # w => Still(v)
    BY <1>8, OthersStill DEF Acts
  <2>2. SentOnce(w)'
    BY <1>8 DEF WriteInitial, NextContact, release_claim, SentOnce, Sending, TypeOK, ThreadsTyped, LocksTyped
  <2>3. QED
    BY <1>0, <2>1, <2>2 DEF Sending
<1>9. ASSUME NEW w \in InitialJob, RollbackInitial(w) \/ CommitFails(w)
      PROVE  Sending'
  <2>1. \A v \in Sender : v # w => Still(v)
    BY <1>9, OthersStill DEF Acts
  <2>2. SentOnce(w)'
    BY <1>9 DEF RollbackInitial, CommitFails, RolledBack, NextContact, release_claim, SentOnce, Sending, TypeOK, ThreadsTyped, LocksTyped
  <2>3. QED
    BY <1>0, <2>1, <2>2 DEF Sending
<1>10. ASSUME NEW w \in FollowJob, WriteFollow(w)
      PROVE  Sending'
  <2>1. \A v \in Sender : v # w => Still(v)
    BY <1>10, OthersStill DEF Acts
  <2>2. SentOnce(w)'
    BY <1>10 DEF WriteFollow, NextContact, SentOnce, Sending, TypeOK, ThreadsTyped, LocksTyped, Follows, Busy
  <2>3. QED
    BY <1>0, <2>1, <2>2 DEF Sending
<1>11. ASSUME NEW w \in Job, Finish(w)
      PROVE  Sending'
  <2>1. \A v \in Sender : v # w => Still(v)
    BY <1>11, OthersStill DEF Acts
  <2>2. SentOnce(w)'
    BY <1>11 DEF Finish, Reset, SentOnce, Sending, TypeOK, ThreadsTyped, LocksTyped
  <2>3. QED
    BY <1>0, <2>1, <2>2 DEF Sending
<1>12. ASSUME NEW w \in Session, Dies(w)
      PROVE  Sending'
  <2>1. \A v \in Sender : v # w => Still(v)
    BY <1>12, OthersStill DEF Acts
  <2>2. w \in Sender => SentOnce(w)'
    BY <1>12 DEF Dies, Reset, SentOnce, Sending, TypeOK, ThreadsTyped, LocksTyped
  <2>3. QED
    BY <1>0, <2>1, <2>2 DEF Sending
<1>13. ASSUME NEW w \in Forced, NEW c \in Touched, ForceAsk(w, c)
      PROVE  Sending'
  <2>1. \A v \in Sender : v # w => Still(v)
    BY <1>13, OthersStill DEF Acts
  <2>2. SentOnce(w)'
    BY <1>13 DEF ForceAsk, SentOnce, Sending, TypeOK, ThreadsTyped, LocksTyped
  <2>3. QED
    BY <1>0, <2>1, <2>2 DEF Sending
<1>14. ASSUME NEW w \in Forced, ForceMark(w)
      PROVE  Sending'
  <2>1. \A v \in Sender : v # w => Still(v)
    BY <1>14, OthersStill DEF Acts
  <2>2. SentOnce(w)'
    BY <1>14 DEF ForceMark, SentOnce, Sending, TypeOK, ThreadsTyped, LocksTyped
  <2>3. QED
    BY <1>0, <2>1, <2>2 DEF Sending
<1>15. ASSUME NEW w \in Forced, WriteForced(w)
      PROVE  Sending'
  <2>1. \A v \in Sender : v # w => Still(v)
    BY <1>15, OthersStill DEF Acts
  <2>2. SentOnce(w)'
    BY <1>15 DEF WriteForced, Reset, SentOnce, Sending, TypeOK, ThreadsTyped, LocksTyped
  <2>3. QED
    BY <1>0, <2>1, <2>2 DEF Sending
<1>16. CASE Outside
  BY <1>16, <1>0, SendersStill DEF Sending
<1>17. QED
  BY <1>1, <1>2, <1>3, <1>4, <1>5, <1>6, <1>7, <1>8, <1>9, <1>10, <1>11, <1>12, <1>13, <1>14, <1>15, <1>16, StepCases DEF ActorCase

-----------------------------------------------------------------------------
(* How far a locked copy may be ahead of its row.                          *)

\* A locked copy is on the row's step, or one ahead once the follow-up has left, and makes no
\* contact active.
Level(w, c) ==
  /\ IF w \in InitialJob
     THEN tx[w][c].status = row[c].status
     ELSE tx[w][c].status = "active" => row[c].status = "active"
  /\ IF w \in FollowJob /\ c \in sent[w] /\ c # cur[w]
     THEN tx[w][c].index = row[c].index + 1 \/ tx[w][c].status # "active"
     ELSE tx[w][c].index = row[c].index

LevelLocks(w) == \A c \in DOMAIN tx[w] : Level(w, c)

LocksLevel == \A w \in Job : LevelLocks(w)

\* Nobody else moves a locked row, so a session that waits stays level.
LEMMA StillLevel ==
  ASSUME NativeInv, [Next]_vars, NEW v \in Job, LevelLocks(v), Still(v)
  PROVE  LevelLocks(v)'
<1>1. \A c \in DOMAIN tx[v] : Same(row'[c], row[c])
  BY LockedRows, Actors DEF NativeInv, Steady, Still
<1>2. QED
  BY <1>1 DEF LevelLocks, Level, Still, Same

\* LocksLevel is kept by every step.
LEMMA LocksLevelStep == NativeInv /\ Sending /\ LocksLevel /\ [Next]_vars => LocksLevel'
<1> SUFFICES ASSUME NativeInv, Sending, LocksLevel, [Next]_vars
             PROVE  LocksLevel'
  OBVIOUS
<1> USE Actors DEF NativeInv
<1>0. \A v \in Job : Still(v) => LevelLocks(v)'
  BY StillLevel DEF LocksLevel
<1>1. ASSUME NEW w \in Job, Sweep(w)
      PROVE  LocksLevel'
  <2>1. \A v \in Sender : v # w => Still(v)
    BY <1>1, OthersStill DEF Acts
  <2>2. UNCHANGED <<row, tx, sent, cur>>
    BY <1>1 DEF Sweep, database
  <2>3. LevelLocks(w)'
    BY <2>2 DEF LocksLevel, LevelLocks, Level
  <2>4. QED
    BY <1>0, <2>1, <2>3 DEF LocksLevel
<1>2. ASSUME NEW w \in Job, Claim(w)
      PROVE  LocksLevel'
  <2>1. \A v \in Sender : v # w => Still(v)
    BY <1>2, OthersStill DEF Acts
  <2>2. Taken(w) /\ UNCHANGED <<row, sent>> /\ sent[w] = {}
    BY <1>2, ClaimedRows DEF Claim, database, Sending, SentOnce
  <2>3. LevelLocks(w)'
    BY <2>2 DEF Taken, LevelLocks, Level, Same
  <2>4. QED
    BY <1>0, <2>1, <2>3 DEF LocksLevel
<1>3. ASSUME NEW w \in Job, ClaimNothing(w)
      PROVE  LocksLevel'
  <2>1. \A v \in Sender : v # w => Still(v)
    BY <1>3, OthersStill DEF Acts
  <2>2. LevelLocks(w)'
    BY <1>3 DEF ClaimNothing, Reset, LevelLocks, TypeOK, LocksTyped
  <2>3. QED
    BY <1>0, <2>1, <2>2 DEF LocksLevel
<1>4. ASSUME NEW w \in Sender, NEW c \in Contact, Begin(w, c)
      PROVE  LocksLevel'
  <2>1. \A v \in Sender : v # w => Still(v)
    BY <1>4, OthersStill DEF Acts
  <2>2. /\ UNCHANGED <<row, tx, sent>> /\ cur'[w] = c /\ c \notin sent[w] /\ cur[w] = Null
        /\ DOMAIN tx[w] \subseteq Contact
    BY <1>4 DEF Begin, database, Sending, SentOnce, Busy, TypeOK, ThreadsTyped, LocksTyped
  <2>3. w \in Job => LevelLocks(w)'
    BY <2>2 DEF LocksLevel, LevelLocks, Level
  <2>4. QED
    BY <1>0, <2>1, <2>3 DEF LocksLevel
<1>5. ASSUME NEW w \in Sender, Hold(w)
      PROVE  LocksLevel'
  <2>1. \A v \in Sender : v # w => Still(v)
    BY <1>5, OthersStill DEF Acts
  <2>2. UNCHANGED <<row, tx, sent, cur>>
    BY <1>5 DEF Hold, database
  <2>3. w \in Job => LevelLocks(w)'
    BY <2>2 DEF LocksLevel, LevelLocks, Level
  <2>4. QED
    BY <1>0, <2>1, <2>3 DEF LocksLevel
<1>6. ASSUME NEW w \in Sender, Raise(w)
      PROVE  LocksLevel'
  <2>1. \A v \in Sender : v # w => Still(v)
    BY <1>6, OthersStill DEF Acts
  <2>2. UNCHANGED <<row, tx, sent, cur>>
    BY <1>6 DEF Raise, database
  <2>3. w \in Job => LevelLocks(w)'
    BY <2>2 DEF LocksLevel, LevelLocks, Level
  <2>4. QED
    BY <1>0, <2>1, <2>3 DEF LocksLevel
<1>7. ASSUME NEW w \in Sender, NEW o \in Outcomes, Send(w, o)
      PROVE  LocksLevel'
  <2>1. \A v \in Sender : v # w => Still(v)
    BY <1>7, OthersStill DEF Acts
  <2>2. UNCHANGED <<row, tx, cur>> /\ \A d : d # cur[w] => (d \in sent'[w] <=> d \in sent[w])
    BY <1>7 DEF Send, database, TypeOK, ThreadsTyped
  <2>3. w \in Job => LevelLocks(w)'
    BY <2>2 DEF LocksLevel, LevelLocks, Level
  <2>4. QED
    BY <1>0, <2>1, <2>3 DEF LocksLevel
<1>8. ASSUME NEW w \in InitialJob, WriteInitial(w)
      PROVE  LocksLevel'
  <2>1. \A v \in Sender : v # w => Still(v)
    BY <1>8, OthersStill DEF Acts
  <2>2. cur[w] \in Contact /\ NewRow(w) \in Row
    BY <1>8, Hand, NewRowTyped DEF WriteInitial
  <2>3. row'[cur[w]] = NewRow(w) /\ DOMAIN tx'[w] = {cur[w]} /\ tx'[w][cur[w]] = Released(NewRow(w))
    BY <1>8, <2>2 DEF WriteInitial, release_claim, Committed, TypeOK, LocksTyped
  <2>4. Same(Released(NewRow(w)), NewRow(w))
    BY <2>2, SameRows
  <2>5. LevelLocks(w)'
    BY <2>3, <2>4 DEF LevelLocks, Level, Same
  <2>6. QED
    BY <1>0, <2>1, <2>5 DEF LocksLevel
<1>9. ASSUME NEW w \in InitialJob, RollbackInitial(w) \/ CommitFails(w)
      PROVE  LocksLevel'
  <2>1. \A v \in Sender : v # w => Still(v)
    BY <1>9, OthersStill DEF Acts
  <2>2. cur[w] \in Contact /\ row[cur[w]] \in Row
    BY <1>9, Hand DEF RollbackInitial, CommitFails, TypeOK, RowTyped
  <2>3. UNCHANGED row /\ DOMAIN tx'[w] = {cur[w]} /\ tx'[w][cur[w]] = Released(row[cur[w]])
    BY <1>9, <2>2 DEF RollbackInitial, CommitFails, RolledBack, release_claim, database, TypeOK, LocksTyped
  <2>4. Same(Released(row[cur[w]]), row[cur[w]])
    BY <2>2, SameRows
  <2>5. LevelLocks(w)'
    BY <2>3, <2>4 DEF LevelLocks, Level, Same
  <2>6. QED
    BY <1>0, <2>1, <2>5 DEF LocksLevel
<1>10. ASSUME NEW w \in FollowJob, WriteFollow(w)
      PROVE  LocksLevel'
  <2>1. \A v \in Sender : v # w => Still(v)
    BY <1>10, OthersStill DEF Acts
  <2>2. /\ cur[w] \in Contact /\ pc[w] = "write" /\ UNCHANGED <<row, sent>> /\ cur'[w] = Null
        /\ cur[w] \in DOMAIN tx[w] /\ snap[w] = tx[w][cur[w]] /\ out[w] \in Results /\ DOMAIN tx[w] \subseteq Contact
    BY <1>10, Hand DEF WriteFollow, NextContact, database, Follows, Busy, TypeOK, ThreadsTyped, LocksTyped
  <2>3. /\ DOMAIN tx'[w] = DOMAIN tx[w] /\ tx'[w][cur[w]] = Released(NewRow(w))
        /\ \A c \in DOMAIN tx[w] : c # cur[w] => tx'[w][c] = tx[w][c]
    BY <1>10, <2>2 DEF WriteFollow, TypeOK, LocksTyped
  <2>4. /\ Released(NewRow(w)).status = NewRow(w).status /\ Released(NewRow(w)).index = NewRow(w).index
    BY <2>2, ReleasedNew
  <2>5. View(w, cur[w]) = snap[w] /\ Level(w, cur[w])
    BY <2>2 DEF View, LocksLevel, LevelLocks
  <2>6. out[w] \in {"sent", "unknown"} => snap[w].status = "active"
    BY <2>2 DEF Decided, should_send_followup_now, can_send_followup
  <2>7. /\ NewRow(w).status = "active" => snap[w].status = "active"
        /\ out[w] = "unknown" => NewRow(w).status # "active"
        /\ NewRow(w).index = IF out[w] = "sent" THEN snap[w].index + 1 ELSE snap[w].index
    BY <2>2, <2>5, <2>6, NewRowMoves
  <2>8. cur[w] \in sent[w] <=> out[w] \in {"sent", "unknown"}
    BY <2>2 DEF Sending, SentOnce
  <2>9. \A c \in DOMAIN tx[w] : c # cur[w] => Level(w, c)'
    BY <2>2, <2>3 DEF LocksLevel, LevelLocks, Level
  <2>10. ASSUME NEW c, c = cur[w] PROVE Level(w, c)'
    BY <2>2, <2>3, <2>4, <2>5, <2>7, <2>8, <2>10 DEF Level
  <2>11. LevelLocks(w)'
    BY <2>2, <2>3, <2>9, <2>10 DEF LevelLocks
  <2>12. QED
    BY <1>0, <2>1, <2>11 DEF LocksLevel
<1>11. ASSUME NEW w \in Job, Finish(w)
      PROVE  LocksLevel'
  <2>1. \A v \in Sender : v # w => Still(v)
    BY <1>11, OthersStill DEF Acts
  <2>2. LevelLocks(w)'
    BY <1>11 DEF Finish, Reset, LevelLocks, TypeOK, LocksTyped
  <2>3. QED
    BY <1>0, <2>1, <2>2 DEF LocksLevel
<1>12. ASSUME NEW w \in Session, Dies(w)
      PROVE  LocksLevel'
  <2>1. \A v \in Sender : v # w => Still(v)
    BY <1>12, OthersStill DEF Acts
  <2>2. LevelLocks(w)'
    BY <1>12 DEF Dies, Reset, LevelLocks, TypeOK, LocksTyped
  <2>3. QED
    BY <1>0, <2>1, <2>2 DEF LocksLevel
<1>13. ASSUME NEW w \in Forced, NEW c \in Touched, ForceAsk(w, c)
      PROVE  LocksLevel'
  <2>1. \A v \in Sender : v # w => Still(v)
    BY <1>13, OthersStill DEF Acts
  <2>2. QED
    BY <1>0, <2>1 DEF LocksLevel
<1>14. ASSUME NEW w \in Forced, ForceMark(w)
      PROVE  LocksLevel'
  <2>1. \A v \in Sender : v # w => Still(v)
    BY <1>14, OthersStill DEF Acts
  <2>2. QED
    BY <1>0, <2>1 DEF LocksLevel
<1>15. ASSUME NEW w \in Forced, WriteForced(w)
      PROVE  LocksLevel'
  <2>1. \A v \in Sender : v # w => Still(v)
    BY <1>15, OthersStill DEF Acts
  <2>2. QED
    BY <1>0, <2>1 DEF LocksLevel
<1>16. CASE Outside
  BY <1>16, <1>0, SendersStill DEF LocksLevel
<1>17. QED
  BY <1>1, <1>2, <1>3, <1>4, <1>5, <1>6, <1>7, <1>8, <1>9, <1>10, <1>11, <1>12, <1>13, <1>14, <1>15, <1>16, StepCases DEF ActorCase

\* A contact that is still new was new when an initial job loaded it.
LoadedNew(w) == cur[w] # Null /\ row[cur[w]].status = "new" => snap[w].status = "new"

Loaded == \A w \in InitialJob : LoadedNew(w)

\* Loaded is kept by every step.
LEMMA LoadedStep == NativeInv /\ LocksLevel /\ Loaded /\ [Next]_vars => Loaded'
<1> SUFFICES ASSUME NativeInv, LocksLevel, Loaded, [Next]_vars
             PROVE  Loaded'
  OBVIOUS
<1> USE Actors DEF NativeInv
<1>0. ASSUME NEW v \in InitialJob, Still(v) PROVE LoadedNew(v)'
  <2>1. cur[v] # Null => cur[v] \in Contact /\ Known(cur[v])
    BY DEF TypeOK, ThreadsTyped, LockInv, Knowledge, PlansKnown
  <2>2. \A c \in Contact : Known(c) /\ row'[c].status = "new" => row[c].status = "new"
    BY NeverNewAgain DEF NotNewAgain, NativeInv
  <2>3. QED
    BY <1>0, <2>1, <2>2 DEF Still, Loaded, LoadedNew
<1>1. ASSUME NEW w \in Job, Sweep(w)
      PROVE  Loaded'
  <2>1. UNCHANGED <<row, cur, snap>>
    BY <1>1 DEF Sweep, database
  <2>2. QED
    BY <2>1 DEF Loaded, LoadedNew
<1>2. ASSUME NEW w \in Job, Claim(w)
      PROVE  Loaded'
  <2>1. UNCHANGED <<row, cur, snap>>
    BY <1>2 DEF Claim, database
  <2>2. QED
    BY <2>1 DEF Loaded, LoadedNew
<1>3. ASSUME NEW w \in Job, ClaimNothing(w)
      PROVE  Loaded'
  <2>1. \A v \in Sender : v # w => Still(v)
    BY <1>3, OthersStill DEF Acts
  <2>2. cur'[w] = Null
    BY <1>3 DEF ClaimNothing, Reset, TypeOK, ThreadsTyped
  <2>3. QED
    BY <1>0, <2>1, <2>2 DEF Loaded, LoadedNew
<1>4. ASSUME NEW w \in Sender, NEW c \in Contact, Begin(w, c)
      PROVE  Loaded'
  <2>1. \A v \in Sender : v # w => Still(v)
    BY <1>4, OthersStill DEF Acts
  <2>2. UNCHANGED row /\ cur'[w] = c /\ snap'[w] = View(w, c)
    BY <1>4 DEF Begin, database, TypeOK, ThreadsTyped
  <2>3. w \in InitialJob => LoadedNew(w)'
    BY <2>2 DEF LoadedNew, View, LocksLevel, LevelLocks, Level
  <2>4. QED
    BY <1>0, <2>1, <2>3 DEF Loaded
<1>5. ASSUME NEW w \in Sender, Hold(w)
      PROVE  Loaded'
  <2>1. UNCHANGED <<row, cur, snap>>
    BY <1>5 DEF Hold, database
  <2>2. QED
    BY <2>1 DEF Loaded, LoadedNew
<1>6. ASSUME NEW w \in Sender, Raise(w)
      PROVE  Loaded'
  <2>1. UNCHANGED <<row, cur, snap>>
    BY <1>6 DEF Raise, database
  <2>2. QED
    BY <2>1 DEF Loaded, LoadedNew
<1>7. ASSUME NEW w \in Sender, NEW o \in Outcomes, Send(w, o)
      PROVE  Loaded'
  <2>1. UNCHANGED <<row, cur, snap>>
    BY <1>7 DEF Send, database
  <2>2. QED
    BY <2>1 DEF Loaded, LoadedNew
<1>8. ASSUME NEW w \in InitialJob, WriteInitial(w)
      PROVE  Loaded'
  <2>1. \A v \in Sender : v # w => Still(v)
    BY <1>8, OthersStill DEF Acts
  <2>2. cur'[w] = Null
    BY <1>8 DEF WriteInitial, NextContact, release_claim, TypeOK, ThreadsTyped
  <2>3. QED
    BY <1>0, <2>1, <2>2 DEF Loaded, LoadedNew
<1>9. ASSUME NEW w \in InitialJob, RollbackInitial(w) \/ CommitFails(w)
      PROVE  Loaded'
  <2>1. \A v \in Sender : v # w => Still(v)
    BY <1>9, OthersStill DEF Acts
  <2>2. cur'[w] = Null
    BY <1>9 DEF RollbackInitial, CommitFails, RolledBack, NextContact, release_claim, TypeOK, ThreadsTyped
  <2>3. QED
    BY <1>0, <2>1, <2>2 DEF Loaded, LoadedNew
<1>10. ASSUME NEW w \in FollowJob, WriteFollow(w)
      PROVE  Loaded'
  <2>1. \A v \in Sender : v # w => Still(v)
    BY <1>10, OthersStill DEF Acts
  <2>2. QED
    BY <1>0, <2>1 DEF Loaded
<1>11. ASSUME NEW w \in Job, Finish(w)
      PROVE  Loaded'
  <2>1. \A v \in Sender : v # w => Still(v)
    BY <1>11, OthersStill DEF Acts
  <2>2. cur'[w] = Null
    BY <1>11 DEF Finish, Reset, TypeOK, ThreadsTyped
  <2>3. QED
    BY <1>0, <2>1, <2>2 DEF Loaded, LoadedNew
<1>12. ASSUME NEW w \in Session, Dies(w)
      PROVE  Loaded'
  <2>1. \A v \in Sender : v # w => Still(v)
    BY <1>12, OthersStill DEF Acts
  <2>2. cur'[w] = Null
    BY <1>12 DEF Dies, Reset, TypeOK, ThreadsTyped
  <2>3. QED
    BY <1>0, <2>1, <2>2 DEF Loaded, LoadedNew
<1>13. ASSUME NEW w \in Forced, NEW c \in Touched, ForceAsk(w, c)
      PROVE  Loaded'
  <2>1. \A v \in Sender : v # w => Still(v)
    BY <1>13, OthersStill DEF Acts
  <2>2. QED
    BY <1>0, <2>1 DEF Loaded
<1>14. ASSUME NEW w \in Forced, ForceMark(w)
      PROVE  Loaded'
  <2>1. \A v \in Sender : v # w => Still(v)
    BY <1>14, OthersStill DEF Acts
  <2>2. QED
    BY <1>0, <2>1 DEF Loaded
<1>15. ASSUME NEW w \in Forced, WriteForced(w)
      PROVE  Loaded'
  <2>1. \A v \in Sender : v # w => Still(v)
    BY <1>15, OthersStill DEF Acts
  <2>2. QED
    BY <1>0, <2>1 DEF Loaded
<1>16. CASE Outside
  BY <1>16, <1>0, SendersStill DEF Loaded
<1>17. QED
  BY <1>1, <1>2, <1>3, <1>4, <1>5, <1>6, <1>7, <1>8, <1>9, <1>10, <1>11, <1>12, <1>13, <1>14, <1>15, <1>16, StepCases DEF ActorCase

-----------------------------------------------------------------------------
(* Every mail is paid for.                                                 *)

\* v means to mail c: it is in the batch, or in hand and its step not yet mailed.
Planned(v, c) == pc[v] \in {"loop", "draft", "write"} /\ c \in left[v]

\* v, an initial job or a forced follow-up, may still cause a mail of step k to c, or a row from
\* which one may come.
InHand(v, c, k) ==
  \/ Planned(v, c)
  \/ cur[v] = c /\ Step(v) <= k /\ (c \in sent[v] => Step(v) < k)

Hands(c, k) == {v \in InitialJob \cup Forced : InHand(v, c, k)}

\* The claim on c is v's own, and no other job can overwrite it.
Owner(v, c) ==
  /\ c \in Batch(v) /\ Carries(v, c)
  /\ \A u \in Job : u # v => c \notin DOMAIN tx[u]

\* An initial job may still claim c.
Open(c) == row[c].status \in {"absent", "new"} /\ \A v \in InitialJob : ~Owner(v, c)

\* The follow-up cycle may still mail step k to c.
Grant(c, k) ==
  /\ row[c].status = "active" /\ row[c].index + 1 <= k
  /\ ~(k = row[c].index + 1 /\ \E w \in FollowJob : c \in sent[w])

\* What the committed row still promises: never both.
Prospect(c, k) == Open(c) \/ Grant(c, k)

\* What was mailed or may be without a hand, and what pays for it.
Load(c, k) == mailed[c][k] + IF Prospect(c, k) THEN 1 ELSE 0
Credit(c) == 1 + spoiled[c] + dropped[c] + waived[c]

Paid(c, k) ==
  /\ IsFiniteSet(Hands(c, k))
  /\ Load(c, k) + Cardinality(Hands(c, k)) <= Credit(c)

AllPaid == \A c \in Contact, k \in Steps : Paid(c, k)

\* How many are left of a finite set, without one, or with one more.
LEMMA Fewer ==
  ASSUME NEW H, IsFiniteSet(H), NEW G
  PROVE  /\ Cardinality(H) \in Nat
         /\ G \subseteq H => IsFiniteSet(G) /\ Cardinality(G) \in Nat /\ Cardinality(G) <= Cardinality(H)
         /\ \A w \in H : G \subseteq H \ {w} =>
              IsFiniteSet(G) /\ Cardinality(G) \in Nat /\ Cardinality(G) + 1 <= Cardinality(H)
         /\ \A w : G \subseteq H \cup {w} =>
              IsFiniteSet(G) /\ Cardinality(G) \in Nat /\ Cardinality(G) <= Cardinality(H) + 1
<1>1. Cardinality(H) \in Nat
  BY FS_CardinalityType
<1>2. ASSUME NEW S, IsFiniteSet(S), G \subseteq S
      PROVE  IsFiniteSet(G) /\ Cardinality(G) \in Nat /\ Cardinality(G) <= Cardinality(S)
  BY <1>2, FS_Subset, FS_CardinalityType
<1>3. ASSUME NEW w \in H, G \subseteq H \ {w}
      PROVE  IsFiniteSet(G) /\ Cardinality(G) \in Nat /\ Cardinality(G) + 1 <= Cardinality(H)
  <2>1. IsFiniteSet(H \ {w}) /\ Cardinality(H \ {w}) = Cardinality(H) - 1
    BY FS_RemoveElement
  <2>2. IsFiniteSet(G) /\ Cardinality(G) \in Nat /\ Cardinality(G) <= Cardinality(H \ {w})
    BY <1>2, <1>3, <2>1
  <2>3. QED
    BY <1>1, <2>1, <2>2
<1>4. ASSUME NEW w, G \subseteq H \cup {w}
      PROVE  IsFiniteSet(G) /\ Cardinality(G) \in Nat /\ Cardinality(G) <= Cardinality(H) + 1
  <2>1. /\ IsFiniteSet(H \cup {w})
        /\ Cardinality(H \cup {w}) = Cardinality(H) \/ Cardinality(H \cup {w}) = Cardinality(H) + 1
    BY FS_AddElement
  <2>2. IsFiniteSet(G) /\ Cardinality(G) \in Nat /\ Cardinality(G) <= Cardinality(H \cup {w})
    BY <1>2, <1>4, <2>1
  <2>3. QED
    BY <1>1, <2>1, <2>2
<1>5. QED
  BY <1>1, <1>2, <1>3, <1>4

\* Loads and credits are numbers.
LEMMA Sums ==
  ASSUME TypeOK, NEW c \in Contact, NEW k \in Steps
  PROVE  /\ Load(c, k) \in Nat /\ Credit(c) \in Nat /\ mailed[c][k] \in Nat
         /\ spoiled[c] \in Nat /\ dropped[c] \in Nat /\ waived[c] \in Nat
<1>1. mailed[c][k] \in Nat /\ spoiled[c] \in Nat /\ dropped[c] \in Nat /\ waived[c] \in Nat
  BY DEF TypeOK, MailTyped, CountsTyped
<1>2. QED
  BY <1>1 DEF Load, Credit

\* A step keeps c paid if no hand is added and the load grows no more than the credit, if a hand
\* is given up for one more, or if the new hand is paid for.
LEMMA Balance ==
  ASSUME TypeOK, TypeOK', NEW c \in Contact, NEW k \in Steps, Paid(c, k), NEW w,
         \/ /\ Hands(c, k)' \subseteq Hands(c, k)
            /\ Load(c, k)' + Credit(c) <= Load(c, k) + Credit(c)'
         \/ /\ w \in Hands(c, k) /\ Hands(c, k)' \subseteq Hands(c, k) \ {w}
            /\ Load(c, k)' + Credit(c) <= Load(c, k) + Credit(c)' + 1
         \/ /\ Hands(c, k)' \subseteq Hands(c, k) \cup {w}
            /\ Load(c, k)' + Credit(c) + 1 <= Load(c, k) + Credit(c)'
  PROVE  Paid(c, k)'
<1> DEFINE H == Hands(c, k)
           G == Hands(c, k)'
           m == Load(c, k)
           n == Load(c, k)'
           p == Credit(c)
           q == Credit(c)'
<1>1. IsFiniteSet(H) /\ m + Cardinality(H) <= p
  BY DEF Paid
<1>2. m \in Nat /\ p \in Nat /\ n \in Nat /\ q \in Nat
  <2>1. m \in Nat /\ p \in Nat
    BY Sums
  <2>2. mailed'[c][k] \in Nat /\ spoiled'[c] \in Nat /\ dropped'[c] \in Nat /\ waived'[c] \in Nat
    BY DEF TypeOK, MailTyped, CountsTyped
  <2>3. n \in Nat /\ q \in Nat
    BY <2>2 DEF Load, Credit
  <2>4. QED
    BY <2>1, <2>3
<1>3. \/ G \subseteq H /\ n + p <= m + q
      \/ w \in H /\ G \subseteq H \ {w} /\ n + p <= m + q + 1
      \/ G \subseteq H \cup {w} /\ n + p + 1 <= m + q
  OBVIOUS
<1> HIDE DEF H, G, m, n, p, q
<1>4. IsFiniteSet(G) /\ n + Cardinality(G) <= q
  BY <1>1, <1>2, <1>3, Fewer
<1>5. QED
  BY <1>4 DEF Paid, H, G, m, n, p, q

\* The same for a step that mails nothing to c.
LEMMA StaysPaid ==
  ASSUME TypeOK, TypeOK', NEW c \in Contact, NEW k \in Steps, Paid(c, k), NEW w,
         mailed'[c][k] = mailed[c][k], Credit(c) <= Credit(c)',
         \/ /\ Hands(c, k)' \subseteq Hands(c, k)
            /\ (Prospect(c, k)' => Prospect(c, k)) \/ Credit(c) < Credit(c)'
         \/ w \in Hands(c, k) /\ Hands(c, k)' \subseteq Hands(c, k) \ {w}
         \/ /\ Hands(c, k)' \subseteq Hands(c, k) \cup {w} /\ (Prospect(c, k)' => Prospect(c, k))
            /\ Credit(c) < Credit(c)' \/ (Prospect(c, k) /\ ~Prospect(c, k)')
  PROVE  Paid(c, k)'
<1>1. mailed[c][k] \in Nat /\ Credit(c) \in Nat /\ Credit(c)' \in Nat
  <2>1. spoiled'[c] \in Nat /\ dropped'[c] \in Nat /\ waived'[c] \in Nat
    BY DEF TypeOK, CountsTyped
  <2>2. Credit(c)' \in Nat
    BY <2>1 DEF Credit
  <2>3. QED
    BY <2>2, Sums
<1>2. /\ Load(c, k) = mailed[c][k] + IF Prospect(c, k) THEN 1 ELSE 0
      /\ Load(c, k)' = mailed[c][k] + IF Prospect(c, k)' THEN 1 ELSE 0
  BY DEF Load
<1>3. CASE /\ Hands(c, k)' \subseteq Hands(c, k)
           /\ (Prospect(c, k)' => Prospect(c, k)) \/ Credit(c) < Credit(c)'
  <2>1. Load(c, k)' + Credit(c) <= Load(c, k) + Credit(c)'
    BY <1>1, <1>2, <1>3
  <2>2. QED
    BY <1>3, <2>1, Balance
<1>4. CASE w \in Hands(c, k) /\ Hands(c, k)' \subseteq Hands(c, k) \ {w}
  <2>1. Load(c, k)' + Credit(c) <= Load(c, k) + Credit(c)' + 1
    BY <1>1, <1>2, <1>4
  <2>2. QED
    BY <1>4, <2>1, Balance
<1>5. CASE /\ Hands(c, k)' \subseteq Hands(c, k) \cup {w} /\ (Prospect(c, k)' => Prospect(c, k))
           /\ Credit(c) < Credit(c)' \/ (Prospect(c, k) /\ ~Prospect(c, k)')
  <2>1. Load(c, k)' + Credit(c) + 1 <= Load(c, k) + Credit(c)'
    BY <1>1, <1>2, <1>5
  <2>2. QED
    BY <1>5, <2>1, Balance
<1>6. QED
  BY <1>3, <1>4, <1>5

\* The history counters only grow, by one for the contacts that a step counts.
LEMMA Credits ==
  ASSUME TypeOK, NEW c \in Contact, NEW S, NEW T, NEW U,
         spoiled' = spoiled \/ spoiled' = Tally(spoiled, S),
         dropped' = dropped \/ dropped' = Tally(dropped, T),
         waived' = waived \/ waived' = Tally(waived, U)
  PROVE  /\ Credit(c) <= Credit(c)'
         /\ spoiled' = Tally(spoiled, S) /\ c \in S => Credit(c) < Credit(c)'
         /\ dropped' = Tally(dropped, T) /\ c \in T => Credit(c) < Credit(c)'
         /\ waived' = Tally(waived, U) /\ c \in U => Credit(c) < Credit(c)'
<1>1. spoiled[c] \in Nat /\ dropped[c] \in Nat /\ waived[c] \in Nat
  BY DEF TypeOK, CountsTyped
<1>2. /\ \A Q : Tally(spoiled, Q)[c] = IF c \in Q THEN spoiled[c] + 1 ELSE spoiled[c]
      /\ \A Q : Tally(dropped, Q)[c] = IF c \in Q THEN dropped[c] + 1 ELSE dropped[c]
      /\ \A Q : Tally(waived, Q)[c] = IF c \in Q THEN waived[c] + 1 ELSE waived[c]
  BY TallyTyped DEF TypeOK, CountsTyped
<1>3. QED
  BY <1>1, <1>2 DEF Credit

\* A session that does not move keeps in hand what it has.
LEMMA StillInHand ==
  ASSUME NEW v, Still(v), NEW c, NEW k
  PROVE  /\ InHand(v, c, k)' <=> InHand(v, c, k)
         /\ Batch(v)' = Batch(v)
BY DEF Still, InHand, Planned, Step, Batch

\* An owner that does not move keeps its contact unless the row's claim is written or another
\* job locks it.
LEMMA OwnerStays ==
  ASSUME NEW v \in InitialJob, NEW c, Owner(v, c), Still(v),
         row'[c].claim = row[c].claim, row'[c].lease = row[c].lease,
         \A u \in Job : u # v /\ c \in DOMAIN tx'[u] => c \in DOMAIN tx[u]
  PROVE  Owner(v, c)'
<1>1. Batch(v)' = Batch(v)
  BY StillInHand
<1>2. QED
  BY <1>1 DEF Owner, Carries, View, Still

\* A contact is open again only when its owner is lost: no row becomes new again.
LEMMA OpenAgain ==
  ASSUME NativeInv, [Next]_vars, NEW c \in Contact, Open(c)', ~Open(c)
  PROVE  \E v \in InitialJob : Owner(v, c) /\ ~Owner(v, c)'
<1>1. row'[c].status \in {"absent", "new"} => row[c].status \in {"absent", "new"}
  <2>1. Known(c) => Known(c)'
    BY KnownStays DEF NativeInv, LockInv
  <2>2. row'[c].status = "new" /\ Known(c) => row[c].status = "new"
    BY NeverNewAgain DEF NotNewAgain
  <2>3. QED
    BY <2>1, <2>2 DEF Known
<1>2. QED
  BY <1>1 DEF Open

-----------------------------------------------------------------------------
(* No step leaves a mail unpaid.                                           *)

\* All that the argument rests on.
RepeatInv == NativeInv /\ Fresh /\ Revived /\ Sending /\ LocksLevel /\ Loaded /\ AllPaid

\* What every case below starts from.
LEMMA Ground ==
  ASSUME RepeatInv, [Next]_vars, NEW d \in Contact, NEW k \in Steps
  PROVE  /\ TypeOK /\ TypeOK' /\ Busy /\ NativeInv /\ Paid(d, k)
         /\ k \in Nat /\ row[d] \in Row /\ row[d].index \in Nat /\ mailed[d][k] \in Nat
<1>1. TypeOK' /\ TypeOK /\ Busy /\ NativeInv /\ Paid(d, k)
  BY TypeStep DEF RepeatInv, NativeInv, AllPaid
<1>2. k \in Nat
  BY NativeAssumption DEF Steps
<1>3. row[d] \in Row /\ mailed[d][k] \in Nat
  BY <1>1 DEF TypeOK, RowTyped, MailTyped
<1>4. row[d].index \in Nat
  BY <1>3 DEF Row
<1>5. QED
  BY <1>1, <1>2, <1>3, <1>4

\* When w acts, only w's own hand changes.
LEMMA HandsMove ==
  ASSUME TypeOK, NEW w \in Session, Acts(w), NEW c, NEW k
  PROVE  /\ Hands(c, k)' \subseteq Hands(c, k) \cup {w}
         /\ (InHand(w, c, k)' => InHand(w, c, k)) => Hands(c, k)' \subseteq Hands(c, k)
         /\ ~InHand(w, c, k)' => Hands(c, k)' \subseteq Hands(c, k) \ {w}
         /\ w \notin InitialJob \cup Forced => Hands(c, k)' \subseteq Hands(c, k)
<1>1. \A v \in InitialJob \cup Forced : v # w => (InHand(v, c, k)' <=> InHand(v, c, k))
  BY OthersStill, StillInHand, Actors
<1>2. QED
  BY <1>1 DEF Hands

\* When w acts, another job's ownership of c is lost only with the row's claim or to a lock of w.
LEMMA OthersOwn ==
  ASSUME TypeOK, NEW w \in Session, Acts(w), NEW c, NEW v \in InitialJob, v # w, Owner(v, c),
         row'[c].claim = row[c].claim, row'[c].lease = row[c].lease,
         c \in DOMAIN tx'[w] => c \in DOMAIN tx[w]
  PROVE  Owner(v, c)'
<1>1. \A u \in Session : u # w => Still(u)
  BY OthersStill
<1>2. Still(v) /\ \A u \in Job : u # v /\ c \in DOMAIN tx'[u] => c \in DOMAIN tx[u]
  BY <1>1, Actors DEF Still
<1>3. QED
  BY <1>2, OwnerStays

\* The sends of the follow-up cycle, when w acts.
LEMMA OthersSent ==
  ASSUME TypeOK, NEW w \in Session, Acts(w), NEW c, w \in FollowJob => (c \in sent[w] => c \in sent'[w])
  PROVE  (\E u \in FollowJob : c \in sent[u]) => \E u \in FollowJob : c \in sent'[u]
<1>1. \A u \in FollowJob : u # w => sent'[u] = sent[u]
  BY OthersStill, Actors DEF Still
<1>2. QED
  BY <1>1

\* A step of a sender that neither writes the row, nor mails step k, nor gives up what it has.
LEMMA QuietStep ==
  ASSUME RepeatInv, [Next]_vars, NEW d \in Contact, NEW k \in Steps,
         NEW w \in Sender, Acts(w), UNCHANGED <<row, spoiled, dropped, waived>>,
         mailed'[d][k] = mailed[d][k], d \in sent[w] => d \in sent'[w],
         DOMAIN tx'[w] = DOMAIN tx[w],
         w \in InitialJob => tx'[w] = tx[w] /\ (d \in Batch(w) => d \in Batch(w)'),
         w \in InitialJob \cup Forced => (InHand(w, d, k)' => InHand(w, d, k))
  PROVE  Paid(d, k)'
<1>0. TypeOK /\ TypeOK' /\ NativeInv /\ Paid(d, k) /\ w \in Session /\ mailed[d][k] \in Nat
  BY Ground, Actors
<1>1. Hands(d, k)' \subseteq Hands(d, k)
  BY <1>0, HandsMove
<1>2. Open(d)' => Open(d)
  <2> SUFFICES ASSUME Open(d)', ~Open(d) PROVE FALSE
    OBVIOUS
  <2>1. PICK v \in InitialJob : Owner(v, d) /\ ~Owner(v, d)'
    BY <1>0, OpenAgain
  <2>2. CASE v = w
    <3>1. \A u \in Job : u # v => tx'[u] = tx[u]
      BY <1>0, <2>2, OthersStill, Actors DEF Still
    <3>2. QED
      BY <2>1, <2>2, <3>1 DEF Owner, Carries, View
  <2>3. CASE v # w
    BY <1>0, <2>1, <2>3, OthersOwn
  <2>4. QED
    BY <2>2, <2>3
<1>3. Grant(d, k)' => Grant(d, k)
  BY <1>0, OthersSent DEF Grant
<1>4. Credit(d) \in Nat /\ Credit(d)' = Credit(d)
  BY <1>0, Sums DEF Credit
<1>5. Credit(d) <= Credit(d)' /\ (Prospect(d, k)' => Prospect(d, k))
  BY <1>2, <1>3, <1>4 DEF Prospect
<1>6. QED
  BY <1>0, <1>1, <1>5, StaysPaid

\* The sweep's query, the gates, a hold, a failed draft and the end of a follow-up leave
\* everything paid.
LEMMA QuietSteps ==
  ASSUME RepeatInv, [Next]_vars, NEW d \in Contact, NEW k \in Steps, NEW w \in Sender,
         \/ w \in Job /\ Sweep(w)
         \/ \E c \in Contact : Begin(w, c)
         \/ Hold(w) \/ Raise(w)
         \/ w \in FollowJob /\ WriteFollow(w)
         \/ w \in Forced /\ \E c \in Touched : ForceAsk(w, c)
  PROVE  Paid(d, k)'
<1>0. TypeOK /\ TypeOK' /\ Busy /\ NativeInv /\ w \in Session /\ Null # d
  BY Ground, Actors
<1> USE DEF TypeOK, ThreadsTyped, LocksTyped
<1>1. CASE w \in Job /\ Sweep(w)
  <2>1. /\ UNCHANGED <<row, tx, sent, mailed, spoiled, dropped, waived>>
        /\ pc[w] = "idle" /\ pc'[w] = "sweep" /\ cur[w] = Null /\ cur'[w] = Null
    BY <1>0, <1>1 DEF Sweep, database, mail, history, Busy
  <2>2. ~InHand(w, d, k)' /\ d \notin Batch(w)
    BY <1>0, <2>1 DEF InHand, Planned, Batch
  <2>3. QED
    BY <1>1, <2>1, <2>2, QuietStep DEF Acts
<1>2. CASE \E c \in Contact : Begin(w, c)
  <2>1. PICK c \in Contact : Begin(w, c)
    BY <1>2
  <2>2. /\ UNCHANGED <<row, tx, sent, mailed, spoiled, dropped, waived>>
        /\ pc[w] = "loop" /\ pc'[w] \in {"draft", "write"} /\ cur[w] = Null /\ cur'[w] = c
        /\ c \in left[w] /\ left'[w] = left[w] \ {c}
    BY <1>0, <2>1 DEF Begin, database, mail, history, Busy
  <2>3. InHand(w, d, k)' => InHand(w, d, k)
    BY <2>2 DEF InHand, Planned
  <2>4. d \in Batch(w) => d \in Batch(w)'
    BY <1>0, <2>2 DEF Batch
  <2>5. QED
    BY <1>2, <2>2, <2>3, <2>4, QuietStep DEF Acts
<1>3. CASE Hold(w) \/ Raise(w)
  <2>1. /\ UNCHANGED <<row, tx, sent, mailed, spoiled, dropped, waived, left, cur, snap>>
        /\ pc[w] = "draft" /\ pc'[w] = "write"
    BY <1>0, <1>3 DEF Hold, Raise, database, mail
  <2>2. InHand(w, d, k)' => InHand(w, d, k)
    BY <2>1 DEF InHand, Planned, Step
  <2>3. Batch(w)' = Batch(w)
    BY <2>1 DEF Batch
  <2>4. QED
    BY <1>3, <2>1, <2>2, <2>3, QuietStep DEF Acts
<1>4. CASE w \in FollowJob /\ WriteFollow(w)
  <2>1. /\ UNCHANGED <<row, sent, mailed, spoiled, dropped, waived>> /\ cur[w] \in DOMAIN tx[w]
        /\ w \notin InitialJob /\ w \notin Forced
    BY <1>0, <1>4, Actors DEF WriteFollow, database, mail, history, NativeInv, Follows, Busy
  <2>2. DOMAIN tx'[w] = DOMAIN tx[w]
    BY <1>0, <1>4 DEF WriteFollow
  <2>3. QED
    BY <1>4, <2>1, <2>2, QuietStep DEF Acts
<1>5. CASE w \in Forced /\ \E c \in Touched : ForceAsk(w, c)
  <2>1. /\ UNCHANGED <<row, tx, sent, mailed, spoiled, dropped, waived>> /\ w \notin InitialJob
        /\ pc'[w] = "forced" /\ cur'[w] = Null
    BY <1>0, <1>5, Actors DEF ForceAsk, database, mail, history, Busy
  <2>2. ~InHand(w, d, k)'
    BY <1>0, <2>1 DEF InHand, Planned
  <2>3. QED
    BY <1>5, <2>1, <2>2, QuietStep DEF Acts
<1>6. QED
  BY <1>1, <1>2, <1>3, <1>4, <1>5

\* A mail that leaves is paid for: by the hand of an initial job or of a forced follow-up, or by
\* the row's promise of a follow-up.
LEMMA SendPaid ==
  ASSUME RepeatInv, [Next]_vars, NEW d \in Contact, NEW k \in Steps,
         NEW w \in Sender, NEW o \in Outcomes, Send(w, o)
  PROVE  Paid(d, k)'
<1>0. /\ TypeOK /\ TypeOK' /\ Busy /\ NativeInv /\ Paid(d, k) /\ w \in Session /\ d # Null
      /\ k \in Nat /\ row[d] \in Row /\ row[d].index \in Nat /\ mailed[d][k] \in Nat
  BY Ground, Actors
<1>1. Acts(w)
  BY DEF Acts
<1>2. /\ UNCHANGED <<row, tx, left, cur, snap, spoiled, dropped, waived>>
      /\ pc[w] = "draft" /\ pc'[w] = "write" /\ cur[w] \in Contact
      /\ o = "failed" => UNCHANGED <<mailed, sent>>
      /\ o # "failed" => /\ mailed' = [mailed EXCEPT ![cur[w]][Step(w)] = @ + 1]
                         /\ sent'[w] = sent[w] \cup {cur[w]}
  BY <1>0, Hand DEF Send, database, TypeOK, ThreadsTyped
<1>3. cur[w] \notin sent[w] /\ Batch(w)' = Batch(w) /\ cur[w] \notin left[w]
  BY <1>0, <1>2 DEF RepeatInv, NativeInv, Sending, SentOnce, Batch, LockInv, Places
<1>4. InHand(w, d, k)' => InHand(w, d, k)
  BY <1>2, <1>3 DEF InHand, Planned, Step
<1>5. CASE o = "failed" \/ d # cur[w] \/ k # Step(w)
  <2>1. mailed'[d][k] = mailed[d][k]
    BY <1>0, <1>2, <1>5 DEF TypeOK, MailTyped
  <2>2. d \in sent[w] => d \in sent'[w]
    BY <1>2
  <2>3. QED
    BY <1>1, <1>2, <1>3, <1>4, <2>1, <2>2, QuietStep
<1>6. CASE o # "failed" /\ d = cur[w] /\ k = Step(w)
  <2>1. mailed'[d][k] = mailed[d][k] + 1 /\ d \in sent'[w] /\ d \notin sent[w] /\ d \notin left[w]
    BY <1>0, <1>2, <1>3, <1>6 DEF TypeOK, MailTyped
  <2>2. ~InHand(w, d, k)' /\ InHand(w, d, k)
    BY <1>0, <1>2, <1>6, <2>1 DEF InHand, Planned, Step
  <2>3. Credit(d) \in Nat /\ Credit(d)' = Credit(d)
    BY <1>0, <1>2, Sums DEF Credit
  <2>4. CASE w \in InitialJob \cup Forced
    <3>1. w \in Hands(d, k) /\ Hands(d, k)' \subseteq Hands(d, k) \ {w}
      BY <1>0, <1>1, <2>2, <2>4, HandsMove DEF Hands
    <3>2. Open(d)' => Open(d)
      <4>1. \A v \in InitialJob : Owner(v, d) => Owner(v, d)'
        <5>1. \A v \in InitialJob : Batch(v)' = Batch(v)
          BY <1>0, <1>1, <1>3, OthersStill, StillInHand, Actors
        <5>2. QED
          BY <1>2, <5>1 DEF Owner, Carries, View
      <4>2. QED
        BY <1>2, <4>1 DEF Open
    <3>3. Grant(d, k)' => Grant(d, k)
      BY <1>0, <1>1, <1>2, OthersSent DEF Grant
    <3>4. /\ Load(d, k) = mailed[d][k] + IF Prospect(d, k) THEN 1 ELSE 0
          /\ Load(d, k)' = mailed[d][k] + 1 + IF Prospect(d, k)' THEN 1 ELSE 0
          /\ Prospect(d, k)' => Prospect(d, k)
      BY <2>1, <3>2, <3>3 DEF Load, Prospect
    <3>5. Load(d, k)' + Credit(d) <= Load(d, k) + Credit(d)' + 1
      BY <1>0, <2>3, <3>4
    <3>6. QED
      BY <1>0, <3>1, <3>5, Balance
  <2>5. CASE w \in FollowJob
    <3>1. w \notin InitialJob /\ w \notin Forced /\ Hands(d, k)' \subseteq Hands(d, k)
      BY <1>0, <1>1, <2>5, HandsMove, Actors
    <3>2. /\ snap[w].status = "active" /\ d \in DOMAIN tx[w] /\ snap[w] = tx[w][d]
          /\ Agree(tx[w][d], row[d])
      BY <1>0, <1>2, <1>6, <2>5, <3>1
         DEF NativeInv, Decided, Follows, should_send_followup_now, can_send_followup
    <3>3. row[d].status = "active" /\ snap[w].index = row[d].index
      BY <2>1, <2>5, <3>1, <3>2, Actors DEF Agree, RepeatInv, LocksLevel, LevelLocks, Level
    <3>4. k = row[d].index + 1
      BY <1>6, <3>1, <3>3 DEF Step
    <3>5. \A u \in FollowJob : d \notin sent[u]
      <4> SUFFICES ASSUME NEW u \in FollowJob, d \in sent[u] PROVE FALSE
        OBVIOUS
      <4>1. d \in DOMAIN tx[u] /\ u # w
        BY <2>1, Actors DEF RepeatInv, Sending, SentOnce
      <4>2. QED
        BY <1>0, <2>5, <3>2, <4>1, Actors DEF NativeInv, LockInv, Exclusive
    <3>6. Prospect(d, k) /\ ~Prospect(d, k)'
      BY <1>0, <1>2, <2>1, <2>5, <3>3, <3>4, <3>5 DEF Prospect, Open, Grant
    <3>7. Load(d, k) = mailed[d][k] + 1 /\ Load(d, k)' = mailed[d][k] + 1 + 0
      BY <2>1, <3>6 DEF Load
    <3>8. Load(d, k)' + Credit(d) <= Load(d, k) + Credit(d)'
      BY <1>0, <2>3, <3>7
    <3>9. QED
      BY <1>0, <3>1, <3>8, Balance
  <2>6. QED
    BY <2>4, <2>5, Actors DEF Sender, Job
<1>7. QED
  BY <1>5, <1>6

\* The commit of an initial outreach: the contact has left the state new, or the hand is free.
LEMMA WriteInitialPaid ==
  ASSUME RepeatInv, [Next]_vars, NEW d \in Contact, NEW k \in Steps,
         NEW w \in InitialJob, WriteInitial(w)
  PROVE  Paid(d, k)'
<1>0. /\ TypeOK /\ TypeOK' /\ Busy /\ NativeInv /\ Paid(d, k) /\ w \in Session /\ w \in Sender /\ w \in Job
      /\ w \notin FollowJob /\ w \notin Forced /\ d # Null
      /\ k \in Nat /\ row[d] \in Row /\ row[d].index \in Nat /\ mailed[d][k] \in Nat
  BY Ground, Actors
<1>1. Acts(w)
  BY DEF Acts
<1>2. cur[w] \in Contact /\ cur[w] \notin left[w]
  BY <1>0, Hand DEF WriteInitial, NativeInv, LockInv, Places
<1>3. /\ pc[w] = "write" /\ pc'[w] = "loop" /\ cur'[w] = Null /\ left' = left /\ mailed' = mailed
      /\ DOMAIN tx'[w] = {cur[w]} /\ spoiled' = spoiled /\ waived' = waived
      /\ \E T : dropped' = Tally(dropped, T)
      /\ row'[d] = IF d = cur[w] THEN NewRow(w) ELSE View(w, d)
  BY <1>0, <1>2 DEF WriteInitial, NextContact, release_claim, mail, Committed, TypeOK, ThreadsTyped, LocksTyped
<1>4. Credit(d) <= Credit(d)'
  BY <1>0, <1>3, Credits
<1>5. Hands(d, k)' \subseteq Hands(d, k)
  <2>1. InHand(w, d, k)' => InHand(w, d, k)
    BY <1>0, <1>3 DEF InHand, Planned
  <2>2. QED
    BY <1>0, <1>1, <2>1, HandsMove
<1>6. CASE d # cur[w]
  <2>1. /\ row'[d].status = row[d].status /\ row'[d].index = row[d].index
        /\ d \notin DOMAIN tx[w] => row'[d] = row[d]
    BY <1>0, <1>3, <1>6 DEF View, RepeatInv, LocksLevel, LevelLocks, Level
  <2>2. Open(d)' => Open(d)
    <3> SUFFICES ASSUME Open(d)', ~Open(d) PROVE FALSE
      OBVIOUS
    <3>1. PICK v \in InitialJob : Owner(v, d) /\ ~Owner(v, d)'
      BY <1>0, OpenAgain
    <3>2. CASE v = w
      <4>1. \A u \in Job : u # w => tx'[u] = tx[u]
        BY <1>0, <1>1, OthersStill, Actors DEF Still
      <4>2. d \in Batch(w)'
        BY <1>0, <1>3, <1>6, <3>1, <3>2 DEF Owner, Batch
      <4>3. Carries(w, d)'
        BY <1>3, <1>6, <3>1, <3>2 DEF Owner, Carries, View
      <4>4. QED
        BY <3>1, <3>2, <4>1, <4>2, <4>3 DEF Owner
    <3>3. CASE v # w
      <4>1. d \notin DOMAIN tx[w]
        BY <1>0, <3>1, <3>3 DEF Owner
      <4>2. QED
        BY <1>0, <1>1, <1>3, <1>6, <2>1, <3>1, <3>3, <4>1, OthersOwn
    <3>4. QED
      BY <3>2, <3>3
  <2>3. Grant(d, k)' => Grant(d, k)
    BY <1>0, <1>1, <2>1, OthersSent DEF Grant
  <2>4. Prospect(d, k)' => Prospect(d, k)
    BY <2>2, <2>3 DEF Prospect
  <2>5. QED
    BY <1>0, <1>3, <1>4, <1>5, <2>4, StaysPaid
<1>7. CASE d = cur[w] /\ k = 0 /\ d \in sent[w]
  <2>1. out[w] \in {"sent", "unknown"} /\ row'[d] = NewRow(w) /\ NewRow(w) \in Row
    BY <1>0, <1>2, <1>3, <1>7, NewRowFacts DEF RepeatInv, Sending, SentOnce
  <2>2. ~Open(d)'
    <3> SUFFICES ASSUME NewRow(w).status \in {"absent", "new"} PROVE FALSE
      BY <2>1 DEF Open
    <3>1. View(w, d).status = NewRow(w).status
      BY <1>0, <1>2, <1>7, NewRowFacts, Absent
    <3>2. View(w, d).status = "new" /\ row[d].status = "new"
      <4>1. View(w, d).status = row[d].status
        BY <1>0 DEF View, RepeatInv, LocksLevel, LevelLocks, Level
      <4>2. row[d].status # "absent"
        BY <1>0, <1>7 DEF NativeInv, LockInv, Knowledge, PlansKnown, Known
      <4>3. QED
        BY <3>1, <4>1, <4>2
    <3>3. snap[w].status = "new"
      BY <1>0, <1>7, <3>2 DEF RepeatInv, Loaded, LoadedNew
    <3>4. NewRow(w).status \in {"active", "needs_review"}
      BY <1>0, <1>2, <2>1, <3>3, NewRowMoves
    <3>5. QED
      BY <3>4
  <2>3. ~Grant(d, k)'
    <3>1. row'[d].index \in Nat
      BY <2>1 DEF Row
    <3>2. QED
      BY <1>7, <3>1 DEF Grant
  <2>4. Prospect(d, k)' => Prospect(d, k)
    BY <2>2, <2>3 DEF Prospect
  <2>5. QED
    BY <1>0, <1>3, <1>4, <1>5, <2>4, StaysPaid
<1>8. CASE d = cur[w] /\ ~(k = 0 /\ d \in sent[w])
  <2>1. InHand(w, d, k) /\ ~InHand(w, d, k)'
    BY <1>0, <1>2, <1>3, <1>8 DEF InHand, Planned, Step
  <2>2. w \in Hands(d, k) /\ Hands(d, k)' \subseteq Hands(d, k) \ {w}
    BY <1>0, <1>1, <2>1, HandsMove DEF Hands
  <2>3. QED
    BY <1>0, <1>3, <1>4, <2>2, StaysPaid
<1>9. QED
  BY <1>6, <1>7, <1>8

\* A rollback of the initial outreach: the lost mail is in spoiled, the lost claims in dropped.
LEMMA RollbackPaid ==
  ASSUME RepeatInv, [Next]_vars, NEW d \in Contact, NEW k \in Steps,
         NEW w \in InitialJob, RollbackInitial(w) \/ CommitFails(w)
  PROVE  Paid(d, k)'
<1>0. /\ TypeOK /\ TypeOK' /\ Busy /\ NativeInv /\ Paid(d, k) /\ w \in Session /\ w \in Sender /\ w \in Job
      /\ w \notin FollowJob /\ w \notin Forced /\ d # Null /\ k \in Nat
  BY Ground, Actors
<1>1. Acts(w)
  BY DEF Acts
<1>2. PICK m : RolledBack(w, m) /\ (out[w] # "raised" => m = sent[w])
  BY DEF RollbackInitial, CommitFails
<1>3. pc[w] = "write" /\ cur[w] \in Contact /\ cur[w] \notin left[w]
  BY <1>0, Hand DEF RollbackInitial, CommitFails, NativeInv, LockInv, Places
<1> DEFINE lost == {c \in left[w] : c \in DOMAIN tx[w] /\ ~Holds(w, c)}
                     \cup ({cur[w]} \cap {c \in Contact : Counted(w, c)})
<1>4. /\ pc'[w] = "loop" /\ cur'[w] = Null /\ left' = left /\ mailed' = mailed /\ row' = row
      /\ DOMAIN tx'[w] = {cur[w]} /\ waived' = waived
      /\ spoiled' = Tally(spoiled, m) /\ dropped' = Tally(dropped, lost)
  BY <1>0, <1>2, <1>3 DEF RolledBack, NextContact, release_claim, database, mail, TypeOK, ThreadsTyped, LocksTyped
<1>5. Credit(d) <= Credit(d)' /\ (d \in m => Credit(d) < Credit(d)') /\ (d \in lost => Credit(d) < Credit(d)')
  <2> HIDE DEF lost
  <2>1. QED
    BY <1>0, <1>4, Credits
<1>6. Hands(d, k)' \subseteq Hands(d, k)
  <2>1. InHand(w, d, k)' => InHand(w, d, k)
    BY <1>0, <1>3, <1>4 DEF InHand, Planned
  <2>2. QED
    BY <1>0, <1>1, <2>1, HandsMove
<1>7. CASE d # cur[w]
  <2>1. (Open(d)' => Open(d)) \/ Credit(d) < Credit(d)'
    <3> SUFFICES ASSUME Open(d)', ~Open(d) PROVE d \in lost
      BY <1>5
    <3>1. PICK v \in InitialJob : Owner(v, d) /\ ~Owner(v, d)'
      BY <1>0, OpenAgain
    <3>2. CASE v = w
      <4>1. \A u \in Job : u # w => tx'[u] = tx[u]
        BY <1>0, <1>1, OthersStill, Actors DEF Still
      <4>2. d \in Batch(w)' /\ d \in left[w]
        BY <1>0, <1>3, <1>4, <1>7, <3>1, <3>2 DEF Owner, Batch
      <4>3. ~Carries(w, d)'
        BY <3>1, <3>2, <4>1, <4>2 DEF Owner
      <4>4. ~Holds(w, d)
        BY <1>4, <1>7, <4>3, Ground DEF Carries, View, Holds, Row
      <4>5. d \in DOMAIN tx[w]
        BY <3>1, <3>2, <4>4 DEF Owner, Carries, View, Holds
      <4>6. QED
        BY <4>2, <4>4, <4>5
    <3>3. CASE v # w
      BY <1>0, <1>1, <1>4, <1>7, <3>1, <3>3, OthersOwn
    <3>4. QED
      BY <3>2, <3>3
  <2>2. Grant(d, k)' => Grant(d, k)
    BY <1>0, <1>1, <1>4, OthersSent DEF Grant
  <2>3. (Prospect(d, k)' => Prospect(d, k)) \/ Credit(d) < Credit(d)'
    BY <2>1, <2>2 DEF Prospect
  <2>4. QED
    BY <1>0, <1>4, <1>5, <1>6, <2>3, StaysPaid
<1>8. CASE d = cur[w] /\ k = 0 /\ d \in sent[w]
  <2>1. Credit(d) < Credit(d)'
    BY <1>0, <1>2, <1>3, <1>5, <1>8 DEF RepeatInv, Sending, SentOnce
  <2>2. QED
    BY <1>0, <1>4, <1>5, <1>6, <2>1, StaysPaid
<1>9. CASE d = cur[w] /\ ~(k = 0 /\ d \in sent[w])
  <2>1. InHand(w, d, k) /\ ~InHand(w, d, k)'
    BY <1>0, <1>3, <1>4, <1>9 DEF InHand, Planned, Step
  <2>2. w \in Hands(d, k) /\ Hands(d, k)' \subseteq Hands(d, k) \ {w}
    BY <1>0, <1>1, <2>1, HandsMove DEF Hands
  <2>3. QED
    BY <1>0, <1>4, <1>5, <2>2, StaysPaid
<1>10. QED
  BY <1>7, <1>8, <1>9

\* The commit of a batch: a follow-up that was mailed has moved its row on.
LEMMA FinishPaid ==
  ASSUME RepeatInv, [Next]_vars, NEW d \in Contact, NEW k \in Steps, NEW w \in Job, Finish(w)
  PROVE  Paid(d, k)'
<1>0. /\ TypeOK /\ TypeOK' /\ Busy /\ NativeInv /\ Paid(d, k) /\ w \in Session /\ w \in Sender /\ d # Null
      /\ k \in Nat /\ row[d] \in Row /\ row[d].index \in Nat
  BY Ground, Actors
<1>1. Acts(w)
  BY DEF Acts
<1>2. /\ pc'[w] = "idle" /\ cur[w] = Null /\ cur'[w] = Null /\ left[w] = {} /\ mailed' = mailed
      /\ DOMAIN tx'[w] = {} /\ UNCHANGED <<spoiled, dropped, waived>> /\ row'[d] = View(w, d)
      /\ sent'[w] = {}
  BY <1>0 DEF Finish, Reset, Committed, Busy, mail, history, TypeOK, ThreadsTyped, LocksTyped
<1>3. Credit(d) \in Nat /\ Credit(d)' = Credit(d)
  BY <1>0, <1>2, Sums DEF Credit
<1>4. Hands(d, k)' \subseteq Hands(d, k)
  <2>1. ~InHand(w, d, k)'
    BY <1>0, <1>2 DEF InHand, Planned
  <2>2. QED
    BY <1>0, <1>1, <2>1, HandsMove
<1>5. Open(d)' => Open(d)
  <2> SUFFICES ASSUME Open(d)', ~Open(d) PROVE FALSE
    OBVIOUS
  <2>1. PICK v \in InitialJob : Owner(v, d) /\ ~Owner(v, d)'
    BY <1>0, OpenAgain
  <2>2. v # w
    BY <1>2, <2>1 DEF Owner, Batch
  <2>3. row'[d] = row[d]
    BY <1>2, <2>1, <2>2 DEF Owner, View
  <2>4. QED
    BY <1>0, <1>1, <1>2, <2>1, <2>2, <2>3, OthersOwn
<1>6. Grant(d, k)' => Grant(d, k)
  <2> SUFFICES ASSUME Grant(d, k)' PROVE Grant(d, k)
    OBVIOUS
  <2>1. \A u \in FollowJob : u # w => sent'[u] = sent[u]
    BY <1>0, <1>1, OthersStill, Actors DEF Still
  <2>2. CASE w \in InitialJob \/ d \notin DOMAIN tx[w]
    <3>1. row'[d].status = row[d].status /\ row'[d].index = row[d].index
      BY <1>0, <1>2, <2>2, Actors DEF View, RepeatInv, LocksLevel, LevelLocks, Level
    <3>2. w \in FollowJob => d \notin sent[w]
      BY <1>0, <2>2, Actors DEF RepeatInv, Sending, SentOnce
    <3>3. QED
      BY <2>1, <3>1, <3>2 DEF Grant
  <2>3. CASE w \notin InitialJob /\ d \in DOMAIN tx[w]
    <3>1. /\ row'[d].status = "active" /\ row'[d] = tx[w][d]
          /\ row'[d].index + 1 <= k
      BY <1>2, <2>3 DEF Grant, View
    <3>2. Level(w, d) /\ w \in FollowJob
      BY <2>3, Actors DEF RepeatInv, LocksLevel, LevelLocks
    <3>3. CASE d \in sent[w]
      <4>1. row[d].status = "active" /\ row'[d].index = row[d].index + 1
        BY <1>0, <1>2, <2>3, <3>1, <3>2, <3>3 DEF Level
      <4>2. row[d].index + 1 <= k /\ k # row[d].index + 1
        BY <1>0, <3>1, <4>1
      <4>3. QED
        BY <4>1, <4>2 DEF Grant
    <3>4. CASE d \notin sent[w]
      <4>1. row[d].status = "active" /\ row'[d].index = row[d].index
        BY <1>0, <1>2, <2>3, <3>1, <3>2, <3>4 DEF Level
      <4>2. QED
        BY <2>1, <3>1, <3>4, <4>1 DEF Grant
    <3>5. QED
      BY <3>3, <3>4
  <2>4. QED
    BY <2>2, <2>3
<1>7. Credit(d) <= Credit(d)' /\ (Prospect(d, k)' => Prospect(d, k))
  BY <1>3, <1>5, <1>6 DEF Prospect
<1>8. QED
  BY <1>0, <1>2, <1>4, <1>7, StaysPaid

\* A death: the mail of the lost transaction is in spoiled, and a claim is lost with its hand.
LEMMA DiesPaid ==
  ASSUME RepeatInv, [Next]_vars, NEW d \in Contact, NEW k \in Steps, NEW w \in Session, Dies(w)
  PROVE  Paid(d, k)'
<1>0. TypeOK /\ TypeOK' /\ Busy /\ NativeInv /\ Paid(d, k) /\ d # Null /\ k \in Nat
  BY Ground, Actors
<1>1. Acts(w)
  BY DEF Acts
<1>2. /\ pc'[w] = "idle" /\ cur'[w] = Null /\ mailed' = mailed /\ row' = row
      /\ DOMAIN tx'[w] = {} /\ UNCHANGED <<dropped, waived>> /\ spoiled' = Tally(spoiled, sent[w])
  BY <1>0 DEF Dies, Reset, database, mail, TypeOK, ThreadsTyped, LocksTyped
<1>3. Credit(d) <= Credit(d)' /\ (d \in sent[w] => Credit(d) < Credit(d)')
  BY <1>0, <1>2, Credits
<1>4. Hands(d, k)' \subseteq Hands(d, k) \ {w}
  <2>1. ~InHand(w, d, k)'
    BY <1>0, <1>2 DEF InHand, Planned
  <2>2. QED
    BY <1>0, <1>1, <2>1, HandsMove
<1>5. CASE w \in Hands(d, k)
  BY <1>0, <1>2, <1>3, <1>4, <1>5, StaysPaid
<1>6. CASE w \notin Hands(d, k)
  <2>1. (Open(d)' => Open(d)) \/ d \in sent[w]
    <3> SUFFICES ASSUME Open(d)', ~Open(d) PROVE d \in sent[w]
      OBVIOUS
    <3>1. PICK v \in InitialJob : Owner(v, d) /\ ~Owner(v, d)'
      BY <1>0, OpenAgain
    <3>2. v = w
      BY <1>0, <1>1, <1>2, <3>1, OthersOwn
    <3>3. d \in Batch(w) /\ w \in InitialJob /\ ~InHand(w, d, k)
      BY <1>6, <3>1, <3>2 DEF Owner, Hands
    <3>4. QED
      BY <1>0, <3>3 DEF Batch, InHand, Planned, Step
  <2>2. (Grant(d, k)' => Grant(d, k)) \/ d \in sent[w]
    BY <1>0, <1>1, <1>2, OthersSent DEF Grant
  <2>3. (Prospect(d, k)' => Prospect(d, k)) \/ Credit(d) < Credit(d)'
    BY <1>3, <2>1, <2>2 DEF Prospect
  <2>4. Hands(d, k)' \subseteq Hands(d, k)
    BY <1>4
  <2>5. QED
    BY <1>0, <1>2, <1>3, <2>3, <2>4, StaysPaid
<1>7. QED
  BY <1>5, <1>6

\* A forced follow-up takes the contact in hand and is counted in waived.
LEMMA ForceMarkPaid ==
  ASSUME RepeatInv, [Next]_vars, NEW d \in Contact, NEW k \in Steps, NEW w \in Forced, ForceMark(w)
  PROVE  Paid(d, k)'
<1>0. /\ TypeOK /\ TypeOK' /\ Busy /\ NativeInv /\ Paid(d, k) /\ d # Null
      /\ w \in Session /\ w \in Sender /\ w \notin InitialJob /\ w \notin FollowJob /\ row[d] \in Row
  BY Ground, Actors
<1>1. Acts(w)
  BY DEF Acts
<1>2. /\ pc'[w] = "loop" /\ cur'[w] = Null /\ left' = left /\ mailed' = mailed /\ tx' = tx
      /\ UNCHANGED <<spoiled, dropped>> /\ waived' = Tally(waived, left[w])
      /\ row'[d] = row[d] \/ row'[d] = [row[d] EXCEPT !.next = "due"]
  BY <1>0 DEF ForceMark, Busy, mail, TypeOK, ThreadsTyped
<1>3. /\ row'[d].claim = row[d].claim /\ row'[d].lease = row[d].lease
      /\ row'[d].status = row[d].status /\ row'[d].index = row[d].index
  BY <1>0, <1>2 DEF Row
<1>4. Credit(d) <= Credit(d)' /\ (d \in left[w] => Credit(d) < Credit(d)')
  BY <1>0, <1>2, Credits
<1>5. Open(d)' => Open(d)
  <2> SUFFICES ASSUME Open(d)', ~Open(d) PROVE FALSE
    OBVIOUS
  <2>1. PICK v \in InitialJob : Owner(v, d) /\ ~Owner(v, d)'
    BY <1>0, OpenAgain
  <2>2. QED
    BY <1>0, <1>1, <1>2, <1>3, <2>1, OthersOwn
<1>6. Grant(d, k)' => Grant(d, k)
  BY <1>0, <1>1, <1>3, OthersSent DEF Grant
<1>7. Prospect(d, k)' => Prospect(d, k)
  BY <1>5, <1>6 DEF Prospect
<1>8. CASE d \in left[w]
  <2>1. Hands(d, k)' \subseteq Hands(d, k) \cup {w}
    BY <1>0, <1>1, HandsMove
  <2>2. QED
    BY <1>0, <1>2, <1>4, <1>7, <1>8, <2>1, StaysPaid
<1>9. CASE d \notin left[w]
  <2>1. ~InHand(w, d, k)'
    BY <1>0, <1>2, <1>9 DEF InHand, Planned
  <2>2. Hands(d, k)' \subseteq Hands(d, k)
    BY <1>0, <1>1, <2>1, HandsMove
  <2>3. QED
    BY <1>0, <1>2, <1>4, <1>7, <2>2, StaysPaid
<1>10. QED
  BY <1>8, <1>9

\* The write of a forced follow-up: a row it moves on was in its hand for the later steps.
LEMMA WriteForcedPaid ==
  ASSUME RepeatInv, [Next]_vars, NEW d \in Contact, NEW k \in Steps, NEW w \in Forced, WriteForced(w)
  PROVE  Paid(d, k)'
<1>0. /\ TypeOK /\ TypeOK' /\ Busy /\ NativeInv /\ Paid(d, k) /\ d # Null /\ k \in Nat
      /\ w \in Session /\ w \in Sender /\ w \notin InitialJob /\ w \notin FollowJob /\ row[d] \in Row
  BY Ground, Actors
<1>1. Acts(w)
  BY DEF Acts
<1>2. /\ pc[w] = "write" /\ pc'[w] = "idle" /\ cur'[w] = Null /\ mailed' = mailed /\ cur[w] \in Contact
      /\ UNCHANGED <<spoiled, dropped, waived>> /\ DOMAIN tx'[w] = {}
      /\ row'[d] = IF d = cur[w] THEN NewRow(w) ELSE row[d]
  BY <1>0, Hand DEF WriteForced, Reset, mail, history, TypeOK, ThreadsTyped, LocksTyped, RowTyped
<1>3. Credit(d) \in Nat /\ Credit(d)' = Credit(d)
  BY <1>0, <1>2, Sums DEF Credit
<1>4. Hands(d, k)' \subseteq Hands(d, k) \ {w}
  <2>1. ~InHand(w, d, k)'
    BY <1>0, <1>2 DEF InHand, Planned
  <2>2. QED
    BY <1>0, <1>1, <2>1, HandsMove
<1>5. Credit(d) <= Credit(d)' /\ Hands(d, k)' \subseteq Hands(d, k)
  BY <1>3, <1>4
<1>6. CASE d # cur[w]
  <2>1. row'[d] = row[d]
    BY <1>2, <1>6
  <2>2. Open(d)' => Open(d)
    <3> SUFFICES ASSUME Open(d)', ~Open(d) PROVE FALSE
      OBVIOUS
    <3>1. PICK v \in InitialJob : Owner(v, d) /\ ~Owner(v, d)'
      BY <1>0, OpenAgain
    <3>2. QED
      BY <1>0, <1>1, <1>2, <2>1, <3>1, OthersOwn
  <2>3. Grant(d, k)' => Grant(d, k)
    BY <1>0, <1>1, <2>1, OthersSent DEF Grant
  <2>4. Prospect(d, k)' => Prospect(d, k)
    BY <2>2, <2>3 DEF Prospect
  <2>5. QED
    BY <1>0, <1>2, <1>5, <2>4, StaysPaid
<1>7. CASE d = cur[w]
  <2>1. row'[d] = NewRow(w) /\ View(w, cur[w]) = row[d]
    BY <1>0, <1>2, <1>7 DEF View, NativeInv, LockInv, Places
  <2>2. ~Open(d)'
    <3>1. row[d].status # "absent" /\ row[d].status # "new"
      BY <1>0, <1>7 DEF NativeInv, LockInv, Knowledge, PlansKnown, Known, RepeatInv, Fresh, ForcedLater
    <3>2. NewRow(w).status \notin {"absent", "new"}
      BY <1>0, <1>2, <2>1, <3>1, NewRowFacts, Absent
    <3>3. QED
      BY <2>1, <3>2 DEF Open
  <2>3. CASE out[w] # "sent"
    <3>1. /\ NewRow(w).status = "active" => row[d].status = "active"
          /\ NewRow(w).index = row[d].index
      BY <1>0, <1>2, <2>1, <2>3, NewRowMoves
    <3>2. Grant(d, k)' => Grant(d, k)
      BY <1>0, <1>1, <2>1, <3>1, OthersSent DEF Grant
    <3>3. Prospect(d, k)' => Prospect(d, k)
      BY <2>2, <3>2 DEF Prospect
    <3>4. QED
      BY <1>0, <1>2, <1>5, <3>3, StaysPaid
  <2>4. CASE out[w] = "sent" /\ Grant(d, k)'
    <3>1. snap[w].index \in Nat /\ row'[d].index = snap[w].index + 1
      BY <1>0, <1>2, <2>1, <2>4, NewRowMoves DEF TypeOK, ThreadsTyped, Row
    <3>2. snap[w].index + 1 < k
      BY <1>0, <2>4, <3>1 DEF Grant
    <3>3. Step(w) < k /\ Step(w) <= k
      BY <1>0, <3>1, <3>2 DEF Step
    <3>4. w \in Hands(d, k)
      BY <1>7, <3>3 DEF Hands, InHand
    <3>5. QED
      BY <1>0, <1>2, <1>4, <1>5, <3>4, StaysPaid
  <2>5. CASE ~Grant(d, k)'
    <3>1. Prospect(d, k)' => Prospect(d, k)
      BY <2>2, <2>5 DEF Prospect
    <3>2. QED
      BY <1>0, <1>2, <1>5, <3>1, StaysPaid
  <2>6. QED
    BY <2>3, <2>4, <2>5
<1>8. QED
  BY <1>6, <1>7

\* A claim of new contacts takes them in hand and closes them, unless another job had them: then
\* the sweep's loss is in dropped.
LEMMA ClaimPaid ==
  ASSUME RepeatInv, [Next]_vars, NEW d \in Contact, NEW k \in Steps, NEW w \in Job, Claim(w)
  PROVE  Paid(d, k)'
<1>0. /\ TypeOK /\ TypeOK' /\ Busy /\ NativeInv /\ Paid(d, k) /\ d # Null
      /\ w \in Session /\ w \in Sender /\ row[d] \in Row /\ Null \notin Job
  BY Ground, Actors
<1>1. Acts(w)
  BY DEF Acts
<1>2. /\ Taken(w) /\ UNCHANGED <<row, mailed, sent, spoiled, waived>>
      /\ dropped' = Tally(dropped, {c \in Swept(w) : Counted(w, c)})
      /\ pc[w] \in {"idle", "sweep"} /\ pc'[w] = "loop" /\ cur[w] = Null /\ cur'[w] = Null
      /\ left'[w] = Due(w) \ dormant
  BY <1>0, ClaimedRows DEF Claim, database, mail, Busy, TypeOK, ThreadsTyped
<1>3. Credit(d) <= Credit(d)' /\ (d \in Swept(w) /\ Counted(w, d) => Credit(d) < Credit(d)')
  BY <1>0, <1>2, Credits
<1>4. ASSUME NEW v \in InitialJob, Owner(v, d)
      PROVE  v # w /\ (d \in Due(w) \cup Swept(w) => Credit(d) < Credit(d)')
  <2>1. v # w /\ v # Null /\ v \in Session
    BY <1>0, <1>2, <1>4, Actors DEF Owner, Batch
  <2>2. SUFFICES ASSUME d \in Due(w) \cup Swept(w) PROVE Credit(d) < Credit(d)'
    BY <2>1
  <2>3. d \notin DOMAIN tx[v]
    BY <1>2, <2>1, <2>2 DEF Taken, FreeFor
  <2>4. row[d].claim = v /\ row[d].lease = TRUE /\ d \in Batch(v)
    BY <1>4, <2>3 DEF Owner, Carries, View
  <2>5. d \in Swept(w)
    BY <2>1, <2>2, <2>4 DEF Due, Claimable
  <2>6. QED
    BY <1>3, <2>1, <2>4, <2>5 DEF Counted
<1>5. (Open(d)' => Open(d)) \/ Credit(d) < Credit(d)'
  <2> SUFFICES ASSUME Open(d)', ~Open(d) PROVE Credit(d) < Credit(d)'
    OBVIOUS
  <2>1. PICK v \in InitialJob : Owner(v, d) /\ ~Owner(v, d)'
    BY <1>0, OpenAgain
  <2>2. v # w /\ (d \in Due(w) \cup Swept(w) => Credit(d) < Credit(d)')
    BY <1>4, <2>1
  <2>3. d \notin Due(w) \cup Swept(w) => Owner(v, d)'
    BY <1>0, <1>1, <1>2, <2>1, <2>2, OthersOwn DEF Taken
  <2>4. QED
    BY <2>1, <2>2, <2>3
<1>6. Grant(d, k)' => Grant(d, k)
  BY <1>2 DEF Grant
<1>7. CASE w \in InitialJob /\ d \in Due(w) \ dormant
  <2>1. row[d].status = "new" /\ row'[d] = row[d]
    BY <1>2, <1>7 DEF Taken
  <2>2. Owner(w, d)'
    <3>1. d \in Batch(w)'
      BY <1>2, <1>7 DEF Batch
    <3>2. Carries(w, d)'
      BY <1>2, <1>7 DEF Taken, Carries, View
    <3>3. \A u \in Job : u # w => d \notin DOMAIN tx'[u]
      BY <1>2, <1>7, Actors DEF Taken, FreeFor
    <3>4. QED
      BY <3>1, <3>2, <3>3 DEF Owner
  <2>3. ~Prospect(d, k)'
    BY <1>7, <2>1, <2>2 DEF Prospect, Open, Grant
  <2>4. Prospect(d, k) \/ Credit(d) < Credit(d)'
    BY <1>4, <1>7, <2>1 DEF Prospect, Open
  <2>5. Hands(d, k)' \subseteq Hands(d, k) \cup {w}
    BY <1>0, <1>1, HandsMove
  <2>6. QED
    BY <1>0, <1>2, <1>3, <2>3, <2>4, <2>5, StaysPaid
<1>8. CASE ~(w \in InitialJob /\ d \in Due(w) \ dormant)
  <2>1. Hands(d, k)' \subseteq Hands(d, k)
    <3>1. w \in InitialJob => ~InHand(w, d, k)'
      BY <1>0, <1>2, <1>8 DEF InHand, Planned
    <3>2. QED
      BY <1>0, <1>1, <3>1, HandsMove, Actors
  <2>2. (Prospect(d, k)' => Prospect(d, k)) \/ Credit(d) < Credit(d)'
    BY <1>5, <1>6 DEF Prospect
  <2>3. QED
    BY <1>0, <1>2, <1>3, <2>1, <2>2, StaysPaid
<1>9. QED
  BY <1>7, <1>8

\* A sweep that commits alone: a claim it takes from a job that counts on it is in dropped.
LEMMA ClaimNothingPaid ==
  ASSUME RepeatInv, [Next]_vars, NEW d \in Contact, NEW k \in Steps, NEW w \in Job, ClaimNothing(w)
  PROVE  Paid(d, k)'
<1>0. /\ TypeOK /\ TypeOK' /\ Busy /\ NativeInv /\ Paid(d, k) /\ d # Null
      /\ w \in Session /\ w \in Sender /\ row[d] \in Row
  BY Ground, Actors
<1>1. Acts(w)
  BY DEF Acts
<1>2. /\ UNCHANGED <<mailed, spoiled, waived>>
      /\ dropped' = Tally(dropped, {c \in Swept(w) : Counted(w, c)})
      /\ pc[w] = "sweep" /\ pc'[w] = "idle" /\ cur[w] = Null /\ cur'[w] = Null
      /\ DOMAIN tx'[w] = {} /\ sent[w] = {}
      /\ row'[d] = IF d \in Swept(w) THEN Released(row[d]) ELSE row[d]
      /\ d \in Swept(w) => FreeFor(w, d)
  BY <1>0 DEF ClaimNothing, Reset, mail, Busy, TypeOK, ThreadsTyped, LocksTyped, RepeatInv, Sending, SentOnce
<1>3. Credit(d) <= Credit(d)' /\ (d \in Swept(w) /\ Counted(w, d) => Credit(d) < Credit(d)')
  BY <1>0, <1>2, Credits
<1>4. row'[d].status = row[d].status /\ row'[d].index = row[d].index
  BY <1>0, <1>2, SameRows DEF Same
<1>5. (Open(d)' => Open(d)) \/ Credit(d) < Credit(d)'
  <2> SUFFICES ASSUME Open(d)', ~Open(d) PROVE Credit(d) < Credit(d)'
    OBVIOUS
  <2>1. PICK v \in InitialJob : Owner(v, d) /\ ~Owner(v, d)'
    BY <1>0, OpenAgain
  <2>2. v # w /\ v \in Session
    BY <1>0, <1>2, <2>1, Actors DEF Owner, Batch
  <2>3. d \in Swept(w)
    BY <1>0, <1>1, <1>2, <2>1, <2>2, OthersOwn
  <2>4. d \notin DOMAIN tx[v]
    BY <1>2, <2>2, <2>3 DEF FreeFor
  <2>5. row[d].claim = v /\ d \in Batch(v)
    BY <2>1, <2>4 DEF Owner, Carries, View
  <2>6. QED
    BY <1>3, <2>2, <2>3, <2>5 DEF Counted
<1>6. Grant(d, k)' => Grant(d, k)
  BY <1>0, <1>1, <1>2, <1>4, OthersSent DEF Grant
<1>7. Hands(d, k)' \subseteq Hands(d, k)
  <2>1. ~InHand(w, d, k)'
    BY <1>0, <1>2 DEF InHand, Planned
  <2>2. QED
    BY <1>0, <1>1, <2>1, HandsMove
<1>8. (Prospect(d, k)' => Prospect(d, k)) \/ Credit(d) < Credit(d)'
  BY <1>5, <1>6 DEF Prospect
<1>9. QED
  BY <1>0, <1>2, <1>3, <1>7, <1>8, StaysPaid

\* A step of nobody who sends keeps d paid if it is counted, or ingests d, or leaves its step and
\* its owner's claim alone and does not make it active.
LEMMA CalmStep ==
  ASSUME RepeatInv, [Next]_vars, NEW d \in Contact, NEW k \in Steps, Outside,
         mailed' = mailed, Credit(d) <= Credit(d)',
         \/ Credit(d) < Credit(d)'
         \/ ~Known(d)
         \/ /\ row'[d].index = row[d].index
            /\ row'[d].status = "active" => row[d].status = "active"
            /\ (\E v \in InitialJob : Owner(v, d)) =>
                 row'[d].claim = row[d].claim /\ row'[d].lease = row[d].lease
  PROVE  Paid(d, k)'
<1>0. TypeOK /\ TypeOK' /\ NativeInv /\ Paid(d, k) /\ d # Null
  BY Ground, Actors
<1>1. \A v \in Sender : Still(v)
  BY <1>0, SendersStill
<1>2. Hands(d, k)' \subseteq Hands(d, k)
  BY <1>1, StillInHand, Actors DEF Hands
<1>3. CASE Credit(d) < Credit(d)'
  BY <1>0, <1>2, <1>3, StaysPaid
<1>4. CASE ~Known(d)
  <2>1. \A v \in InitialJob : d \notin Batch(v)
    BY <1>0, <1>4, Actors DEF Batch, NativeInv, LockInv, Knowledge, PlansKnown
  <2>2. Prospect(d, k)
    BY <1>4, <2>1 DEF Prospect, Open, Owner, Known
  <2>3. QED
    BY <1>0, <1>2, <2>2, StaysPaid
<1>5. CASE /\ row'[d].index = row[d].index
           /\ row'[d].status = "active" => row[d].status = "active"
           /\ (\E v \in InitialJob : Owner(v, d)) =>
                row'[d].claim = row[d].claim /\ row'[d].lease = row[d].lease
  <2>1. Open(d)' => Open(d)
    <3> SUFFICES ASSUME Open(d)', ~Open(d) PROVE FALSE
      OBVIOUS
    <3>1. PICK v \in InitialJob : Owner(v, d) /\ ~Owner(v, d)'
      BY <1>0, OpenAgain
    <3>2. Still(v) /\ \A u \in Job : u # v /\ d \in DOMAIN tx'[u] => d \in DOMAIN tx[u]
      BY <1>1, Actors DEF Still
    <3>3. row'[d].claim = row[d].claim /\ row'[d].lease = row[d].lease
      BY <1>5, <3>1
    <3>4. QED
      BY <3>1, <3>2, <3>3, OwnerStays
  <2>2. \A u \in FollowJob : sent'[u] = sent[u]
    BY <1>1, Actors DEF Still
  <2>3. Prospect(d, k)' => Prospect(d, k)
    BY <1>5, <2>1, <2>2 DEF Prospect, Grant
  <2>4. QED
    BY <1>0, <1>2, <2>3, StaysPaid
<1>6. QED
  BY <1>3, <1>4, <1>5

\* What a request or a reply commits: only a resume makes a contact active, and it is in waived.
LEMMA RequestPaid ==
  ASSUME RepeatInv, [Next]_vars, NEW d \in Contact, NEW k \in Steps,
         NEW r \in Request, Commit(r) \/ CommitReply(r)
  PROVE  Paid(d, k)'
<1>0. TypeOK /\ TypeOK' /\ NativeInv /\ row[d] \in Row
  BY Ground
<1>1. Outside
  BY DEF Outside, RequestCase
<1>2. /\ req[r] # Null /\ mailed' = mailed /\ UNCHANGED <<spoiled, dropped>>
      /\ row'[d] = row[d] \/ (d \in req[r].on /\ row'[d] = Written(row[d], req[r].snap, req[r].new))
      /\ waived' = waived \/ waived' = Tally(waived, IF req[r].op = "resume" THEN req[r].on ELSE {})
      /\ req[r].op = "resume" => waived' = Tally(waived, req[r].on)
  BY <1>0 DEF Commit, CommitReply, mail, TypeOK, RowTyped
<1>3. Credit(d) <= Credit(d)' /\ (req[r].op = "resume" /\ d \in req[r].on => Credit(d) < Credit(d)')
  BY <1>0, <1>2, Credits
<1>4. CASE row'[d] = row[d]
  BY <1>1, <1>2, <1>3, <1>4, CalmStep
<1>5. CASE d \in req[r].on /\ req[r].op = "resume"
  BY <1>1, <1>2, <1>3, <1>5, CalmStep
<1>6. CASE req[r].op # "resume" /\ row'[d] = Written(row[d], req[r].snap, req[r].new)
  <2>1. /\ row'[d].lease = row[d].lease /\ row'[d].claim = row[d].claim /\ row'[d].index = row[d].index
        /\ req[r].new.status = req[r].snap.status => row'[d].status = row[d].status
        /\ req[r].new.status # req[r].snap.status => row'[d].status = req[r].new.status
    BY <1>0, <1>2, <1>6, RequestWrites DEF NativeInv, LockInv
  <2>2. row'[d].status = "active" => row[d].status = "active"
    BY <1>2, <1>6, <2>1 DEF RepeatInv, Revived
  <2>3. QED
    BY <1>1, <1>2, <1>3, <2>1, <2>2, CalmStep
<1>7. QED
  BY <1>2, <1>4, <1>5, <1>6

\* A claim released at shutdown or outlived is in dropped if a job still counts on it.
LEMMA LostClaimPaid ==
  ASSUME RepeatInv, [Next]_vars, NEW d \in Contact, NEW k \in Steps,
         (\E w \in Job : ReleaseAllClaims(w)) \/ \E c \in Contact : LeaseExpires(c)
  PROVE  Paid(d, k)'
<1>0. TypeOK /\ TypeOK' /\ NativeInv /\ row[d] \in Row
  BY Ground
<1>1. Outside
  BY DEF Outside, WorldCase
<1>2. CASE \E w \in Job : ReleaseAllClaims(w)
  <2>1. PICK w \in Job : ReleaseAllClaims(w)
    BY <1>2
  <2> DEFINE held == {c \in Contact : row[c].claim = w}
             lost == held \cap Batch(w)
  <2>2. /\ mailed' = mailed /\ UNCHANGED <<spoiled, waived>> /\ dropped' = Tally(dropped, lost)
        /\ row'[d] = IF d \in held THEN Released(row[d]) ELSE row[d]
        /\ d \in held => Unlocked(d)
    BY <1>0, <2>1 DEF ReleaseAllClaims, mail
  <2>3. Credit(d) <= Credit(d)' /\ (d \in lost => Credit(d) < Credit(d)')
    <3> HIDE DEF lost
    <3>1. QED
      BY <1>0, <2>2, Credits
  <2>4. row'[d].status = row[d].status /\ row'[d].index = row[d].index
    BY <1>0, <2>2, SameRows DEF Same
  <2>5. ASSUME NEW v \in InitialJob, Owner(v, d), d \in held PROVE d \in lost
    BY <2>2, <2>5, Actors DEF Owner, Carries, View, Unlocked
  <2>6. \/ Credit(d) < Credit(d)'
        \/ (\E v \in InitialJob : Owner(v, d)) =>
             row'[d].claim = row[d].claim /\ row'[d].lease = row[d].lease
    <3> HIDE DEF held, lost
    <3>1. QED
      BY <2>2, <2>3, <2>5
  <2>7. QED
    BY <1>1, <2>2, <2>3, <2>4, <2>6, CalmStep
<1>3. CASE \E c \in Contact : LeaseExpires(c)
  <2>1. PICK c \in Contact : LeaseExpires(c)
    BY <1>3
  <2>2. /\ mailed' = mailed /\ UNCHANGED <<spoiled, waived>>
        /\ row'[d] = IF d = c THEN [row[d] EXCEPT !.lease = FALSE] ELSE row[d]
        /\ dropped' = dropped \/ dropped' = Tally(dropped, {c})
        /\ (\E v \in InitialJob : c \in Batch(v)) => dropped' = Tally(dropped, {c})
    BY <1>0, <2>1 DEF LeaseExpires, mail, TypeOK, RowTyped
  <2>3. Credit(d) <= Credit(d)' /\ (dropped' = Tally(dropped, {c}) /\ d = c => Credit(d) < Credit(d)')
    BY <1>0, <2>2, Credits
  <2>4. row'[d].status = row[d].status /\ row'[d].index = row[d].index
    BY <1>0, <2>2, SameRows DEF Same
  <2>5. \/ Credit(d) < Credit(d)'
        \/ (\E v \in InitialJob : Owner(v, d)) =>
             row'[d].claim = row[d].claim /\ row'[d].lease = row[d].lease
    BY <2>2, <2>3 DEF Owner
  <2>6. QED
    BY <1>1, <2>2, <2>3, <2>4, <2>5, CalmStep
<1>4. QED
  BY <1>2, <1>3

\* The steps of approvals, requests, replies, leases and the calendar leave everything paid.
LEMMA OutsidePaid ==
  ASSUME RepeatInv, [Next]_vars, NEW d \in Contact, NEW k \in Steps, Outside
  PROVE  Paid(d, k)'
<1>0. TypeOK /\ TypeOK' /\ NativeInv /\ row[d] \in Row
  BY Ground
<1>1. CASE (\E w \in Job : ReleaseAllClaims(w)) \/ \E c \in Contact : LeaseExpires(c)
  BY <1>1, LostClaimPaid
<1>2. CASE \E r \in Request : Commit(r) \/ CommitReply(r)
  BY <1>2, RequestPaid
<1>3. ASSUME UNCHANGED <<mailed, spoiled, dropped, waived>>,
             \/ ~Known(d)
             \/ /\ row'[d].index = row[d].index /\ row'[d].status = row[d].status
                /\ row'[d].claim = row[d].claim /\ row'[d].lease = row[d].lease
      PROVE  Paid(d, k)'
  <2>1. Credit(d) \in Nat /\ Credit(d)' = Credit(d)
    BY <1>0, <1>3, Sums DEF Credit
  <2>2. Credit(d) <= Credit(d)'
    BY <2>1
  <2>3. QED
    BY <1>3, <2>2, CalmStep
<1>4. CASE \/ UNCHANGED vars
           \/ \E c \in Touched : Suppress(c)
           \/ \E a \in Approval, c \in Touched : ApproveOpen(a, c)
           \/ \E a \in Approval, o \in Outcomes : ApproveSend(a, o)
           \/ \E r \in Request, op \in {"pause", "resume", "won"}, c \in Touched : Ask(r, op, c)
           \/ \E r \in Request : Start(r)
           \/ \E r \in Request, c \in Touched, reply \in Replies,
                 answer \in {"none", "manual", "held", "sent", "failed", "unknown"} :
                   Receive(r, c, reply, answer)
  <2>1. UNCHANGED <<row, mailed, spoiled, dropped, waived>>
    BY <1>4 DEF vars, database, mail, history, Suppress, ApproveOpen, ApproveSend, Ask, Start, Receive
  <2>2. QED
    BY <1>3, <2>1
<1>5. CASE \E a \in Approval : ApproveCommit(a)
  <2>1. PICK a \in Approval : ApproveCommit(a)
    BY <1>5
  <2>2. /\ UNCHANGED <<mailed, spoiled, dropped, waived>>
        /\ row'[d] = row[d] \/ row'[d] = [row[d] EXCEPT !.handled = row[d].handled + 1]
    BY <1>0, <2>1 DEF ApproveCommit, mail, history, TypeOK, RowTyped
  <2>3. /\ row'[d].index = row[d].index /\ row'[d].status = row[d].status
        /\ row'[d].claim = row[d].claim /\ row'[d].lease = row[d].lease
    BY <1>0, <2>2 DEF Row
  <2>4. QED
    BY <1>3, <2>2, <2>3
<1>6. CASE \E B \in SUBSET Contact : AddContacts(B)
  <2>1. /\ UNCHANGED <<mailed, spoiled, dropped, waived>>
        /\ row'[d] = row[d] \/ ~Known(d)
    BY <1>6 DEF AddContacts, mail, history, Known
  <2>2. QED
    BY <1>3, <2>1
<1>7. CASE \E c \in Contact : TimePasses(c)
  <2>1. PICK c \in Contact : TimePasses(c)
    BY <1>7
  <2>2. /\ UNCHANGED <<mailed, spoiled, dropped, waived>>
        /\ \/ row'[d] = row[d]
           \/ row'[d] = [row[d] EXCEPT !.next = IF row[d].next = "later" THEN "due" ELSE row[d].next,
                                       !.recent = FALSE]
    BY <1>0, <2>1 DEF TimePasses, mail, history, TypeOK, RowTyped
  <2>3. /\ row'[d].index = row[d].index /\ row'[d].status = row[d].status
        /\ row'[d].claim = row[d].claim /\ row'[d].lease = row[d].lease
    BY <1>0, <2>2 DEF Row
  <2>4. QED
    BY <1>3, <2>2, <2>3
<1>8. QED
  BY <1>1, <1>2, <1>4, <1>5, <1>6, <1>7 DEF Outside, RequestCase, WorldCase

\* AllPaid is kept by every step.
LEMMA AllPaidStep == RepeatInv /\ [Next]_vars => AllPaid'
<1> SUFFICES ASSUME RepeatInv, [Next]_vars, NEW d \in Contact, NEW k \in Steps
             PROVE  Paid(d, k)'
  BY DEF AllPaid
<1>1. CASE Outside
  BY <1>1, OutsidePaid
<1>2. CASE ActorCase
  <2>1. CASE \E w \in Job : Sweep(w) \/ Claim(w) \/ ClaimNothing(w) \/ Finish(w)
    BY <2>1, QuietSteps, ClaimPaid, ClaimNothingPaid, FinishPaid, Actors
  <2>2. CASE \E w \in InitialJob : WriteInitial(w) \/ RollbackInitial(w) \/ CommitFails(w)
    BY <2>2, WriteInitialPaid, RollbackPaid
  <2>3. CASE \E w \in FollowJob : WriteFollow(w)
    BY <2>3, QuietSteps, Actors
  <2>4. CASE (\E w \in Sender, c \in Contact : Begin(w, c)) \/ \E w \in Sender : Hold(w) \/ Raise(w)
    BY <2>4, QuietSteps
  <2>5. CASE \E w \in Sender, o \in Outcomes : Send(w, o)
    BY <2>5, SendPaid
  <2>6. CASE \E w \in Session : Dies(w)
    BY <2>6, DiesPaid
  <2>7. CASE \E w \in Forced, c \in Touched : ForceAsk(w, c)
    BY <2>7, QuietSteps, Actors
  <2>8. CASE \E w \in Forced : ForceMark(w) \/ WriteForced(w)
    BY <2>8, ForceMarkPaid, WriteForcedPaid
  <2>9. QED
    BY <1>2, <2>1, <2>2, <2>3, <2>4, <2>5, <2>6, <2>7, <2>8 DEF ActorCase
<1>3. QED
  BY <1>1, <1>2, StepCases

\* The invariant holds initially: every contact is open and nobody has one in hand.
LEMMA RepeatInit == Init => RepeatInv
<1> SUFFICES ASSUME Init PROVE RepeatInv
  OBVIOUS
<1>1. NativeInv /\ Fresh
  BY ScheduleInit DEF ScheduleInv
<1>2. /\ \A w \in Session : /\ pc[w] = "idle" /\ cur[w] = Null /\ left[w] = {}
                            /\ DOMAIN tx[w] = {} /\ sent[w] = {}
      /\ \A r \in Request : req[r] = Null
      /\ \A c \in Contact : row[c] = NoRow
  BY DEF Init
<1>3. Revived /\ Sending /\ LocksLevel /\ Loaded
  BY <1>2, Actors DEF Revived, Sending, SentOnce, LocksLevel, LevelLocks, Loaded, LoadedNew
<1>4. ASSUME NEW c \in Contact, NEW k \in Steps PROVE Paid(c, k)
  <2>1. Hands(c, k) = {}
    BY <1>2, Actors DEF Hands, InHand, Planned
  <2>2. IsFiniteSet(Hands(c, k)) /\ Cardinality(Hands(c, k)) = 0
    BY <2>1, FS_EmptySet
  <2>3. mailed[c][k] = 0 /\ Credit(c) = 1
    BY DEF Init, Credit
  <2>4. Load(c, k) \in {0, 1}
    BY <2>3 DEF Load
  <2>5. QED
    BY <2>2, <2>3, <2>4 DEF Paid
<1>5. QED
  BY <1>1, <1>3, <1>4 DEF RepeatInv, AllPaid

\* The invariant is inductive.
LEMMA RepeatStep == RepeatInv /\ [Next]_vars => RepeatInv'
<1> SUFFICES ASSUME RepeatInv, [Next]_vars
             PROVE  RepeatInv'
  OBVIOUS
<1>1. NativeInv' /\ Fresh'
  BY NativeStep, FreshStep DEF RepeatInv
<1>2. Revived' /\ Sending' /\ LocksLevel' /\ Loaded'
  BY RevivedStep, SendingStep, LocksLevelStep, LoadedStep DEF RepeatInv, NativeInv
<1>3. AllPaid'
  BY AllPaidStep
<1>4. QED
  BY <1>1, <1>2, <1>3 DEF RepeatInv

\* One step of the sequence is mailed to a contact once, plus once for each transaction that
\* mailed it and was rolled back, each claim dropped under an initial job that counted on it, and
\* each forced follow-up or resume: for any number of jobs, requests, replies, deaths, failed
\* commits, outlived leases and shutdowns, nothing else makes the code repeat a mail.
THEOREM RepeatsNeedALicence == Spec => []RepeatsAreLicensed
<1>1. Init /\ [][Next]_vars => []RepeatInv
  BY RepeatInit, RepeatStep, PTL
<1>2. RepeatInv => RepeatsAreLicensed
  <2> SUFFICES ASSUME RepeatInv, NEW c \in Contact, NEW k \in Steps
               PROVE  mailed[c][k] <= 1 + spoiled[c] + dropped[c] + waived[c]
    BY DEF RepeatsAreLicensed
  <2>1. TypeOK /\ Paid(c, k)
    BY DEF RepeatInv, NativeInv, AllPaid
  <2>2. mailed[c][k] \in Nat /\ Credit(c) \in Nat /\ Load(c, k) \in Nat
    BY <2>1, Sums
  <2>3. mailed[c][k] <= Load(c, k)
    BY <2>2 DEF Load
  <2>4. Cardinality(Hands(c, k)) \in Nat /\ Load(c, k) + Cardinality(Hands(c, k)) <= Credit(c)
    BY <2>1, FS_CardinalityType DEF Paid
  <2>5. mailed[c][k] <= Credit(c)
    BY <2>2, <2>3, <2>4
  <2>6. QED
    BY <2>5 DEF Credit
<1>3. QED
  BY <1>1, <1>2, PTL DEF Spec

=============================================================================
