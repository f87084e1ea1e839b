---------------------------- MODULE WorkClaiming ----------------------------
(***************************************************************************)
(* The external_dispatches table and the statements that                   *)
(* followup/work_claiming.py executes on it.  One row per accepted         *)
(* operation; the table is the queue, the lease clock and the fence.       *)
(*                                                                         *)
(* Every operator below is the effect of ONE database transaction (or of   *)
(* the statements one open transaction issues), so a step that uses it is  *)
(* atomic: PostgreSQL re-evaluates the WHERE clause of a guarded UPDATE    *)
(* under the row lock, and all callers commit exactly once.                *)
(*                                                                         *)
(* Timestamps are abstracted to what the code tells apart.  claimed_at is  *)
(* a fencing token, compared only for equality by the fences, and compared *)
(* with the lease cutoff by the sweeps (lease_expired).                    *)
(***************************************************************************)
EXTENDS Naturals, FiniteSets

CONSTANTS Dispatch,   \* primary keys of external_dispatches
          WorkerId,   \* worker identities (make_worker_id)
          Token,      \* distinguishable claimed_at values
          MsgId,      \* Message-ID header values
          SweepLimit, \* the LIMIT of the two lease sweeps (100 in the code)
          Null        \* SQL NULL

ASSUME DispatchAssumption == Dispatch \subseteq Nat
ASSUME TokenAssumption == Token \subseteq Nat
ASSUME SweepLimitAssumption == SweepLimit \in Nat \ {0}
ASSUME NullAssumption == Null \notin WorkerId /\ Null \notin Token /\ Null \notin MsgId

VARIABLES state,          \* ExternalDispatch.state; "absent" before acceptance
          claimed_by,     \* ExternalDispatch.claimed_by
          claimed_at,     \* ExternalDispatch.claimed_at, the fencing token
          lease_expired,  \* claimed_at is older than the lease of the row's state
          message,        \* status of the linked Message; "none" iff message_id IS NULL
          header,         \* Message.message_id_header of the linked Message
          late,           \* outcome notes appended by annotate_unknown_dispatch
          locked          \* rows locked FOR UPDATE by an open transaction

table == <<state, claimed_by, claimed_at, lease_expired, message, header, late, locked>>

Outcome == {"sent", "failed", "unknown"}
DispatchState == {"absent", "queued", "generating", "sending"} \cup Outcome
MessageStatus == {"none", "draft", "sending"} \cup Outcome

TableTypeOK ==
  /\ state \in [Dispatch -> DispatchState]
  /\ claimed_by \in [Dispatch -> WorkerId \cup {Null}]
  /\ claimed_at \in [Dispatch -> Token \cup {Null}]
  /\ lease_expired \in [Dispatch -> BOOLEAN]
  /\ message \in [Dispatch -> MessageStatus]
  /\ header \in [Dispatch -> MsgId \cup {Null}]
  /\ late \in [Dispatch -> SUBSET Outcome]
  /\ locked \in SUBSET Dispatch

TableInit ==
  /\ state = [d \in Dispatch |-> "absent"]
  /\ claimed_by = [d \in Dispatch |-> Null]
  /\ claimed_at = [d \in Dispatch |-> Null]
  /\ lease_expired = [d \in Dispatch |-> FALSE]
  /\ message = [d \in Dispatch |-> "none"]
  /\ header = [d \in Dispatch |-> Null]
  /\ late = [d \in Dispatch |-> {}]
  /\ locked = {}

-----------------------------------------------------------------------------
(* Acceptance: the API's one commit that creates the row.                  *)

\* POST /outreach-actions commits the Message with the row; a generated-outreach
\* request commits the row alone (message_id NULL).
InsertDispatch(d, status) ==
  /\ state[d] = "absent"
  /\ state' = [state EXCEPT ![d] = "queued"]
  /\ message' = [message EXCEPT ![d] = status]
  /\ UNCHANGED <<claimed_by, claimed_at, lease_expired, header, late, locked>>

-----------------------------------------------------------------------------
(* Claims.  The claiming transaction locks the row and leaves its committed *)
(* version alone until the caller commits.                                  *)

\* Rows the send claim's SELECT may return: never a row still awaiting generation.
Sendable == {d \in Dispatch \ locked : state[d] = "queued" /\ message[d] # "none"}

Generatable == {d \in Dispatch \ locked : state[d] = "queued" /\ message[d] = "none"}

\* ORDER BY id LIMIT 1
OldestOf(S, d) == d \in S /\ \A e \in S : d <= e

claim_next_external_dispatch(d) ==
  /\ OldestOf(Sendable, d)
  /\ locked' = locked \cup {d}
  /\ UNCHANGED <<state, claimed_by, claimed_at, lease_expired, message, header, late>>

claim_next_generation_dispatch(d) ==
  /\ OldestOf(Generatable, d)
  /\ locked' = locked \cup {d}
  /\ UNCHANGED <<state, claimed_by, claimed_at, lease_expired, message, header, late>>

\* The claiming transaction ends without a visible effect.
Rollback(d) ==
  /\ locked' = locked \ {d}
  /\ UNCHANGED <<state, claimed_by, claimed_at, lease_expired, message, header, late>>

\* Transaction B commits: claim, Message-ID and Message status become durable together.
CommitSending(d, w, t, id) ==
  /\ locked' = locked \ {d}
  /\ state' = [state EXCEPT ![d] = "sending"]
  /\ claimed_by' = [claimed_by EXCEPT ![d] = w]
  /\ claimed_at' = [claimed_at EXCEPT ![d] = t]
  /\ lease_expired' = [lease_expired EXCEPT ![d] = FALSE]
  /\ message' = [message EXCEPT ![d] = "sending"]
  /\ header' = [header EXCEPT ![d] = id]
  /\ UNCHANGED late

\* Transaction G1 commits.
CommitGenerating(d, w, t) ==
  /\ locked' = locked \ {d}
  /\ state' = [state EXCEPT ![d] = "generating"]
  /\ claimed_by' = [claimed_by EXCEPT ![d] = w]
  /\ claimed_at' = [claimed_at EXCEPT ![d] = t]
  /\ lease_expired' = [lease_expired EXCEPT ![d] = FALSE]
  /\ UNCHANGED <<message, header, late>>

\* A gate or a refusal ends the claiming transaction as FAILED: the row is
\* never visibly SENDING or GENERATING.  A linked Message fails with it.
CommitRefused(d) ==
  /\ locked' = locked \ {d}
  /\ state' = [state EXCEPT ![d] = "failed"]
  /\ message' = [message EXCEPT ![d] = IF message[d] = "none" THEN "none" ELSE "failed"]
  /\ UNCHANGED <<claimed_by, claimed_at, lease_expired, header, late>>

-----------------------------------------------------------------------------
(* Fenced outcome writes.                                                  *)

\* A variant that trusts the worker identity alone.
GenerationFenceByWorker(d, w, t) == state[d] = "generating" /\ claimed_by[d] = w

\* WHERE id, state = SENDING, claimed_by and the exact claimed_at still match.
SendFence(d, w, t) == state[d] = "sending" /\ claimed_by[d] = w /\ claimed_at[d] = t

GenerationFence(d, w, t) ==
  state[d] = "generating" /\ claimed_by[d] = w /\ claimed_at[d] = t /\ message[d] = "none"

\* A terminal write that leaves the claim on the row.
KeepClaim(d) == UNCHANGED <<claimed_by, claimed_at, lease_expired>>

ClearClaim(d) ==
  /\ claimed_by' = [claimed_by EXCEPT ![d] = Null]
  /\ claimed_at' = [claimed_at EXCEPT ![d] = Null]
  /\ lease_expired' = [lease_expired EXCEPT ![d] = FALSE]

\* An outcome written to the dispatch alone.
FinishRowOnly(d, new_state) ==
  /\ ClearClaim(d)
  /\ state' = [state EXCEPT ![d] = new_state]
  /\ UNCHANGED <<message, header, late, locked>>

finish_external_dispatch(d, new_state) ==
  /\ ClearClaim(d)
  /\ state' = [state EXCEPT ![d] = new_state]
  /\ message' = [message EXCEPT ![d] = new_state]
  /\ UNCHANGED <<header, late, locked>>

complete_generation(d) ==
  /\ ClearClaim(d)
  /\ state' = [state EXCEPT ![d] = "queued"]
  /\ message' = [message EXCEPT ![d] = "draft"]
  /\ UNCHANGED <<header, late, locked>>

fail_generation(d) ==
  /\ ClearClaim(d)
  /\ state' = [state EXCEPT ![d] = "failed"]
  /\ UNCHANGED <<message, header, late, locked>>

\* A note written whatever the row's state.
AnnotateAnyRow(d, outcome) ==
  /\ late' = [late EXCEPT ![d] = @ \cup {outcome}]
  /\ UNCHANGED <<state, claimed_by, claimed_at, lease_expired, message, header, locked>>

\* Only an UNKNOWN row takes the note, and only its error_message changes.
annotate_unknown_dispatch(d, outcome) ==
  /\ late' = IF state[d] = "unknown"
               THEN [late EXCEPT ![d] = @ \cup {outcome}] ELSE late
  /\ UNCHANGED <<state, claimed_by, claimed_at, lease_expired, message, header, locked>>

-----------------------------------------------------------------------------
(* Leases.                                                                 *)

\* Time passes: claimed_at of a committed claim falls behind the cutoff.
LeaseExpires(d) ==
  /\ state[d] \in {"generating", "sending"}
  /\ ~lease_expired[d]
  /\ lease_expired' = [lease_expired EXCEPT ![d] = TRUE]
  /\ UNCHANGED <<state, claimed_by, claimed_at, message, header, late, locked>>

\* A claimed row whose lease ran out; a claim without a claimed_at is never live.
Expired(s) ==
  {d \in Dispatch \ locked : state[d] = s /\ (claimed_at[d] = Null \/ lease_expired[d])}

\* A LIMIT that is one short.
BatchOneShort(S) == {d \in S : Cardinality({e \in S : e <= d}) < SweepLimit}

\* ORDER BY id LIMIT SweepLimit
Batch(S) == {d \in S : Cardinality({e \in S : e < d}) < SweepLimit}

\* One sweep transaction releases the claims of the rows in S.
Release(S) ==
  /\ claimed_by' = [d \in Dispatch |-> IF d \in S THEN Null ELSE claimed_by[d]]
  /\ claimed_at' = [d \in Dispatch |-> IF d \in S THEN Null ELSE claimed_at[d]]
  /\ lease_expired' = [d \in Dispatch |-> lease_expired[d] /\ d \notin S]
  /\ UNCHANGED <<header, late, locked>>

\* The recovery rule the code rejects: an expired SENDING row goes back to the queue.
RequeueExpiredSending ==
  LET S == Batch(Expired("sending")) IN
  /\ S # {}
  /\ Release(S)
  /\ state' = [d \in Dispatch |-> IF d \in S THEN "queued" ELSE state[d]]
  /\ message' = [d \in Dispatch |-> IF d \in S THEN "draft" ELSE message[d]]

\* Expired SENDING -> UNKNOWN; never QUEUED, never a resend.
recover_expired_external_dispatches ==
  LET S == Batch(Expired("sending")) IN
  /\ S # {}
  /\ Release(S)
  /\ state' = [d \in Dispatch |-> IF d \in S THEN "unknown" ELSE state[d]]
  /\ message' = [d \in Dispatch |->
                   IF d \in S /\ message[d] \in {"sending", "draft"}
                     THEN "unknown" ELSE message[d]]

\* Expired GENERATING -> QUEUED: nothing was transmitted, so it is regenerated.
recover_expired_generations ==
  LET S == Batch({d \in Expired("generating") : message[d] = "none"}) IN
  /\ S # {}
  /\ Release(S)
  /\ state' = [d \in Dispatch |-> IF d \in S THEN "queued" ELSE state[d]]
  /\ UNCHANGED message

=============================================================================
