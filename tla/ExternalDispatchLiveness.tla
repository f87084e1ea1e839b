----------------------- MODULE ExternalDispatchLiveness -----------------------
(***************************************************************************)
(* Progress of accepted dispatches.  Faults, shutdowns and leases that run *)
(* out under a live worker are unbounded in ExternalDispatch, and each of  *)
(* them can put a row back in the queue; here they are limited to          *)
(* FaultBudget, so what is shown is that the service recovers from every   *)
(* finite series of them.                                                  *)
(***************************************************************************)
EXTENDS ExternalDispatch

CONSTANT FaultBudget

ASSUME FaultBudgetAssumption == FaultBudget \in Nat

VARIABLE budget

fairVars == <<vars, budget>>

\* A thread still works under the row's current claim.
WorkedOn(d) ==
  \E p \in Proc :
    \/ sender[p].d = d /\ sender[p].tok = claimed_at[d]
    \/ generator[p].d = d /\ generator[p].tok = claimed_at[d]

\* An abandoned claim just ages; nothing but time is needed.
AbandonedLeaseExpires(d) == ~WorkedOn(d) /\ Expire(d)

\* SMTP or the LLM took longer than the lease.
WorkOutlivesLease(d) == WorkedOn(d) /\ Expire(d)

Benign ==
  \/ Environment
  \/ System
  \/ \E p \in Proc : Resume(p)
  \/ \E d \in Dispatch : AbandonedLeaseExpires(d)

Disturbance ==
  \/ Faults
  \/ \E p \in Proc : RequestShutdown(p)
  \/ \E d \in Dispatch : WorkOutlivesLease(d)

BoundedNext ==
  \/ Benign /\ UNCHANGED budget
  \/ Disturbance /\ budget > 0 /\ budget' = budget - 1

(***************************************************************************)
(* Fairness: the scheduler keeps firing its interval jobs while a process  *)
(* runs, a job that started runs on (every socket and the LLM client have  *)
(* timeouts), time passes, a stopped worker is replaced by its supervisor. *)
(* Nothing is assumed of requests, signals, faults and outcomes.           *)
(***************************************************************************)
Fairness ==
  /\ \A p \in Proc :
       /\ WF_fairVars(SendThread(p) /\ UNCHANGED budget)
       /\ WF_fairVars(GenerationThread(p) /\ UNCHANGED budget)
       /\ WF_fairVars(RecoverSending(p) /\ UNCHANGED budget)
       /\ WF_fairVars(RecoverGenerating(p) /\ UNCHANGED budget)
       /\ WF_fairVars(MainThread(p) /\ UNCHANGED budget)
       /\ WF_fairVars(Exit(p) /\ UNCHANGED budget)
       /\ WF_fairVars(Restart(p) /\ UNCHANGED budget)
  /\ \A d \in Dispatch : WF_fairVars(AbandonedLeaseExpires(d) /\ UNCHANGED budget)

FairSpec ==
  Init /\ budget = FaultBudget /\ [][BoundedNext]_fairVars /\ Fairness

-----------------------------------------------------------------------------
\* Every accepted dispatch ends as SENT, FAILED or UNKNOWN: no crash, lost
\* acknowledgement, expired lease or deferral by a shutdown strands it in QUEUED,
\* GENERATING or SENDING (work_claiming, the workers and the lease sweeps together).
EventuallySettled == \A d \in Dispatch : state[d] = "queued" ~> state[d] \in Outcome

=============================================================================
