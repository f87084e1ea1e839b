------------------------- MODULE DispatchLifecycle -------------------------
(***************************************************************************)
(* What the service promises LeadBoost about one accepted outreach action: *)
(* the public state that GET /outreach-actions/{key} reports, and how it   *)
(* relates to what really reached an SMTP server.                          *)
(*                                                                         *)
(* There are no workers, leases, claims or crashes here.  ExternalDispatch *)
(* is shown to implement this specification.                               *)
(***************************************************************************)
EXTENDS Naturals

CONSTANT Dispatch

VARIABLES reported,    \* the public state; "none" while the key is unknown (404)
          deliveries,  \* how often the content was handed to an SMTP server
          taken        \* operations whose content an SMTP server accepted

lifecycleVars == <<reported, deliveries, taken>>

Terminal == {"sent", "failed", "unknown"}

LifecycleInit ==
  /\ reported = [d \in Dispatch |-> "none"]
  /\ deliveries = [d \in Dispatch |-> 0]
  /\ taken = {}

\* Durable acceptance.
Admit(d) ==
  /\ reported[d] = "none"
  /\ reported' = [reported EXCEPT ![d] = "queued"]
  /\ UNCHANGED <<deliveries, taken>>

\* A worker is about to talk to an SMTP server.
StartSending(d) ==
  /\ reported[d] = "queued"
  /\ reported' = [reported EXCEPT ![d] = "sending"]
  /\ UNCHANGED <<deliveries, taken>>

\* Given up before any SMTP conversation.
Reject(d) ==
  /\ reported[d] = "queued"
  /\ reported' = [reported EXCEPT ![d] = "failed"]
  /\ UNCHANGED <<deliveries, taken>>

\* The one delivery.  It may come after the service stopped waiting for it.
Deliver(d) ==
  /\ reported[d] \in {"sending", "unknown"}
  /\ deliveries[d] = 0
  /\ deliveries' = [deliveries EXCEPT ![d] = 1]
  /\ taken' \in {taken, taken \cup {d}}
  /\ UNCHANGED reported

\* A definite outcome is claimed only when it is true.
Settle(d, outcome) ==
  /\ reported[d] = "sending"
  /\ outcome = "sent" => d \in taken
  /\ outcome = "failed" => deliveries[d] = 0
  /\ reported' = [reported EXCEPT ![d] = outcome]
  /\ UNCHANGED <<deliveries, taken>>

\* Operations nobody will settle any more become UNKNOWN, several at a time.
GiveUp(S) ==
  /\ \A d \in S : reported[d] = "sending"
  /\ reported' = [d \in Dispatch |-> IF d \in S THEN "unknown" ELSE reported[d]]
  /\ UNCHANGED <<deliveries, taken>>

LifecycleNext ==
  \/ \E d \in Dispatch :
       \/ Admit(d) \/ StartSending(d) \/ Reject(d) \/ Deliver(d)
       \/ \E outcome \in Terminal : Settle(d, outcome)
  \/ \E S \in SUBSET Dispatch : GiveUp(S)

LifecycleSpec == LifecycleInit /\ [][LifecycleNext]_lifecycleVars

=============================================================================
