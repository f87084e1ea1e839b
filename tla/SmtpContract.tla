---------------------------- MODULE SmtpContract ----------------------------
(***************************************************************************)
(* What ExternalDispatch relies on when it calls send_email: the content   *)
(* goes to a server at most once, and the result never overstates what is  *)
(* known.  The actions Transfer, AfterTransfer and NoTransfer of that      *)
(* module are this contract, per dispatch.                                 *)
(***************************************************************************)
EXTENDS Naturals

VARIABLES returned,   \* the SendOutcome, "none" while the call runs
          handed,     \* how often the content was handed to a server
          kept        \* a server accepted it

contractVars == <<returned, handed, kept>>

ContractInit == returned = "none" /\ handed = 0 /\ kept = FALSE

HandOver ==
  /\ returned = "none"
  /\ handed = 0
  /\ handed' = 1
  /\ kept' \in BOOLEAN
  /\ UNCHANGED returned

Return(out) ==
  /\ returned = "none"
  /\ out = "sent" => kept
  /\ out = "failed" => handed = 0
  /\ returned' = out
  /\ UNCHANGED <<handed, kept>>

ContractNext == HandOver \/ \E out \in {"sent", "failed", "unknown"} : Return(out)

ContractSpec == ContractInit /\ [][ContractNext]_contractVars

=============================================================================
