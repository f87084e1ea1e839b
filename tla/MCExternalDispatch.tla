------------------------- MODULE MCExternalDispatch -------------------------
(* Instances of ExternalDispatch for TLC.                                  *)
EXTENDS ExternalDispatch, TLC

CONSTANTS p1, p2, w1, m1, m2

\* The same WORKER_ID on every process: the fences must not rely on it.
MCWorkerShared == [p \in Proc |-> w1]
Symmetry == Permutations(MsgId)
=============================================================================
