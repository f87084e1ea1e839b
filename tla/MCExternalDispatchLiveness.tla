---------------------- MODULE MCExternalDispatchLiveness ----------------------
(* Instances of ExternalDispatchLiveness for TLC.                          *)
EXTENDS ExternalDispatchLiveness

CONSTANTS p1, w1

MCWorkerShared == [p \in Proc |-> w1]
=============================================================================
