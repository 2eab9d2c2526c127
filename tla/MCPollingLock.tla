--------------------------- MODULE MCPollingLock ---------------------------
(* Instances of PollingLock for TLC. *)
EXTENDS PollingLock, TLC

CONSTANTS old, new

MCProcesses == {old, new}
=============================================================================
