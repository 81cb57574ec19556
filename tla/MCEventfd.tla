----------------------------- MODULE MCEventfd -----------------------------
(* An instance of Eventfd for TLC: runs in which no call fails, runs in     *)
(* which only the writers' side may fail, and runs in which any call may.   *)
EXTENDS Eventfd

MCFaultSets == {{}, {"pthread_create", "write"}, Calls}
=============================================================================
