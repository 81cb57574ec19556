------------------------------ MODULE MCStream ------------------------------
(* An instance of Stream for TLC: both pairs of programs, every fault. *)
EXTENDS Stream

MCAllFaults == {"setup", "accept", "connect", "cut"}
=============================================================================
