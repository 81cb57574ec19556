------------------------------- MODULE MCPmon -------------------------------
(* An instance of Pmon for TLC: every call that can fail may fail. *)
EXTENDS Pmon

MCAllFaults == {"socket", "send", "recv", "shutdown"}
=============================================================================
