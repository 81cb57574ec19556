----------------------------- MODULE MCTcpServer -----------------------------
(* An instance of TcpServer for TLC. *)
EXTENDS TcpServer

MCAllFaults == {"setup", "server", "connect", "reset"}
=============================================================================
