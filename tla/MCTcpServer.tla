---------------------------- MODULE MCTcpServer ----------------------------
(* The instance of TcpServer that TLC checks. *)
EXTENDS TcpServer
=============================================================================
