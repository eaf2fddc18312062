---------------------------- MODULE MCTcpClient ----------------------------
(* The instance of TcpClient that TLC checks. *)
EXTENDS TcpClient
=============================================================================
