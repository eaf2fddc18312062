--------------------------- MODULE MCTcpConnection ---------------------------
(* The instances of TcpConnection that TLC checks. *)
EXTENDS TcpConnection
=============================================================================
