----------------------------- MODULE MCChannel -----------------------------
(* Channel on three fds, the first of them 0, whose hidden form is -1 *)
EXTENDS Channel
=============================================================================
