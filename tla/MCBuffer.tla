------------------------------ MODULE MCBuffer ------------------------------
(* The instance of Buffer that TLC checks. *)
EXTENDS Buffer
=============================================================================
