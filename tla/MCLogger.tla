------------------------------ MODULE MCLogger ------------------------------
(* The instance of Logger, AsyncLogging and LogFile that TLC checks. *)
EXTENDS Logger
=============================================================================
