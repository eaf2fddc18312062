---------------------------- MODULE MCThreadPool ----------------------------
(* The instance of ThreadPool that TLC checks. *)
EXTENDS ThreadPool, TLC

CONSTANTS m, o, w1, w2, c, a1, b1

MCTasks == m :> <<a1>> @@ o :> <<b1>>
=============================================================================
