-------------------------- MODULE FunctorExecutor --------------------------
(***************************************************************************)
(* What RunInLoop and QueueInLoop of dwater/net/event_loop.h promise their *)
(* callers: a functor handed over is put at the end of one queue, and the  *)
(* functors are run one at a time, in the order of the queue.              *)
(***************************************************************************)
EXTENDS Sequences

CONSTANT Functors

VARIABLES
    queue,      \* the functors accepted and not yet run
    done        \* those run, in the order they were

vars == <<queue, done>>

Init == queue = <<>> /\ done = <<>>

Used(f) == \E s \in {queue, done} : \E i \in DOMAIN s : s[i] = f

Accept(f) ==
    /\ ~Used(f)
    /\ queue' = Append(queue, f)
    /\ UNCHANGED done

RunFirst ==
    /\ queue # <<>>
    /\ done' = Append(done, Head(queue))
    /\ queue' = Tail(queue)

Next == (\E f \in Functors : Accept(f)) \/ RunFirst

Spec == Init /\ [][Next]_vars
=============================================================================
