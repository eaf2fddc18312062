------------------------------- MODULE Monitor -------------------------------
(***************************************************************************)
(* dwater/base/mutex.h and condition.h, and the three small monitors built *)
(* from them: CountDownLatch, BlockingQueue and BoundedBlockingQueue.      *)
(* op[t] is the monitor operation thread t is in.  A thread locks, then    *)
(* runs the body to the Unlock of the guard or to a Wait; one that is      *)
(* woken locks again and tests its condition again, as the while loops do. *)
(***************************************************************************)
EXTENDS Integers, Sequences, FiniteSets, Functions

CONSTANTS
    Capacity        \* of the bounded queue

ASSUME CapacityAssumption == Capacity \in Nat \ {0}

VARIABLES
    op,             \* [thread -> operation or place outside of the monitors]
    item,           \* [thread -> the value it carries]
    holder_,        \* [mutex -> the thread that holds it, or Nobody]
    waits,          \* [condition -> the threads that wait in it]
    bounded, unbounded,         \* the contents of the two queues
    count_          \* the latch

monitorVars == <<op, item, holder_, waits, bounded, unbounded, count_>>

Nobody == "nobody"
Mutexes == {"pool", "bounded", "unbounded", "latch"}
Conditions == {"pool.not_empty", "pool.not_full", "bounded.not_empty",
               "bounded.not_full", "unbounded.not_empty", "latch"}

MutexOf(o) ==
    CASE o \in {"Run", "Take", "Stop"} -> "pool"
      [] o \in {"bounded.Put", "bounded.Take"} -> "bounded"
      [] o \in {"unbounded.Put", "unbounded.Take"} -> "unbounded"
      [] OTHER -> "latch"

Operations == {"Run", "Take", "Stop", "bounded.Put", "bounded.Take",
               "unbounded.Put", "unbounded.Take", "CountDown", "Wait"}

Waiting(t) == \E c \in Conditions : t \in waits[c]

(* MutexLock::Lock, for an operation begun or after a wake-up *)
Lock(t) ==
    /\ op[t] \in Operations /\ ~Waiting(t)
    /\ holder_[MutexOf(op[t])] = Nobody
    /\ holder_' = [holder_ EXCEPT ![MutexOf(op[t])] = t]
    /\ UNCHANGED <<op, item, waits, bounded, unbounded, count_>>

(* thread t is in the body of operation o *)
In(t, o) == op[t] = o /\ holder_[MutexOf(o)] = t

(* the guard's Unlock; t goes on at place next *)
Unlock(t, next) ==
    /\ holder_' = [holder_ EXCEPT ![MutexOf(op[t])] = Nobody]
    /\ op' = [op EXCEPT ![t] = next]

(* Condition::Wait gives the mutex up, holder_ included *)
Wait(t, c) ==
    /\ waits' = [waits EXCEPT ![c] = @ \cup {t}]
    /\ holder_' = [holder_ EXCEPT ![MutexOf(op[t])] = Nobody]
    /\ UNCHANGED op

(* Condition::Notify wakes one of those that wait *)
Notify(c) ==
    IF waits[c] = {} THEN UNCHANGED waits
    ELSE \E t \in waits[c] : waits' = [waits EXCEPT ![c] = @ \ {t}]

(* pthread_cond_wait may return by itself *)
SpuriousWakeup(t) ==
    /\ Waiting(t)
    /\ waits' = [c \in Conditions |-> waits[c] \ {t}]
    /\ UNCHANGED <<op, item, holder_, bounded, unbounded, count_>>

-----------------------------------------------------------------------------
(* BoundedBlockingQueue::Put and Take *)

Full == Len(bounded) >= Capacity

BoundedPut(t, next) ==
    /\ In(t, "bounded.Put")
    /\ \/ Full /\ Wait(t, "bounded.not_full") /\ UNCHANGED bounded
       \/ /\ ~Full
          /\ bounded' = Append(bounded, item[t])
          /\ Notify("bounded.not_empty") /\ Unlock(t, next)
    /\ UNCHANGED <<item, unbounded, count_>>

BoundedTake(t, next) ==
    /\ In(t, "bounded.Take")
    /\ \/ bounded = <<>> /\ Wait(t, "bounded.not_empty") /\ UNCHANGED <<bounded, item>>
       \/ /\ bounded # <<>>
          /\ item' = [item EXCEPT ![t] = Head(bounded)]
          /\ bounded' = Tail(bounded)
          /\ Notify("bounded.not_full") /\ Unlock(t, next)
    /\ UNCHANGED <<unbounded, count_>>

(* BlockingQueue::Put and Take *)
UnboundedPut(t, next) ==
    /\ In(t, "unbounded.Put")
    /\ unbounded' = Append(unbounded, item[t])
    /\ Notify("unbounded.not_empty") /\ Unlock(t, next)
    /\ UNCHANGED <<item, bounded, count_>>

UnboundedTake(t, next) ==
    /\ In(t, "unbounded.Take")
    /\ \/ unbounded = <<>> /\ Wait(t, "unbounded.not_empty") /\ UNCHANGED <<unbounded, item>>
       \/ /\ unbounded # <<>>
          /\ item' = [item EXCEPT ![t] = Head(unbounded)]
          /\ unbounded' = Tail(unbounded)
          /\ Unlock(t, next)
          /\ UNCHANGED waits
    /\ UNCHANGED <<bounded, count_>>

(* CountDownLatch::CountDown and Wait *)
CountDown(t, next) ==
    /\ In(t, "CountDown")
    /\ count_' = count_ - 1
    /\ waits' = IF count_' = 0 THEN [waits EXCEPT !["latch"] = {}] ELSE waits
    /\ Unlock(t, next)
    /\ UNCHANGED <<item, bounded, unbounded>>

(* mutant: the count is not tested again after a wake-up *)
LatchWaitOnce(t, next) ==
    /\ In(t, "Wait")
    /\ Unlock(t, next) /\ UNCHANGED <<waits, item, bounded, unbounded, count_>>

LatchWait(t, next) ==
    /\ In(t, "Wait")
    /\ \/ count_ > 0 /\ Wait(t, "latch")
       \/ count_ <= 0 /\ Unlock(t, next) /\ UNCHANGED waits
    /\ UNCHANGED <<item, bounded, unbounded, count_>>
=============================================================================
