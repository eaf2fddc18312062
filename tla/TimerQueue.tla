----------------------------- MODULE TimerQueue -----------------------------
(***************************************************************************)
(* The timers of an event loop, dwater/net/timer_queue.cc: two sets of     *)
(* timers ordered differently, one timerfd armed for the earliest, and     *)
(* callbacks that may add and cancel timers while the expired ones run.    *)
(* Timers are heap objects: `delete` frees an address that a later `new`   *)
(* may return again, and users keep TimerIds of timers long gone.          *)
(* Time is counted in ticks, one tick being the least delay that           *)
(* HowMuchTimeFromNow asks of the timerfd.                                 *)
(***************************************************************************)
EXTENDS Integers, Sequences, FiniteSetsExt

CONSTANTS
    Threads,        \* the threads other than the loop's that use the timers
    Addrs,          \* the addresses a Timer can have (a set of integers)
    MaxTime,        \* bound: the clock stops here
    MaxTimers,      \* bound: timers ever created
    MaxPending,     \* bound: functors waiting in the loop at a time
    Intervals       \* the repeat intervals in use, 0 for a one-shot timer

ASSUME TimerAssumption ==
    /\ Addrs \subseteq Nat
    /\ MaxTime \in Nat /\ MaxTimers \in Nat /\ MaxPending \in Nat
    /\ Intervals \subseteq Nat

VARIABLES
    now,                        \* Timestamp::Now()
    heap,                       \* [Addrs -> the Timer there, or Free]
    s_num_created_,             \* Timer::s_num_created_
    timers_,                    \* TimerList: <<expiration, address>>
    active_timers_,             \* ActiveTimerSet: <<address, sequence>>
    canceling_timers_,
    calling_expired_timers_,
    expired, batch,             \* HandleRead's vector: left to run, and all of it
    handle_now,                 \* HandleRead's local now
    armed,                      \* when the timerfd expires, or Disarmed
    readable,                   \* TRUE iff the timerfd is readable
    pending,                    \* the loop's queue of AddTimerInLoop, CancelInLoop
    tpc,                        \* per thread: Idle, or the TimerId AddTimer is
                                \* about to return
    known,                      \* TimerIds users have got
    cancelled,                  \* history: TimerIds CancelInLoop was called with
    overtaken                   \* history: ... while AddTimerInLoop still waited

heapVars == <<heap, s_num_created_>>
setVars == <<timers_, active_timers_>>
fdVars == <<armed, readable>>
handleVars == <<calling_expired_timers_, expired, batch, handle_now>>
userVars == <<tpc, known>>
cancelVars == <<canceling_timers_, cancelled, overtaken>>
vars == <<now, heapVars, setVars, fdVars, handleVars, pending, userVars, cancelVars>>

Free == [seq |-> 0, exp |-> 0, interval |-> 0]
Disarmed == -1
Idle == <<0, 0>>

Expiration(e) == e[1]
Address(e) == e[2]

(* the order of std::set<std::pair<Timestamp, Timer*>> *)
Before(e, f) ==
    \/ Expiration(e) < Expiration(f)
    \/ Expiration(e) = Expiration(f) /\ Address(e) < Address(f)

IsFirst(e, S) == e \in S /\ \A f \in S \ {e} : Before(e, f)

Earliest(S) == Min({Expiration(e) : e \in S})

(* mutant: without the least delay, a time gone by disarms the timerfd *)
ResetTimerfdUnclamped(when) ==
    /\ armed' = IF when <= now THEN Disarmed ELSE when
    /\ readable' = FALSE

(* ResetTimerfd(HowMuchTimeFromNow(when)): never less than one tick from now *)
ResetTimerfd(when) ==
    /\ armed' = IF when < now + 1 THEN now + 1 ELSE when
    /\ readable' = FALSE

Init ==
    /\ now = 1
    /\ heap = [a \in Addrs |-> Free] /\ s_num_created_ = 0
    /\ timers_ = {} /\ active_timers_ = {}
    /\ canceling_timers_ = {} /\ calling_expired_timers_ = FALSE
    /\ expired = {} /\ batch = {} /\ handle_now = 0
    /\ armed = Disarmed /\ readable = FALSE
    /\ pending = <<>>
    /\ tpc = [t \in Threads |-> Idle] /\ known = {}
    /\ cancelled = {} /\ overtaken = {}

-----------------------------------------------------------------------------
(* The clock and the timerfd.  The timerfd counts on CLOCK_MONOTONIC while  *)
(* Now() is the wall clock, which may be set back: it may fire early.       *)
Tick ==
    /\ now < MaxTime
    /\ now' = now + 1
    /\ UNCHANGED <<heapVars, setVars, fdVars, handleVars, pending, userVars,
                   cancelVars>>

TimerfdFires ==
    /\ armed # Disarmed
    /\ armed' = Disarmed /\ readable' = TRUE
    /\ UNCHANGED <<now, heapVars, setVars, handleVars, pending, userVars,
                   cancelVars>>

-----------------------------------------------------------------------------
(* new Timer(cb, when, interval), at any free address *)
NewTimer(a, when, interval) ==
    /\ heap[a] = Free /\ s_num_created_ < MaxTimers
    /\ s_num_created_' = s_num_created_ + 1
    /\ heap' = [heap EXCEPT ![a] = [seq |-> s_num_created_ + 1, exp |-> when,
                                    interval |-> interval]]

IdAt(a, h) == <<a, h[a].seq>>

(* mutant: only the first timer arms the timerfd *)
EarliestChangedOnce(when) == timers_ = {}

(* what Insert returns, before it inserts *)
EarliestChanged(when) == timers_ = {} \/ when < Earliest(timers_)

(* AddTimerInLoop and its Insert, of the timer at a in the heap h *)
AddTimerInLoop(a, h) ==
    /\ timers_' = timers_ \cup {<<h[a].exp, a>>}
    /\ active_timers_' = active_timers_ \cup {IdAt(a, h)}
    /\ IF EarliestChanged(h[a].exp)
         THEN ResetTimerfd(h[a].exp)
         ELSE UNCHANGED fdVars

IsAdd(m, id) == m.op = "add" /\ m.id = id

(* what the properties remember of a cancellation *)
Remember(id) ==
    /\ cancelled' = cancelled \cup {id}
    /\ overtaken' = IF \E i \in DOMAIN pending : IsAdd(pending[i], id)
                      THEN overtaken \cup {id} ELSE overtaken

(* mutant: the timer stays in timers_ *)
CancelInLoopOneSet(id) ==
    /\ Remember(id)
    /\ active_timers_' = active_timers_ \ {id}
    /\ heap' = IF id \in active_timers_ THEN [heap EXCEPT ![id[1]] = Free] ELSE heap
    /\ UNCHANGED <<timers_, canceling_timers_>>

CancelInLoop(id) ==
    /\ Remember(id)
    /\ IF id \in active_timers_
         THEN /\ timers_' = timers_ \ {<<heap[id[1]].exp, id[1]>>}
              /\ active_timers_' = active_timers_ \ {id}
              /\ heap' = [heap EXCEPT ![id[1]] = Free]
              /\ UNCHANGED canceling_timers_
         ELSE /\ canceling_timers_' = IF calling_expired_timers_
                                        THEN canceling_timers_ \cup {id}
                                        ELSE canceling_timers_
              /\ UNCHANGED <<setVars, heap>>

-----------------------------------------------------------------------------
(* A callback on the loop's thread: RunInLoop makes both calls directly.    *)
AddTimerHere(a, when, interval) ==
    /\ NewTimer(a, when, interval)
    /\ AddTimerInLoop(a, heap')
    /\ known' = known \cup {IdAt(a, heap')}
    /\ UNCHANGED <<now, handleVars, pending, tpc, cancelVars>>

CancelHere(id) ==
    /\ id \in known
    /\ CancelInLoop(id)
    /\ UNCHANGED <<now, s_num_created_, fdVars, handleVars, pending, userVars>>

(* Another thread: AddTimer creates and hands over the timer, then reads    *)
(* its sequence for the TimerId it returns, from memory that may have been  *)
(* freed or used again by then.                                             *)
AddTimer(t, a, when, interval) ==
    /\ tpc[t] = Idle /\ Len(pending) < MaxPending
    /\ NewTimer(a, when, interval)
    /\ pending' = Append(pending, [op |-> "add", id |-> IdAt(a, heap')])
    /\ tpc' = [tpc EXCEPT ![t] = IdAt(a, heap')]
    /\ UNCHANGED <<now, setVars, fdVars, handleVars, known, cancelVars>>

AddTimerReturns(t) ==
    /\ tpc[t] # Idle
    /\ known' = known \cup {IdAt(tpc[t][1], heap)}
    /\ tpc' = [tpc EXCEPT ![t] = Idle]
    /\ UNCHANGED <<now, heapVars, setVars, fdVars, handleVars, pending, cancelVars>>

Cancel(t, id) ==
    /\ tpc[t] = Idle /\ id \in known /\ Len(pending) < MaxPending
    /\ pending' = Append(pending, [op |-> "cancel", id |-> id])
    /\ UNCHANGED <<now, heapVars, setVars, fdVars, handleVars, userVars, cancelVars>>

(* the loop runs the first functor of its queue, between two HandleReads *)
RunPending ==
    /\ ~calling_expired_timers_ /\ pending # <<>>
    /\ pending' = Tail(pending)
    /\ \/ /\ Head(pending).op = "add"
          /\ AddTimerInLoop(Head(pending).id[1], heap)
          /\ UNCHANGED <<heap, cancelVars>>
       \/ /\ Head(pending).op = "cancel"
          /\ CancelInLoop(Head(pending).id)
          /\ UNCHANGED fdVars
    /\ UNCHANGED <<now, s_num_created_, handleVars, userVars>>

-----------------------------------------------------------------------------
(* GetExpired: what sorts before <<now, UINTPTR_MAX>> *)
Due == {e \in timers_ : Expiration(e) <= now}

(* HandleRead up to the loop over the expired timers *)
HandleRead ==
    /\ readable /\ ~calling_expired_timers_
    /\ readable' = FALSE
    /\ handle_now' = now
    /\ expired' = Due /\ batch' = Due
    /\ timers_' = timers_ \ Due
    /\ active_timers_' = active_timers_ \ {IdAt(Address(e), heap) : e \in Due}
    /\ calling_expired_timers_' = TRUE
    /\ canceling_timers_' = {}
    /\ UNCHANGED <<now, heapVars, armed, pending, userVars, cancelled, overtaken>>

(* it.second->Run() *)
RunExpired(e) ==
    /\ calling_expired_timers_ /\ IsFirst(e, expired)
    /\ expired' = expired \ {e}
    /\ UNCHANGED <<now, heapVars, setVars, fdVars, calling_expired_timers_, batch,
                   handle_now, pending, userVars, cancelVars>>

(* mutant: cancellations by the callbacks are not looked at *)
RestartedAll == {e \in batch : heap[Address(e)].interval > 0}

(* what Reset keeps: repeating timers nobody cancelled while they ran *)
Restarted ==
    {e \in batch : /\ heap[Address(e)].interval > 0
                   /\ IdAt(Address(e), heap) \notin canceling_timers_}

(* the end of HandleRead, with Reset: Restart and Insert, or delete, each   *)
(* expired timer, and arm the timerfd for the earliest                      *)
Reset ==
    LET again == {Address(e) : e \in Restarted}
        gone == {Address(e) : e \in batch \ Restarted}
        next == [a \in Addrs |->
                    IF a \in again
                      THEN [heap[a] EXCEPT !.exp = handle_now + heap[a].interval]
                      ELSE IF a \in gone THEN Free ELSE heap[a]]
    IN
    /\ calling_expired_timers_ /\ expired = {}
    /\ heap' = next
    /\ timers_' = timers_ \cup {<<next[a].exp, a>> : a \in again}
    /\ active_timers_' = active_timers_ \cup {IdAt(a, next) : a \in again}
    /\ IF timers_' # {} THEN ResetTimerfd(Earliest(timers_')) ELSE UNCHANGED fdVars
    /\ calling_expired_timers_' = FALSE /\ batch' = {} /\ handle_now' = 0
    /\ UNCHANGED <<now, s_num_created_, expired, pending, userVars, cancelVars>>

-----------------------------------------------------------------------------
LoopThread ==
    \/ \E a \in Addrs, when \in 1 .. MaxTime, i \in Intervals :
            AddTimerHere(a, when, i)
    \/ \E id \in known : CancelHere(id)
    \/ RunPending
    \/ HandleRead
    \/ \E e \in expired : RunExpired(e)
    \/ Reset

OtherThread(t) ==
    \/ \E a \in Addrs, when \in 1 .. MaxTime, i \in Intervals :
            AddTimer(t, a, when, i)
    \/ AddTimerReturns(t)
    \/ \E id \in known : Cancel(t, id)

Next == Tick \/ TimerfdFires \/ LoopThread \/ \E t \in Threads : OtherThread(t)

Spec == Init /\ [][Next]_vars

(* The clock and an armed timerfd move on, and the loop's thread keeps      *)
(* running what it has to run.                                              *)
Fairness ==
    /\ WF_vars(Tick)
    /\ WF_vars(TimerfdFires)
    /\ WF_vars(RunPending) /\ WF_vars(HandleRead)
    /\ WF_vars(\E e \in expired : RunExpired(e)) /\ WF_vars(Reset)

FairSpec == Spec /\ Fairness

-----------------------------------------------------------------------------
Timers == [seq : 0 .. MaxTimers, exp : Nat, interval : Nat]
Ids == Addrs \X (0 .. MaxTimers)

(* Every variable has its type. *)
TypeOK ==
    /\ now \in Nat /\ handle_now \in Nat
    /\ heap \in [Addrs -> Timers] /\ s_num_created_ \in 0 .. MaxTimers
    /\ timers_ \in SUBSET (Nat \X Addrs)
    /\ active_timers_ \in SUBSET Ids /\ canceling_timers_ \in SUBSET Ids
    /\ calling_expired_timers_ \in BOOLEAN
    /\ batch \in SUBSET (Nat \X Addrs) /\ expired \in SUBSET batch
    /\ armed \in Nat \cup {Disarmed} /\ readable \in BOOLEAN
    /\ pending \in Seq([op : {"add", "cancel"}, id : Ids])
    /\ tpc \in [Threads -> Ids \cup {Idle}] /\ known \in SUBSET Ids
    /\ cancelled \in SUBSET Ids /\ overtaken \in SUBSET cancelled

(* The timers HandleRead has taken out are due, even when the timerfd fired *)
(* early; they stay alive until Reset, whatever their callbacks cancel, and *)
(* are in neither set meanwhile.                                            *)
BatchIsAlive ==
    \A e \in batch :
        /\ Expiration(e) <= now
        /\ heap[Address(e)] # Free /\ heap[Address(e)].exp = Expiration(e)
        /\ \A f \in timers_ : Address(f) # Address(e)

(* The two sets hold the same timers, all of them alive and filed under the *)
(* expiration and the sequence they have now: what every assert of          *)
(* timer_queue.cc relies on (sizes equal, each erase finds its entry, each  *)
(* insert is new), and that no pointer in them dangles; nor does one in     *)
(* HandleRead's vector.                                                     *)
SetsAgree ==
    /\ TypeOK /\ BatchIsAlive
    /\ \A e \in timers_ : heap[Address(e)] # Free /\ heap[Address(e)].exp = Expiration(e)
    /\ active_timers_ = {IdAt(Address(e), heap) : e \in timers_}

(* Outside of HandleRead the timerfd never oversleeps: with a timer in the  *)
(* queue it has fired, or it is armed no later than the earliest timer (or  *)
(* the least delay from now).                                               *)
TimerfdCoversEarliest ==
    timers_ # {} /\ ~calling_expired_timers_ =>
        \/ readable
        \/ armed # Disarmed /\ (armed <= Earliest(timers_) \/ armed <= now + 1)

(* A timer cancelled after it was added never gets back into the queue: not *)
(* through the Reset of the batch it was cancelled in, and not because its  *)
(* address was given to a new timer.                                        *)
CancelIsFinal == active_timers_ \cap (cancelled \ overtaken) = {}

(* the timer is due and has not been called for it yet *)
Waiting(id) ==
    \/ id \in active_timers_ /\ heap[id[1]].exp <= now
    \/ \E e \in expired : IdAt(Address(e), heap) = id

(* A timer that is due is called, or cancelled: it does not wait for ever.  *)
DueTimersRun == \A id \in Ids : Waiting(id) ~> ~Waiting(id)
=============================================================================
