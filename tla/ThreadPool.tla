----------------------------- MODULE ThreadPool -----------------------------
(***************************************************************************)
(* dwater/base/thread_pool.cc in a program made of the blocking parts of   *)
(* base: Main starts the pool and two threads Run tasks; a task Puts its   *)
(* result into a bounded queue, a collector Takes it, passes it on through *)
(* an unbounded queue and counts a latch down; Main waits for the latch    *)
(* and Takes the results, or does not wait, then Stops the pool.           *)
(* Abstracted: a task is a name; its result is the task itself.            *)
(***************************************************************************)
EXTENDS Monitor

CONSTANTS
    Workers, Main, Other, Collector,    \* the threads
    Tasks,              \* [{Main, Other} -> the tasks that thread Runs]
    QueueSizes,         \* the values SetMaxQueueSize is tried with; 0: no limit
    MaxSpurious         \* bound: wake-ups without a Notify

Producers == {Main, Other}
Threads == Workers \cup Producers \cup {Collector}
AllTasks == UNION {Range(Tasks[p]) : p \in Producers}

(* The threads are distinct, every call of Run has a task of its own, and   *)
(* there is a task to wait for.                                             *)
ASSUME PoolAssumption ==
    /\ IsFiniteSet(Workers) /\ QueueSizes \subseteq Nat
    /\ Main # Other /\ Collector \notin Producers /\ Nobody \notin Threads
    /\ Workers \cap (Producers \cup {Collector}) = {}
    /\ Tasks \in [Producers -> Seq(AllTasks)] /\ AllTasks # {}
    /\ \A p \in Producers : IsInjective(Tasks[p])
    /\ Range(Tasks[Main]) \cap Range(Tasks[Other]) = {}

VARIABLES
    max_queue_size_, running_, threads_,
    queue_,
    todo,               \* [producer -> the tasks it has yet to Run]
    refused,            \* history: tasks Run dropped because of Stop
    ran,                \* history: tasks run, in order
    got,                \* history: results Main has Taken
    spurious            \* spurious wake-ups so far

poolVars == <<max_queue_size_, running_, threads_, queue_>>
vars == <<monitorVars, poolVars, todo, refused, ran, got, spurious>>
NoTask == "no task"

Init ==
    /\ op = [t \in Threads |-> CASE t = Main -> "start" [] t = Collector -> "bounded.Take"
                                 [] OTHER -> "idle"]
    /\ item = [t \in Threads |-> NoTask]
    /\ holder_ = [m \in Mutexes |-> Nobody] /\ waits = [c \in Conditions |-> {}]
    /\ bounded = <<>> /\ unbounded = <<>> /\ count_ = Cardinality(AllTasks)
    /\ max_queue_size_ \in QueueSizes /\ running_ = FALSE /\ threads_ = {}
    /\ queue_ = <<>> /\ todo = Tasks /\ refused = {} /\ ran = <<>> /\ got = <<>>
    /\ spurious = 0

-----------------------------------------------------------------------------
(* Start: the workers enter RunInThread, the other producer may Run *)
Start(n) ==
    /\ op[Main] = "start"
    /\ running_' = TRUE
    /\ threads_' = n
    /\ op' = [t \in Threads |-> CASE t \in n -> "loop" [] t \in Producers -> "next"
                                  [] OTHER -> op[t]]
    /\ UNCHANGED <<item, holder_, waits, bounded, unbounded, count_, max_queue_size_,
                   queue_, todo, refused, ran, got>>

(* mutant: the limit is off by one *)
IsFullTooLate == max_queue_size_ > 0 /\ Len(queue_) > max_queue_size_

IsFull == max_queue_size_ > 0 /\ Len(queue_) >= max_queue_size_

(* a producer calls Run; without threads the task runs at once, and its     *)
(* last act is to Put its result                                            *)
CallRun(p) ==
    /\ op[p] = "next" /\ todo[p] # <<>>
    /\ item' = [item EXCEPT ![p] = Head(todo[p])]
    /\ todo' = [todo EXCEPT ![p] = Tail(@)]
    /\ IF threads_ = {}
         THEN op' = [op EXCEPT ![p] = "bounded.Put"] /\ ran' = Append(ran, Head(todo[p]))
         ELSE op' = [op EXCEPT ![p] = "Run"] /\ UNCHANGED ran
    /\ UNCHANGED <<holder_, waits, bounded, unbounded, count_, poolVars, refused, got>>

Run(p) ==
    /\ In(p, "Run")
    /\ \/ /\ IsFull /\ running_
          /\ Wait(p, "pool.not_full")
          /\ UNCHANGED <<queue_, refused>>
       \/ /\ ~running_
          /\ refused' = refused \cup {item[p]}
          /\ Unlock(p, "next")
          /\ UNCHANGED <<waits, queue_>>
       \/ /\ running_ /\ ~IsFull
          /\ queue_' = Append(queue_, item[p])
          /\ Notify("pool.not_empty") /\ Unlock(p, "next")
          /\ UNCHANGED refused
    /\ UNCHANGED <<item, bounded, unbounded, count_, max_queue_size_, running_, threads_,
                   todo, ran, got>>

-----------------------------------------------------------------------------
(* RunInThread: the test of running_, outside of mutex_ *)
TestRunning(w) ==
    /\ op[w] = "loop"
    /\ op' = [op EXCEPT ![w] = IF running_ THEN "Take" ELSE "ended"]
    /\ UNCHANGED <<item, holder_, waits, bounded, unbounded, count_, poolVars, todo,
                   refused, ran, got>>

(* Take, and the call of the task it returned *)
Take(w) ==
    /\ In(w, "Take")
    /\ \/ /\ queue_ = <<>> /\ running_
          /\ Wait(w, "pool.not_empty")
          /\ UNCHANGED <<item, queue_, ran>>
       \/ /\ queue_ = <<>> /\ ~running_
          /\ Unlock(w, "loop")
          /\ UNCHANGED <<item, waits, queue_, ran>>
       \/ /\ queue_ # <<>>
          /\ item' = [item EXCEPT ![w] = Head(queue_)]
          /\ queue_' = Tail(queue_)
          /\ IF max_queue_size_ > 0 THEN Notify("pool.not_full") ELSE UNCHANGED waits
          /\ ran' = Append(ran, Head(queue_))
          /\ Unlock(w, "bounded.Put")
    /\ UNCHANGED <<bounded, unbounded, count_, max_queue_size_, running_, threads_, todo,
                   refused, got>>

(* the task's result; a worker then tests running_ again *)
PutResult(t) ==
    /\ BoundedPut(t, IF t \in Workers THEN "loop" ELSE "next")
    /\ UNCHANGED <<poolVars, todo, refused, ran, got>>

-----------------------------------------------------------------------------
(* The collector: Take, Put, CountDown, for ever *)
Collect ==
    /\ \/ BoundedTake(Collector, "unbounded.Put")
       \/ UnboundedPut(Collector, "CountDown")
       \/ CountDown(Collector, "bounded.Take")
    /\ UNCHANGED <<poolVars, todo, refused, ran, got>>

(* Main has no task left: it waits for the latch, or goes on to Stop *)
EndRunning ==
    /\ op[Main] = "next" /\ todo[Main] = <<>>
    /\ \E o \in {"Wait", "Stop"} : op' = [op EXCEPT ![Main] = o]
    /\ UNCHANGED <<item, holder_, waits, bounded, unbounded, count_, poolVars, todo,
                   refused, ran, got>>

WaitForLatch ==
    /\ LatchWait(Main, "unbounded.Take")
    /\ UNCHANGED <<poolVars, todo, refused, ran, got>>

TakeResult ==
    /\ UnboundedTake(Main, IF Len(got) + 1 < Cardinality(AllTasks)
                             THEN "unbounded.Take" ELSE "Stop")
    /\ got' = IF unbounded = <<>> THEN got ELSE Append(got, Head(unbounded))
    /\ UNCHANGED <<poolVars, todo, refused, ran>>

(* mutant: the producers are not woken *)
StopHalf ==
    /\ In(Main, "Stop")
    /\ running_' = FALSE
    /\ waits' = [waits EXCEPT !["pool.not_empty"] = {}]
    /\ Unlock(Main, "joining")
    /\ UNCHANGED <<item, bounded, unbounded, count_, max_queue_size_, threads_, queue_,
                   todo, refused, ran, got>>

Stop ==
    /\ In(Main, "Stop")
    /\ running_' = FALSE
    /\ waits' = [waits EXCEPT !["pool.not_empty"] = {}, !["pool.not_full"] = {}]
    /\ Unlock(Main, "joining")
    /\ UNCHANGED <<item, bounded, unbounded, count_, max_queue_size_, threads_, queue_,
                   todo, refused, ran, got>>

Join ==
    /\ op[Main] = "joining" /\ \A w \in threads_ : op[w] = "ended"
    /\ op' = [op EXCEPT ![Main] = "done"]
    /\ UNCHANGED <<item, holder_, waits, bounded, unbounded, count_, poolVars, todo,
                   refused, ran, got>>

-----------------------------------------------------------------------------
Enter(t) == Lock(t) /\ UNCHANGED <<poolVars, todo, refused, ran, got, spurious>>
WakesUp(t) ==
    /\ spurious < MaxSpurious /\ SpuriousWakeup(t)
    /\ spurious' = spurious + 1
    /\ UNCHANGED <<poolVars, todo, refused, ran, got>>

(* what a thread does by itself; Start, and Main's choices, included *)
Step(t) ==
    \/ t \in Producers /\ (CallRun(t) \/ Run(t))
    \/ t \in Workers /\ (TestRunning(t) \/ Take(t))
    \/ t \in Workers \cup Producers /\ PutResult(t)
    \/ t = Collector /\ Collect
    \/ t = Main /\ \/ \E n \in {{}, Workers} : Start(n)
                   \/ EndRunning \/ WaitForLatch \/ TakeResult \/ Stop \/ Join

Next ==
    \E t \in Threads : \/ Step(t) /\ UNCHANGED spurious
                       \/ Enter(t) \/ WakesUp(t)

Spec == Init /\ [][Next]_vars

(* Every thread runs, and gets a mutex that is free.  No wake-up has to     *)
(* come by itself.                                                          *)
Fairness ==
    \A t \in Threads : WF_vars(Step(t) /\ UNCHANGED spurious) /\ WF_vars(Enter(t))

FairSpec == Spec /\ Fairness

-----------------------------------------------------------------------------
(* Every variable has its type. *)
TypeOK ==
    /\ item \in [Threads -> AllTasks \cup {NoTask}]
    /\ holder_ \in [Mutexes -> Threads \cup {Nobody}]
    /\ waits \in [Conditions -> SUBSET Threads]
    /\ queue_ \in Seq(AllTasks) /\ bounded \in Seq(AllTasks)
    /\ unbounded \in Seq(AllTasks) /\ count_ \in Int
    /\ running_ \in BOOLEAN /\ threads_ \subseteq Workers

(* A task given to the pool is in one place: waiting to be Run, in queue_,  *)
(* run exactly once, or refused, which only a Stop brings about; the queues *)
(* keep their limits however the threads wake up (the assertions of Run and *)
(* Put); and no thread waits and holds a mutex.                             *)
TasksAccounted ==
    LET carried == {item[p] : p \in {q \in Producers : op[q] = "Run"}}
        places == <<Range(todo[Main]), Range(todo[Other]), carried, Range(queue_),
                    Range(ran), refused>>
    IN
    /\ TypeOK
    /\ AllTasks = UNION Range(places)
    /\ \A i, j \in DOMAIN places : i # j => places[i] \cap places[j] = {}
    /\ Cardinality(Range(ran)) = Len(ran)
    /\ refused # {} => ~running_
    /\ Len(bounded) <= Capacity
    /\ max_queue_size_ > 0 => Len(queue_) <= max_queue_size_
    /\ \A t \in Threads, m \in Mutexes : holder_[m] = t => ~Waiting(t)

(* Once the latch has opened for Main every task has been run, its result   *)
(* has come through both queues, and Main takes them all without ever       *)
(* waiting in the unbounded one.                                            *)
LatchCoversResults ==
    op[Main] = "unbounded.Take" =>
        /\ Range(ran) = AllTasks
        /\ Range(got) \cup Range(unbounded) = AllTasks
        /\ waits["unbounded.not_empty"] = {}

(* Nobody is left behind: every task Run is taken up as long as the pool    *)
(* runs, a Run returns (the producers at a full queue are woken, by Take or *)
(* by Stop), and Stop returns.                                              *)
PoolProgresses ==
    /\ queue_ # <<>> ~> queue_ = <<>> \/ ~running_
    /\ \A p \in Producers : op[p] = "Run" ~> op[p] = "next"
    /\ op[Main] \in {"Wait", "Stop"} ~> op[Main] = "done"
=============================================================================
