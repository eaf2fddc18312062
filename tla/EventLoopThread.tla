--------------------------- MODULE EventLoopThread ---------------------------
(***************************************************************************)
(* dwater/net/event_loop_thread.cc: an owner starts a thread, the thread   *)
(* runs an EventLoop that lives on its stack, publishes a pointer to it in *)
(* loop_ and waits in Loop(); the owner's destructor quits the loop and    *)
(* joins the thread.  Composes EventLoop with the two threads' own steps.  *)
(***************************************************************************)
EXTENDS EventLoop

CONSTANT
    Owner           \* the thread that creates and destroys the object

ASSUME OwnerAssumption == Owner \in Threads

VARIABLES
    opc,            \* where the owner is
    fpc,            \* where ThreadFunc is
    loop_,          \* TRUE iff loop_ points to the loop on ThreadFunc's stack
    user_quit       \* history: user code has called Quit, as the tests do

threadVars == <<opc, fpc, loop_, user_quit>>
allVars == <<vars, threadVars>>

(* the EventLoop object exists from ThreadFunc's first line to its last *)
LoopExists == fpc \in {"init", "published", "looping", "left", "cleared"}

ThreadInit ==
    /\ Init
    /\ opc = "new" /\ fpc = "none" /\ loop_ = FALSE /\ user_quit = FALSE

-----------------------------------------------------------------------------
(* The owner *)

(* StartLoop calls thread_.Start(): the thread is created, and latch_ holds *)
(* the owner until it runs                                                  *)
StartThread ==
    /\ opc = "new" /\ fpc = "none"
    /\ opc' = "latched" /\ fpc' = "created"
    /\ UNCHANGED <<vars, loop_, user_quit>>

(* latch_.Wait() returns: the thread has counted it down *)
ReturnFromStart ==
    /\ opc = "latched" /\ fpc # "created"
    /\ opc' = "starting"
    /\ UNCHANGED <<vars, fpc, loop_, user_quit>>

(* the test of loop_ under mutex_: return it, or sleep in cond_.Wait() *)
TestLoop ==
    /\ opc = "starting"
    /\ opc' = IF loop_ THEN "using" ELSE "sleeping"
    /\ UNCHANGED <<vars, fpc, loop_, user_quit>>

(* a condition variable may wake up by itself *)
SpuriousWakeup ==
    /\ opc = "sleeping"
    /\ opc' = "starting"
    /\ UNCHANGED <<vars, fpc, loop_, user_quit>>

(* the destructor's test of loop_, which does not take mutex_; the object's *)
(* users are done with it.  With loop_ NULL the thread is left detached.    *)
BeginDestructor ==
    /\ opc = "using"
    /\ \A t \in Threads : tpc[t] = "idle"
    /\ opc' = IF loop_ THEN "quitting" ELSE "done"
    /\ UNCHANGED <<vars, fpc, loop_, user_quit>>

(* loop_->Quit(), whose Wakeup() is the owner's WakeupFrom *)
QuitFromDestructor ==
    /\ opc = "quitting"
    /\ Quit(Owner)
    /\ opc' = "joining"
    /\ UNCHANGED <<fpc, loop_, user_quit>>

(* thread_.Join() returns when the thread has ended *)
Join ==
    /\ opc = "joining" /\ tpc[Owner] = "idle" /\ fpc = "ended"
    /\ opc' = "done"
    /\ UNCHANGED <<vars, fpc, loop_, user_quit>>

-----------------------------------------------------------------------------
(* ThreadFunc *)

(* ThreadData::RunInThread: latch_->CountDown(), then ThreadFunc, whose     *)
(* first line makes the loop                                                *)
RunInThread ==
    /\ fpc = "created"
    /\ fpc' = "init"
    /\ UNCHANGED <<vars, opc, loop_, user_quit>>

(* mutant: no Notify *)
PublishSilent ==
    /\ fpc = "init"
    /\ loop_' = TRUE
    /\ fpc' = "published"
    /\ UNCHANGED <<vars, opc, user_quit>>

(* loop_ = &loop; cond_.Notify(), under mutex_ *)
Publish ==
    /\ fpc = "init"
    /\ loop_' = TRUE
    /\ opc' = IF opc = "sleeping" THEN "starting" ELSE opc
    /\ fpc' = "published"
    /\ UNCHANGED <<vars, user_quit>>

CallLoop ==
    /\ fpc = "published" /\ Loop
    /\ fpc' = "looping"
    /\ UNCHANGED <<opc, loop_, user_quit>>

(* Loop() returned *)
ReturnFromLoop ==
    /\ fpc = "looping" /\ LeaveLoop
    /\ fpc' = "left"
    /\ UNCHANGED <<opc, loop_, user_quit>>

(* mutant: the pointer is left behind *)
ClearLoopForgotten ==
    /\ fpc = "left"
    /\ fpc' = "cleared"
    /\ UNCHANGED <<vars, opc, loop_, user_quit>>

(* loop_ = NULL, under mutex_ *)
ClearLoop ==
    /\ fpc = "left"
    /\ loop_' = FALSE
    /\ fpc' = "cleared"
    /\ UNCHANGED <<vars, opc, user_quit>>

(* the end of ThreadFunc destroys the loop on its stack *)
EndThread ==
    /\ fpc = "cleared"
    /\ fpc' = "ended"
    /\ UNCHANGED <<vars, opc, loop_, user_quit>>

(* the steps of the loop itself, in Loop() or in the init callback *)
LoopSteps ==
    /\ \/ /\ fpc = "looping" /\ pc # "idle"
          /\ \/ Round /\ pc' # "idle"
             \/ \E user \in SUBSET {User} : PollReturns(user)
          /\ UNCHANGED user_quit
       \/ /\ fpc \in {"init", "looping"}
          /\ \E f \in Functors : QueueInLoopHere(f)
          /\ UNCHANGED user_quit
       \/ fpc = "looping" /\ QuitHere /\ user_quit' = TRUE
    /\ UNCHANGED <<opc, fpc, loop_>>

(* users of the pointer StartLoop returned, until the destructor runs *)
UserSteps(t) ==
    /\ \/ /\ opc = "using" /\ LoopExists
          /\ \E f \in Functors : QueueInLoop(t, f)
          /\ UNCHANGED user_quit
       \/ opc = "using" /\ LoopExists /\ Quit(t) /\ user_quit' = TRUE
       \/ WakeupFrom(t) /\ UNCHANGED user_quit
    /\ UNCHANGED <<opc, fpc, loop_>>

-----------------------------------------------------------------------------
OwnerNext ==
    \/ StartThread \/ ReturnFromStart \/ TestLoop
    \/ BeginDestructor \/ QuitFromDestructor \/ Join

FuncNext == RunInThread \/ Publish \/ CallLoop \/ ReturnFromLoop \/ ClearLoop \/ EndThread

ThreadNext ==
    \/ OwnerNext \/ SpuriousWakeup
    \/ FuncNext \/ LoopSteps
    \/ \E t \in Threads : UserSteps(t)

ThreadSpec == ThreadInit /\ [][ThreadNext]_allVars

(* Both threads keep running; the loop's waits in Poll only while nothing   *)
(* is readable (no help from its timeout); the owner may keep the object    *)
(* for ever, but goes on once it has begun to start or destroy it.          *)
ThreadFairness ==
    /\ WF_allVars(ReturnFromStart) /\ WF_allVars(TestLoop)
    /\ WF_allVars(QuitFromDestructor) /\ WF_allVars(Join)
    /\ WF_allVars(FuncNext)
    /\ WF_allVars(Round /\ pc' # "idle" /\ UNCHANGED threadVars)
    /\ WF_allVars(/\ wakeup_fd_ /\ UNCHANGED threadVars
                  /\ \E user \in SUBSET {User} : PollReturns(user))
    /\ \A t \in Threads : WF_allVars(WakeupFrom(t) /\ UNCHANGED threadVars)

FairThreadSpec == ThreadSpec /\ ThreadFairness

-----------------------------------------------------------------------------
(* Every variable has its type. *)
ThreadTypeOK ==
    /\ TypeOK
    /\ opc \in {"new", "latched", "starting", "sleeping", "using", "quitting", "joining",
                "done"}
    /\ fpc \in {"none", "created", "init", "published", "looping", "left",
                "cleared", "ended"}
    /\ loop_ \in BOOLEAN /\ user_quit \in BOOLEAN

(* Whoever calls Quit, and whenever: a loop_ that is not NULL points to a   *)
(* loop that exists, so a reader that holds mutex_ may use it.              *)
PublishedLoopExists == loop_ => LoopExists

(* As long as only the destructor quits the loop, the pointer StartLoop     *)
(* returned stays good and the loop it points to keeps going until the      *)
(* destructor stores quit_.                                                 *)
OwnerHasLoop ==
    opc \in {"using", "quitting"} /\ ~user_quit =>
        loop_ /\ LoopExists /\ fpc # "left"

(* As long as only it quits the loop, the destructor returns only when the  *)
(* thread is over: nothing of the loop runs on after the object.            *)
NoOrphanThread == opc = "done" /\ ~user_quit => fpc = "ended"

(* Quit and QueueInLoop first store and only then write to the eventfd of   *)
(* the loop (event_loop.cc:119-123).  As long as only the destructor quits  *)
(* it, a thread in between finds the loop gone in one case: it is the       *)
(* destructor itself, whose quit_ the loop has seen before its Wakeup().    *)
CallsFindLoop ==
    \A t \in Threads :
        tpc[t] # "idle" /\ ~LoopExists /\ ~user_quit =>
            t = Owner /\ opc = "joining" /\ tpc[t] = "quit"

(* From the start of the thread to its end the loop is where its pointer    *)
(* says, and nobody who holds the pointer finds it gone, except for the     *)
(* destructor's own Wakeup() after its Quit.                                *)
LoopLifetime ==
    /\ ThreadTypeOK
    /\ PublishedLoopExists /\ OwnerHasLoop /\ CallsFindLoop /\ NoOrphanThread

(* StartLoop returns: neither the check nor the wait misses the publication *)
(* (unless a callback of the new loop quits it before the owner has looked).*)
StartLoopReturns == opc = "latched" ~> opc = "using" \/ user_quit

(* Once the loop runs, a destructor that has reached Quit returns.          *)
DestructorReturnsOnceLooping ==
    opc = "joining" /\ looping_ /\ quit_ ~> opc = "done"

(* Start and end do not hang: StartLoop returns, a Quit that finds the loop *)
(* looping ends it, and the destructor that called it returns.              *)
HandshakesComplete ==
    StartLoopReturns /\ QuitStopsLoop /\ DestructorReturnsOnceLooping

(* Whenever it is called, the destructor ends the loop and returns: Quit,   *)
(* "called by another thread, stops the loop at its next round", is enough. *)
DestructorReturns == opc = "quitting" ~> opc = "done"
=============================================================================
