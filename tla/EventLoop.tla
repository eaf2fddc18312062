------------------------------ MODULE EventLoop ------------------------------
(***************************************************************************)
(* The reactor of dwater/net/event_loop.cc: one thread owns the loop and   *)
(* alternates between waiting in Poll, handling the active channels and    *)
(* running the functors other threads queued.  The other threads only ever *)
(* push a functor under mutex_, set quit_, and write to the eventfd.       *)
(* Abstracted: a functor is a name, the user's channels are one channel    *)
(* User whose handler may do what any callback may do (queue, quit), and   *)
(* the eventfd counter is kept as "is it readable", all that Poll and      *)
(* HandleRead can tell apart.                                              *)
(***************************************************************************)
EXTENDS Sequences, Functions

CONSTANTS
    Threads,    \* the threads other than the loop's that use the loop
    Functors    \* the callbacks; each is queued at most once (the bound)

VARIABLES
    pc,                         \* where the loop's thread is in Loop()
    looping_, quit_, event_handling_, calling_pending_functors_,
    curr_active_channel_,       \* the channel being handled, or NoChannel
    active_channels_,           \* the active channels not yet handled
    wakeup_fd_,                 \* TRUE iff the eventfd is readable
    pending_functors_,          \* the queue mutex_ protects
    functors,                   \* DoPendingFunctors' local vector, what is left
    tpc,                        \* [Threads -> where that thread is]
    accepted, ran,              \* history: functors queued, functors run
    early                       \* history: queued by the loop's own thread
                                \* while it was not looping

flags == <<looping_, quit_, event_handling_, calling_pending_functors_>>
channels == <<curr_active_channel_, active_channels_>>
queues == <<pending_functors_, functors>>
history == <<accepted, ran, early>>
vars == <<pc, flags, channels, wakeup_fd_, queues, tpc, history>>

Wakeup == "wakeup"              \* wakeup_channel_
User == "user"                  \* every other channel of the loop
NoChannel == "none"

(* EventLoop::EventLoop *)
Init ==
    /\ pc = "idle"
    /\ looping_ = FALSE /\ quit_ = FALSE
    /\ event_handling_ = FALSE /\ calling_pending_functors_ = FALSE
    /\ curr_active_channel_ = NoChannel /\ active_channels_ = {}
    /\ wakeup_fd_ = FALSE
    /\ pending_functors_ = <<>> /\ functors = <<>>
    /\ tpc = [t \in Threads |-> "idle"]
    /\ accepted = <<>> /\ ran = <<>> /\ early = {}

-----------------------------------------------------------------------------
(* The loop's thread *)

(* Loop(), up to the first test of quit_: it clears an earlier Quit. *)
Loop ==
    /\ pc = "idle" /\ ~looping_
    /\ looping_' = TRUE /\ quit_' = FALSE
    /\ pc' = "check"
    /\ UNCHANGED <<event_handling_, calling_pending_functors_, channels,
                   wakeup_fd_, queues, tpc, history>>

(* while ( !quit_ ): the test, and leaving Loop() *)
EnterPoll ==
    /\ pc = "check" /\ ~quit_
    /\ active_channels_' = {}
    /\ pc' = "poll"
    /\ UNCHANGED <<flags, curr_active_channel_, wakeup_fd_, queues, tpc, history>>

LeaveLoop ==
    /\ pc = "check" /\ quit_
    /\ looping_' = FALSE
    /\ pc' = "idle"
    /\ UNCHANGED <<quit_, event_handling_, calling_pending_functors_, channels,
                   wakeup_fd_, queues, tpc, history>>

(* Poll returns: the eventfd's channel is active iff it is readable, the    *)
(* user's channels may be.  With neither, it is the kpoll_time_ms timeout   *)
(* (or EINTR), which also returns, with nothing active.                     *)
PollReturns(user) ==
    /\ pc = "poll"
    /\ active_channels_' = user \cup IF wakeup_fd_ THEN {Wakeup} ELSE {}
    /\ event_handling_' = TRUE
    /\ pc' = "handle"
    /\ UNCHANGED <<looping_, quit_, calling_pending_functors_,
                   curr_active_channel_, wakeup_fd_, queues, tpc, history>>

(* HandleRead, the read callback of wakeup_channel_: the read empties the fd *)
HandleWakeup ==
    /\ pc = "handle" /\ Wakeup \in active_channels_
    /\ active_channels_' = active_channels_ \ {Wakeup}
    /\ curr_active_channel_' = Wakeup
    /\ wakeup_fd_' = FALSE
    /\ UNCHANGED <<pc, flags, queues, tpc, history>>

(* a user's channel: its callback runs until ReturnFromCallback *)
HandleUser ==
    /\ pc = "handle" /\ User \in active_channels_
    /\ active_channels_' = active_channels_ \ {User}
    /\ curr_active_channel_' = User
    /\ pc' = "handler"
    /\ UNCHANGED <<flags, wakeup_fd_, queues, tpc, history>>

(* mutant: functors are only looked at after some channel was active *)
EndHandlingIdleSkips ==
    /\ pc = "handle" /\ active_channels_ = {}
    /\ curr_active_channel_' = NoChannel
    /\ event_handling_' = FALSE
    /\ calling_pending_functors_' = (curr_active_channel_ # NoChannel)
    /\ pc' = IF curr_active_channel_ # NoChannel THEN "swap" ELSE "check"
    /\ UNCHANGED <<looping_, quit_, active_channels_, wakeup_fd_, queues, tpc,
                   history>>

(* the end of event handling, then DoPendingFunctors up to the lock *)
EndHandling ==
    /\ pc = "handle" /\ active_channels_ = {}
    /\ curr_active_channel_' = NoChannel
    /\ event_handling_' = FALSE
    /\ calling_pending_functors_' = TRUE
    /\ pc' = "swap"
    /\ UNCHANGED <<looping_, quit_, active_channels_, wakeup_fd_, queues, tpc,
                   history>>

(* functors.swap(pending_functors_), under mutex_ *)
SwapFunctors ==
    /\ pc = "swap"
    /\ functors' = pending_functors_
    /\ pending_functors_' = <<>>
    /\ pc' = "call"
    /\ UNCHANGED <<flags, channels, wakeup_fd_, tpc, history>>

(* mutant: the queue itself is emptied functor by functor *)
CallFunctorFromQueue ==
    /\ pc = "call" /\ functors # <<>>
    /\ functors' = Tail(functors) \o pending_functors_
    /\ pending_functors_' = <<>>
    /\ ran' = Append(ran, Head(functors))
    /\ pc' = "functor"
    /\ UNCHANGED <<flags, channels, wakeup_fd_, tpc, accepted, early>>

CallFunctor ==
    /\ pc = "call" /\ functors # <<>>
    /\ functors' = Tail(functors)
    /\ ran' = Append(ran, Head(functors))
    /\ pc' = "functor"
    /\ UNCHANGED <<flags, channels, wakeup_fd_, pending_functors_, tpc,
                   accepted, early>>

EndCalling ==
    /\ pc = "call" /\ functors = <<>>
    /\ calling_pending_functors_' = FALSE
    /\ pc' = "check"
    /\ UNCHANGED <<looping_, quit_, event_handling_, channels, wakeup_fd_,
                   queues, tpc, history>>

(* What a callback of the loop's thread (a channel's handler or a functor)  *)
(* may do.  RunInLoop on the loop's thread calls its argument at once, so   *)
(* it is one more thing the running callback does.                          *)
InCallback == pc \in {"handler", "functor"}

ReturnFromCallback ==
    /\ InCallback
    /\ pc' = IF pc = "handler" THEN "handle" ELSE "call"
    /\ UNCHANGED <<flags, channels, wakeup_fd_, queues, tpc, history>>

(* mutant: the newest functor comes first *)
PushFront(f) ==
    /\ f \notin Range(accepted)
    /\ pending_functors_' = <<f>> \o pending_functors_
    /\ accepted' = Append(accepted, f)

(* the first half of QueueInLoop, under mutex_ *)
Push(f) ==
    /\ f \notin Range(accepted)
    /\ pending_functors_' = Append(pending_functors_, f)
    /\ accepted' = Append(accepted, f)

(* mutant: the loop's own thread never writes to the eventfd *)
QueueInLoopHereSilent(f) ==
    /\ InCallback \/ pc = "idle"
    /\ Push(f)
    /\ early' = IF pc = "idle" THEN early \cup {f} ELSE early
    /\ UNCHANGED <<pc, flags, channels, wakeup_fd_, functors, tpc, ran>>

(* QueueInLoop on the loop's own thread, from a callback or before Loop():  *)
(* it writes to the eventfd only while functors are being called            *)
QueueInLoopHere(f) ==
    /\ InCallback \/ pc = "idle"
    /\ Push(f)
    /\ wakeup_fd_' = (wakeup_fd_ \/ calling_pending_functors_)
    /\ early' = IF pc = "idle" THEN early \cup {f} ELSE early
    /\ UNCHANGED <<pc, flags, channels, functors, tpc, ran>>

QuitHere ==
    /\ InCallback
    /\ quit_' = TRUE
    /\ UNCHANGED <<pc, looping_, event_handling_, calling_pending_functors_,
                   channels, wakeup_fd_, queues, tpc, history>>

-----------------------------------------------------------------------------
(* mutant: no Wakeup() after setting quit_ *)
QuitSilent(t) ==
    /\ tpc[t] = "idle"
    /\ quit_' = TRUE
    /\ UNCHANGED <<pc, looping_, event_handling_, calling_pending_functors_,
                   channels, wakeup_fd_, queues, tpc, history>>

(* The other threads: QueueInLoop (or RunInLoop, which calls it) and Quit,  *)
(* each a first step and then the Wakeup()                                  *)
QueueInLoop(t, f) ==
    /\ tpc[t] = "idle"
    /\ Push(f)
    /\ tpc' = [tpc EXCEPT ![t] = "queued"]
    /\ UNCHANGED <<pc, flags, channels, wakeup_fd_, functors, ran, early>>

Quit(t) ==
    /\ tpc[t] = "idle"
    /\ quit_' = TRUE
    /\ tpc' = [tpc EXCEPT ![t] = "quit"]
    /\ UNCHANGED <<pc, looping_, event_handling_, calling_pending_functors_,
                   channels, wakeup_fd_, queues, history>>

WakeupFrom(t) ==
    /\ tpc[t] \in {"queued", "quit"}
    /\ wakeup_fd_' = TRUE
    /\ tpc' = [tpc EXCEPT ![t] = "idle"]
    /\ UNCHANGED <<pc, flags, channels, queues, history>>

-----------------------------------------------------------------------------
(* one round of Loop(), without the Poll that waits *)
Round ==
    \/ EnterPoll \/ LeaveLoop
    \/ HandleWakeup \/ HandleUser \/ EndHandling
    \/ SwapFunctors \/ CallFunctor \/ EndCalling
    \/ ReturnFromCallback

Callback ==
    \/ \E f \in Functors : QueueInLoopHere(f)
    \/ QuitHere

LoopThread ==
    \/ Loop
    \/ Round
    \/ \E user \in SUBSET {User} : PollReturns(user)
    \/ Callback

OtherThread(t) ==
    \/ \E f \in Functors : QueueInLoop(t, f)
    \/ Quit(t)
    \/ WakeupFrom(t)

Next == LoopThread \/ \E t \in Threads : OtherThread(t)

Spec == Init /\ [][Next]_vars

(* A running thread takes its next step: the loop's thread unless it waits  *)
(* in Poll with nothing readable, another thread once it has to write to    *)
(* the eventfd.  Nothing makes the timeout of Poll happen.                  *)
Fairness ==
    /\ WF_vars(Round)
    /\ WF_vars(wakeup_fd_ /\ \E user \in SUBSET {User} : PollReturns(user))
    /\ \A t \in Threads : WF_vars(WakeupFrom(t))

FairSpec == Spec /\ Fairness

(* Poll comes back after kpoll_time_ms whatever happens. *)
PollTimesOut == WF_vars(\E user \in SUBSET {User} : PollReturns(user))

-----------------------------------------------------------------------------
LoopStates ==
    {"idle", "check", "poll", "handle", "handler", "swap", "call", "functor"}

(* Every variable has its type, and the flags of the loop say where its     *)
(* thread is: event_handling_ exactly while the channels are handled,       *)
(* calling_pending_functors_ exactly from the lock to the last functor.     *)
TypeOK ==
    /\ pc \in LoopStates
    /\ looping_ \in BOOLEAN /\ (looping_ <=> pc # "idle")
    /\ quit_ \in BOOLEAN
    /\ event_handling_ \in BOOLEAN
    /\ event_handling_ <=> pc \in {"handle", "handler"}
    /\ calling_pending_functors_ \in BOOLEAN
    /\ calling_pending_functors_ <=> pc \in {"swap", "call", "functor"}
    /\ curr_active_channel_ \in {NoChannel, Wakeup, User}
    /\ active_channels_ \in SUBSET {Wakeup, User}
    /\ wakeup_fd_ \in BOOLEAN
    /\ pending_functors_ \in Seq(Functors)
    /\ functors \in Seq(Functors)
    /\ tpc \in [Threads -> {"idle", "queued", "quit"}]
    /\ accepted \in Seq(Functors) /\ ran \in Seq(Functors)
    /\ early \in SUBSET Functors

(* some thread has pushed a functor and has yet to write to the eventfd *)
WakeupComing(why) == \E t \in Threads : tpc[t] = why

(* No lost wake-up: while the loop waits in Poll, a functor another thread  *)
(* or a functor queued has made the eventfd readable, or its QueueInLoop is *)
(* about to.  The only ones that may have to wait for the timeout are those *)
(* the loop's own thread queued before it called Loop().                    *)
NoLostWakeup ==
    pc = "poll" /\ (\E f \in Range(pending_functors_) : f \notin early)
        => wakeup_fd_ \/ WakeupComing("queued")

(* The same for Quit: the loop never sits in Poll with quit_ set and nobody *)
(* about to wake it.                                                        *)
NoLostQuit ==
    pc = "poll" /\ quit_ => wakeup_fd_ \/ WakeupComing("quit")

(* Functors run in the order QueueInLoop took them, each exactly once, with *)
(* none lost between the queue and the vector they are swapped into.        *)
FifoOnce == accepted = ran \o functors \o pending_functors_

(* What a functor queues is left for the next round: the vector a round     *)
(* runs only ever shrinks, so functors that keep queueing cannot keep the   *)
(* loop away from its channels.                                             *)
RoundIsBounded ==
    [][functors' # functors /\ pc # "swap" => Len(functors') < Len(functors)]_vars

(* Every functor queued is run unless the loop stops, without help from the *)
(* timeout of Poll; only those its own thread queued before Loop() may need *)
(* that timeout.                                                            *)
FunctorsRun ==
    /\ \A f \in Functors :
        f \in Range(accepted) /\ f \notin early /\ looping_
            ~> f \in Range(ran) \/ ~looping_
    /\ PollTimesOut =>
        \A f \in Functors :
            f \in early /\ looping_ ~> f \in Range(ran) \/ ~looping_

(* A Quit that finds the loop looping ends it. *)
QuitStopsLoop == looping_ /\ quit_ ~> ~looping_

(* the abstract executor of the functors that the loop implements *)
Executor == INSTANCE FunctorExecutor
    WITH queue <- functors \o pending_functors_, done <- ran

(* The loop and its threads implement the abstract executor. *)
ImplementsExecutor == Executor!Spec
=============================================================================
