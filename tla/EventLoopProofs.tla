--------------------------- MODULE EventLoopProofs ---------------------------
(***************************************************************************)
(* Proofs about EventLoop, for any set of threads and any set of functors, *)
(* and about EventLoopThread: that composition implements EventLoop, so    *)
(* what is proved of the loop holds of one that is started and destroyed   *)
(* by an owner; and the loop outlives whoever uses it.                     *)
(***************************************************************************)
EXTENDS EventLoopThread, SequenceTheorems, TLAPS

(* NoLostWakeup at every point from the swap of the queue to the next Poll, *)
(* and between two calls of Loop(): only HandleRead empties the eventfd,    *)
(* and DoPendingFunctors empties the queue after it.                        *)
WakeupPromised ==
    pc \in {"idle", "check", "poll", "call", "functor"} /\
    (\E f \in Range(pending_functors_) : f \notin early)
        => wakeup_fd_ \/ WakeupComing("queued")

(* The type of every variable is an invariant of the loop: its flags tell   *)
(* where its thread is, at every step of every thread.                      *)
THEOREM TypeCorrect == Spec => []TypeOK
<1>1. Init => TypeOK
  BY EmptySeq DEF Init, TypeOK, LoopStates, NoChannel, Wakeup, User
<1>2. TypeOK /\ [Next]_vars => TypeOK'
  <2> SUFFICES ASSUME TypeOK, [Next]_vars PROVE TypeOK'
    OBVIOUS
  <2> USE DEF TypeOK, LoopStates, NoChannel, Wakeup, User, flags, channels,
              queues, history, vars
  <2>1. CASE Loop
    BY <2>1 DEF Loop
  <2>2. CASE EnterPoll
    BY <2>2 DEF EnterPoll
  <2>3. CASE LeaveLoop
    BY <2>3 DEF LeaveLoop
  <2>4. ASSUME NEW user \in SUBSET {User}, PollReturns(user) PROVE TypeOK'
    BY <2>4 DEF PollReturns
  <2>5. CASE HandleWakeup
    BY <2>5 DEF HandleWakeup
  <2>6. CASE HandleUser
    BY <2>6 DEF HandleUser
  <2>7. CASE EndHandling
    BY <2>7 DEF EndHandling
  <2>8. CASE SwapFunctors
    BY <2>8, EmptySeq DEF SwapFunctors
  <2>9. CASE CallFunctor
    <3>1. /\ Head(functors) \in Functors
          /\ functors' \in Seq(Functors)
      BY <2>9, HeadTailProperties DEF CallFunctor
    <3>2. ran' \in Seq(Functors)
      BY <2>9, <3>1, AppendProperties DEF CallFunctor
    <3> QED
      BY <2>9, <3>1, <3>2 DEF CallFunctor
  <2>10. CASE EndCalling
    BY <2>10 DEF EndCalling
  <2>11. CASE ReturnFromCallback
    BY <2>11 DEF ReturnFromCallback, InCallback
  <2>12. ASSUME NEW f \in Functors, QueueInLoopHere(f) PROVE TypeOK'
    <3>1. pending_functors_' \in Seq(Functors) /\ accepted' \in Seq(Functors)
      BY <2>12, AppendProperties DEF QueueInLoopHere, Push
    <3> QED
      BY <2>12, <3>1 DEF QueueInLoopHere, InCallback
  <2>13. CASE QuitHere
    BY <2>13 DEF QuitHere, InCallback
  <2>14. ASSUME NEW t \in Threads, NEW f \in Functors, QueueInLoop(t, f)
         PROVE TypeOK'
    <3>1. pending_functors_' \in Seq(Functors) /\ accepted' \in Seq(Functors)
      BY <2>14, AppendProperties DEF QueueInLoop, Push
    <3> QED
      BY <2>14, <3>1 DEF QueueInLoop
  <2>15. ASSUME NEW t \in Threads, Quit(t) PROVE TypeOK'
    BY <2>15 DEF Quit
  <2>16. ASSUME NEW t \in Threads, WakeupFrom(t) PROVE TypeOK'
    BY <2>16 DEF WakeupFrom
  <2>17. CASE UNCHANGED vars
    BY <2>17
  <2> QED
    BY <2>1, <2>2, <2>3, <2>4, <2>5, <2>6, <2>7, <2>8, <2>9, <2>10, <2>11,
       <2>12, <2>13, <2>14, <2>15, <2>16, <2>17
    DEF Next, LoopThread, Round, Callback, OtherThread
<1> QED
  BY <1>1, <1>2, PTL DEF Spec

-----------------------------------------------------------------------------
(* Appending adds one element to the range of a sequence. *)
LEMMA RangeAppend ==
    ASSUME NEW S, NEW s \in Seq(S), NEW e \in S
    PROVE  Range(Append(s, e)) = Range(s) \cup {e}
<1>1. Append(s, e) \in Seq(S) /\ Len(Append(s, e)) = Len(s) + 1
  BY AppendProperties
<1>2. Range(Append(s, e)) = {Append(s, e)[i] : i \in 1 .. Len(s) + 1}
  BY <1>1, RangeEquality
<1>3. Range(s) = {s[i] : i \in 1 .. Len(s)}
  BY RangeEquality
<1>4. /\ \A i \in 1 .. Len(s) : Append(s, e)[i] = s[i]
      /\ Append(s, e)[Len(s) + 1] = e
      /\ Len(s) \in Nat
  BY AppendProperties, LenProperties
<1> QED
  BY <1>2, <1>3, <1>4

(* The range of the empty sequence. *)
LEMMA RangeEmpty == Range(<<>>) = {}
  BY DEF Range

(* No wake-up of the loop is lost: with a functor waiting that another      *)
(* thread or a running functor queued, the loop is never blocked in Poll    *)
(* without the eventfd readable or a thread on its way to write to it.      *)
THEOREM WakeupsNotLost == Spec => []NoLostWakeup
<1>1. Init => WakeupPromised
  BY RangeEmpty DEF Init, WakeupPromised
<1>2. TypeOK /\ WakeupPromised /\ [Next]_vars => WakeupPromised'
  <2> SUFFICES ASSUME TypeOK, WakeupPromised, [Next]_vars
               PROVE  WakeupPromised'
    OBVIOUS
  <2> USE DEF WakeupPromised, WakeupComing, flags, channels, queues, history,
              vars
  <2>1. CASE Loop
    BY <2>1 DEF Loop
  <2>2. CASE EnterPoll
    BY <2>2 DEF EnterPoll
  <2>3. CASE LeaveLoop
    BY <2>3 DEF LeaveLoop
  <2>4. ASSUME NEW user \in SUBSET {User}, PollReturns(user)
        PROVE  WakeupPromised'
    BY <2>4 DEF PollReturns
  <2>5. CASE HandleWakeup
    BY <2>5 DEF HandleWakeup
  <2>6. CASE HandleUser
    BY <2>6 DEF HandleUser
  <2>7. CASE EndHandling
    BY <2>7 DEF EndHandling
  <2>8. CASE SwapFunctors
    BY <2>8, RangeEmpty DEF SwapFunctors
  <2>9. CASE CallFunctor
    BY <2>9 DEF CallFunctor
  <2>10. CASE EndCalling
    BY <2>10 DEF EndCalling
  <2>11. CASE ReturnFromCallback
    BY <2>11 DEF ReturnFromCallback, InCallback
  <2>12. ASSUME NEW f \in Functors, QueueInLoopHere(f) PROVE WakeupPromised'
    <3>1. Range(pending_functors_') = Range(pending_functors_) \cup {f}
      BY <2>12, RangeAppend DEF QueueInLoopHere, Push, TypeOK
    <3>2. CASE pc = "idle"
      BY <2>12, <3>1, <3>2 DEF QueueInLoopHere
    <3>3. CASE pc = "functor"
      BY <2>12, <3>3 DEF QueueInLoopHere, TypeOK
    <3>4. CASE pc = "handler"
      BY <2>12, <3>4 DEF QueueInLoopHere
    <3> QED
      BY <2>12, <3>2, <3>3, <3>4 DEF QueueInLoopHere, InCallback
  <2>13. CASE QuitHere
    BY <2>13 DEF QuitHere, InCallback
  <2>14. ASSUME NEW t \in Threads, NEW f \in Functors, QueueInLoop(t, f)
         PROVE  WakeupPromised'
    <3>1. tpc'[t] = "queued"
      BY <2>14 DEF QueueInLoop, TypeOK
    <3> QED
      BY <3>1
  <2>15. ASSUME NEW t \in Threads, Quit(t) PROVE WakeupPromised'
    <3>1. \A u \in Threads : tpc[u] = "queued" => tpc'[u] = "queued"
      BY <2>15 DEF Quit, TypeOK
    <3> QED
      BY <2>15, <3>1 DEF Quit
  <2>16. ASSUME NEW t \in Threads, WakeupFrom(t) PROVE WakeupPromised'
    BY <2>16 DEF WakeupFrom
  <2>17. CASE UNCHANGED vars
    BY <2>17
  <2> QED
    BY <2>1, <2>2, <2>3, <2>4, <2>5, <2>6, <2>7, <2>8, <2>9, <2>10, <2>11,
       <2>12, <2>13, <2>14, <2>15, <2>16, <2>17
    DEF Next, LoopThread, Round, Callback, OtherThread
<1>3. WakeupPromised => NoLostWakeup
  BY DEF WakeupPromised, NoLostWakeup
<1> QED
  BY <1>1, <1>2, <1>3, TypeCorrect, PTL DEF Spec

(* Neither is a Quit: the loop is never blocked in Poll with quit_ set and  *)
(* neither the eventfd readable nor the quitting thread about to write.     *)
THEOREM QuitsNotLost == Spec => []NoLostQuit
<1>1. Init => NoLostQuit
  BY DEF Init, NoLostQuit
<1>2. TypeOK /\ NoLostQuit /\ [Next]_vars => NoLostQuit'
  <2> SUFFICES ASSUME TypeOK, NoLostQuit, [Next]_vars, pc' = "poll", quit_'
               PROVE  wakeup_fd_' \/ WakeupComing("quit")'
    BY DEF NoLostQuit
  <2> USE DEF NoLostQuit, WakeupComing, flags, channels, queues, history, vars
  <2>1. CASE LoopThread
    <3>1. CASE EnterPoll
      BY <2>1, <3>1 DEF EnterPoll
    <3>2. ~EnterPoll => FALSE
      BY <2>1 DEF LoopThread, Round, Callback, Loop, LeaveLoop, PollReturns,
                  HandleWakeup, HandleUser, EndHandling, SwapFunctors,
                  CallFunctor, EndCalling, ReturnFromCallback, InCallback,
                  QueueInLoopHere, QuitHere
    <3> QED
      BY <3>1, <3>2
  <2>2. ASSUME NEW t \in Threads, NEW f \in Functors, QueueInLoop(t, f)
        PROVE  wakeup_fd_' \/ WakeupComing("quit")'
    <3>1. \A u \in Threads : tpc[u] = "quit" => tpc'[u] = "quit"
      BY <2>2 DEF QueueInLoop, TypeOK
    <3> QED
      BY <2>2, <3>1 DEF QueueInLoop
  <2>3. ASSUME NEW t \in Threads, Quit(t)
        PROVE  wakeup_fd_' \/ WakeupComing("quit")'
    <3>1. tpc'[t] = "quit"
      BY <2>3 DEF Quit, TypeOK
    <3> QED
      BY <3>1
  <2>4. ASSUME NEW t \in Threads, WakeupFrom(t)
        PROVE  wakeup_fd_' \/ WakeupComing("quit")'
    BY <2>4 DEF WakeupFrom
  <2>5. CASE UNCHANGED vars
    BY <2>5
  <2> QED
    BY <2>1, <2>2, <2>3, <2>4, <2>5 DEF Next, OtherThread
<1> QED
  BY <1>1, <1>2, TypeCorrect, PTL DEF Spec

-----------------------------------------------------------------------------
(* A head and a tail make up the sequence they were taken from. *)
LEMMA HeadAndTail ==
    ASSUME NEW S, NEW s \in Seq(S), s # <<>>
    PROVE  s = <<Head(s)>> \o Tail(s)
<1>1. /\ Head(s) \in S /\ Tail(s) \in Seq(S) /\ Len(Tail(s)) = Len(s) - 1
      /\ \A i \in 1 .. Len(Tail(s)) : Tail(s)[i] = s[i + 1]
  BY HeadTailProperties
<1>2. <<Head(s)>> \in Seq(S) /\ Len(<<Head(s)>>) = 1
  BY <1>1
<1>3. Len(s) \in Nat \ {0}
  BY EmptySeq
<1>4. /\ <<Head(s)>> \o Tail(s) \in Seq(S)
      /\ Len(<<Head(s)>> \o Tail(s)) = Len(s)
      /\ \A i \in 1 .. Len(s) : (<<Head(s)>> \o Tail(s))[i] =
            IF i <= 1 THEN <<Head(s)>>[i] ELSE Tail(s)[i - 1]
  BY <1>1, <1>2, <1>3, ConcatProperties
<1>5. \A i \in 1 .. Len(s) : (<<Head(s)>> \o Tail(s))[i] = s[i]
  BY <1>1, <1>3, <1>4
<1> QED
  BY <1>4, <1>5, SeqEqual

(* The local vector of DoPendingFunctors is empty outside its loop. *)
VectorScope == functors # <<>> => pc \in {"call", "functor"}

(* The swap never throws away a functor that was not run yet. *)
LEMMA VectorScopeHolds == Spec => []VectorScope
<1>1. Init => VectorScope
  BY DEF Init, VectorScope
<1>2. VectorScope /\ [Next]_vars => VectorScope'
  BY DEF VectorScope, vars, flags, channels, queues, history, Next, LoopThread,
         Round, Callback, OtherThread, Loop, EnterPoll, LeaveLoop, PollReturns,
         HandleWakeup, HandleUser, EndHandling, SwapFunctors, CallFunctor,
         EndCalling, ReturnFromCallback, InCallback, QueueInLoopHere, QuitHere,
         QueueInLoop, Quit, WakeupFrom, Push
<1> QED
  BY <1>1, <1>2, PTL DEF Spec

(* What a step does to the queue, the vector and the history: a functor is  *)
(* pushed, or the queue is swapped in, or the first functor is called.      *)
LEMMA QueueSteps ==
    ASSUME [Next]_vars
    PROVE  \/ \E f \in Functors : Push(f) /\ UNCHANGED <<functors, ran>>
           \/ SwapFunctors
           \/ CallFunctor
           \/ UNCHANGED <<pending_functors_, functors, accepted, ran>>
  BY DEF vars, flags, channels, queues, history, Next, LoopThread, Round,
         Callback, OtherThread, Loop, EnterPoll, LeaveLoop, PollReturns,
         HandleWakeup, HandleUser, EndHandling, EndCalling, ReturnFromCallback,
         QueueInLoopHere, QuitHere, QueueInLoop, Quit, WakeupFrom

(* Functors are run in the order they were queued and each exactly once:    *)
(* what was accepted is what was run, what the round is running and what    *)
(* waits, in this order.                                                    *)
THEOREM FunctorsInOrder == Spec => []FifoOnce
<1>1. Init => FifoOnce
  BY ConcatEmptySeq, EmptySeq DEF Init, FifoOnce
<1>2. TypeOK /\ VectorScope /\ FifoOnce /\ [Next]_vars => FifoOnce'
  <2> SUFFICES ASSUME TypeOK, VectorScope, FifoOnce, [Next]_vars PROVE FifoOnce'
    OBVIOUS
  <2>1. /\ ran \in Seq(Functors)
        /\ functors \in Seq(Functors)
        /\ pending_functors_ \in Seq(Functors)
        /\ ran \o functors \in Seq(Functors)
        /\ accepted = (ran \o functors) \o pending_functors_
    BY ConcatProperties DEF TypeOK, FifoOnce
  <2>2. ASSUME NEW f \in Functors, Push(f), UNCHANGED <<functors, ran>>
        PROVE  FifoOnce'
    <3>1. <<f>> \in Seq(Functors)
      OBVIOUS
    <3>2. accepted' = ((ran \o functors) \o pending_functors_) \o <<f>>
      BY <2>1, <2>2, AppendIsConcat DEF Push, TypeOK
    <3>3. pending_functors_' = pending_functors_ \o <<f>>
      BY <2>1, <2>2, AppendIsConcat DEF Push
    <3>4. ((ran \o functors) \o pending_functors_) \o <<f>>
            = (ran \o functors) \o (pending_functors_ \o <<f>>)
      BY <2>1, <3>1, ConcatAssociative
    <3> QED
      BY <2>2, <3>2, <3>3, <3>4 DEF FifoOnce
  <2>3. CASE SwapFunctors
    <3>1. functors = <<>>
      BY <2>3 DEF SwapFunctors, VectorScope
    <3>2. (ran \o functors) \o pending_functors_ = ran \o pending_functors_
      BY <2>1, <3>1, ConcatEmptySeq
    <3>3. (ran \o pending_functors_) \o <<>> = ran \o pending_functors_
      <4>1. ran \o pending_functors_ \in Seq(Functors)
        BY <2>1, ConcatProperties
      <4> QED
        BY <4>1, ConcatEmptySeq
    <3>4. /\ accepted' = accepted /\ ran' = ran
          /\ functors' = pending_functors_ /\ pending_functors_' = <<>>
      BY <2>3 DEF SwapFunctors, history
    <3> QED
      BY <2>1, <3>2, <3>3, <3>4 DEF FifoOnce
  <2>4. CASE CallFunctor
    <3> DEFINE h == Head(functors)
    <3> HIDE DEF h
    <3>1. functors = <<h>> \o Tail(functors)
      BY <2>1, <2>4, HeadAndTail DEF CallFunctor, h
    <3>2. h \in Functors /\ <<h>> \in Seq(Functors)
              /\ Tail(functors) \in Seq(Functors)
      BY <2>1, <2>4, HeadTailProperties DEF CallFunctor, h
    <3>3. ran' = ran \o <<h>> /\ functors' = Tail(functors)
              /\ UNCHANGED <<pending_functors_, accepted>>
      BY <2>1, <2>4, <3>2, AppendIsConcat DEF CallFunctor, h
    <3>4. (ran \o <<h>>) \o Tail(functors) = ran \o (<<h>> \o Tail(functors))
      BY <2>1, <3>2, ConcatAssociative
    <3> QED
      BY <2>1, <3>1, <3>3, <3>4 DEF FifoOnce
  <2>5. CASE UNCHANGED <<pending_functors_, functors, accepted, ran>>
    BY <2>5 DEF FifoOnce
  <2> QED
    BY <2>2, <2>3, <2>4, <2>5, QueueSteps
<1> QED
  BY <1>1, <1>2, TypeCorrect, VectorScopeHolds, PTL DEF Spec

-----------------------------------------------------------------------------
(* The head and the tail of a sequence one element longer in front. *)
LEMMA HeadTailOfCons ==
    ASSUME NEW S, NEW h \in S, NEW s \in Seq(S)
    PROVE  /\ <<h>> \o s # <<>>
           /\ Head(<<h>> \o s) = h
           /\ Tail(<<h>> \o s) = s
<1> DEFINE c == <<h>> \o s
<1>1. <<h>> \in Seq(S) /\ Len(<<h>>) = 1 /\ <<h>>[1] = h /\ Len(s) \in Nat
  BY LenProperties
<1>2. /\ c \in Seq(S) /\ Len(c) = 1 + Len(s)
      /\ \A i \in 1 .. 1 + Len(s) : c[i] = IF i <= 1 THEN <<h>>[i] ELSE s[i - 1]
  BY <1>1, ConcatProperties
<1> HIDE DEF c
<1>3. c # <<>> /\ c[1] = h /\ Head(c) = c[1]
  BY <1>1, <1>2, EmptySeq
<1>4. /\ Tail(c) \in Seq(S) /\ Len(Tail(c)) = Len(s)
      /\ \A i \in 1 .. Len(Tail(c)) : Tail(c)[i] = c[i + 1]
  BY <1>1, <1>2, <1>3, HeadTailProperties
<1>5. \A i \in 1 .. Len(s) : Tail(c)[i] = s[i]
  BY <1>1, <1>2, <1>4
<1>6. Tail(c) = s
  BY <1>4, <1>5, SeqEqual
<1> QED
  BY <1>3, <1>6 DEF c

(* The loop, its queue, its vector and its wake-ups implement the abstract  *)
(* executor: callers of QueueInLoop may reason as if the functors were in   *)
(* one queue that the loop takes them from one at a time.                   *)
THEOREM LoopImplementsExecutor == Spec => ImplementsExecutor
<1>1. Init => Executor!Init
  BY ConcatEmptySeq, EmptySeq DEF Init, Executor!Init
<1>2. TypeOK /\ VectorScope /\ FifoOnce /\ [Next]_vars
        => [Executor!Next]_(Executor!vars)
  <2> SUFFICES ASSUME TypeOK, VectorScope, FifoOnce, [Next]_vars
               PROVE  [Executor!Next]_(Executor!vars)
    OBVIOUS
  <2>1. /\ ran \in Seq(Functors)
        /\ functors \in Seq(Functors)
        /\ pending_functors_ \in Seq(Functors)
        /\ functors \o pending_functors_ \in Seq(Functors)
    BY ConcatProperties DEF TypeOK
  <2>2. ASSUME NEW f \in Functors, Push(f), UNCHANGED <<functors, ran>>
        PROVE  Executor!Accept(f)
    <3>1. accepted = ran \o (functors \o pending_functors_)
      BY <2>1, ConcatAssociative DEF FifoOnce
    <3> DEFINE q == functors \o pending_functors_
    <3>q. q \in Seq(Functors) /\ accepted = ran \o q
      BY <2>1, <3>1
    <3>2. Range(accepted) = Range(ran) \cup Range(q)
      <4> HIDE DEF q
      <4> QED
        BY <2>1, <3>q, RangeConcatenation
    <3>3. ~Executor!Used(f)
      BY <2>2, <3>2 DEF Push, Range, Executor!Used
    <3>4. /\ <<f>> \in Seq(Functors)
          /\ pending_functors_' = pending_functors_ \o <<f>>
          /\ Append(q, f) = q \o <<f>>
      <4> HIDE DEF q
      <4> QED
        BY <2>1, <2>2, <3>q, AppendIsConcat DEF Push
    <3>5. (functors \o pending_functors_) \o <<f>>
             = functors \o (pending_functors_ \o <<f>>)
      BY <2>1, <3>4, ConcatAssociative
    <3> QED
      BY <2>2, <3>3, <3>4, <3>5 DEF Executor!Accept
  <2>3. CASE SwapFunctors
    <3>1. functors = <<>> /\ functors' = pending_functors_
              /\ pending_functors_' = <<>> /\ ran' = ran
      BY <2>3 DEF SwapFunctors, VectorScope, history
    <3>2. <<>> \o pending_functors_ = pending_functors_ \o <<>>
      BY <2>1, ConcatEmptySeq
    <3> QED
      BY <3>1, <3>2 DEF Executor!vars
  <2>4. CASE CallFunctor
    <3> DEFINE h == Head(functors)
               t == Tail(functors)
    <3>1. h \in Functors /\ t \in Seq(Functors) /\ functors = <<h>> \o t
      BY <2>1, <2>4, HeadTailProperties, HeadAndTail DEF CallFunctor
    <3>2. ran' = Append(ran, h) /\ functors' = t
              /\ pending_functors_' = pending_functors_
      BY <2>4 DEF CallFunctor
    <3> HIDE DEF h, t
    <3>3. <<h>> \in Seq(Functors) /\ t \o pending_functors_ \in Seq(Functors)
      BY <2>1, <3>1, ConcatProperties
    <3>4. functors \o pending_functors_ = <<h>> \o (t \o pending_functors_)
      BY <2>1, <3>1, <3>3, ConcatAssociative
    <3>5. /\ functors \o pending_functors_ # <<>>
          /\ Head(functors \o pending_functors_) = h
          /\ Tail(functors \o pending_functors_) = t \o pending_functors_
      BY <3>1, <3>3, <3>4, HeadTailOfCons
    <3> QED
      BY <3>2, <3>5 DEF Executor!Next, Executor!RunFirst
  <2>5. CASE UNCHANGED <<pending_functors_, functors, accepted, ran>>
    BY <2>5 DEF Executor!vars
  <2> QED
    BY <2>2, <2>3, <2>4, <2>5, QueueSteps DEF Executor!Next
<1> QED
  BY <1>1, <1>2, TypeCorrect, VectorScopeHolds, FunctorsInOrder, PTL
  DEF Spec, ImplementsExecutor, Executor!Spec

(* Outside of the swap, the vector of a round only gets shorter: functors   *)
(* queued by functors wait for the next round, after the next Poll.         *)
THEOREM RoundsAreBounded == Spec => RoundIsBounded
<1>1. TypeOK /\ [Next]_vars
        => [functors' # functors /\ pc # "swap"
                => Len(functors') < Len(functors)]_vars
  <2> SUFFICES ASSUME TypeOK, [Next]_vars, functors' # functors, pc # "swap"
               PROVE  Len(functors') < Len(functors)
    OBVIOUS
  <2>1. CallFunctor
    BY QueueSteps DEF SwapFunctors
  <2>2. functors # <<>> /\ functors' = Tail(functors)
          /\ functors \in Seq(Functors)
    BY <2>1 DEF CallFunctor, TypeOK
  <2>3. Len(Tail(functors)) = Len(functors) - 1 /\ Len(functors) \in Nat
    BY <2>2, HeadTailProperties, LenProperties
  <2>4. Len(functors') = Len(Tail(functors))
    BY <2>2, Zenon
  <2> QED
    BY <2>3, <2>4
<1> QED
  BY <1>1, TypeCorrect, PTL DEF Spec, RoundIsBounded

-----------------------------------------------------------------------------
(* What LoopLifetime needs of the threads: loop_ is set from the            *)
(* publication to its clearing; without a Quit of user code only the        *)
(* destructor sets quit_, and the thread leaves the loop only after it; a   *)
(* thread that has still to call Wakeup() is a user of a loop in use, or    *)
(* the owner in its destructor.                                             *)
LoopHeld ==
    /\ loop_ <=> fpc \in {"published", "looping", "left"}
    /\ ~user_quit =>
        /\ quit_ => opc \in {"joining", "done"}
        /\ fpc \in {"left", "cleared", "ended"} => opc \in {"joining", "done"}
        /\ opc \in {"using", "quitting"} => loop_
        /\ opc = "done" => fpc = "ended"
    /\ \A t \in Threads : tpc[t] # "idle" =>
        opc = "using" \/ (t = Owner /\ opc = "joining" /\ tpc[t] = "quit")

-----------------------------------------------------------------------------
(* Every step of the two threads is a step of the loop or none to it. *)
LEMMA ThreadStepIsLoopStep == [ThreadNext]_allVars => [Next]_vars
<1> SUFFICES ASSUME [ThreadNext]_allVars PROVE [Next]_vars
  OBVIOUS
<1>1. CASE OwnerNext
  BY <1>1, OwnerAssumption
  DEF OwnerNext, StartThread, ReturnFromStart, TestLoop, BeginDestructor,
      QuitFromDestructor, Join, Next, OtherThread
<1>2. CASE SpuriousWakeup
  BY <1>2 DEF SpuriousWakeup
<1>3. CASE FuncNext
  BY <1>3
  DEF FuncNext, RunInThread, Publish, CallLoop, ReturnFromLoop, ClearLoop, EndThread,
      Next, LoopThread, Round
<1>4. CASE LoopSteps
  BY <1>4 DEF LoopSteps, Next, LoopThread, Callback
<1>5. ASSUME NEW t \in Threads, UserSteps(t) PROVE [Next]_vars
  BY <1>5 DEF UserSteps, Next, OtherThread
<1>6. CASE UNCHANGED allVars
  BY <1>6 DEF allVars
<1> QED
  BY <1>1, <1>2, <1>3, <1>4, <1>5, <1>6 DEF ThreadNext

(* A loop that EventLoopThread starts and destroys is an EventLoop: what is *)
(* proved of Spec holds of it.                                              *)
THEOREM ThreadImplementsLoop == ThreadSpec => Spec
<1>1. ThreadInit => Init
  BY DEF ThreadInit
<1> QED
  BY <1>1, ThreadStepIsLoopStep, PTL DEF ThreadSpec, Spec

(* Started and destroyed by an owner, the loop still loses no wake-up and   *)
(* no Quit that finds it in Poll, runs a bounded round, and executes its    *)
(* functors in order.                                                       *)
THEOREM ThreadKeepsPromises ==
    ThreadSpec => [](NoLostWakeup /\ NoLostQuit) /\ RoundIsBounded /\ ImplementsExecutor
BY ThreadImplementsLoop, WakeupsNotLost, QuitsNotLost, RoundsAreBounded,
   LoopImplementsExecutor, PTL

-----------------------------------------------------------------------------
(* The types of the composition. *)
LEMMA ThreadTypeCorrect == ThreadSpec => []ThreadTypeOK
<1>1. ThreadInit /\ TypeOK => ThreadTypeOK
  BY DEF ThreadInit, ThreadTypeOK
<1>2. ThreadTypeOK /\ TypeOK' /\ [ThreadNext]_allVars => ThreadTypeOK'
  <2> SUFFICES ASSUME ThreadTypeOK, TypeOK', [ThreadNext]_allVars
               PROVE  ThreadTypeOK'
    OBVIOUS
  <2> USE DEF ThreadTypeOK
  <2>1. CASE OwnerNext
    BY <2>1
    DEF OwnerNext, StartThread, ReturnFromStart, TestLoop, BeginDestructor,
        QuitFromDestructor, Join
  <2>2. CASE SpuriousWakeup
    BY <2>2 DEF SpuriousWakeup
  <2>3. CASE FuncNext
    BY <2>3
    DEF FuncNext, RunInThread, Publish, CallLoop, ReturnFromLoop, ClearLoop, EndThread
  <2>4. CASE LoopSteps
    BY <2>4 DEF LoopSteps
  <2>5. ASSUME NEW t \in Threads, UserSteps(t) PROVE ThreadTypeOK'
    BY <2>5 DEF UserSteps
  <2>6. CASE UNCHANGED allVars
    BY <2>6 DEF allVars, threadVars
  <2> QED
    BY <2>1, <2>2, <2>3, <2>4, <2>5, <2>6 DEF ThreadNext
<1> QED
  BY <1>1, <1>2, ThreadImplementsLoop, TypeCorrect, PTL DEF ThreadSpec

(* What a step of the loop itself can do to quit_: set it, or, in Loop(),   *)
(* clear it.                                                                *)
LEMMA QuitSteps ==
    ASSUME Round \/ (\E user \in SUBSET {User} : PollReturns(user))
             \/ (\E f \in Functors : QueueInLoopHere(f))
             \/ (\E t \in Threads : WakeupFrom(t) \/ \E f \in Functors : QueueInLoop(t, f))
    PROVE  quit_' = quit_
BY DEF Round, EnterPoll, LeaveLoop, HandleWakeup, HandleUser, EndHandling, SwapFunctors,
       CallFunctor, EndCalling, ReturnFromCallback, PollReturns, QueueInLoopHere,
       WakeupFrom, QueueInLoop, flags

(* Whoever calls StartLoop gets a loop that exists, and it exists until     *)
(* their destructor has stored quit_, as long as nobody else quits it; a    *)
(* pointer in loop_ never dangles, and of the threads in the middle of a    *)
(* call only the destructor's own, before its Wakeup(), may find it gone.   *)
THEOREM LoopOutlivesUsers == ThreadSpec => []LoopLifetime
<1>1. ThreadInit => LoopHeld
  BY DEF ThreadInit, Init, LoopHeld
<1>2. ThreadTypeOK /\ LoopHeld /\ [ThreadNext]_allVars => LoopHeld'
  <2> SUFFICES ASSUME ThreadTypeOK, LoopHeld, [ThreadNext]_allVars PROVE LoopHeld'
    OBVIOUS
  <2> USE DEF ThreadTypeOK, LoopHeld
  <2>1. CASE StartThread \/ ReturnFromStart \/ TestLoop \/ BeginDestructor \/ Join
    BY <2>1 DEF StartThread, ReturnFromStart, TestLoop, BeginDestructor, Join, vars, flags
  <2>2. CASE QuitFromDestructor
    BY <2>2, OwnerAssumption DEF QuitFromDestructor, Quit, TypeOK
  <2>3. CASE SpuriousWakeup
    BY <2>3 DEF SpuriousWakeup, vars, flags
  <2>4. CASE RunInThread \/ Publish \/ ClearLoop \/ EndThread
    BY <2>4 DEF RunInThread, Publish, ClearLoop, EndThread, vars, flags
  <2>5. CASE CallLoop
    BY <2>5 DEF CallLoop, Loop
  <2>6. CASE ReturnFromLoop
    BY <2>6 DEF ReturnFromLoop, LeaveLoop
  <2>7. CASE LoopSteps
    <3>1. UNCHANGED <<opc, fpc, loop_>> /\ (user_quit' \/ UNCHANGED <<quit_, user_quit>>)
      BY <2>7, QuitSteps DEF LoopSteps
    <3>2. UNCHANGED tpc
      BY <2>7 DEF LoopSteps, Round, EnterPoll, LeaveLoop, HandleWakeup, HandleUser,
                  EndHandling, SwapFunctors, CallFunctor, EndCalling, ReturnFromCallback,
                  PollReturns, QueueInLoopHere, QuitHere
    <3> QED
      BY <3>1, <3>2
  <2>8. ASSUME NEW t \in Threads, UserSteps(t) PROVE LoopHeld'
    <3>1. UNCHANGED <<opc, fpc, loop_>> /\ (user_quit' \/ UNCHANGED <<quit_, user_quit>>)
      BY <2>8, QuitSteps DEF UserSteps
    <3>2. \A u \in Threads : tpc'[u] # "idle" =>
              tpc'[u] = tpc[u] \/ (u = t /\ opc = "using")
      BY <2>8 DEF UserSteps, QueueInLoop, Quit, WakeupFrom, TypeOK
    <3> QED
      BY <3>1, <3>2
  <2>9. CASE UNCHANGED allVars
    BY <2>9 DEF allVars, threadVars, vars, flags
  <2> QED
    BY <2>1, <2>2, <2>3, <2>4, <2>5, <2>6, <2>7, <2>8, <2>9
    DEF ThreadNext, OwnerNext, FuncNext
<1>3. ThreadTypeOK /\ LoopHeld => LoopLifetime
  <2> SUFFICES ASSUME ThreadTypeOK, LoopHeld PROVE LoopLifetime
    OBVIOUS
  <2>1. PublishedLoopExists /\ OwnerHasLoop /\ NoOrphanThread
    BY DEF LoopHeld, ThreadTypeOK, PublishedLoopExists, OwnerHasLoop, NoOrphanThread,
           LoopExists
  <2>2. CallsFindLoop
    BY DEF LoopHeld, ThreadTypeOK, CallsFindLoop, LoopExists
  <2> QED
    BY <2>1, <2>2 DEF LoopLifetime
<1> QED
  BY <1>1, <1>2, <1>3, ThreadTypeCorrect, PTL DEF ThreadSpec
=============================================================================
