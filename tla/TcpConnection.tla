---------------------------- MODULE TcpConnection ----------------------------
(***************************************************************************)
(* One connection of dwater/net/tcp_connection.cc with its channel: its    *)
(* state machine, its output path and its close protocol, as the thread of *)
(* its loop and other threads drive it.                                    *)
(* Functors queued in the loop are run in order (see EventLoop).  A message*)
(* is a sequence of units, so that partial writes can be told apart.  The  *)
(* reads that deliver data change nothing here: what the message callback  *)
(* does is one of the operations of the loop's own thread.  An event with  *)
(* several bits set is handled as several events.                          *)
(***************************************************************************)
EXTENDS Integers, Sequences, Functions

CONSTANTS
    Threads,        \* the threads other than the loop's that use the connection
    LocalOps,       \* the operations callbacks on the loop's thread call
    RemoteOps,      \* the operations the other threads call
    ServerMayDie,   \* TRUE: the TcpServer may be destroyed under the connection
    MaxMessages,    \* bound: messages ever sent
    MaxPending,     \* bound: users call only while fewer functors are queued
    MaxCloses,      \* bound: ... and while it was closed fewer times
    Sizes,          \* the lengths of messages, in units
    high_water_mark_

Ops == {"Send", "Shutdown", "ForceClose", "ForceCloseWithDelay", "StartRead",
        "StopRead"}

ASSUME ConnectionAssumption ==
    /\ LocalOps \subseteq Ops /\ RemoteOps \subseteq Ops
    /\ ServerMayDie \in BOOLEAN
    /\ MaxMessages \in Nat /\ MaxPending \in Nat /\ MaxCloses \in Nat
    /\ Sizes \subseteq Nat \ {0} /\ high_water_mark_ \in Nat

VARIABLES
    state_, reading_,
    events,             \* channel_'s events_: a subset of {"read", "write"}
    added_to_loop_,     \* the channel's
    output_buffer_,     \* what waits to be written
    pending,            \* the functors of this connection queued in its loop
    timer,              \* TRUE iff a timer of ForceCloseWithDelay is set
    tpc,                \* per thread: Idle, or the call it is in the middle of
    wire,               \* units the kernel has taken
    write_shut,         \* TRUE after socket_->ShutdownWrite()
    peer_closed,        \* the peer has closed: the next read returns 0
    server,             \* the TcpServer: "has" or "removed" this connection, "dead"
    aborted,            \* the assertion that failed, or "none"
    messages,           \* number of messages sent so far
    accepted,           \* history: units SendInLoop did not give up
    reported,           \* history: units covered by a write-complete callback
    ups, downs, closes, \* history: calls of connection_callback_, close_callback_
    destroyed,          \* history: ConnectionDestroyed has run
    revived,            \* history: another thread's call came too late, see Revives
    unannounced         \* history: ConnectionDestroyed found it in kdisconnecting

stateVars == <<state_, reading_>>
channelVars == <<events, added_to_loop_>>
outVars == <<output_buffer_, wire, accepted, reported>>
kernelVars == <<write_shut, peer_closed>>
callbackVars == <<ups, downs, closes, destroyed>>
vars == <<stateVars, channelVars, outVars, kernelVars, callbackVars, pending,
          timer, tpc, server, aborted, messages, revived, unannounced>>

Idle == [op |-> "idle", stage |-> "idle"]
Functor(op) == [op |-> op, msg |-> <<>>]
Fault == -1             \* write failed with EPIPE or ECONNRESET

(* message number m, of n units *)
Message(m, n) == [k \in 1 .. n |-> <<m, k>>]

IsWriting == "write" \in events

(* TcpConnection::TcpConnection, with NewConnection's queued functor *)
Init ==
    /\ state_ = "kconnecting" /\ reading_ = TRUE
    /\ events = {} /\ added_to_loop_ = FALSE
    /\ output_buffer_ = <<>> /\ wire = <<>> /\ accepted = <<>> /\ reported = 0
    /\ pending = <<Functor("ConnectionEstablished")>>
    /\ timer = FALSE /\ tpc = [t \in Threads |-> Idle]
    /\ write_shut = FALSE /\ peer_closed = FALSE
    /\ server = "has" /\ aborted = "none" /\ messages = 0
    /\ ups = 0 /\ downs = 0 /\ closes = 0 /\ destroyed = FALSE
    /\ revived = FALSE /\ unannounced = FALSE

(* a failed assert: the process is gone *)
Abort(where) ==
    /\ aborted' = where
    /\ UNCHANGED <<stateVars, channelVars, outVars, kernelVars, callbackVars,
                   timer, tpc, server, messages>>

-----------------------------------------------------------------------------
(* What the loop's thread does.  Each of these says what becomes of every   *)
(* variable but messages, tpc and the queue; `queue` is what is left of the *)
(* queue when it runs.                                                      *)

Quiet == UNCHANGED <<stateVars, channelVars, outVars, kernelVars, callbackVars,
                     timer, server, aborted>>

(* the outcomes of write(2) for n units: the kernel may take any part of    *)
(* them, none when the socket's buffer is full, and fails for good once     *)
(* either side is closed                                                    *)
WriteResults(n) ==
    IF write_shut THEN {Fault}
    ELSE 0 .. n \cup (IF peer_closed THEN {Fault} ELSE {})

(* mutant: written at once although older data is waiting *)
WritesDirectlyAlways == TRUE

WritesDirectly == ~IsWriting /\ output_buffer_ = <<>>

SendInLoop(msg, queue) ==
    \/ /\ state_ = "kdisconnected"
       /\ pending' = queue /\ Quiet
    \/ /\ state_ # "kdisconnected"
       /\ LET direct == WritesDirectly
              old == Len(output_buffer_)
          IN \E r \in IF direct THEN WriteResults(Len(msg)) ELSE {0} :
             LET n == IF r = Fault THEN 0 ELSE r
                 rest == IF r = Fault THEN <<>> ELSE SubSeq(msg, n + 1, Len(msg))
                 done == direct /\ n = Len(msg)
                 crossed == /\ rest # <<>> /\ old < high_water_mark_
                            /\ old + Len(rest) >= high_water_mark_
             IN
             /\ wire' = wire \o SubSeq(msg, 1, n)
             /\ output_buffer_' = output_buffer_ \o rest
             /\ accepted' = accepted \o SubSeq(msg, 1, n) \o rest
             /\ events' = IF rest # <<>> THEN events \cup {"write"} ELSE events
             /\ reported' = IF done THEN Len(wire') ELSE reported
             /\ pending' = queue
                    \o (IF done THEN <<Functor("WriteComplete")>> ELSE <<>>)
                    \o (IF crossed THEN <<Functor("HighWaterMark")>> ELSE <<>>)
       /\ added_to_loop_' = (added_to_loop_ \/ events' # events)
       /\ UNCHANGED <<stateVars, kernelVars, callbackVars, timer, server, aborted>>

(* mutant: does not wait for the buffer *)
ShutdownInLoopNow(queue) ==
    /\ write_shut' = TRUE
    /\ pending' = queue
    /\ UNCHANGED <<stateVars, channelVars, outVars, peer_closed, callbackVars,
                   timer, server, aborted>>

ShutdownInLoop(queue) ==
    /\ write_shut' = (write_shut \/ ~IsWriting)
    /\ pending' = queue
    /\ UNCHANGED <<stateVars, channelVars, outVars, peer_closed, callbackVars,
                   timer, server, aborted>>

(* channel_->DisableAll(), which also brings a removed channel back *)
DisableAll == events' = {} /\ added_to_loop_' = TRUE

(* HandleClose: the connection callback, then the server's RemoveConnection *)
HandleClose(queue) ==
    /\ pending' = queue
    /\ IF state_ \in {"kconnected", "kdisconnecting"}
         THEN /\ state_' = "kdisconnected"
              /\ DisableAll
              /\ downs' = downs + 1 /\ closes' = closes + 1
              /\ UNCHANGED <<reading_, outVars, kernelVars, ups, destroyed, timer,
                             server, aborted>>
         ELSE Abort("HandleClose")

ForceCloseInLoop(queue) ==
    IF state_ \in {"kconnected", "kdisconnecting"}
      THEN HandleClose(queue)
      ELSE pending' = queue /\ Quiet

StartReadInLoop(queue) ==
    /\ pending' = queue
    /\ IF ~reading_ \/ "read" \notin events
         THEN events' = events \cup {"read"} /\ reading_' = TRUE /\ added_to_loop_' = TRUE
         ELSE UNCHANGED <<channelVars, reading_>>
    /\ UNCHANGED <<state_, outVars, kernelVars, callbackVars, timer, server, aborted>>

StopReadInLoop(queue) ==
    /\ pending' = queue
    /\ IF reading_ \/ "read" \in events
         THEN events' = events \ {"read"} /\ reading_' = FALSE /\ added_to_loop_' = TRUE
         ELSE UNCHANGED <<channelVars, reading_>>
    /\ UNCHANGED <<state_, outVars, kernelVars, callbackVars, timer, server, aborted>>

ConnectionEstablished(queue) ==
    /\ pending' = queue
    /\ IF state_ = "kconnecting"
         THEN /\ state_' = "kconnected"
              /\ events' = events \cup {"read"} /\ added_to_loop_' = TRUE
              /\ ups' = ups + 1
              /\ UNCHANGED <<reading_, outVars, kernelVars, downs, closes,
                             destroyed, timer, server, aborted>>
         ELSE Abort("ConnectionEstablished")

(* mutant: a connection that is up is neither disabled nor announced as down *)
StillUpNever == FALSE

(* what ConnectionDestroyed tests before it tells the user *)
StillUp == state_ = "kconnected"

(* ConnectionDestroyed and the channel's Remove, which asserts that the     *)
(* channel has no events left                                               *)
ConnectionDestroyed(queue) ==
    LET up == StillUp IN
    /\ pending' = queue
    /\ IF up \/ events = {}
         THEN /\ state_' = IF up THEN "kdisconnected" ELSE state_
              /\ events' = {} /\ added_to_loop_' = FALSE
              /\ downs' = IF up THEN downs + 1 ELSE downs
              /\ destroyed' = TRUE
              /\ UNCHANGED <<reading_, outVars, kernelVars, ups, closes, timer,
                             server, aborted>>
         ELSE Abort("Channel::Remove")

(* TimerQueue::AddTimerInLoop, queued by ForceCloseWithDelay *)
AddTimerInLoop(queue) ==
    /\ pending' = queue
    /\ timer' = TRUE
    /\ UNCHANGED <<stateVars, channelVars, outVars, kernelVars, callbackVars, server,
                   aborted>>

(* ForceClose up to the QueueInLoop, on the loop's thread *)
ForceCloseHere(queue) ==
    IF state_ \in {"kconnected", "kdisconnecting"}
      THEN /\ state_' = "kdisconnecting"
           /\ pending' = Append(queue, Functor("ForceCloseInLoop"))
           /\ UNCHANGED <<reading_, channelVars, outVars, kernelVars,
                          callbackVars, timer, server, aborted>>
      ELSE pending' = queue /\ Quiet

-----------------------------------------------------------------------------
(* The steps of the loop's thread *)

RunFunctor ==
    LET f == Head(pending)
        rest == Tail(pending)
    IN
    /\ pending # <<>>
    /\ \/ f.op = "SendInLoop" /\ SendInLoop(f.msg, rest)
       \/ f.op = "ShutdownInLoop" /\ ShutdownInLoop(rest)
       \/ f.op = "ForceCloseInLoop" /\ ForceCloseInLoop(rest)
       \/ f.op = "StartReadInLoop" /\ StartReadInLoop(rest)
       \/ f.op = "StopReadInLoop" /\ StopReadInLoop(rest)
       \/ f.op = "ConnectionEstablished" /\ ConnectionEstablished(rest)
       \/ f.op = "ConnectionDestroyed" /\ ConnectionDestroyed(rest)
       \/ f.op = "AddTimerInLoop" /\ AddTimerInLoop(rest)
       \/ f.op \in {"WriteComplete", "HighWaterMark"} /\ pending' = rest /\ Quiet
    /\ UNCHANGED <<tpc, messages>>

(* the read that returns 0 *)
HandleRead ==
    /\ "read" \in events /\ peer_closed
    /\ HandleClose(pending)
    /\ UNCHANGED <<tpc, messages>>

(* mutant: the Shutdown that waited is not made up for *)
FlushedShutdownLost ==
    /\ events' = events \ {"write"}
    /\ reported' = Len(wire')
    /\ pending' = Append(pending, Functor("WriteComplete"))
    /\ UNCHANGED write_shut

(* HandleWrite has emptied the buffer: it makes up for the Shutdown that    *)
(* waited for this                                                          *)
Flushed ==
    /\ events' = events \ {"write"}
    /\ reported' = Len(wire')
    /\ pending' = Append(pending, Functor("WriteComplete"))
    /\ write_shut' = (write_shut \/ state_ = "kdisconnecting")

(* writes n units; an error, or nothing taken, is only logged               *)
HandleWrite ==
    /\ IsWriting
    /\ \E n \in WriteResults(Len(output_buffer_)) \ {Fault, 0} :
       /\ wire' = wire \o SubSeq(output_buffer_, 1, n)
       /\ output_buffer_' = SubSeq(output_buffer_, n + 1, Len(output_buffer_))
       /\ IF output_buffer_' = <<>>
            THEN Flushed
            ELSE UNCHANGED <<events, reported, pending, write_shut>>
    /\ UNCHANGED <<stateVars, added_to_loop_, accepted, peer_closed, callbackVars,
                   timer, tpc, server, aborted, messages>>

(* ForceCloseWithDelay's timer: its weak callback calls ForceClose *)
DelayedForceClose ==
    /\ timer
    /\ timer' = FALSE
    /\ IF state_ \in {"kconnected", "kdisconnecting"}
         THEN /\ state_' = "kdisconnecting"
              /\ pending' = Append(pending, Functor("ForceCloseInLoop"))
         ELSE UNCHANGED <<state_, pending>>
    /\ UNCHANGED <<reading_, channelVars, outVars, kernelVars, callbackVars, tpc,
                   server, aborted, messages>>

(* An operation called by a callback on the loop's thread.  A callback that *)
(* has been told that the connection is down leaves it alone.               *)
CallHere(op) ==
    /\ ups > 0 /\ state_ # "kdisconnected" /\ Len(pending) < MaxPending
    /\ \/ /\ op = "Send" /\ state_ = "kconnected" /\ messages < MaxMessages
          /\ messages' = messages + 1
          /\ \E n \in Sizes : SendInLoop(Message(messages', n), pending)
       \/ /\ op = "Shutdown" /\ state_ = "kconnected"
          /\ state_' = "kdisconnecting"
          /\ write_shut' = (write_shut \/ ~IsWriting)
          /\ UNCHANGED <<reading_, channelVars, outVars, peer_closed, callbackVars,
                         pending, timer, server, aborted, messages>>
       \/ op = "ForceClose" /\ ForceCloseHere(pending) /\ UNCHANGED messages
       \/ /\ op = "ForceCloseWithDelay" /\ state_ \in {"kconnected", "kdisconnecting"}
          /\ state_' = "kdisconnecting" /\ timer' = TRUE
          /\ UNCHANGED <<reading_, channelVars, outVars, kernelVars, callbackVars,
                         pending, server, aborted, messages>>
       \/ op = "StartRead" /\ StartReadInLoop(pending) /\ UNCHANGED messages
       \/ op = "StopRead" /\ StopReadInLoop(pending) /\ UNCHANGED messages
    /\ UNCHANGED tpc

-----------------------------------------------------------------------------
(* The other threads.  They test state_ and, later, store it and queue the  *)
(* second half of the operation: state_ is neither atomic nor locked.       *)

MayCall(op) ==
    CASE op \in {"Send", "Shutdown"} -> state_ = "kconnected"
      [] op \in {"ForceClose", "ForceCloseWithDelay"} ->
            state_ \in {"kconnected", "kdisconnecting"}
      [] OTHER -> TRUE

Call(t, op) ==
    /\ tpc[t] = Idle /\ ups > 0 /\ ~destroyed
    /\ Len(pending) < MaxPending /\ closes < MaxCloses
    /\ MayCall(op)
    /\ tpc' = [tpc EXCEPT ![t] = [op |-> op, stage |-> "tested"]]
    /\ UNCHANGED <<stateVars, channelVars, outVars, kernelVars, callbackVars,
                   pending, timer, server, aborted, messages>>

(* SetState(kdisconnecting) *)
StoringOps == {"Shutdown", "ForceClose", "ForceCloseWithDelay"}
StoreState(t) ==
    /\ tpc[t].op \in StoringOps /\ tpc[t].stage = "tested"
    /\ state_' = "kdisconnecting"
    /\ tpc' = [tpc EXCEPT ![t].stage = "stored"]
    /\ UNCHANGED <<reading_, channelVars, outVars, kernelVars, callbackVars,
                   pending, timer, server, aborted, messages>>

(* what is queued in the loop; ForceCloseWithDelay's RunAfter adds a timer *)
SecondHalf ==
    [Shutdown |-> "ShutdownInLoop", ForceClose |-> "ForceCloseInLoop",
     ForceCloseWithDelay |-> "AddTimerInLoop",
     StartRead |-> "StartReadInLoop", StopRead |-> "StopReadInLoop"]

QueueCall(t) ==
    LET op == tpc[t].op IN
    /\ \/ /\ op = "Send" /\ messages < MaxMessages
          /\ messages' = messages + 1
          /\ \E n \in Sizes : pending' = Append(pending,
                    [op |-> "SendInLoop", msg |-> Message(messages', n)])
       \/ /\ op \in StoringOps => tpc[t].stage = "stored"
          /\ op \in DOMAIN SecondHalf
          /\ pending' = Append(pending, Functor(SecondHalf[op]))
          /\ UNCHANGED messages
    /\ tpc' = [tpc EXCEPT ![t] = Idle]
    /\ UNCHANGED <<stateVars, channelVars, outVars, kernelVars, callbackVars,
                   timer, server, aborted>>

-----------------------------------------------------------------------------
(* The peer, and the TcpServer in the base loop *)

PeerCloses ==
    /\ ~peer_closed
    /\ peer_closed' = TRUE
    /\ UNCHANGED <<stateVars, channelVars, outVars, write_shut, callbackVars,
                   pending, timer, tpc, server, aborted, messages>>

(* mutant: ConnectionDestroyed is not queued *)
RemoveConnectionOnly ==
    /\ server = "has" /\ closes > 0
    /\ server' = "removed"
    /\ UNCHANGED <<stateVars, channelVars, outVars, kernelVars, callbackVars,
                   pending, timer, tpc, aborted, messages>>

(* RemoveConenctionInLoop, once per close: erase, assert(n == 1), queue     *)
RemoveConnection ==
    /\ server = "has" /\ closes > 0
    /\ server' = "removed"
    /\ pending' = Append(pending, Functor("ConnectionDestroyed"))
    /\ UNCHANGED <<stateVars, channelVars, outVars, kernelVars, callbackVars,
                   timer, tpc, aborted, messages>>

RemoveAgain ==
    /\ server = "removed" /\ closes > 1
    /\ pending' = pending
    /\ Abort("erase")

(* ~TcpServer, with a connection nobody has closed *)
ServerDies ==
    /\ ServerMayDie /\ server = "has" /\ closes = 0
    /\ server' = "dead"
    /\ pending' = Append(pending, Functor("ConnectionDestroyed"))
    /\ UNCHANGED <<stateVars, channelVars, outVars, kernelVars, callbackVars,
                   timer, tpc, aborted, messages>>

-----------------------------------------------------------------------------
(* a step undoes a close: another thread stores the kdisconnecting it has   *)
(* decided on before, or the StartRead or StopRead it has queued before     *)
(* brings the channel back into the loop                                    *)
Revives ==
    /\ state_ = "kdisconnected"
    /\ \/ events' # {} \/ (added_to_loop_' /\ ~added_to_loop_)
       \/ tpc' # tpc /\ state_' # state_

(* ConnectionDestroyed runs in a state in which it tells the user nothing   *)
(* though nobody else has                                                   *)
GoesUnannounced == destroyed' /\ ~destroyed /\ state_ = "kdisconnecting"

History ==
    /\ revived' = (revived \/ Revives)
    /\ unannounced' = (unannounced \/ GoesUnannounced)

LoopNext == RunFunctor \/ HandleRead \/ HandleWrite

Next ==
    /\ aborted = "none"
    /\ \/ LoopNext \/ DelayedForceClose
       \/ \E op \in LocalOps : CallHere(op)
       \/ \E t \in Threads : \/ \E op \in RemoteOps : Call(t, op)
                             \/ StoreState(t) \/ QueueCall(t)
       \/ PeerCloses \/ RemoveConnection \/ RemoveAgain \/ ServerDies
    /\ History

Spec == Init /\ [][Next]_vars

(* The loop's thread runs its functors and handles the events of the        *)
(* channel: a peer that has not closed reads, so that what is buffered can  *)
(* be written.  The server's loop removes what was closed, a thread in a    *)
(* call finishes it and the timer fires.  Nothing makes the peer close.     *)
Fairness ==
    LET Alive(A) == aborted = "none" /\ A /\ History IN
    /\ WF_vars(Alive(RunFunctor)) /\ WF_vars(Alive(HandleRead))
    /\ WF_vars(Alive(~peer_closed /\ HandleWrite))
    /\ WF_vars(Alive(DelayedForceClose))
    /\ WF_vars(Alive(RemoveConnection))
    /\ \A t \in Threads : WF_vars(Alive(StoreState(t) \/ QueueCall(t)))

FairSpec == Spec /\ Fairness

-----------------------------------------------------------------------------
Units == (1 .. MaxMessages) \X (Nat \ {0})

(* Every variable has its type, and state_ is kconnecting until the user    *)
(* has been told that the connection is up.                                 *)
TypeOK ==
    /\ state_ \in {"kconnecting", "kconnected", "kdisconnecting", "kdisconnected"}
    /\ state_ = "kconnecting" <=> ups = 0
    /\ reading_ \in BOOLEAN /\ added_to_loop_ \in BOOLEAN
    /\ events \in SUBSET {"read", "write"}
    /\ output_buffer_ \in Seq(Units) /\ wire \in Seq(Units)
    /\ accepted \in Seq(Units) /\ reported \in Nat
    /\ \A f \in Range(pending) : f.msg \in Seq(Units)
    /\ timer \in BOOLEAN
    /\ \A t \in Threads : tpc[t].stage \in {"idle", "tested", "stored"}
    /\ write_shut \in BOOLEAN /\ peer_closed \in BOOLEAN
    /\ server \in {"has", "removed", "dead"}
    /\ messages \in 0 .. MaxMessages
    /\ ups \in Nat /\ downs \in Nat /\ closes \in Nat /\ destroyed \in BOOLEAN
    /\ revived \in BOOLEAN /\ unannounced \in BOOLEAN

(* The bytes of the messages reach the socket in the order SendInLoop took  *)
(* them, none twice and none skipped, however direct writes, partial writes *)
(* and the buffer follow each other.                                        *)
StreamInOrder == accepted = wire \o output_buffer_

(* Until the connection is closed, its write side is shut down only with an *)
(* empty buffer, which stays empty: a Shutdown never cuts off data taken    *)
(* before it.                                                               *)
FlushBeforeShutdown == write_shut /\ downs = 0 => output_buffer_ = <<>>

(* While the connection is up, data waits in the buffer exactly when the    *)
(* channel asks for writability: nothing is stuck and POLLOUT never spins.  *)
BufferedIffWriting == downs = 0 => (IsWriting <=> output_buffer_ # <<>>)

(* Whenever the buffer is empty, everything written so far has been covered *)
(* by a write-complete callback, be it from SendInLoop or HandleWrite.      *)
FlushIsReported == output_buffer_ = <<>> => reported = Len(wire)

(* The flushing of the output: the three properties above. *)
OutputFlushed == FlushBeforeShutdown /\ BufferedIffWriting /\ FlushIsReported

(* The user sees the connection go up once and down once, in this order,    *)
(* and a destroyed connection is down, closed and out of its loop; no       *)
(* assertion on its life fails.  Two things spoil this, and nothing else.   *)
(* Another thread that has tested state_ stores kdisconnecting over the     *)
(* kdisconnected of a close in between, or its StartRead turns reading on   *)
(* again behind the close, and the connection is closed again (assert(n ==  *)
(* 1), assert of HandleClose).  And a dying server finds the connection in  *)
(* kdisconnecting: it is destroyed without a word to the user, or with its  *)
(* events still on (assert(IsNoneEvent())).  One that the dying server      *)
(* finds connected, or already closed, goes down properly.                  *)
UpThenDownOnce ==
    /\ TypeOK
    /\ ~revived =>
        /\ ups <= 1 /\ downs <= ups /\ closes <= downs
        /\ destroyed /\ ~unannounced =>
             downs = 1 /\ state_ = "kdisconnected" /\ events = {} /\ ~added_to_loop_
        /\ unannounced => server = "dead"
        /\ aborted \in {"none", "Channel::Remove"}
        /\ aborted = "Channel::Remove" => server = "dead" /\ state_ = "kdisconnecting"

(* A connection being shut down gets there while its peer is alive: its     *)
(* write side is shut, behind everything buffered, or it is closed.         *)
ShutdownCompletes ==
    state_ = "kdisconnecting" ~>
        write_shut \/ state_ = "kdisconnected" \/ peer_closed \/ aborted # "none"

(* A closed connection is taken out of the server and destroyed, unless a   *)
(* late call has revived it or the server died with it open.               *)
CloseCompletes == closes > 0 ~> destroyed \/ revived \/ aborted # "none"
=============================================================================
