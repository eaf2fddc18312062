------------------------------ MODULE Connector ------------------------------
(***************************************************************************)
(* dwater/net/connector.cc: one attempt after the other to connect a       *)
(* socket, with a delay that doubles between them.  The operators say what *)
(* a call on the loop's thread does to the connector's state; TcpClient    *)
(* composes them with the client, its threads and the rounds of the loop.  *)
(* Timers are not ordered: a delay is kept, but only says that a timer is  *)
(* set.  No round of the loop takes as long as the shortest timer.         *)
(***************************************************************************)
EXTENDS Integers, Sequences, Functions, FiniteSets

CONSTANTS
    kinit_retry_delay_ms, kmax_retry_delay_ms

ASSUME DelayAssumption ==
    /\ kinit_retry_delay_ms \in Nat \ {0}
    /\ kmax_retry_delay_ms \in Nat /\ kmax_retry_delay_ms >= kinit_retry_delay_ms

VARIABLES
    connector_connect_,     \* the connector's connect_
    state_, retry_delay_ms_,
    channel_,           \* "none", "in loop" or "removed" (not yet reset)
    timers,             \* StartInLoop timers set; each shares the connector
    sockets,            \* sockets open
    pending,            \* functors queued in the loop
    batch, calling,     \* DoPendingFunctors: what it still runs, and whether
    aborted             \* the assertion that failed or the misuse, or "none"

connectorVars == <<connector_connect_, state_, retry_delay_ms_, channel_, timers>>
roundVars == <<batch, calling>>

Functor(op) == [op |-> op, conn |-> 0]
Queued(op) == Functor(op) \in Range(pending) \cup Range(batch)
ConnectorFunctors == {"StartInLoop", "StopInLoop", "ResetChannel"}

ConnectorInit ==
    /\ connector_connect_ = FALSE /\ state_ = "kdisconnected"
    /\ retry_delay_ms_ = kinit_retry_delay_ms
    /\ channel_ = "none" /\ timers = 0 /\ sockets = 0
    /\ pending = <<>> /\ batch = <<>> /\ calling = FALSE
    /\ aborted = "none"

-----------------------------------------------------------------------------
Smaller(a, b) == IF a < b THEN a ELSE b

(* Retry, but for the Close: `delay` is the delay so far *)
Retry(delay) ==
    /\ state_' = "kdisconnected"
    /\ IF connector_connect_'
         THEN /\ timers' = timers + 1
              /\ retry_delay_ms_' = Smaller(delay * 2, kmax_retry_delay_ms)
         ELSE timers' = timers /\ retry_delay_ms_' = delay

(* mutant: the channel is not reset later *)
RemoveAndResetChannelForgotten ==
    /\ channel_' = "removed"
    /\ UNCHANGED pending

RemoveAndResetChannel ==
    /\ channel_' = "removed"
    /\ pending' = Append(pending, Functor("ResetChannel"))

(* Connect and Connecting: the outcomes of connect(2).  `left` timers are   *)
(* left, `delay` is the delay so far.                                       *)
ConnectSocket(left, delay) ==
    \/ \* in progress
       /\ IF channel_ = "none"
            THEN channel_' = "in loop" /\ UNCHANGED aborted
            ELSE aborted' = "Connecting" /\ UNCHANGED channel_
       /\ state_' = "kconnecting" /\ sockets' = sockets + 1
       /\ timers' = left /\ retry_delay_ms_' = delay
    \/ \* refused: Close and Retry, with connect_ tested true just before
       /\ state_' = "kdisconnected"
       /\ timers' = left + 1
       /\ retry_delay_ms_' = Smaller(delay * 2, kmax_retry_delay_ms)
       /\ UNCHANGED <<channel_, sockets, aborted>>
    \/ \* an error that no retry helps
       /\ state_' = "kdisconnected"
       /\ timers' = left /\ retry_delay_ms_' = delay
       /\ UNCHANGED <<channel_, sockets, aborted>>

(* StartInLoop, entered with state_ = state *)
StartInLoop(state, left, delay) ==
    IF state # "kdisconnected"
      THEN /\ aborted' = "StartInLoop"
           /\ timers' = left
           /\ UNCHANGED <<state_, channel_, sockets, retry_delay_ms_>>
      ELSE IF connector_connect_'
             THEN ConnectSocket(left, delay)
             ELSE /\ state_' = state /\ timers' = left /\ retry_delay_ms_' = delay
                  /\ UNCHANGED <<channel_, sockets, aborted>>

(* Restart; the caller sets connect_ *)
Restart == StartInLoop("kdisconnected", timers, kinit_retry_delay_ms)

(* mutant: the channel stays in the loop *)
StopInLoopLeavesChannel ==
    IF state_ = "kconnecting"
      THEN /\ Retry(retry_delay_ms_)
           /\ sockets' = sockets - 1
           /\ UNCHANGED <<channel_, pending>>
      ELSE UNCHANGED <<state_, channel_, timers, retry_delay_ms_, sockets, pending>>

StopInLoop ==
    IF state_ = "kconnecting"
      THEN /\ RemoveAndResetChannel
           /\ Retry(retry_delay_ms_)
           /\ sockets' = sockets - 1
      ELSE UNCHANGED <<state_, channel_, timers, retry_delay_ms_, sockets, pending>>

(* HandleError, and HandleWrite with an error pending or connected to       *)
(* itself; the HandleWrite that follows a HandleError changes nothing       *)
HandleFailure ==
    /\ RemoveAndResetChannel
    /\ Retry(retry_delay_ms_)
    /\ sockets' = sockets - 1
=============================================================================
