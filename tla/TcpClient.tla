------------------------------ MODULE TcpClient ------------------------------
(***************************************************************************)
(* dwater/net/tcp_client.cc composed with its Connector: user code on the  *)
(* loop's thread and on one other thread connects, disconnects, stops and  *)
(* destroys the client, while the loop handles the attempts, the           *)
(* connections and the timers.  A connection is kept as far as its client  *)
(* can tell (see TcpConnection).  A round of the loop handles events, then *)
(* runs the functors queued when it comes to them.                         *)
(***************************************************************************)
EXTENDS Connector

CONSTANTS
    MaxConns,       \* bound: connections ever made
    MaxCalls        \* bound: calls of user code

ASSUME ClientAssumption == MaxConns \in Nat \ {0} /\ MaxCalls \in Nat

VARIABLES
    alive, retry_, connect_, next_conn_id_,
    connection_,        \* number of the client's connection, 0: none
    conns,              \* per connection: how far it is
    attached,           \* connections whose close callback is the client's
    shared,             \* connections the user keeps a reference to
    keep_alive,         \* the destructor's timer shares the connector
    connector_,         \* FALSE once the connector is destroyed
    restarting,         \* RemoveConnection is about to Restart
    accepting,          \* HandleWrite is about to call NewConnection
    upc,                \* the other thread: idle, or where in its call it is
    conn, unique,       \* ... and the locals of its ~TcpClient
    calls, stopped,     \* history: calls so far; Stop was called last
    overtaken,          \* history: a Restart undid a Stop it raced with
    slipped,            \* history: Stop came between HandleWrite's test and call
    misused, hasty,     \* history: see CallConnector, Destroy
    overrun             \* history: see Dying

connVars == <<connection_, next_conn_id_, conns, attached, shared>>
ownerVars == <<alive, retry_, connect_, keep_alive, connector_>>
midVars == <<restarting, accepting>>
userVars == <<upc, conn, unique, calls, stopped, overtaken, slipped, misused, hasty>>
vars == <<connectorVars, sockets, pending, roundVars, aborted, ownerVars, connVars,
          midVars, userVars, overrun>>

Conns == 1 .. MaxConns
Up(i) == conns[i] \in {"kconnected", "kdisconnecting"}
ConnFunctor(op, i) == [op |-> op, conn |-> i]

Init ==
    /\ ConnectorInit
    /\ alive = TRUE /\ retry_ \in BOOLEAN /\ connect_ = TRUE
    /\ connection_ = 0 /\ next_conn_id_ = 1
    /\ conns = [i \in Conns |-> "none"] /\ attached = {} /\ shared = {}
    /\ keep_alive = FALSE /\ connector_ = TRUE
    /\ restarting = FALSE /\ accepting = FALSE
    /\ upc = "idle" /\ conn = 0 /\ unique = FALSE /\ calls = 0 /\ stopped = FALSE
    /\ overtaken = FALSE /\ slipped = FALSE /\ misused = FALSE /\ hasty = FALSE
    /\ overrun = FALSE

(* nothing shares the connector any more *)
Orphan == connector_ /\ ~alive /\ ~keep_alive /\ timers = 0

(* the connector is as its assertions want it when it is started *)
Startable ==
    /\ state_ = "kdisconnected" /\ channel_ = "none" /\ timers = 0
    /\ \A op \in ConnectorFunctors : ~Queued(op)
    /\ ~restarting /\ ~accepting

(* another thread is in ~TcpClient, or has been: what the loop's thread     *)
(* does with the client from now on overruns it                             *)
Destructor == {"detach", "force", "store", "stop", "keep", "end"}
Dying == upc \in Destructor \cup {"dead"}

(* somebody beside the client has a reference to connection i, when `queue` *)
(* are the functors that still wait                                         *)
Referenced(i, queue) == i \in shared \/ \E f \in queue : f.conn = i

-----------------------------------------------------------------------------
(* The loop's thread: events *)
Midway == restarting \/ accepting
InEvents == ~calling /\ ~Midway /\ ~Orphan

(* the connector's last reference goes: assert(!channel_) *)
DropConnector ==
    /\ Orphan
    /\ connector_' = FALSE
    /\ aborted' = IF channel_ # "none" THEN "~Connector" ELSE aborted
    /\ UNCHANGED <<connectorVars, sockets, pending, roundVars, alive, retry_, connect_,
                   keep_alive, connVars, midVars, userVars,
                   overrun>>

(* mutant: connect_ is not tested once the socket is connected *)
WantedAlways == TRUE

Wanted == connector_connect_

(* the attempt's socket is writable and has no error: HandleWrite up to the *)
(* call of new_connection_callback_                                         *)
HandleWrite ==
    /\ InEvents /\ channel_ = "in loop"
    /\ Wanted => next_conn_id_ <= MaxConns
    /\ RemoveAndResetChannel
    /\ state_' = "kconnected"
    /\ accepting' = Wanted
    /\ sockets' = IF Wanted THEN sockets ELSE sockets - 1
    /\ UNCHANGED <<connector_connect_, retry_delay_ms_, timers, roundVars, aborted,
                   ownerVars, connVars, restarting, userVars, overrun>>

(* TcpClient::NewConnection, called through a raw pointer; the user's       *)
(* connection callback may keep a reference                                 *)
NewConnection ==
    /\ accepting
    /\ accepting' = FALSE /\ slipped' = FALSE
    /\ next_conn_id_' = next_conn_id_ + 1
    /\ connection_' = next_conn_id_
    /\ conns' = [conns EXCEPT ![next_conn_id_] = "kconnected"]
    /\ attached' = attached \cup {next_conn_id_}
    /\ shared' \in {shared, shared \cup {next_conn_id_}}
    /\ aborted' = IF alive THEN aborted ELSE "use after free"
    /\ overrun' = (overrun \/ Dying)
    /\ UNCHANGED <<connectorVars, sockets, pending, roundVars, ownerVars, restarting,
                   upc, conn, unique, calls, stopped, overtaken, misused, hasty>>

(* HandleWrite or HandleError on a failed attempt *)
HandleError ==
    /\ InEvents /\ channel_ = "in loop"
    /\ UNCHANGED connector_connect_
    /\ HandleFailure
    /\ UNCHANGED <<roundVars, aborted, ownerVars, connVars, midVars, userVars,
                   overrun>>

(* the timer of a Retry *)
RetryTimer ==
    /\ InEvents /\ timers > 0 /\ pending = <<>>
    /\ UNCHANGED connector_connect_
    /\ StartInLoop(state_, timers - 1, retry_delay_ms_)
    /\ UNCHANGED <<pending, roundVars, ownerVars, connVars, midVars, userVars,
                   overrun>>

(* the destructor's timer lets go of the connector *)
KeepAliveTimer ==
    /\ InEvents /\ keep_alive /\ pending = <<>>
    /\ keep_alive' = FALSE
    /\ UNCHANGED <<connectorVars, sockets, pending, roundVars, aborted, alive, retry_,
                   connect_, connector_, connVars, midVars, userVars,
                   overrun>>

(* TcpClient::RemoveConnection up to Restart *)
RemoveConnection(i) ==
    /\ aborted' = CASE ~alive -> "use after free"
                    [] alive /\ connection_ # i -> "RemoveConnection"
                    [] OTHER -> aborted
    /\ connection_' = 0
    /\ restarting' = (retry_ /\ connect_)
    /\ overrun' = (overrun \/ Dying)

(* TcpConnection::HandleClose with the client's close callback, or with     *)
(* detail::RemoveConnection; both queue ConnectionDestroyed                 *)
Close(i, queue) ==
    /\ conns' = [conns EXCEPT ![i] = "kdisconnected"]
    /\ pending' = Append(queue, ConnFunctor("ConnectionDestroyed", i))
    /\ IF i \in attached
         THEN RemoveConnection(i)
         ELSE UNCHANGED <<aborted, connection_, restarting, overrun>>

(* the peer closes.  A connection that came up in this very round, with     *)
(* ResetChannel still queued, has not been polled yet.                      *)
HandleClose(i) ==
    /\ InEvents /\ Up(i) /\ ~Queued("ResetChannel")
    /\ Close(i, pending)
    /\ UNCHANGED <<connectorVars, sockets, roundVars, ownerVars, next_conn_id_, attached,
                   shared, accepting, userVars>>

(* the rest of RemoveConnection: Restart.  A Stop of another thread may     *)
(* have come since connect_ was tested, or its destructor.                  *)
RestartConnector ==
    /\ restarting
    /\ restarting' = FALSE
    /\ overrun' = (overrun \/ Dying)
    /\ \/ /\ alive
          /\ connector_connect_' = TRUE
          /\ overtaken' = (overtaken \/ stopped \/ upc = "Stop")
          /\ Restart
       \/ /\ ~alive
          /\ aborted' = "use after free"
          /\ UNCHANGED <<connectorVars, sockets, overtaken>>
    /\ UNCHANGED <<pending, roundVars, ownerVars, connVars, accepting, upc, conn, unique,
                   calls, stopped, slipped, misused, hasty>>

-----------------------------------------------------------------------------
(* The loop's thread: functors *)
InFunctors == calling /\ ~Midway /\ ~Orphan

SwapFunctors ==
    /\ InEvents /\ pending # <<>>
    /\ batch' = pending /\ pending' = <<>> /\ calling' = TRUE
    /\ UNCHANGED <<connectorVars, sockets, aborted, ownerVars, connVars, midVars, userVars,
                   overrun>>

EndCalling ==
    /\ InFunctors /\ batch = <<>>
    /\ calling' = FALSE
    /\ UNCHANGED <<connectorVars, sockets, pending, batch, aborted, ownerVars, connVars,
                   midVars, userVars, overrun>>

(* the connector's functors are bound to a raw this *)
RunConnectorFunctor ==
    LET op == Head(batch).op IN
    /\ op \in ConnectorFunctors
    /\ UNCHANGED <<connector_connect_, connVars, restarting, overrun>>
    /\ \/ /\ ~connector_
          /\ aborted' = "use after free"
          /\ UNCHANGED <<state_, channel_, timers, retry_delay_ms_, sockets, pending>>
       \/ /\ connector_ /\ op = "StartInLoop"
          /\ StartInLoop(state_, timers, retry_delay_ms_)
          /\ UNCHANGED pending
       \/ /\ connector_ /\ op = "StopInLoop"
          /\ StopInLoop
          /\ UNCHANGED aborted
       \/ /\ connector_ /\ op = "ResetChannel"
          /\ channel_' = "none"
          /\ UNCHANGED <<state_, timers, retry_delay_ms_, sockets, pending, aborted>>

(* a reference to connection i goes, `queue` still waits: with the last one *)
(* goes the socket, and the assertion of its destructor fails if it is up   *)
LetGo(i, queue) ==
    IF Referenced(i, queue)
      THEN UNCHANGED <<sockets, aborted>>
      ELSE IF Up(i)
        THEN aborted' = "~TcpConnection" /\ UNCHANGED sockets
        ELSE sockets' = sockets - 1 /\ UNCHANGED aborted

(* a connection's functors share it *)
RunConnFunctor ==
    LET f == Head(batch)
        rest == Range(pending) \cup Range(Tail(batch))
        Release == IF connection_ = f.conn THEN UNCHANGED <<sockets, aborted>>
                   ELSE LetGo(f.conn, rest)
    IN
    /\ \/ /\ f.op = "ForceCloseInLoop" /\ Up(f.conn)
          /\ Close(f.conn, pending)
          /\ UNCHANGED <<sockets, attached>>
       \/ /\ f.op = "ForceCloseInLoop" /\ ~Up(f.conn)
          /\ Release
          /\ UNCHANGED <<pending, conns, connection_, attached, restarting, overrun>>
       \/ /\ f.op = "SetCloseCallback"
          /\ attached' = attached \ {f.conn}
          /\ Release
          /\ UNCHANGED <<pending, conns, connection_, restarting, overrun>>
       \/ /\ f.op = "ConnectionDestroyed"
          /\ conns' = [conns EXCEPT ![f.conn] = "gone"]
          /\ Release
          /\ UNCHANGED <<pending, connection_, attached, restarting, overrun>>
    /\ UNCHANGED <<connectorVars, next_conn_id_, shared>>

RunFunctor ==
    /\ InFunctors /\ batch # <<>>
    /\ batch' = Tail(batch)
    /\ RunConnectorFunctor \/ RunConnFunctor
    /\ UNCHANGED <<calling, ownerVars, accepting, userVars>>

-----------------------------------------------------------------------------
(* User code: Connect, Disconnect and Stop, on the loop's thread in one go  *)
(* or on the other thread in two steps, for the client and its connector    *)

(* connector_->Start() and connector_->Stop(); `here`: on the loop's thread *)
CallConnector(op, here) ==
    /\ connector_connect_' = IF op = "Disconnect" THEN connector_connect_
                             ELSE op = "Connect"
    /\ stopped' = IF op = "Disconnect" THEN stopped ELSE op = "Stop"
    /\ slipped' = (op # "Connect" /\ (slipped \/ (op = "Stop" /\ accepting)))
    /\ misused' = (misused \/ (op = "Connect" /\ ~Startable))
    /\ \/ /\ op = "Connect" /\ here
          /\ StartInLoop(state_, timers, retry_delay_ms_)
          /\ UNCHANGED <<pending, conns>>
       \/ /\ \/ op = "Connect" /\ ~here /\ pending' = Append(pending, Functor("StartInLoop"))
             \/ op = "Stop" /\ pending' = Append(pending, Functor("StopInLoop"))
          /\ UNCHANGED <<state_, retry_delay_ms_, channel_, timers, sockets, aborted, conns>>
       \/ /\ op = "Disconnect"        \* connection_->Shutdown()
          /\ conns' = IF connection_ # 0 /\ conns[connection_] = "kconnected"
                        THEN [conns EXCEPT ![connection_] = "kdisconnecting"] ELSE conns
          /\ UNCHANGED <<state_, retry_delay_ms_, channel_, timers, sockets, pending, aborted>>

Ops == {"Connect", "Disconnect", "Stop"}

CallHere(op) ==
    /\ InEvents /\ alive /\ ~Dying /\ calls < MaxCalls
    /\ calls' = calls + 1
    /\ connect_' = (op = "Connect")
    /\ CallConnector(op, TRUE)
    /\ UNCHANGED <<roundVars, alive, retry_, keep_alive, connector_, connection_,
                   next_conn_id_, attached, shared, midVars, upc, conn, unique, overtaken,
                   hasty, overrun>>

Call(op) ==
    /\ upc = "idle" /\ alive /\ calls < MaxCalls
    /\ calls' = calls + 1
    /\ upc' = op
    /\ connect_' = (op = "Connect")
    /\ UNCHANGED <<connectorVars, sockets, pending, roundVars, aborted, alive, retry_,
                   keep_alive, connector_, connVars, midVars, conn, unique, stopped,
                   overtaken, slipped, misused, hasty, overrun>>

FinishCall ==
    /\ upc \in Ops
    /\ upc' = "idle"
    /\ CallConnector(upc, FALSE)
    /\ UNCHANGED <<roundVars, ownerVars, connection_, next_conn_id_, attached, shared,
                   midVars, conn, unique, calls, overtaken, hasty, overrun>>

(* the connector has work that the destructor does not wait for *)
Unfinished == channel_ # "none" \/ \E op \in ConnectorFunctors : Queued(op)

(* ~TcpClient, in a callback on the loop's thread, with no call going on.   *)
(* With a connection, the connector is let go at once.                      *)
Destroy ==
    /\ InEvents /\ alive /\ upc = "idle"
    /\ alive' = FALSE /\ connection_' = 0
    /\ IF connection_ # 0
         THEN /\ attached' = attached \ {connection_}
              /\ IF connection_ \notin shared
                   THEN /\ conns' = [conns EXCEPT ![connection_] = "kdisconnecting"]
                        /\ pending' = Append(pending,
                                ConnFunctor("ForceCloseInLoop", connection_))
                   ELSE UNCHANGED <<conns, pending>>
              /\ hasty' = Unfinished
              /\ UNCHANGED <<connector_connect_, keep_alive, stopped>>
         ELSE /\ connector_connect_' = FALSE /\ stopped' = TRUE  \* Stop()
              /\ pending' = Append(pending, Functor("StopInLoop"))
              /\ keep_alive' = TRUE
              /\ UNCHANGED <<conns, attached, hasty>>
    /\ UNCHANGED <<state_, retry_delay_ms_, channel_, timers, sockets, roundVars, aborted,
                   retry_, connect_, connector_, next_conn_id_, shared, midVars, upc, conn,
                   unique, calls, overtaken, slipped, misused, overrun>>

-----------------------------------------------------------------------------
(* ~TcpClient on the other thread, which the loop's thread does not wait    *)
(* for: it takes the connection.  It is not unique either when the loop's   *)
(* thread is in one of its callbacks.                                       *)
TakeConnection ==
    /\ upc = "idle" /\ alive
    /\ conn' = connection_
    /\ unique' \in {FALSE, connection_ \notin shared}
    /\ upc' = IF connection_ # 0 THEN "detach" ELSE "stop"
    /\ overrun' = (overrun \/ (connection_ # 0 /\ connection_ \notin shared /\ ~unique'))
    /\ UNCHANGED <<connectorVars, sockets, pending, roundVars, aborted, ownerVars, connVars,
                   midVars, calls, stopped, overtaken, slipped, misused, hasty>>

(* it queues SetCloseCallback ... *)
Detach ==
    /\ upc = "detach"
    /\ upc' = IF unique THEN "force" ELSE "end"
    /\ pending' = Append(pending, ConnFunctor("SetCloseCallback", conn))
    /\ UNCHANGED <<connectorVars, sockets, roundVars, aborted, ownerVars, connVars, midVars,
                   conn, unique, calls, stopped, overtaken, slipped, misused, hasty, overrun>>

(* ... and calls ForceClose, which tests state_ and stores it.  A close in  *)
(* between is undone: closed again, the connection finds its channel        *)
(* removed already.                                                         *)
TestState ==
    /\ upc = "force"
    /\ upc' = IF Up(conn) THEN "store" ELSE "end"
    /\ UNCHANGED <<connectorVars, sockets, pending, roundVars, aborted, ownerVars, connVars,
                   midVars, conn, unique, calls, stopped, overtaken, slipped, misused, hasty,
                   overrun>>

StoreState ==
    /\ upc = "store"
    /\ upc' = "end"
    /\ conns' = [conns EXCEPT ![conn] = "kdisconnecting"]
    /\ pending' = Append(pending, ConnFunctor("ForceCloseInLoop", conn))
    /\ overrun' = (overrun \/ ~Up(conn))
    /\ aborted' = IF Up(conn) THEN aborted ELSE "RemoveChannel"
    /\ UNCHANGED <<connectorVars, sockets, roundVars, ownerVars, connection_, next_conn_id_,
                   attached, shared, midVars, conn, unique, calls, stopped, overtaken,
                   slipped, misused, hasty>>

(* without a connection it stops the connector ... *)
StopConnector ==
    /\ upc = "stop"
    /\ upc' = "keep"
    /\ connector_connect_' = FALSE /\ stopped' = TRUE
    /\ slipped' = (slipped \/ accepting)
    /\ pending' = Append(pending, Functor("StopInLoop"))
    /\ UNCHANGED <<state_, retry_delay_ms_, channel_, timers, sockets, roundVars, aborted,
                   ownerVars, connVars, midVars, conn, unique, calls, overtaken, misused,
                   hasty, overrun>>

(* ... and has a timer keep it for a second *)
KeepConnector ==
    /\ upc = "keep"
    /\ upc' = "end" /\ keep_alive' = TRUE
    /\ UNCHANGED <<connectorVars, sockets, pending, roundVars, aborted, alive, retry_,
                   connect_, connector_, connVars, midVars, conn, unique, calls, stopped,
                   overtaken, slipped, misused, hasty, overrun>>

(* the members go: the references to the connection and to the connector *)
EndDestroy ==
    /\ upc = "end"
    /\ upc' = "dead" /\ alive' = FALSE /\ connection_' = 0
    /\ hasty' = (hasty \/ (conn # 0 /\ Unfinished))
    /\ IF connection_ = 0
         THEN UNCHANGED <<sockets, aborted>>
         ELSE LetGo(connection_, Range(pending) \cup Range(batch))
    /\ UNCHANGED <<connectorVars, pending, roundVars, retry_, connect_, keep_alive,
                   connector_, next_conn_id_, conns, attached, shared, midVars, conn, unique,
                   calls, stopped, overtaken, slipped, misused, overrun>>

DestroyElsewhere ==
    \/ Detach \/ TestState \/ StoreState \/ StopConnector \/ KeepConnector \/ EndDestroy

-----------------------------------------------------------------------------
Loop ==
    \/ HandleWrite \/ NewConnection \/ HandleError \/ RetryTimer \/ KeepAliveTimer \/ DropConnector
    \/ RestartConnector \/ SwapFunctors \/ RunFunctor \/ EndCalling

Next ==
    /\ aborted = "none"
    /\ \/ Loop
       \/ \E i \in Conns : HandleClose(i)
       \/ \E op \in Ops : CallHere(op) \/ Call(op)
       \/ FinishCall \/ Destroy \/ TakeConnection \/ DestroyElsewhere

Spec == Init /\ [][Next]_vars

(* The loop keeps going: an attempt has an outcome, timers fire, functors   *)
(* run, the other thread ends its call or the destructor it is in.  Nobody  *)
(* has to call or to close.                                                 *)
Fairness ==
    LET Alive(A) == aborted = "none" /\ A IN
    /\ WF_vars(Alive(Loop)) /\ WF_vars(Alive(FinishCall \/ DestroyElsewhere))
    /\ SF_vars(Alive(RetryTimer)) /\ SF_vars(Alive(KeepAliveTimer))

FairSpec == Spec /\ Fairness

-----------------------------------------------------------------------------
(* Every variable has its type. *)
TypeOK ==
    /\ state_ \in {"kdisconnected", "kconnecting", "kconnected"}
    /\ channel_ \in {"none", "in loop", "removed"}
    /\ retry_delay_ms_ \in kinit_retry_delay_ms .. kmax_retry_delay_ms
    /\ connection_ \in 0 .. MaxConns /\ timers \in Nat /\ sockets \in Nat
    /\ conns \in [Conns -> {"none", "kconnected", "kdisconnecting", "kdisconnected", "gone"}]
    /\ attached \subseteq Conns /\ shared \subseteq Conns
    /\ upc \in Ops \cup Destructor \cup {"idle", "dead"}
    /\ conn \in 0 .. MaxConns /\ calls \in 0 .. MaxCalls

(* As long as Connect is only called on a connector at rest and nothing     *)
(* overruns a destructor, there is one attempt at most, in progress or      *)
(* waiting for its timer; it has a channel in the loop exactly while it is  *)
(* in progress; and every socket belongs to the attempt or to a connection, *)
(* so that no retry leaks one.                                              *)
OneAttempt ==
    ~misused /\ ~overrun /\ aborted = "none" =>
        /\ TypeOK
        /\ timers <= 1
        /\ channel_ = "in loop" <=> state_ = "kconnecting"
        /\ timers = 1 => state_ = "kdisconnected"
        /\ channel_ = "removed" <=> Queued("ResetChannel")
        /\ connection_ # 0 => /\ state_ = "kconnected"
                              /\ conns[connection_] = "gone" => Dying
        /\ sockets = (IF channel_ = "in loop" \/ accepting THEN 1 ELSE 0)
                + Cardinality({i \in Conns :
                        \/ Up(i) \/ conns[i] = "kdisconnected"
                        \/ /\ conns[i] = "gone"
                           /\ \/ connection_ = i
                              \/ Referenced(i, Range(pending) \cup Range(batch))})

(* None of the assertions of connector.cc and tcp_client.cc fails and no    *)
(* callback finds its object gone, but in three uses the code does not      *)
(* guard against: Connect on a connector that is not at rest (one that has  *)
(* ever connected is not, even after the connection closed); destroying a   *)
(* client with a connection while functors of its connector are queued; and *)
(* destroying it on another thread while a connection comes up, goes down,  *)
(* is connected again or is in a callback.                                  *)
AssertsHold == aborted # "none" => misused \/ hasty \/ overrun

(* After Stop, and until the next Connect, no connection comes up, but the  *)
(* one whose HandleWrite had tested connect_ already, and unless the        *)
(* Restart of a closing connection overtakes the Stop.                      *)
StopIsFinal ==
    [][next_conn_id_' # next_conn_id_ /\ stopped => overtaken \/ slipped]_vars

(* A destroyed client lets go of its connector, on whatever thread and      *)
(* unless something overruns the destructor, and a stopped connector comes  *)
(* to rest: no timer, no channel.                                           *)
ConnectorComesToRest ==
    /\ ~alive ~> ~connector_ \/ overrun \/ aborted # "none"
    /\ stopped ~> \/ timers = 0 /\ channel_ = "none"
                  \/ ~stopped \/ overtaken \/ aborted # "none"
=============================================================================
