------------------------------ MODULE TcpServer ------------------------------
(***************************************************************************)
(* dwater/net/tcp_server.cc with its Acceptor and its EventLoopThreadPool: *)
(* the base loop accepts clients, deals the connections out to the io      *)
(* loops and keeps them in connections_; every loop runs the functors of   *)
(* the others in order (see EventLoop) and the destructor stops the io     *)
(* loops one by one.  A connection is kept as far as its server can tell   *)
(* (see TcpConnection for the rest).  The accepting socket and the         *)
(* descriptors of the loops are not counted.                               *)
(***************************************************************************)
EXTENDS Integers, Sequences, Functions, FiniteSets

CONSTANTS
    Clients,        \* the clients that may connect, each once (the bound)
    MaxThreads,     \* bound: the most SetThreadNum asks for
    MaxFds          \* descriptors the process may open beside the fixed ones

ASSUME ServerAssumption ==
    /\ IsFiniteSet(Clients) /\ MaxThreads \in Nat /\ MaxFds \in Nat \ {0}

VARIABLES
    server,             \* "new", "started", "destructing" or "dead"
    num_thread_, loops_, next_,         \* EventLoopThreadPool
    connections_,
    conn,               \* per client: how far its connection is
    late,               \* the connections another thread is in a ForceClose of
    io_loop,            \* per client: the loop its connection belongs to
    queue,              \* per loop: pending_functors_
    looping, entered,   \* the io loops that exist, those that are in Loop()
    quit,               \* those with quit_ set
    listening_, idle_fd_,               \* Acceptor; idle_fd_: is it open?
    apc,                \* where HandleRead is after a failed accept
    free, others,       \* descriptors left, descriptors other code holds
    aborted,            \* what went wrong, or "none"
    dealt,              \* history: connections given to each loop
    robbed,             \* history: a descriptor was taken in mid HandleRead
    unclean,            \* history: connections were left to the destructor
    revived,            \* history: the ForceClose of these came after their close
    lost                \* history: io loops whose quit_ was reset by Loop()

poolVars == <<num_thread_, loops_, next_, dealt>>
connVars == <<connections_, conn, io_loop, late, revived>>
loopVars == <<queue, looping, entered, quit, lost>>
fdVars == <<idle_fd_, free, others, robbed>>
vars == <<server, poolVars, connVars, loopVars, listening_, apc, fdVars,
          aborted, unclean>>

Base == 0
Loops == 0 .. MaxThreads
Functor(op, c) == [op |-> op, conn |-> c]

(* the connections whose object exists; "destroyed" is one that somebody    *)
(* still holds after its ConnectionDestroyed                                *)
Open == {c \in Clients : conn[c] \in {"kconnecting", "kconnected", "kdisconnecting",
                                      "kdisconnected", "destroyed"}}

(* RemoveConenctionInLoop, which a connection closed twice queues twice *)
RemoveOps == {"Remove", "RemoveAgain"}

(* a functor of the base loop, or the thread in ForceClose, holds it *)
RemoveQueued(c) == \E op \in RemoveOps : Functor(op, c) \in Range(queue[Base])
Held(c) == c \in late \/ RemoveQueued(c)

PoolInit == num_thread_ = 0 /\ loops_ = <<>> /\ next_ = 0

(* the Acceptor opens its spare descriptor at once *)
AcceptorInit == listening_ = FALSE /\ idle_fd_ = TRUE /\ apc = "idle"

Init ==
    /\ server = "new" /\ PoolInit /\ AcceptorInit
    /\ connections_ = {}
    /\ conn = [c \in Clients |-> "none"] /\ io_loop = [c \in Clients |-> Base]
    /\ late = {} /\ revived = {} /\ lost = {}
    /\ queue = [l \in Loops |-> <<>>] /\ looping = {} /\ entered = {} /\ quit = {}
    /\ free = MaxFds /\ others = 0
    /\ aborted = "none" /\ dealt = [l \in Loops |-> 0]
    /\ robbed = FALSE /\ unclean = FALSE

-----------------------------------------------------------------------------
(* EventLoopThreadPool *)

GetAllLoops == IF loops_ = <<>> THEN <<Base>> ELSE loops_

GetLoopForHash(hash) ==
    IF loops_ = <<>> THEN Base ELSE loops_[(hash % Len(loops_)) + 1]

(* mutant: the index wraps one too early *)
NextIndexShort == IF next_ + 1 >= Len(loops_) - 1 THEN 0 ELSE next_ + 1

NextIndex == IF next_ + 1 >= Len(loops_) THEN 0 ELSE next_ + 1

(* GetNextLoop: hands out the loops in turn, the base loop if there is none *)
GetNextLoop(loop) ==
    /\ loop = IF loops_ = <<>> THEN Base ELSE loops_[next_ + 1]
    /\ next_' = IF loops_ = <<>> THEN next_ ELSE NextIndex
    /\ dealt' = [dealt EXCEPT ![loop] = @ + 1]
    /\ UNCHANGED <<num_thread_, loops_>>

-----------------------------------------------------------------------------
(* The base loop's thread, outside of HandleRead and of the destructor *)
BaseIdle == apc = "idle" /\ server # "destructing"

SetThreadNum(n) ==
    /\ server = "new" /\ n # num_thread_
    /\ num_thread_' = n
    /\ UNCHANGED <<server, loops_, next_, dealt, connVars, loopVars, listening_,
                   apc, fdVars, aborted, unclean>>

(* EventLoopThreadPool::Start: one loop after the other, each published     *)
(* before its thread calls Loop() (see EventLoopThread)                     *)
PoolStart ==
    /\ loops_' = [i \in 1 .. num_thread_ |-> i]
    /\ looping' = 1 .. num_thread_

(* Acceptor::Listen: from now on the accepting socket is polled *)
Listen == listening_' = TRUE

(* Start: the pool's Start, then Listen, at once on this thread *)
Start ==
    /\ server = "new"
    /\ server' = "started"
    /\ PoolStart /\ Listen
    /\ UNCHANGED <<num_thread_, next_, dealt, connVars, queue, entered, quit, lost, apc,
                   fdVars, aborted, unclean>>

(* mutant: the connection is not kept *)
NewConnectionUnkept(c) ==
    \E loop \in Loops :
    /\ GetNextLoop(loop)
    /\ io_loop' = [io_loop EXCEPT ![c] = loop]
    /\ IF loop = Base
         THEN conn' = [conn EXCEPT ![c] = "kconnected"] /\ UNCHANGED queue
         ELSE /\ conn' = [conn EXCEPT ![c] = "kconnecting"]
              /\ queue' = [queue EXCEPT ![loop] =
                                Append(@, Functor("ConnectionEstablished", c))]
    /\ UNCHANGED connections_

(* NewConnection: RunInLoop runs ConnectionEstablished at once when the     *)
(* connection belongs to the base loop, and queues it otherwise             *)
NewConnection(c) ==
    \E loop \in Loops :
    /\ GetNextLoop(loop)
    /\ io_loop' = [io_loop EXCEPT ![c] = loop]
    /\ connections_' = connections_ \cup {c}
    /\ IF loop = Base
         THEN conn' = [conn EXCEPT ![c] = "kconnected"] /\ UNCHANGED queue
         ELSE /\ conn' = [conn EXCEPT ![c] = "kconnecting"]
              /\ queue' = [queue EXCEPT ![loop] =
                                Append(@, Functor("ConnectionEstablished", c))]

(* Acceptor::HandleRead, with a descriptor left for the connection *)
Accept(c) ==
    /\ BaseIdle /\ server = "started" /\ listening_
    /\ conn[c] = "waiting" /\ free > 0
    /\ free' = free - 1
    /\ NewConnection(c)
    /\ UNCHANGED <<server, late, revived, looping, entered, quit, lost, listening_, apc, idle_fd_, others,
                   robbed, aborted, unclean>>

(* ... and with none: EMFILE.  Another thread may run between any two of    *)
(* the four calls that give up the spare descriptor and take it back.       *)
AcceptFails ==
    /\ BaseIdle /\ server = "started" /\ listening_
    /\ \E c \in Clients : conn[c] = "waiting"
    /\ free = 0
    /\ apc' = "emfile"
    /\ UNCHANGED <<server, poolVars, connVars, loopVars, listening_, fdVars,
                   aborted, unclean>>

(* socket::Accept takes every error but EMFILE and the passing ones, which  *)
(* change nothing, for fatal: ENFILE, ENOBUFS, ENOMEM ... end the process   *)
AcceptFatal ==
    /\ BaseIdle /\ server = "started" /\ listening_
    /\ \E c \in Clients : conn[c] = "waiting"
    /\ aborted' = "fatal"
    /\ UNCHANGED <<server, poolVars, connVars, loopVars, listening_, apc, fdVars, unclean>>

(* mutant: the spare descriptor is not given up *)
CloseIdleForgotten ==
    /\ apc = "emfile"
    /\ apc' = "closed"
    /\ UNCHANGED <<server, poolVars, connVars, loopVars, listening_, fdVars,
                   aborted, unclean>>

CloseIdle ==
    /\ apc = "emfile"
    /\ free' = IF idle_fd_ THEN free + 1 ELSE free
    /\ idle_fd_' = FALSE
    /\ apc' = "closed"
    /\ UNCHANGED <<server, poolVars, connVars, loopVars, listening_, others, robbed,
                   aborted, unclean>>

(* the accept that only serves to turn the client away *)
AcceptIdle ==
    /\ apc = "closed"
    /\ IF free > 0
         THEN /\ \E c \in Clients : /\ conn[c] = "waiting"
                                    /\ conn' = [conn EXCEPT ![c] = "refused"]
              /\ free' = free - 1 /\ idle_fd_' = TRUE
         ELSE UNCHANGED <<conn, free, idle_fd_>>
    /\ apc' = "taken"
    /\ UNCHANGED <<server, poolVars, connections_, io_loop, late, revived, loopVars, listening_,
                   others, robbed, aborted, unclean>>

CloseTaken ==
    /\ apc = "taken"
    /\ free' = IF idle_fd_ THEN free + 1 ELSE free
    /\ idle_fd_' = FALSE
    /\ apc' = "reopen"
    /\ UNCHANGED <<server, poolVars, connVars, loopVars, listening_, others, robbed,
                   aborted, unclean>>

(* mutant: the spare descriptor is not taken back *)
ReopenForgotten ==
    /\ apc = "reopen"
    /\ apc' = "idle"
    /\ UNCHANGED <<server, poolVars, connVars, loopVars, listening_, fdVars,
                   aborted, unclean>>

Reopen ==
    /\ apc = "reopen"
    /\ idle_fd_' = (free > 0)
    /\ free' = IF free > 0 THEN free - 1 ELSE free
    /\ apc' = "idle"
    /\ UNCHANGED <<server, poolVars, connVars, loopVars, listening_, others, robbed,
                   aborted, unclean>>

(* RemoveConenctionInLoop on the loop's thread: it uses the server, erases  *)
(* the connection and has it destroyed in its own loop                      *)
RemoveConnectionInLoop(c, q) ==
    /\ aborted' = CASE server = "dead" -> "use after free"
                    [] server # "dead" /\ c \notin connections_ -> "erase"
                    [] OTHER -> "none"
    /\ connections_' = connections_ \ {c}
    /\ queue' = [q EXCEPT ![io_loop[c]] =
                        Append(@, Functor("ConnectionDestroyed", c))]

(* ConnectionDestroyed finds a connection it neither takes down nor finds   *)
(* down: Channel::Remove asserts that its events are off, ~TcpConnection    *)
(* that its state is kdisconnected                                          *)
ShuttingDown(c) == conn[c] = "kdisconnecting"

(* ConnectionDestroyed; the last reference to the connection goes with it,  *)
(* unless somebody holds another.  A revived connection has no events, so   *)
(* that the assertion holds, and is held by its ForceCloseInLoop.           *)
ConnectionDestroyed(c) ==
    IF ShuttingDown(c)
      THEN /\ aborted' = IF c \in revived THEN aborted ELSE "kdisconnecting"
           /\ UNCHANGED <<conn, free>>
      ELSE /\ conn' = [conn EXCEPT ![c] = IF Held(c) THEN "destroyed" ELSE "gone"]
           /\ free' = IF Held(c) THEN free ELSE free + 1
           /\ UNCHANGED aborted

RunBaseFunctor ==
    LET f == Head(queue[Base])
        rest == [queue EXCEPT ![Base] = Tail(@)]
    IN
    /\ BaseIdle /\ queue[Base] # <<>>
    /\ \/ /\ f.op \in RemoveOps
          /\ RemoveConnectionInLoop(f.conn, rest)
          /\ UNCHANGED <<conn, free>>
       \/ /\ f.op = "ConnectionDestroyed"
          /\ ConnectionDestroyed(f.conn)
          /\ queue' = rest
          /\ UNCHANGED connections_
    /\ UNCHANGED <<server, poolVars, io_loop, late, revived, looping, entered, quit,
                   lost, listening_, apc, idle_fd_, others, robbed, unclean>>

-----------------------------------------------------------------------------
(* The connections, in their own loops *)

(* the thread of loop may run something of a connection *)
InLoop(loop) == IF loop = Base THEN BaseIdle ELSE loop \in entered

(* Shutdown, called by a callback; the end of the output is TcpConnection's *)
Shutdown(c) ==
    /\ InLoop(io_loop[c]) /\ conn[c] = "kconnected"
    /\ conn' = [conn EXCEPT ![c] = "kdisconnecting"]
    /\ UNCHANGED <<server, poolVars, connections_, io_loop, late, revived, loopVars,
                   listening_, apc, fdVars, aborted, unclean>>

(* HandleClose, of an event or a ForceCloseInLoop, and RemoveConnection,    *)
(* whose RunInLoop queues unless that loop is the base loop                 *)
HandleClose(c) ==
    /\ conn[c] \in {"kconnected", "kdisconnecting"}
    /\ conn' = [conn EXCEPT ![c] = "kdisconnected"]
    /\ InLoop(io_loop[c])
    /\ \/ /\ io_loop[c] = Base
          /\ RemoveConnectionInLoop(c, queue)
       \/ /\ io_loop[c] # Base
          /\ queue' = [queue EXCEPT ![Base] = Append(@,
                    Functor(IF c \in revived THEN "RemoveAgain" ELSE "Remove", c))]
          /\ UNCHANGED <<connections_, aborted>>
    /\ UNCHANGED <<server, poolVars, io_loop, late, revived, looping, entered, quit,
                   lost, listening_, apc, fdVars, unclean>>

(* ForceClose on another thread: it tests state_ ... *)
TestState(c) ==
    /\ conn[c] \in {"kconnected", "kdisconnecting"} /\ c \notin late \cup revived
    /\ late' = late \cup {c}
    /\ UNCHANGED <<server, poolVars, connections_, conn, io_loop, revived, loopVars,
                   listening_, apc, fdVars, aborted, unclean>>

(* ... and, later, stores kdisconnecting and queues ForceCloseInLoop, which *)
(* is a HandleClose to come, in a loop that may be gone.  After a close it  *)
(* revives the connection.                                                  *)
StoreState(c) ==
    /\ c \in late
    /\ late' = late \ {c}
    /\ conn' = [conn EXCEPT ![c] = "kdisconnecting"]
    /\ revived' = IF conn[c] \in {"kdisconnected", "destroyed"}
                    THEN revived \cup {c} ELSE revived
    /\ aborted' = IF io_loop[c] = Base \/ io_loop[c] \in looping
                    THEN aborted ELSE "use after free"
    /\ UNCHANGED <<server, poolVars, connections_, io_loop, loopVars, listening_, apc,
                   fdVars, unclean>>

(* EventLoop::Loop() begins: it forgets a Quit that came before *)
EnterLoop(loop) ==
    /\ loop \in looping \ entered
    /\ entered' = entered \cup {loop}
    /\ quit' = quit \ {loop}
    /\ lost' = lost \cup (quit \cap {loop})
    /\ UNCHANGED <<server, poolVars, connVars, queue, looping, listening_, apc, fdVars,
                   aborted, unclean>>

(* an io loop runs a functor *)
RunFunctor(loop) ==
    LET f == Head(queue[loop]) IN
    /\ loop \in entered /\ queue[loop] # <<>>
    /\ queue' = [queue EXCEPT ![loop] = Tail(@)]
    /\ \/ /\ f.op = "ConnectionEstablished"
          /\ conn' = [conn EXCEPT ![f.conn] = "kconnected"]
          /\ UNCHANGED <<free, aborted>>
       \/ f.op = "ConnectionDestroyed" /\ ConnectionDestroyed(f.conn)
    /\ UNCHANGED <<server, poolVars, connections_, io_loop, late, revived, looping,
                   entered, quit, lost, listening_, apc, idle_fd_, others, robbed, unclean>>

(* an io loop sees quit_ and ends with what is still queued, the            *)
(* ForceCloseInLoop of a revived connection included; ~TcpConnection and    *)
(* ~Channel assert that a connection they destroy was taken down            *)
LeaveLoop(loop) ==
    LET dropped == {f.conn : f \in Range(queue[loop])} \cup
                   {c \in revived : io_loop[c] = loop /\ conn[c] = "kdisconnecting"}
    IN
    /\ loop \in entered /\ loop \in quit
    /\ looping' = looping \ {loop} /\ entered' = entered \ {loop}
    /\ queue' = [queue EXCEPT ![loop] = <<>>]
    /\ aborted' = IF \E c \in dropped : ~Held(c) THEN "destroyed while up" ELSE aborted
    /\ UNCHANGED <<server, poolVars, connVars, quit, lost, listening_, apc, fdVars,
                   unclean>>

-----------------------------------------------------------------------------
(* ~TcpServer, on the base loop's thread *)
BeginDestructor ==
    /\ BaseIdle /\ server \in {"new", "started"}
    /\ server' = "destructing"
    /\ unclean' = (Open # {})
    /\ UNCHANGED <<poolVars, connVars, loopVars, listening_, apc, fdVars, aborted>>

(* its body: RunInLoop(ConnectionDestroyed) for every connection *)
DestroyConnection(c) ==
    /\ server = "destructing" /\ c \in connections_
    /\ connections_' = connections_ \ {c}
    /\ IF io_loop[c] = Base
         THEN ConnectionDestroyed(c) /\ UNCHANGED queue
         ELSE /\ queue' = [queue EXCEPT ![io_loop[c]] =
                                Append(@, Functor("ConnectionDestroyed", c))]
              /\ UNCHANGED <<conn, free, aborted>>
    /\ UNCHANGED <<server, poolVars, io_loop, late, revived, looping, entered, quit,
                   lost, listening_, apc, idle_fd_, others, robbed, unclean>>

(* then the members: thread_pool_ quits and joins its threads in turn ...   *)
QuitLoop(loop) ==
    /\ server = "destructing" /\ connections_ = {}
    /\ loop \in looping \ (quit \cup lost) /\ \A l \in 1 .. loop - 1 : l \notin looping
    /\ quit' = quit \cup {loop}
    /\ UNCHANGED <<server, poolVars, connVars, queue, looping, entered, lost, listening_,
                   apc, fdVars, aborted, unclean>>

(* mutant: does not wait for the io loops *)
EndDestructorEarly ==
    /\ server = "destructing" /\ connections_ = {} /\ looping \subseteq quit
    /\ server' = "dead"
    /\ listening_' = FALSE /\ idle_fd_' = FALSE
    /\ free' = IF idle_fd_ THEN free + 1 ELSE free
    /\ UNCHANGED <<poolVars, connVars, loopVars, apc, others, robbed, aborted, unclean>>

(* ... and acceptor_ leaves its loop and closes the spare descriptor        *)
EndDestructor ==
    /\ server = "destructing" /\ connections_ = {} /\ looping = {}
    /\ server' = "dead"
    /\ listening_' = FALSE /\ idle_fd_' = FALSE
    /\ free' = IF idle_fd_ THEN free + 1 ELSE free
    /\ UNCHANGED <<poolVars, connVars, loopVars, apc, others, robbed, aborted, unclean>>

-----------------------------------------------------------------------------
(* The world: clients, and other code of the process that opens files *)

Connect(c) ==
    /\ conn[c] = "none" /\ server = "started"
    /\ conn' = [conn EXCEPT ![c] = "waiting"]
    /\ UNCHANGED <<server, poolVars, connections_, io_loop, late, revived, loopVars,
                   listening_, apc, fdVars, aborted, unclean>>

OpenFile ==
    /\ free > 0
    /\ free' = free - 1 /\ others' = others + 1
    /\ robbed' = (robbed \/ apc # "idle")
    /\ UNCHANGED <<server, poolVars, connVars, loopVars, listening_, apc, idle_fd_,
                   aborted, unclean>>

CloseFile ==
    /\ others > 0
    /\ free' = free + 1 /\ others' = others - 1
    /\ UNCHANGED <<server, poolVars, connVars, loopVars, listening_, apc, idle_fd_,
                   robbed, aborted, unclean>>

-----------------------------------------------------------------------------
HandleRead == \/ \E c \in Clients : Accept(c)
              \/ AcceptFails \/ CloseIdle \/ AcceptIdle \/ CloseTaken \/ Reopen

Destructor == \/ \E c \in Clients : DestroyConnection(c)
              \/ \E loop \in Loops : QuitLoop(loop)
              \/ EndDestructor

Next ==
    /\ aborted = "none"
    /\ \/ \E n \in 0 .. MaxThreads : SetThreadNum(n)
       \/ Start \/ HandleRead \/ RunBaseFunctor
       \/ \E c \in Clients : \/ Shutdown(c) \/ HandleClose(c)
                             \/ TestState(c) \/ StoreState(c)
       \/ \E loop \in Loops : EnterLoop(loop) \/ RunFunctor(loop) \/ LeaveLoop(loop)
       \/ BeginDestructor \/ Destructor
       \/ \E c \in Clients : Connect(c)
       \/ OpenFile \/ CloseFile \/ AcceptFatal

Spec == Init /\ [][Next]_vars

(* Every thread goes on with what it has begun: the io loops enter Loop()   *)
(* and run their functors, the base loop handles the accepting socket, a    *)
(* loop told to quit leaves, a ForceClose is finished.  The base loop comes *)
(* to its functors after every round of events, so that handling one client *)
(* after another does not keep it away (SF).  Nobody has to connect, close  *)
(* or destroy the server.                                                   *)
Fairness ==
    LET Alive(A) == aborted = "none" /\ A IN
    /\ WF_vars(Alive(HandleRead)) /\ SF_vars(Alive(RunBaseFunctor))
    /\ WF_vars(Alive(Destructor))
    /\ \A c \in Clients : WF_vars(Alive(StoreState(c)))
    /\ \A loop \in Loops : /\ WF_vars(Alive(EnterLoop(loop)))
                           /\ WF_vars(Alive(RunFunctor(loop)))
                           /\ WF_vars(Alive(LeaveLoop(loop)))

FairSpec == Spec /\ Fairness

-----------------------------------------------------------------------------
(* Every variable has its type. *)
TypeOK ==
    /\ server \in {"new", "started", "destructing", "dead"}
    /\ num_thread_ \in 0 .. MaxThreads /\ next_ \in 0 .. MaxThreads
    /\ loops_ \in Seq(Loops) /\ connections_ \subseteq Clients
    /\ conn \in [Clients -> {"none", "waiting", "refused", "kconnecting",
                             "kconnected", "kdisconnecting", "kdisconnected",
                             "destroyed", "gone"}]
    /\ late \subseteq Clients /\ revived \subseteq Clients
    /\ io_loop \in [Clients -> Loops]
    /\ DOMAIN queue = Loops
    /\ looping \subseteq 1 .. num_thread_ /\ entered \subseteq looping
    /\ quit \subseteq 1 .. num_thread_ /\ lost \subseteq 1 .. num_thread_
    /\ listening_ \in BOOLEAN /\ idle_fd_ \in BOOLEAN
    /\ apc \in {"idle", "emfile", "closed", "taken", "reopen"}
    /\ free \in 0 .. MaxFds + 1 /\ others \in 0 .. MaxFds + 1

(* The pool deals connections out evenly: no loop has been given two more   *)
(* than another, and whatever the hash, GetLoopForHash names one of them.   *)
LoopsAreBalanced ==
    LET loops == Range(GetAllLoops) IN
    /\ \A l1, l2 \in loops : dealt[l1] <= dealt[l2] + 1
    /\ \A hash \in 0 .. 2 * MaxThreads : GetLoopForHash(hash) \in loops

(* While the server stands no connection is forgotten and none is kept too  *)
(* long: connections_ holds a connection until exactly one                  *)
(* ConnectionDestroyed for it is queued, in the connection's own loop; only *)
(* one that a late ForceClose revived may wait for nothing.  And every      *)
(* descriptor is accounted for, so that none leaks.                         *)
NoneForgotten ==
    LET Destroying(c, l) ==
            {i \in DOMAIN queue[l] : queue[l][i] = Functor("ConnectionDestroyed", c)}
    IN
    /\ TypeOK
    /\ server = "started" /\ aborted = "none" => \A c \in Open :
        /\ c \in connections_ => Destroying(c, io_loop[c]) = {}
        /\ c \in connections_ \/ conn[c] = "destroyed" \/ c \in revived
           \/ Destroying(c, io_loop[c]) # {}
        /\ \A l \in Loops : Cardinality(Destroying(c, l)) <= (IF l = io_loop[c] THEN 1 ELSE 0)
    /\ server \in {"new", "started"} =>
        free + others + Cardinality(Open) + (IF idle_fd_ THEN 1 ELSE 0) = MaxFds + 1

(* The acceptor gets its spare descriptor back every time it has turned a   *)
(* client away, unless other code of the process opened a file in between.  *)
SpareDescriptorKept ==
    server = "started" /\ apc = "idle" /\ ~robbed => idle_fd_

(* A client is accepted or turned away, even with no descriptor left, as    *)
(* long as the spare one is there; a connection that closed is destroyed    *)
(* unless a late ForceClose revives it; the destructor waits for its io     *)
(* loops and returns, unless one of them had not entered Loop() and forgot  *)
(* the Quit.                                                                *)
ServerProgresses ==
    /\ \A c \in Clients :
        /\ conn[c] = "waiting" ~> \/ conn[c] # "waiting" \/ server # "started"
                                  \/ robbed \/ aborted # "none"
        /\ conn[c] = "kdisconnected" ~> \/ conn[c] = "gone" \/ server # "started"
                                        \/ c \in revived \/ aborted # "none"
    /\ server = "destructing" ~> server = "dead" \/ lost # {} \/ aborted # "none"

(* As long as no late ForceClose revives a closed connection, nothing but a *)
(* fatal error of accept ends the process while the server stands, and its  *)
(* destructor is clean when every connection has been destroyed before.     *)
(* Without io loops it is clean unless one of the connections was being     *)
(* shut down; with io loops one of them may also leave with a               *)
(* ConnectionDestroyed queued, and a RemoveConnection or a ForceClose may   *)
(* find the server or the loop gone.                                        *)
CleanWithoutConnections ==
    aborted \notin {"none", "fatal"} /\ revived = {} =>
        /\ unclean
        /\ aborted = "kdisconnecting" => \E c \in Clients : conn[c] = "kdisconnecting"
        /\ aborted # "kdisconnecting" => num_thread_ > 0
        /\ aborted = "destroyed while up" => server = "destructing"
        /\ aborted # "erase"
=============================================================================
