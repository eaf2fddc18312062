-------------------------- MODULE TcpClientProofs --------------------------
(***************************************************************************)
(* What TcpClient and its Connector promise, proved for any number of      *)
(* connections and calls and any delays: one attempt at a time, no socket  *)
(* leaked, no assertion failed but in the uses that provoke it, on any     *)
(* thread, and no connection after a Stop that came in time.               *)
(***************************************************************************)
EXTENDS TcpClient, SequenceTheorems, FiniteSetTheorems, TLAPS

FunctorOps ==
    ConnectorFunctors \cup {"ForceCloseInLoop", "SetCloseCallback", "ConnectionDestroyed"}
Functors == [op : FunctorOps, conn : 0 .. MaxConns]
OnceOps == {"StartInLoop", "ResetChannel", "ConnectionDestroyed"}

(* the functors still to be run *)
InQueue == Range(pending) \cup Range(batch)
Waits(op, i) == ConnFunctor(op, i) \in InQueue

(* where the other thread is *)
Outside == Ops \cup {"idle"}
Late == {"force", "store", "end"}

Types ==
    /\ state_ \in {"kdisconnected", "kconnecting", "kconnected"}
    /\ channel_ \in {"none", "in loop", "removed"}
    /\ retry_delay_ms_ \in kinit_retry_delay_ms .. kmax_retry_delay_ms
    /\ timers \in {0, 1} /\ connection_ \in 0 .. MaxConns
    /\ next_conn_id_ \in 1 .. MaxConns + 1
    /\ conns \in [Conns -> {"none", "kconnected", "kdisconnecting", "kdisconnected", "gone"}]
    /\ attached \subseteq Conns /\ shared \subseteq Conns
    /\ upc \in Outside \cup Destructor \cup {"dead"}
    /\ conn \in 0 .. MaxConns /\ calls \in 0 .. MaxCalls

(* No functor that must run once is queued twice. *)
Single(p, b) ==
    /\ p \in Seq(Functors) /\ b \in Seq(Functors)
    /\ \A i, j \in DOMAIN p : p[i] = p[j] /\ p[i].op \in OnceOps => i = j
    /\ \A i, j \in DOMAIN b : b[i] = b[j] /\ b[i].op \in OnceOps => i = j
    /\ \A f \in Range(p) \cap Range(b) : f.op \notin OnceOps

QueueInv == Single(pending, batch) /\ (~calling => batch = <<>>)

(* One attempt, and one way to begin the next. *)
AttemptInv ==
    /\ channel_ = "in loop" <=> state_ = "kconnecting"
    /\ timers = 1 => state_ = "kdisconnected"
    /\ channel_ = "removed" <=> Queued("ResetChannel")
    /\ Queued("StartInLoop") => state_ = "kdisconnected" /\ channel_ = "none" /\ timers = 0
    /\ Midway => /\ state_ = "kconnected" /\ connection_ = 0 /\ timers = 0
                 /\ alive \/ Dying
    /\ restarting => channel_ = "none" /\ ~accepting
    /\ accepting => next_conn_id_ <= MaxConns

(* What a functor that waits says of its connection. *)
FunctorOK(f) ==
    /\ f.op \in ConnectorFunctors => f.conn = 0
    /\ f.op \notin ConnectorFunctors => f.conn \in Conns /\ conns[f.conn] # "none"
    /\ f.op = "ConnectionDestroyed" => conns[f.conn] = "kdisconnected"
    /\ f.op = "ForceCloseInLoop" => f.conn \notin attached \/ Dying
    /\ f.op = "SetCloseCallback" => upc \in Late \cup {"dead"}

(* What waits for connection i: its close callback to be taken back, its    *)
(* end, and somebody to close it when nobody else could.                    *)
Tended(i) ==
    /\ i \in attached =>
            /\ conns[i] # "none"
            /\ Up(i) => Waits("SetCloseCallback", i) \/ (connection_ = i /\ upc \notin Late)
    /\ conns[i] = "kdisconnected" => Waits("ConnectionDestroyed", i)
    /\ Up(i) /\ i \notin shared /\ (connection_ # i \/ upc = "end") =>
            Waits("ForceCloseInLoop", i)

(* The client's connection is the one that is up with its callback, until   *)
(* a destructor on the other thread has queued the callback's change.       *)
ConnInv ==
    /\ \A i \in Conns : conns[i] = "none" <=> i >= next_conn_id_
    /\ \A i \in Conns : Tended(i)
    /\ connection_ # 0 =>
            /\ alive /\ state_ = "kconnected" /\ conns[connection_] # "none"
            /\ upc \notin Late => connection_ \in attached /\ Up(connection_)
    /\ \A f \in InQueue : FunctorOK(f)

(* How far a destructor on the other thread is. *)
DestructorInv ==
    /\ upc \in Destructor => alive /\ connection_ = conn
    /\ upc = "detach" => conn # 0 /\ (~unique => conn \in shared)
    /\ upc \in {"force", "store"} => conn # 0
    /\ upc \in {"stop", "keep"} => conn = 0
    /\ upc = "dead" => ~alive

(* the connections with a socket *)
Kept(i) == connection_ = i \/ Referenced(i, InQueue)
Held == {i \in Conns : Up(i) \/ conns[i] = "kdisconnected" \/ (conns[i] = "gone" /\ Kept(i))}

Attempted == channel_ = "in loop" \/ accepting
SocketInv == sockets = (IF Attempted THEN 1 ELSE 0) + Cardinality(Held)

(* a destructor has stopped the connector; only timers keep it *)
Stopping == (upc \in {"keep", "end"} /\ conn = 0) \/ (~alive /\ keep_alive)
Released == (~alive \/ (upc = "end" /\ conn = 0)) /\ ~keep_alive

(* Who keeps the connector, and what the destructor has left to it. *)
OwnerInv ==
    /\ alive /\ keep_alive => upc = "end" /\ conn = 0
    /\ ~alive => /\ upc \in {"idle", "dead"} /\ connection_ = 0
                 /\ ~connector_connect_ \/ state_ = "kconnected"
    /\ ~connector_ => ~alive /\ ~keep_alive /\ timers = 0
    /\ Stopping => ~connector_connect_ /\ (state_ = "kconnecting" => Queued("StopInLoop"))
    /\ Released /\ ~hasty => channel_ = "none" /\ \A o \in ConnectorFunctors : ~Queued(o)

Working == ~misused /\ ~overrun /\ aborted = "none"

Sound ==
    Types /\ QueueInv /\ AttemptInv /\ ConnInv /\ DestructorInv /\ SocketInv /\ OwnerInv

ClientInv ==
    /\ Working => Sound
    /\ AssertsHold
    /\ stopped /\ connector_connect_ => overtaken
    /\ stopped /\ accepting => overtaken \/ slipped

-----------------------------------------------------------------------------
(* The queue of the loop. *)

LEMMA FunctorIs ==
    ASSUME NEW o \in ConnectorFunctors
    PROVE  Functor(o) \in Functors /\ Functor(o).op = o /\ Functor(o).conn = 0
  BY ClientAssumption DEF Functor, Functors, FunctorOps

LEMMA ConnFunctorIs ==
    ASSUME NEW o \in FunctorOps, NEW i \in Conns
    PROVE  ConnFunctor(o, i) \in Functors /\ ConnFunctor(o, i).op = o /\ ConnFunctor(o, i).conn = i
  BY ClientAssumption DEF ConnFunctor, Functors, FunctorOps, Conns

LEMMA QueuedIsFunctor ==
    ASSUME NEW q \in Seq(Functors), NEW f \in Range(q)
    PROVE  f \in Functors
<1> HIDE DEF Functors
<1>1. \A i \in DOMAIN q : q[i] \in Functors
  BY ElementOfSeq, LenProperties
<1> QED
  BY <1>1 DEF Range

(* f may be queued behind what waits already *)
MayPush(p, b, f) ==
    /\ Single(p, b) /\ f \in Functors
    /\ f.op \in OnceOps => f \notin Range(p) \cup Range(b)

LEMMA PushKeeps ==
    ASSUME NEW p, NEW b, NEW f, MayPush(p, b, f)
    PROVE  Single(Append(p, f), b) /\ Range(Append(p, f)) = Range(p) \cup {f}
<1> DEFINE r == Append(p, f)
<1>1. /\ p \in Seq(Functors) /\ b \in Seq(Functors) /\ f \in Functors
      /\ \A i, j \in DOMAIN p : p[i] = p[j] /\ p[i].op \in OnceOps => i = j
      /\ \A i, j \in DOMAIN b : b[i] = b[j] /\ b[i].op \in OnceOps => i = j
      /\ \A g \in Range(p) \cap Range(b) : g.op \notin OnceOps
      /\ f.op \in OnceOps => f \notin Range(p) \cup Range(b)
  BY DEF MayPush, Single
<1> HIDE DEF Functors
<1>2. /\ r \in Seq(Functors) /\ Len(r) = Len(p) + 1
      /\ \A i \in 1 .. Len(p) : r[i] = p[i]
      /\ r[Len(p) + 1] = f
  BY <1>1, AppendProperties
<1>3. Len(p) \in Nat /\ DOMAIN p = 1 .. Len(p) /\ DOMAIN r = 1 .. Len(p) + 1
  BY <1>1, <1>2, LenProperties
<1> HIDE DEF r
<1>4. f.op \in OnceOps => \A i \in 1 .. Len(p) : p[i] # f
  BY <1>1, <1>3 DEF Range
<1>5. ASSUME NEW i \in DOMAIN r, NEW j \in DOMAIN r, r[i] = r[j], r[i].op \in OnceOps
      PROVE  i = j
  <2>1. CASE i \in 1 .. Len(p) /\ j \in 1 .. Len(p)
    BY <1>1, <1>2, <1>3, <1>5, <2>1
  <2>2. CASE i = Len(p) + 1 \/ j = Len(p) + 1
    BY <1>2, <1>3, <1>4, <1>5, <2>2
  <2> QED
    BY <1>3, <2>1, <2>2
<1>6. Range(r) = Range(p) \cup {f}
  <2>1. \A i \in DOMAIN r : r[i] \in Range(p) \cup {f}
    BY <1>2, <1>3 DEF Range
  <2>2. \A i \in DOMAIN p : p[i] \in Range(r)
    BY <1>2, <1>3 DEF Range
  <2>3. f \in Range(r)
    BY <1>2, <1>3 DEF Range
  <2> QED
    BY <2>1, <2>2, <2>3 DEF Range
<1>7. \A g \in Range(r) \cap Range(b) : g.op \notin OnceOps
  BY <1>1, <1>6
<1>8. Single(r, b)
  BY <1>1, <1>2, <1>5, <1>7 DEF Single
<1> QED
  BY <1>6, <1>8 DEF r

LEMMA PopKeeps ==
    ASSUME NEW p, NEW b, Single(p, b), b # <<>>
    PROVE  /\ Single(p, Tail(b)) /\ Head(b) \in Functors /\ Head(b) \in Range(b)
           /\ Range(b) = Range(Tail(b)) \cup {Head(b)}
           /\ Head(b).op \in OnceOps => Head(b) \notin Range(p) \cup Range(Tail(b))
<1> DEFINE t == Tail(b)
<1>1. /\ p \in Seq(Functors) /\ b \in Seq(Functors)
      /\ \A i, j \in DOMAIN p : p[i] = p[j] /\ p[i].op \in OnceOps => i = j
      /\ \A i, j \in DOMAIN b : b[i] = b[j] /\ b[i].op \in OnceOps => i = j
      /\ \A g \in Range(p) \cap Range(b) : g.op \notin OnceOps
  BY DEF Single
<1> HIDE DEF Functors
<1>2. /\ Head(b) \in Functors /\ t \in Seq(Functors) /\ Len(t) = Len(b) - 1
      /\ \A i \in 1 .. Len(t) : t[i] = b[i + 1]
      /\ Head(b) = b[1]
  BY <1>1, HeadTailProperties
<1>3. /\ Len(b) \in Nat \ {0} /\ DOMAIN b = 1 .. Len(b) /\ DOMAIN t = 1 .. Len(b) - 1
  BY <1>1, <1>2, EmptySeq, LenProperties
<1> HIDE DEF t
<1>4. \A i \in DOMAIN t : i + 1 \in DOMAIN b /\ i + 1 # 1 /\ t[i] = b[i + 1] /\ i \in Nat
  BY <1>2, <1>3
<1>5. 1 \in DOMAIN b
  BY <1>3
<1>6. Range(b) = Range(t) \cup {b[1]}
  <2>1. \A i \in DOMAIN t : t[i] \in Range(b)
    BY <1>4 DEF Range
  <2>2. ASSUME NEW i \in DOMAIN b, i # 1 PROVE b[i] \in Range(t)
    <3>1. i - 1 \in DOMAIN t /\ t[i - 1] = b[i]
      BY <1>2, <1>3, <2>2
    <3> QED
      BY <3>1 DEF Range
  <2>3. b[1] \in Range(b)
    BY <1>5 DEF Range
  <2> QED
    BY <2>1, <2>2, <2>3 DEF Range
<1>7. ASSUME NEW i \in DOMAIN t, NEW j \in DOMAIN t, t[i] = t[j], t[i].op \in OnceOps PROVE i = j
  <2>1. i + 1 = j + 1 /\ i \in Nat /\ j \in Nat
    BY <1>1, <1>4, <1>7
  <2> QED
    BY <2>1
<1>8. b[1].op \in OnceOps => b[1] \notin Range(t)
  <2>1. \A i \in DOMAIN t : t[i] = b[1] => b[1].op \notin OnceOps
    BY <1>1, <1>4, <1>5
  <2> QED
    BY <2>1 DEF Range
<1>9. b[1].op \in OnceOps => b[1] \notin Range(p)
  BY <1>1, <1>6
<1>10. Single(p, t)
  <2>1. \A g \in Range(p) \cap Range(t) : g.op \notin OnceOps
    BY <1>1, <1>6
  <2> QED
    BY <1>1, <1>2, <1>7, <2>1 DEF Single
<1> QED
  BY <1>2, <1>5, <1>6, <1>8, <1>9, <1>10 DEF t, Range

LEMMA EmptyRange == Range(<<>>) = {}
  BY DEF Range

LEMMA SwapKeeps ==
    ASSUME NEW p, Single(p, <<>>)
    PROVE  Single(<<>>, p)
<1>1. DOMAIN <<>> = {} /\ p \in Seq(Functors) /\ <<>> \in Seq(Functors)
  BY EmptySeq DEF Single
<1> QED
  BY <1>1, EmptyRange DEF Single

-----------------------------------------------------------------------------
(* The sockets of the connections. *)

LEMMA HeldCounts == IsFiniteSet(Held) /\ Cardinality(Held) \in Nat
<1>1. IsFiniteSet(Conns)
  BY ClientAssumption, FS_Interval DEF Conns
<1>2. IsFiniteSet(Held)
  BY <1>1, FS_Subset DEF Held
<1> QED
  BY <1>2, FS_CardinalityType

LEMMA HeldStep ==
    ASSUME NEW i \in Conns
    PROVE  /\ Held' = Held \cup {i} /\ i \notin Held => Cardinality(Held') = Cardinality(Held) + 1
           /\ Held' = Held \ {i} /\ i \in Held =>
                    Cardinality(Held') = Cardinality(Held) - 1
<1>1. IsFiniteSet(Held) /\ Cardinality(Held) \in Nat
  BY HeldCounts
<1> HIDE DEF Held
<1>2. i \notin Held => Cardinality(Held \cup {i}) = Cardinality(Held) + 1
  BY <1>1, FS_AddElement
<1>3. i \in Held => Cardinality(Held \ {i}) = Cardinality(Held) - 1
  BY <1>1, FS_RemoveElement
<1> QED
  BY <1>2, <1>3

(* A step that concerns connection i only, as far as sockets go. *)
Elsewhere(i) ==
    /\ \A j \in Conns \ {i} : /\ conns'[j] = conns[j]
                              /\ connection_' = j <=> connection_ = j
                              /\ j \in shared' <=> j \in shared
    /\ \A g : g.conn \in Conns \ {i} => (g \in InQueue' <=> g \in InQueue)

LEMMA HeldElsewhere ==
    ASSUME NEW i \in Conns, Elsewhere(i)
    PROVE  /\ (i \in Held <=> i \in Held') => Held' = Held
           /\ i \in Held /\ i \notin Held' => Cardinality(Held') = Cardinality(Held) - 1
           /\ i \notin Held /\ i \in Held' => Cardinality(Held') = Cardinality(Held) + 1
<1>1. ASSUME NEW j \in Conns \ {i} PROVE j \in Held' <=> j \in Held
  <2>1. conns'[j] = conns[j] /\ (connection_' = j <=> connection_ = j) /\ (j \in shared' <=> j \in shared)
    BY DEF Elsewhere
  <2>2. Up(j)' <=> Up(j)
    BY <2>1 DEF Up
  <2>3. (\E g \in InQueue' : g.conn = j) <=> (\E g \in InQueue : g.conn = j)
    BY DEF Elsewhere
  <2>4. Kept(j)' <=> Kept(j)
    BY <2>1, <2>3 DEF Kept, Referenced
  <2> QED
    BY <2>1, <2>2, <2>4 DEF Held
<1>2. Held \subseteq Conns /\ Held' \subseteq Conns
  BY DEF Held
<1>3. (i \in Held <=> i \in Held') => Held' = Held
  BY <1>1, <1>2
<1>4. i \in Held /\ i \notin Held' => Held' = Held \ {i}
  BY <1>1, <1>2
<1>5. i \notin Held /\ i \in Held' => Held' = Held \cup {i}
  BY <1>1, <1>2
<1> QED
  BY <1>3, <1>4, <1>5, HeldStep

-----------------------------------------------------------------------------
(* What a step may leave alone. *)

(* what an action has to show *)
Good ==
    /\ aborted' = "none" /\ ~overrun' => Sound'
    /\ aborted' # "none" => hasty' \/ overrun'

(* the other thread is not in a destructor, or does not go on in it *)
QuietUser ==
    /\ UNCHANGED <<conn, unique>>
    /\ upc' = upc \/ (alive /\ upc \in Outside /\ upc' \in Outside)

(* the other thread does nothing that the connections notice *)
UserMoves ==
    /\ Dying => Dying'
    /\ upc \in Late \cup {"dead"} => upc' \in Late \cup {"dead"}
    /\ connection_ = 0 \/ (upc \in Late <=> upc' \in Late)
    /\ upc' = "end" => upc = "end" \/ connection_ = 0 \/ ~Up(connection_)

LEMMA ConnIsConn ==
    ASSUME NEW c \in 0 .. MaxConns, c # 0
    PROVE  c \in Conns
  BY ClientAssumption DEF Conns

LEMMA QuietUserIs ==
    ASSUME Sound, QuietUser, UNCHANGED <<alive, keep_alive>>
    PROVE  /\ UserMoves /\ (Dying' <=> Dying) /\ (~alive => upc' = upc)
           /\ (Stopping' <=> Stopping) /\ (Released' <=> Released)
           /\ upc' \in Outside \cup Destructor \cup {"dead"} /\ conn' \in 0 .. MaxConns
           /\ alive /\ keep_alive => upc' = "end" /\ conn' = 0
<1>1. upc \in Outside \cup Destructor \cup {"dead"} /\ conn \in 0 .. MaxConns
      /\ (alive /\ keep_alive => upc = "end" /\ conn = 0)
  BY DEF Sound, Types, OwnerInv
<1>2. CASE upc' = upc
  BY <1>1, <1>2 DEF QuietUser, UserMoves, Dying, Stopping, Released
<1>3. CASE alive /\ upc \in Outside /\ upc' \in Outside
  BY <1>1, <1>3 DEF QuietUser, UserMoves, Dying, Stopping, Released, Outside, Ops, Destructor, Late
<1> QED
  BY <1>2, <1>3 DEF QuietUser

LEMMA DestructorKept ==
    ASSUME Sound, QuietUser, UNCHANGED <<alive, connection_, shared>>
    PROVE  DestructorInv'
<1>1. CASE upc' = upc
  BY <1>1 DEF QuietUser, Sound, DestructorInv
<1>2. CASE upc' \in Outside
  BY <1>2 DEF DestructorInv, Outside, Ops, Destructor
<1> QED
  BY <1>1, <1>2 DEF QuietUser

(* a step that leaves the client's connections alone *)
SameClient ==
    /\ UNCHANGED <<connection_, next_conn_id_, conns, attached, shared, alive>>
    /\ \A f \in InQueue' :
            f \in InQueue \/ (f.op \in ConnectorFunctors /\ f.conn = 0)
    /\ \A f \in InQueue : f \in InQueue' \/ f.conn = 0

LEMMA SameClientKeeps ==
    ASSUME Sound, SameClient, UserMoves, connection_ # 0 => state_' = state_
    PROVE  ConnInv' /\ Held' = Held
<1>1. \A i : Up(i)' <=> Up(i)
  BY DEF SameClient, Up
<1>2. ASSUME NEW i \in Conns, NEW o PROVE Waits(o, i) => Waits(o, i)'
  <2>1. ConnFunctor(o, i).conn = i /\ i # 0
    BY DEF ConnFunctor, Conns
  <2>2. ConnFunctor(o, i)' = ConnFunctor(o, i)
    BY DEF ConnFunctor
  <2> QED
    BY <2>1, <2>2 DEF Waits, SameClient
<1>3. Held' = Held
  <2>1. ASSUME NEW i \in Conns PROVE Kept(i)' <=> Kept(i)
    <3>1. i # 0
      BY DEF Conns
    <3>2. (\E g \in InQueue' : g.conn = i) <=> (\E g \in InQueue : g.conn = i)
      BY <3>1 DEF SameClient
    <3> QED
      BY <3>2 DEF SameClient, Kept, Referenced
  <2> QED
    BY <1>1, <2>1 DEF SameClient, Held
<1>4. ASSUME NEW f \in InQueue' PROVE FunctorOK(f)'
  <2>1. CASE f \in InQueue
    <3>1. FunctorOK(f)
      BY <2>1 DEF Sound, ConnInv
    <3> QED
      BY <3>1 DEF FunctorOK, SameClient, UserMoves
  <2>2. CASE f.op \in ConnectorFunctors /\ f.conn = 0
    BY <2>2 DEF FunctorOK, ConnectorFunctors
  <2> QED
    BY <2>1, <2>2 DEF SameClient
<1>5. ASSUME NEW i \in Conns PROVE Tended(i)'
  <2>1. Tended(i) /\ i # 0
    BY DEF Sound, ConnInv, Conns
  <2>2. /\ i \in attached' => i \in attached
        /\ conns'[i] = conns[i] /\ (i \in shared' <=> i \in shared) /\ connection_' = connection_
    BY DEF SameClient
  <2>3. connection_ = i => (upc \in Late <=> upc' \in Late)
    BY <2>1 DEF UserMoves
  <2>4. upc' = "end" => upc = "end" \/ connection_ = 0 \/ ~Up(connection_)
    BY DEF UserMoves
  <2>5. i \in attached' =>
            /\ conns'[i] # "none"
            /\ Up(i)' => Waits("SetCloseCallback", i)' \/ (connection_' = i /\ upc' \notin Late)
    BY <1>1, <1>2, <2>1, <2>2, <2>3 DEF Tended
  <2>6. conns'[i] = "kdisconnected" => Waits("ConnectionDestroyed", i)'
    BY <1>2, <2>1, <2>2 DEF Tended
  <2>7. Up(i)' /\ i \notin shared' /\ (connection_' # i \/ upc' = "end") =>
            Waits("ForceCloseInLoop", i)'
    BY <1>1, <1>2, <2>1, <2>2, <2>4 DEF Tended
  <2> QED
    BY <2>5, <2>6, <2>7, Zenon DEF Tended
<1>6. (connection_ # 0 =>
            /\ alive /\ state_ = "kconnected" /\ conns[connection_] # "none"
            /\ upc \notin Late => connection_ \in attached /\ Up(connection_))'
  BY DEF Sound, ConnInv, SameClient, UserMoves, Up
<1>7. \A i \in Conns : conns'[i] = "none" <=> i >= next_conn_id_'
  BY Zenon DEF Sound, ConnInv, SameClient
<1>8. ConnInv'
  BY <1>4, <1>5, <1>6, <1>7 DEF ConnInv
<1> QED
  BY <1>3, <1>8

-----------------------------------------------------------------------------
(* The attempts of the connector. *)

Delays == kinit_retry_delay_ms .. kmax_retry_delay_ms

LEMMA DelayDoubles ==
    ASSUME NEW d \in Delays
    PROVE  Smaller(d * 2, kmax_retry_delay_ms) \in Delays
  BY DelayAssumption DEF Delays, Smaller

(* what StartInLoop does to a connector at rest *)
Started ==
    /\ aborted' = aborted /\ retry_delay_ms_' \in Delays
    /\ \/ /\ channel_' = "in loop" /\ state_' = "kconnecting" /\ sockets' = sockets + 1
          /\ timers' = 0 /\ connector_connect_'
       \/ /\ channel_' = "none" /\ state_' = "kdisconnected" /\ sockets' = sockets
          /\ timers' \in {0, 1}

LEMMA StartInLoopEffect ==
    ASSUME NEW d \in Delays, StartInLoop("kdisconnected", 0, d), channel_ = "none"
    PROVE  Started
<1>1. Smaller(d * 2, kmax_retry_delay_ms) \in Delays
  BY DelayDoubles
<1>2. CASE connector_connect_'
  <2>1. ConnectSocket(0, d)
    BY <1>2 DEF StartInLoop
  <2>2. CASE /\ IF channel_ = "none"
                  THEN channel_' = "in loop" /\ UNCHANGED aborted
                  ELSE aborted' = "Connecting" /\ UNCHANGED channel_
             /\ state_' = "kconnecting" /\ sockets' = sockets + 1
             /\ timers' = 0 /\ retry_delay_ms_' = d
    BY <1>2, <2>2 DEF Started
  <2>3. CASE /\ state_' = "kdisconnected"
             /\ timers' = 0 + 1
             /\ retry_delay_ms_' = Smaller(d * 2, kmax_retry_delay_ms)
             /\ UNCHANGED <<channel_, sockets, aborted>>
    BY <1>1, <2>3 DEF Started
  <2>4. CASE /\ state_' = "kdisconnected"
             /\ timers' = 0 /\ retry_delay_ms_' = d
             /\ UNCHANGED <<channel_, sockets, aborted>>
    BY <2>4 DEF Started
  <2> QED
    BY <2>1, <2>2, <2>3, <2>4 DEF ConnectSocket
<1>3. CASE ~connector_connect_'
  BY <1>3 DEF StartInLoop, Started
<1> QED
  BY <1>2, <1>3

(* An attempt begins: with nothing queued that would begin or end another.  *)
LEMMA BeginAttempt ==
    ASSUME Sound, Started, SameClient, QuietUser, channel_ = "none", connection_ = 0, connector_,
           ~accepting, ~restarting', ~accepting', UNCHANGED <<keep_alive, connector_, hasty>>,
           calls' \in 0 .. MaxCalls, ~alive \/ Stopping => ~connector_connect_',
           QueueInv', InQueue' \subseteq InQueue,
           Functor("StartInLoop") \notin InQueue', Functor("ResetChannel") \notin InQueue'
    PROVE  Sound'
<1>0. /\ UserMoves /\ (~alive => upc' = upc) /\ (Stopping' <=> Stopping) /\ (Released' <=> Released)
      /\ upc' \in Outside \cup Destructor \cup {"dead"} /\ conn' \in 0 .. MaxConns
      /\ (alive /\ keep_alive => upc' = "end" /\ conn' = 0) /\ alive' = alive
  BY QuietUserIs DEF SameClient
<1>1. ConnInv' /\ Held' = Held
  BY <1>0, SameClientKeeps
<1>2. Types'
  BY <1>0 DEF Sound, Types, Started, SameClient, Delays
<1>3. ~Queued("StartInLoop")' /\ ~Queued("ResetChannel")'
  BY DEF Queued, InQueue
<1>4. AttemptInv'
  <2>1. /\ channel_' = "in loop" <=> state_' = "kconnecting"
        /\ timers' = 1 => state_' = "kdisconnected"
        /\ channel_' # "removed"
    <3>1. CASE channel_' = "in loop" /\ state_' = "kconnecting" /\ timers' = 0
      <4>1. 0 # 1
        OBVIOUS
      <4> QED
        BY <3>1, <4>1, Zenon
    <3>2. CASE channel_' = "none" /\ state_' = "kdisconnected"
      BY <3>2
    <3> QED
      BY <3>1, <3>2, Zenon DEF Started
  <2> QED
    BY <1>3, <2>1, Zenon DEF AttemptInv, Midway
<1>5. SocketInv'
  <2>1. sockets = Cardinality(Held) /\ Cardinality(Held) \in Nat
    BY HeldCounts DEF Sound, SocketInv, Attempted
  <2>2. sockets + 1 = 1 + Cardinality(Held) /\ sockets = 0 + Cardinality(Held)
    BY <2>1
  <2>3. CASE channel_' = "in loop" /\ sockets' = sockets + 1
    BY <1>1, <2>2, <2>3, Zenon DEF SocketInv, Attempted
  <2>4. CASE channel_' = "none" /\ sockets' = sockets
    <3>1. ~Attempted'
      BY <2>4 DEF Attempted
    <3> QED
      BY <1>1, <2>2, <2>4, <3>1, Zenon DEF SocketInv
  <2> QED
    BY <2>3, <2>4 DEF Started
<1>6. OwnerInv'
  <2>1. ~alive \/ Stopping => channel_' = "none" /\ state_' = "kdisconnected"
    BY DEF Started
  <2>2. Released /\ ~hasty => \A o \in ConnectorFunctors : ~Queued(o)'
    BY DEF Sound, OwnerInv, Queued, InQueue
  <2>3. Released => ~alive \/ Stopping
    BY DEF Released, Stopping
  <2>4. ~alive' => /\ upc' \in {"idle", "dead"} /\ connection_' = 0
                   /\ ~connector_connect_' \/ state_' = "kconnected"
    BY <1>0 DEF Sound, OwnerInv, SameClient
  <2> QED
    BY <1>0, <2>1, <2>2, <2>3, <2>4 DEF OwnerInv
<1>7. DestructorInv'
  BY DestructorKept DEF SameClient
<1> QED
  BY <1>1, <1>2, <1>4, <1>5, <1>6, <1>7 DEF Sound

(* what HandleError, and StopInLoop on an attempt, do to the connector *)
Ended ==
    /\ channel_' = "removed" /\ state_' = "kdisconnected" /\ sockets' = sockets - 1
    /\ retry_delay_ms_' \in Delays /\ timers' \in {0, 1}
    /\ timers' = 1 => connector_connect_'

(* An attempt ends, and its channel is reset later. *)
LEMMA EndAttempt ==
    ASSUME Sound, Ended, SameClient, QuietUser, state_ = "kconnecting",
           UNCHANGED <<restarting, accepting, keep_alive, connector_, hasty, calls,
                       connector_connect_>>,
           QueueInv', InQueue' \subseteq InQueue \cup {Functor("ResetChannel")},
           Functor("ResetChannel") \in InQueue'
    PROVE  Sound'
<1>0. /\ connection_ = 0 /\ channel_ = "in loop" /\ ~Midway /\ ~Midway' /\ ~accepting /\ ~accepting'
      /\ ~restarting /\ ~restarting'
  BY DEF Sound, ConnInv, AttemptInv, Midway
<1>1. /\ UserMoves /\ (~alive => upc' = upc) /\ (Stopping' <=> Stopping) /\ (Released' <=> Released)
      /\ upc' \in Outside \cup Destructor \cup {"dead"} /\ conn' \in 0 .. MaxConns
      /\ (alive /\ keep_alive => upc' = "end" /\ conn' = 0) /\ alive' = alive
  BY QuietUserIs DEF SameClient
<1>2. ConnInv' /\ Held' = Held
  BY <1>0, <1>1, SameClientKeeps
<1>3. Types'
  BY <1>1 DEF Sound, Types, Ended, SameClient, Delays
<1>4. ~Queued("StartInLoop")' /\ Queued("ResetChannel")'
  <2>1. Functor("StartInLoop") # Functor("ResetChannel")
    BY DEF Functor
  <2>2. Functor("StartInLoop") \notin InQueue
    BY <1>0 DEF Sound, AttemptInv, Queued, InQueue
  <2> QED
    BY <2>1, <2>2 DEF Queued, InQueue
<1>5. AttemptInv'
  BY <1>0, <1>4 DEF AttemptInv, Ended
<1>6. SocketInv'
  <2>1. sockets = 1 + Cardinality(Held) /\ Cardinality(Held) \in Nat
    BY <1>0, HeldCounts DEF Sound, SocketInv, Attempted
  <2>2. sockets - 1 = 0 + Cardinality(Held)
    BY <2>1
  <2>3. ~Attempted' /\ sockets' = sockets - 1
    BY <1>0 DEF Ended, Attempted
  <2> QED
    BY <1>2, <2>2, <2>3, Zenon DEF SocketInv
<1>7. OwnerInv'
  <2>1. ~(Released /\ ~hasty)
    BY <1>0 DEF Sound, OwnerInv
  <2>2. ~alive => ~connector_connect_
    BY DEF Sound, OwnerInv
  <2>3. timers' \in {0, 1} /\ (~alive => timers' = 0)
    BY <2>2 DEF Ended
  <2>4. ~connector_ => ~alive /\ ~keep_alive
    BY DEF Sound, OwnerInv
  <2>5. ~alive' => /\ upc' \in {"idle", "dead"} /\ connection_' = 0
                   /\ ~connector_connect_' \/ state_' = "kconnected"
    BY <1>1, <2>2 DEF Sound, OwnerInv, SameClient
  <2>6. Stopping => ~connector_connect_'
    BY DEF Sound, OwnerInv
  <2>7. state_' # "kconnecting"
    BY DEF Ended
  <2> QED
    BY <1>1, <2>1, <2>3, <2>4, <2>5, <2>6, <2>7 DEF OwnerInv
<1>8. DestructorInv'
  BY DestructorKept DEF SameClient
<1> QED
  BY <1>2, <1>3, <1>5, <1>6, <1>7, <1>8 DEF Sound

-----------------------------------------------------------------------------
(* The loop's thread: events. *)

LEMMA RetryTimerStep ==
    ASSUME Working, Sound, RetryTimer
    PROVE  Good
<1>1. /\ ~calling /\ ~restarting /\ timers > 0 /\ pending = <<>>
      /\ StartInLoop(state_, timers - 1, retry_delay_ms_)
      /\ UNCHANGED <<connector_connect_, pending, batch, calling, alive, retry_, connect_, keep_alive,
                     connector_, connection_, next_conn_id_, conns, attached, shared, restarting,
                     accepting, upc, conn, unique, calls, hasty, overrun>>
      /\ ~accepting
  BY DEF RetryTimer, InEvents, Midway, roundVars, ownerVars, connVars, midVars, userVars
<1>2. timers = 1 /\ timers - 1 = 0 /\ state_ = "kdisconnected" /\ connection_ = 0 /\ connector_
  <2>1. timers \in {0, 1}
    BY DEF Sound, Types
  <2>2. timers = 1 /\ timers # 0 /\ timers - 1 = 0
    BY <1>1, <2>1
  <2>3. state_ = "kdisconnected" /\ connection_ = 0
    BY <2>2 DEF Sound, AttemptInv, ConnInv
  <2>4. connector_
    BY <2>2, Zenon DEF Sound, OwnerInv
  <2> QED
    BY <2>2, <2>3, <2>4
<1>3. InQueue = {} /\ InQueue' = {}
  BY <1>1, EmptyRange DEF Sound, QueueInv, InQueue
<1>4. channel_ = "none"
  <2>1. channel_ # "removed" /\ channel_ # "in loop"
    BY <1>2, <1>3 DEF Sound, AttemptInv, Queued, InQueue
  <2> QED
    BY <2>1 DEF Sound, Types
<1>5. Started
  <2>1. retry_delay_ms_ \in Delays /\ StartInLoop("kdisconnected", 0, retry_delay_ms_)
    BY <1>1, <1>2 DEF Sound, Types, Delays, StartInLoop, ConnectSocket
  <2> QED
    BY <1>4, <2>1, StartInLoopEffect
<1>6. SameClient
  BY <1>1, <1>3 DEF SameClient
<1>7. QueueInv'
  BY <1>1 DEF Sound, QueueInv
<1>8. calls' \in 0 .. MaxCalls /\ (~alive \/ Stopping => ~connector_connect_') /\ QuietUser
  BY <1>1, <1>2 DEF Sound, Types, OwnerInv, QuietUser
<1>9. Sound'
  BY <1>1, <1>2, <1>3, <1>4, <1>5, <1>6, <1>7, <1>8, BeginAttempt
<1> QED
  BY <1>5, <1>9 DEF Good, Started, Working

LEMMA RestartStep ==
    ASSUME Working, Sound, RestartConnector
    PROVE  Good
<1>1. /\ restarting /\ restarting' = FALSE /\ overrun' = (overrun \/ Dying)
      /\ UNCHANGED <<pending, batch, calling, alive, retry_, connect_, keep_alive,
                     connector_, connection_, next_conn_id_, conns, attached, shared, accepting,
                     upc, conn, unique, calls, hasty>>
  BY DEF RestartConnector, roundVars, ownerVars, connVars
<1>2. CASE Dying
  BY <1>1, <1>2 DEF Good
<1>3. CASE ~Dying
  <2>1. /\ timers = 0 /\ state_ = "kconnected" /\ connection_ = 0 /\ alive /\ channel_ = "none"
        /\ ~accepting /\ connector_ /\ ~Stopping
    <3>1. timers = 0 /\ state_ = "kconnected" /\ connection_ = 0 /\ alive /\ channel_ = "none" /\ ~accepting
      BY <1>1, <1>3 DEF Sound, AttemptInv, Midway
    <3>2. connector_ /\ ~Stopping
      BY <1>3, <3>1 DEF Sound, OwnerInv, Stopping, Dying, Destructor
    <3> QED
      BY <3>1, <3>2
  <2>2. StartInLoop("kdisconnected", timers, kinit_retry_delay_ms)
    BY <2>1 DEF RestartConnector, Restart
  <2>3. InQueue' = InQueue
    BY <1>1 DEF InQueue
  <2>4. Started
    <3>1. kinit_retry_delay_ms \in Delays /\ StartInLoop("kdisconnected", 0, kinit_retry_delay_ms)
      BY <2>1, <2>2, DelayAssumption DEF Delays
    <3> QED
      BY <2>1, <3>1, StartInLoopEffect
  <2>5. SameClient /\ QuietUser
    BY <1>1, <2>3 DEF SameClient, QuietUser
  <2>6. QueueInv'
    BY <1>1 DEF Sound, QueueInv
  <2>7. Functor("StartInLoop") \notin InQueue' /\ Functor("ResetChannel") \notin InQueue'
    BY <2>1, <2>3 DEF Sound, AttemptInv, Queued, InQueue
  <2>8. calls' \in 0 .. MaxCalls
    BY <1>1 DEF Sound, Types
  <2>9. Sound'
    BY <1>1, <2>1, <2>3, <2>4, <2>5, <2>6, <2>7, <2>8, BeginAttempt
  <2> QED
    BY <2>4, <2>9 DEF Good, Started, Working
<1> QED
  BY <1>2, <1>3

(* A functor ResetChannel is queued while none is. *)
LEMMA ResetQueued ==
    ASSUME NEW p, NEW b, Single(p, b), Functor("ResetChannel") \notin Range(p) \cup Range(b)
    PROVE  /\ Single(Append(p, Functor("ResetChannel")), b)
           /\ Range(Append(p, Functor("ResetChannel"))) = Range(p) \cup {Functor("ResetChannel")}
<1>1. Functor("ResetChannel") \in Functors
  BY FunctorIs DEF ConnectorFunctors
<1>2. MayPush(p, b, Functor("ResetChannel"))
  BY <1>1 DEF MayPush
<1> QED
  BY <1>2, PushKeeps

LEMMA EndsAttempt ==
    ASSUME Sound, state_ = "kconnecting", RemoveAndResetChannel, Retry(retry_delay_ms_),
           sockets' = sockets - 1, UNCHANGED connector_connect_
    PROVE  Ended
<1>1. retry_delay_ms_ \in Delays /\ Smaller(retry_delay_ms_ * 2, kmax_retry_delay_ms) \in Delays
  BY DelayDoubles DEF Sound, Types, Delays
<1>2. timers = 0
  BY DEF Sound, Types, AttemptInv
<1>3. CASE connector_connect_'
  BY <1>1, <1>2, <1>3 DEF Ended, Retry, RemoveAndResetChannel
<1>4. CASE ~connector_connect_'
  <2>1. timers' = 0 /\ retry_delay_ms_' = retry_delay_ms_ /\ state_' = "kdisconnected"
    BY <1>2, <1>4 DEF Retry
  <2>2. 0 # 1
    OBVIOUS
  <2> QED
    BY <1>1, <2>1, <2>2, Zenon DEF Ended, RemoveAndResetChannel
<1> QED
  BY <1>3, <1>4

LEMMA HandleErrorStep ==
    ASSUME Working, Sound, HandleError
    PROVE  Good
<1>1. /\ channel_ = "in loop" /\ RemoveAndResetChannel /\ Retry(retry_delay_ms_)
      /\ sockets' = sockets - 1
      /\ UNCHANGED <<connector_connect_, batch, calling, aborted, alive, retry_, connect_, keep_alive,
                     connector_, connection_, next_conn_id_, conns, attached, shared, restarting,
                     accepting, upc, conn, unique, calls, hasty, overrun>>
  BY DEF HandleError, HandleFailure, roundVars, ownerVars, connVars, midVars, userVars
<1>2. state_ = "kconnecting" /\ Functor("ResetChannel") \notin InQueue
  BY <1>1 DEF Sound, AttemptInv, Queued, InQueue
<1>3. Ended
  BY <1>1, <1>2, EndsAttempt
<1>4. /\ Single(pending', batch) /\ Range(pending') = Range(pending) \cup {Functor("ResetChannel")}
  BY <1>1, <1>2, ResetQueued DEF Sound, QueueInv, InQueue, RemoveAndResetChannel
<1>5. QueueInv' /\ InQueue' = InQueue \cup {Functor("ResetChannel")}
  BY <1>1, <1>4 DEF Sound, QueueInv, InQueue
<1>6. SameClient /\ QuietUser
  <2>1. Functor("ResetChannel").op \in ConnectorFunctors /\ Functor("ResetChannel").conn = 0
    BY FunctorIs DEF ConnectorFunctors
  <2> QED
    BY <1>1, <1>5, <2>1 DEF SameClient, QuietUser
<1>7. Sound'
  BY <1>1, <1>2, <1>3, <1>5, <1>6, EndAttempt
<1> QED
  BY <1>1, <1>7 DEF Good, Working

LEMMA KeepAliveTimerStep ==
    ASSUME Working, Sound, KeepAliveTimer
    PROVE  Good
<1>1. /\ ~calling /\ keep_alive /\ pending = <<>> /\ keep_alive' = FALSE
      /\ UNCHANGED <<connector_connect_, state_, retry_delay_ms_, channel_, timers, sockets,
                     pending, batch, calling, aborted, alive, connector_, connection_,
                     next_conn_id_, conns, attached, shared, restarting, accepting, upc, conn,
                     unique, calls, hasty>>
  BY DEF KeepAliveTimer, InEvents, connectorVars, roundVars, connVars, midVars, userVars
<1>2. InQueue = {} /\ InQueue' = InQueue
  BY <1>1, EmptyRange DEF Sound, QueueInv, InQueue
<1>3. SameClient /\ QuietUser /\ UserMoves
  BY <1>1, <1>2 DEF SameClient, QuietUser, UserMoves, Dying
<1>4. ConnInv' /\ Held' = Held
  BY <1>1, <1>3, SameClientKeeps
<1>5. \A o : Queued(o)' <=> Queued(o)
  BY <1>1 DEF Queued
<1>6. \A o : ~Queued(o)
  BY <1>2 DEF Queued, InQueue
<1>7. Types' /\ QueueInv' /\ AttemptInv' /\ SocketInv'
  BY <1>1, <1>4, <1>5 DEF Sound, Types, QueueInv, AttemptInv, Midway, Dying, SocketInv, Attempted
<1>8. OwnerInv'
  <2>1. Stopping /\ (Stopping' => Stopping)
    BY <1>1 DEF Sound, OwnerInv, Stopping
  <2>2. channel_ = "none" /\ state_ # "kconnecting"
    BY <1>6, <2>1 DEF Sound, Types, AttemptInv, OwnerInv
  <2>3. connector_
    BY <1>1 DEF Sound, OwnerInv
  <2> QED
    BY <1>1, <1>5, <1>6, <2>1, <2>2, <2>3 DEF Sound, OwnerInv
<1>9. DestructorInv'
  BY <1>1, <1>3, DestructorKept
<1> QED
  BY <1>1, <1>4, <1>7, <1>8, <1>9 DEF Good, Working, Sound

LEMMA DropConnectorStep ==
    ASSUME Working, Sound, DropConnector
    PROVE  Good
<1>1. /\ Orphan /\ connector_' = FALSE
      /\ aborted' = IF channel_ # "none" THEN "~Connector" ELSE aborted
      /\ UNCHANGED <<connector_connect_, state_, retry_delay_ms_, channel_, timers, sockets,
                     pending, batch, calling, alive, keep_alive, connection_,
                     next_conn_id_, conns, attached, shared, restarting, accepting, upc, conn,
                     unique, calls, hasty>>
  BY DEF DropConnector, connectorVars, roundVars, connVars, midVars, userVars
<1>2. InQueue' = InQueue
  BY <1>1 DEF InQueue
<1>3. QuietUser /\ UserMoves /\ (Stopping' <=> Stopping) /\ (Released' <=> Released)
  BY <1>1 DEF QuietUser, UserMoves, Dying, Stopping, Released
<1>4. ConnInv' /\ Held' = Held
  BY <1>1, <1>2, <1>3, SameClientKeeps DEF SameClient
<1>5. \A o : Queued(o)' <=> Queued(o)
  BY <1>1 DEF Queued
<1>6. Types' /\ QueueInv' /\ AttemptInv' /\ SocketInv'
  BY <1>1, <1>4, <1>5 DEF Sound, Types, QueueInv, AttemptInv, Midway, Dying, SocketInv, Attempted
<1>7. OwnerInv' /\ DestructorInv'
  <2>1. OwnerInv'
    BY <1>1, <1>3, <1>5 DEF Sound, OwnerInv, Orphan
  <2> QED
    BY <1>1, <1>3, <2>1, DestructorKept
<1>8. aborted' # "none" => hasty'
  BY <1>1 DEF Sound, OwnerInv, Orphan, Released, Working
<1> QED
  BY <1>4, <1>6, <1>7, <1>8 DEF Good, Sound

LEMMA HandleWriteStep ==
    ASSUME Working, Sound, HandleWrite
    PROVE  Good
<1>1. /\ channel_ = "in loop" /\ RemoveAndResetChannel /\ state_' = "kconnected"
      /\ connector_connect_ => next_conn_id_ <= MaxConns
      /\ accepting' = connector_connect_
      /\ sockets' = IF connector_connect_ THEN sockets ELSE sockets - 1
      /\ ~accepting /\ ~restarting
      /\ UNCHANGED <<connector_connect_, retry_delay_ms_, timers, batch, calling, aborted, alive,
                     keep_alive, connector_, connection_, next_conn_id_, conns, attached, shared,
                     restarting, upc, conn, unique, calls, hasty>>
  BY DEF HandleWrite, Wanted, InEvents, Midway, roundVars, ownerVars, connVars, userVars
<1>2. /\ state_ = "kconnecting" /\ Functor("ResetChannel") \notin InQueue /\ connection_ = 0
      /\ ~Queued("StartInLoop") /\ (~alive => ~connector_connect_) /\ timers = 0
      /\ ~(Released /\ ~hasty)
  <2>1. state_ = "kconnecting" /\ Functor("ResetChannel") \notin InQueue
    BY <1>1 DEF Sound, AttemptInv, Queued, InQueue
  <2>2. connection_ = 0 /\ ~Queued("StartInLoop") /\ timers = 0
    BY <1>1, <2>1 DEF Sound, ConnInv, AttemptInv, Types
  <2>3. (~alive => ~connector_connect_) /\ ~(Released /\ ~hasty)
    BY <1>1, <2>1 DEF Sound, OwnerInv
  <2> QED
    BY <2>1, <2>2, <2>3
<1>3. /\ Single(pending', batch) /\ Range(pending') = Range(pending) \cup {Functor("ResetChannel")}
  BY <1>1, <1>2, ResetQueued DEF Sound, QueueInv, InQueue, RemoveAndResetChannel
<1>4. QueueInv' /\ InQueue' = InQueue \cup {Functor("ResetChannel")}
  BY <1>1, <1>3 DEF Sound, QueueInv, InQueue
<1>5. Queued("ResetChannel")' /\ ~Queued("StartInLoop")'
  <2>1. Functor("StartInLoop") # Functor("ResetChannel")
    BY DEF Functor
  <2> QED
    BY <1>2, <1>4, <2>1 DEF Queued, InQueue
<1>6. SameClient /\ QuietUser
  <2>1. Functor("ResetChannel").op \in ConnectorFunctors /\ Functor("ResetChannel").conn = 0
    BY FunctorIs DEF ConnectorFunctors
  <2> QED
    BY <1>1, <1>4, <2>1 DEF SameClient, QuietUser
<1>7. /\ UserMoves /\ (Stopping' <=> Stopping) /\ (Released' <=> Released) /\ DestructorInv'
  BY <1>1, <1>6, QuietUserIs, DestructorKept
<1>8. ConnInv' /\ Held' = Held
  BY <1>2, <1>6, <1>7, SameClientKeeps
<1>9. channel_' = "removed" /\ timers' = 0
  BY <1>1, <1>2 DEF RemoveAndResetChannel
<1>10. AttemptInv'
  <2>1. 0 # 1
    OBVIOUS
  <2>2. connector_connect_ => alive /\ next_conn_id_ <= MaxConns
    BY <1>1, <1>2
  <2> QED
    BY <1>1, <1>2, <1>5, <1>9, <2>1, <2>2, Zenon DEF AttemptInv, Midway
<1>11. SocketInv'
  <2>1. sockets = 1 + Cardinality(Held) /\ Cardinality(Held) \in Nat
    BY <1>1, HeldCounts DEF Sound, SocketInv, Attempted
  <2>2. sockets - 1 = 0 + Cardinality(Held)
    BY <2>1
  <2>3. Attempted' <=> connector_connect_
    BY <1>1, <1>9 DEF Attempted
  <2>4. CASE connector_connect_
    BY <1>1, <1>8, <2>1, <2>3, <2>4, Zenon DEF SocketInv
  <2>5. CASE ~connector_connect_
    BY <1>1, <1>8, <2>2, <2>3, <2>5, Zenon DEF SocketInv
  <2> QED
    BY <2>4, <2>5
<1>12. Types'
  BY <1>1, <1>9 DEF Sound, Types
<1>13. OwnerInv'
  BY <1>1, <1>2, <1>7, <1>9 DEF Sound, OwnerInv
<1> QED
  BY <1>1, <1>4, <1>7, <1>8, <1>10, <1>11, <1>12, <1>13 DEF Good, Working, Sound

LEMMA NewConnectionStep ==
    ASSUME Working, Sound, NewConnection
    PROVE  Good
<1>1. PICK n : n = next_conn_id_
  OBVIOUS
<1>2. /\ accepting /\ ~accepting' /\ next_conn_id_' = n + 1 /\ connection_' = n
      /\ conns' = [conns EXCEPT ![n] = "kconnected"] /\ attached' = attached \cup {n}
      /\ shared' \in {shared, shared \cup {n}}
      /\ aborted' = (IF alive THEN aborted ELSE "use after free")
      /\ overrun' = (overrun \/ Dying)
      /\ UNCHANGED <<connector_connect_, state_, retry_delay_ms_, channel_, timers, sockets,
                     pending, batch, calling, alive, keep_alive, connector_, restarting,
                     upc, conn, unique, calls, hasty>>
  BY <1>1 DEF NewConnection, connectorVars, roundVars, ownerVars
<1>3. CASE Dying
  BY <1>2, <1>3 DEF Good
<1>4. CASE ~Dying
  <2>1. /\ alive /\ state_ = "kconnected" /\ connection_ = 0 /\ timers = 0 /\ ~restarting
        /\ next_conn_id_ <= MaxConns
    BY <1>2, <1>4 DEF Sound, AttemptInv, Midway
  <2>2. /\ aborted' = "none" /\ upc \notin Destructor /\ upc # "dead" /\ ~keep_alive /\ connector_
        /\ upc \notin Late
    BY <1>2, <1>4, <2>1 DEF Working, Sound, OwnerInv, Dying, Destructor, Late
  <2>3. channel_ # "in loop" /\ InQueue' = InQueue /\ \A o : Queued(o)' <=> Queued(o)
    <3>1. channel_ # "in loop"
      BY <2>1 DEF Sound, AttemptInv
    <3> QED
      BY <1>2, <3>1 DEF InQueue, Queued
  <2>4. n \in 1 .. MaxConns + 1 /\ MaxConns \in Nat
    BY <1>1, ClientAssumption DEF Sound, Types
  <2>5. n \in Conns /\ n \in Nat /\ n # 0 /\ n + 1 \in 1 .. MaxConns + 1 /\ n \in 0 .. MaxConns
    <3>1. n <= MaxConns
      BY <1>1, <2>1, Zenon
    <3> QED
      BY <2>4, <3>1 DEF Conns
  <2>6. conns \in [Conns -> {"none", "kconnected", "kdisconnecting", "kdisconnected", "gone"}]
    BY DEF Sound, Types
  <2>7. conns[n] = "none" /\ n \notin attached /\ conns'[n] = "kconnected"
        /\ \A i \in Conns \ {n} : conns'[i] = conns[i] /\ (Up(i)' <=> Up(i))
    <3>1. n >= next_conn_id_
      BY <1>1, <2>5
    <3>2. conns[n] = "none"
      BY <2>5, <3>1 DEF Sound, ConnInv
    <3>3. n \notin attached
      BY <2>5, <3>2 DEF Sound, ConnInv, Tended
    <3>4. conns'[n] = "kconnected" /\ \A i \in Conns \ {n} : conns'[i] = conns[i]
      BY <1>2, <2>5, <2>6
    <3> QED
      BY <3>2, <3>3, <3>4 DEF Up
  <2>8. Types'
    <3>1. conns' \in [Conns -> {"none", "kconnected", "kdisconnecting", "kdisconnected", "gone"}]
      BY <1>2, <2>6
    <3>2. attached' \subseteq Conns /\ shared' \subseteq Conns
      BY <1>2, <2>5 DEF Sound, Types
    <3>3. connection_' \in 0 .. MaxConns /\ next_conn_id_' \in 1 .. MaxConns + 1
      BY <1>2, <2>5, Zenon
    <3> QED
      BY <1>2, <3>1, <3>2, <3>3, Zenon DEF Sound, Types
  <2>9. ConnInv'
    <3>1. \A i \in Conns : i >= n + 1 <=> i >= n /\ i # n
      BY <2>5, <2>4 DEF Conns
    <3>2. \A i \in Conns : conns'[i] = "none" <=> i >= n + 1
      BY <1>1, <2>7, <3>1 DEF Sound, ConnInv
    <3>3. \A i \in Conns : conns'[i] = "none" <=> i >= next_conn_id_'
      BY <1>2, <3>2, Zenon
    <3>4. ASSUME NEW i \in Conns PROVE Tended(i)'
      <4>0. \A o : Waits(o, i)' <=> Waits(o, i)
        BY <2>3 DEF Waits, ConnFunctor
      <4>1. CASE i = n
        BY <1>2, <2>2, <2>7, <4>1 DEF Tended, Late
      <4>2. CASE i # n
        <5>1. conns'[i] = conns[i] /\ (Up(i)' <=> Up(i)) /\ i # 0 /\ Tended(i)
          BY <2>7, <4>2 DEF Sound, ConnInv, Conns
        <5>2. (i \in attached' <=> i \in attached) /\ (i \in shared' <=> i \in shared)
          BY <1>2, <4>2
        <5> QED
          BY <1>2, <2>1, <4>0, <4>2, <5>1, <5>2 DEF Tended
      <4> QED
        BY <4>1, <4>2
    <3>5. (connection_ # 0 =>
                /\ alive /\ state_ = "kconnected" /\ conns[connection_] # "none"
                /\ upc \notin Late => connection_ \in attached /\ Up(connection_))'
      <4>1. Up(connection_)'
        BY <1>2, <2>7 DEF Up
      <4> QED
        BY <1>2, <2>1, <2>7, <4>1
    <3>6. ASSUME NEW f \in InQueue' PROVE FunctorOK(f)'
      <4>1. FunctorOK(f)
        BY <2>3 DEF Sound, ConnInv
      <4>2. f.op \notin ConnectorFunctors => f.conn \in Conns \ {n}
        BY <2>7, <4>1 DEF FunctorOK
      <4>3. f.op \in {"ConnectionDestroyed", "ForceCloseInLoop", "SetCloseCallback"} =>
                f.op \notin ConnectorFunctors
        BY DEF ConnectorFunctors
      <4> QED
        BY <1>2, <2>7, <4>1, <4>2, <4>3 DEF FunctorOK, Dying
    <3> QED
      BY <3>3, <3>4, <3>5, <3>6 DEF ConnInv
  <2>10. SocketInv'
    <3>1. n \notin Held /\ n \in Held'
      BY <2>5, <2>7 DEF Held, Up
    <3>2. Elsewhere(n)
      <4>1. \A j \in Conns : j # 0
        BY DEF Conns
      <4>2. ASSUME NEW j \in Conns \ {n}
            PROVE  conns'[j] = conns[j] /\ (connection_' = j <=> connection_ = j) /\ (j \in shared' <=> j \in shared)
        BY <1>2, <2>1, <2>7, <4>1
      <4> QED
        BY <2>3, <4>2 DEF Elsewhere
    <3>3. Cardinality(Held') = Cardinality(Held) + 1
      BY <2>5, <3>1, <3>2, HeldElsewhere
    <3>4. sockets = 1 + Cardinality(Held) /\ Cardinality(Held) \in Nat
      BY <1>2, HeldCounts DEF Sound, SocketInv, Attempted
    <3>5. sockets = 0 + (Cardinality(Held) + 1)
      BY <3>4
    <3>6. ~Attempted'
      BY <1>2, <2>3 DEF Attempted
    <3> QED
      BY <1>2, <3>3, <3>5, <3>6, Zenon DEF SocketInv
  <2>11. OwnerInv' /\ DestructorInv' /\ QueueInv'
    <3>1. ~Stopping' /\ ~Released'
      BY <1>2, <2>1, <2>2 DEF Stopping, Released, Destructor
    <3> QED
      BY <1>2, <2>1, <2>2, <3>1 DEF OwnerInv, DestructorInv, Destructor, Sound, QueueInv
  <2>12. AttemptInv'
    <3>1. ~Midway'
      BY <1>2, <2>1 DEF Midway
    <3> QED
      BY <1>2, <2>1, <2>3, <3>1 DEF Sound, AttemptInv
  <2> QED
    BY <2>2, <2>8, <2>9, <2>10, <2>11, <2>12 DEF Good, Sound
<1> QED
  BY <1>3, <1>4

(* A step that only touches the queue, or nothing that matters here. *)
LEMMA QuietStep ==
    ASSUME Working, Sound, InQueue' = InQueue, QueueInv', QuietUser,
           calls' \in 0 .. MaxCalls,
           UNCHANGED <<connector_connect_, state_, retry_delay_ms_, channel_, timers, sockets,
                       aborted, alive, keep_alive, connector_, connection_,
                       next_conn_id_, conns, attached, shared, restarting, accepting, hasty>>
    PROVE  Good
<1>0. /\ UserMoves /\ (Dying' <=> Dying) /\ (~alive => upc' = upc)
      /\ (Stopping' <=> Stopping) /\ (Released' <=> Released)
      /\ upc' \in Outside \cup Destructor \cup {"dead"} /\ conn' \in 0 .. MaxConns
      /\ alive /\ keep_alive => upc' = "end" /\ conn' = 0
  BY QuietUserIs
<1>1. ConnInv' /\ Held' = Held /\ DestructorInv'
  BY <1>0, SameClientKeeps, DestructorKept DEF SameClient
<1>2. \A o : Queued(o)' <=> Queued(o)
  BY DEF Queued, InQueue
<1>3. Types' /\ AttemptInv' /\ SocketInv'
  BY <1>0, <1>1, <1>2 DEF Sound, Types, AttemptInv, Midway, SocketInv, Attempted
<1>4. OwnerInv'
  BY <1>0, <1>2 DEF Sound, OwnerInv
<1> QED
  BY <1>1, <1>3, <1>4 DEF Good, Working, Sound

LEMMA RoundStep ==
    ASSUME Working, Sound, SwapFunctors \/ EndCalling
    PROVE  Good
<1>1. UNCHANGED <<connector_connect_, state_, retry_delay_ms_, channel_, timers, sockets,
                  aborted, alive, keep_alive, connector_, connection_, upc, conn, unique, calls,
                  next_conn_id_, conns, attached, shared, restarting, accepting, hasty>>
  BY DEF SwapFunctors, EndCalling, connectorVars, ownerVars, connVars, midVars, userVars
<1>2. QuietUser /\ calls' \in 0 .. MaxCalls
  BY <1>1 DEF Sound, Types, QuietUser
<1>3. CASE SwapFunctors
  <2>1. ~calling /\ batch' = pending /\ pending' = <<>> /\ calling' = TRUE /\ batch = <<>>
    BY <1>3 DEF SwapFunctors, InEvents, Sound, QueueInv
  <2>2. Single(<<>>, pending)
    BY <2>1, SwapKeeps DEF Sound, QueueInv
  <2>3. QueueInv' /\ InQueue' = InQueue
    BY <2>1, <2>2, EmptyRange DEF QueueInv, InQueue
  <2> QED
    BY <1>1, <1>2, <2>3, QuietStep
<1>4. CASE EndCalling
  <2>1. batch = <<>> /\ UNCHANGED <<pending, batch>>
    BY <1>4 DEF EndCalling
  <2>2. QueueInv' /\ InQueue' = InQueue
    BY <2>1 DEF Sound, QueueInv, InQueue
  <2> QED
    BY <1>1, <1>2, <2>2, QuietStep
<1> QED
  BY <1>3, <1>4

LEMMA CallStep ==
    ASSUME Working, Sound, NEW o \in Ops, Call(o)
    PROVE  Good
<1>1. /\ UNCHANGED <<connector_connect_, state_, retry_delay_ms_, channel_, timers, sockets,
                     pending, batch, calling, aborted, alive, keep_alive, connector_, connection_,
                     next_conn_id_, conns, attached, shared, restarting, accepting, conn, unique,
                     hasty>>
      /\ upc = "idle" /\ upc' = o /\ alive /\ calls < MaxCalls /\ calls' = calls + 1
  BY DEF Call, connectorVars, roundVars, connVars, midVars
<1>2. calls' \in 0 .. MaxCalls
  <2>1. calls \in 0 .. MaxCalls /\ MaxCalls \in Nat /\ calls < MaxCalls
    BY <1>1, ClientAssumption, Zenon DEF Sound, Types
  <2>2. calls + 1 \in 0 .. MaxCalls
    BY <2>1
  <2> QED
    BY <1>1, <2>2
<1>3. QueueInv' /\ InQueue' = InQueue
  BY <1>1 DEF Sound, QueueInv, InQueue
<1>4. QuietUser
  BY <1>1 DEF QuietUser, Outside
<1> QED
  BY <1>1, <1>2, <1>3, <1>4, QuietStep

-----------------------------------------------------------------------------
(* The connections close. *)

(* The state of one connection changes. *)
LEMMA ConnChanges ==
    ASSUME Sound, NEW i \in Conns, NEW st, conns' = [conns EXCEPT ![i] = st],
           conns[i] # "none",
           st \in {"kconnected", "kdisconnecting", "kdisconnected", "gone"},
           next_conn_id_' = next_conn_id_
    PROVE  /\ conns' \in [Conns -> {"none", "kconnected", "kdisconnecting", "kdisconnected", "gone"}]
           /\ conns'[i] = st /\ \A j \in Conns \ {i} : conns'[j] = conns[j] /\ (Up(j)' <=> Up(j))
           /\ \A j \in Conns : conns'[j] = "none" <=> j >= next_conn_id_'
           /\ Up(i)' <=> st \in {"kconnected", "kdisconnecting"}
<1>1. conns \in [Conns -> {"none", "kconnected", "kdisconnecting", "kdisconnected", "gone"}]
  BY DEF Sound, Types
<1>2. conns' \in [Conns -> {"none", "kconnected", "kdisconnecting", "kdisconnected", "gone"}]
  BY <1>1
<1>3. conns'[i] = st /\ \A j \in Conns \ {i} : conns'[j] = conns[j]
  BY <1>1
<1>4. \A j \in Conns \ {i} : Up(j)' <=> Up(j)
  BY <1>3 DEF Up
<1>5. Up(i)' <=> st \in {"kconnected", "kdisconnecting"}
  BY <1>3 DEF Up
<1>6. \A j \in Conns : conns'[j] = "none" <=> conns[j] = "none"
  BY <1>3
<1>7. \A j \in Conns : conns'[j] = "none" <=> j >= next_conn_id_'
  BY <1>6, Zenon DEF Sound, ConnInv
<1> QED
  BY <1>2, <1>3, <1>4, <1>5, <1>7

(* The connector is left alone, and the same functors of it wait. *)
LEMMA ConnectorKept ==
    ASSUME Sound, QuietUser, \A o \in ConnectorFunctors : Queued(o)' <=> Queued(o),
           UNCHANGED <<connector_connect_, state_, channel_, timers, alive, keep_alive, connector_,
                       hasty, accepting, next_conn_id_>>,
           connection_' \in {connection_, 0},
           restarting' => \/ restarting
                          \/ /\ state_ = "kconnected" /\ channel_ = "none" /\ timers = 0
                             /\ connection_' = 0 /\ alive /\ ~accepting
    PROVE  AttemptInv' /\ OwnerInv'
<1>0. /\ (Dying' <=> Dying) /\ (~alive => upc' = upc)
      /\ (Stopping' <=> Stopping) /\ (Released' <=> Released)
      /\ alive /\ keep_alive => upc' = "end" /\ conn' = 0
  BY QuietUserIs
<1>1. /\ Queued("StartInLoop")' <=> Queued("StartInLoop")
      /\ Queued("StopInLoop")' <=> Queued("StopInLoop")
      /\ Queued("ResetChannel")' <=> Queued("ResetChannel")
  BY DEF ConnectorFunctors
<1>2. AttemptInv'
  BY <1>0, <1>1 DEF Sound, AttemptInv, Midway
<1>3. ~alive => connection_' = 0 /\ upc' \in {"idle", "dead"}
  BY <1>0 DEF Sound, OwnerInv
<1>4. OwnerInv'
  BY <1>0, <1>1, <1>3 DEF Sound, OwnerInv
<1> QED
  BY <1>2, <1>4

(* The loop may have taken a functor of connection i from its batch: b is   *)
(* left.                                                                    *)
LeftOf(b, i) ==
    /\ Single(pending, b) /\ Range(b) \subseteq Range(batch)
    /\ \A g \in Range(batch) : g.conn # i => g \in Range(b)

LEMMA LeftConnector ==
    ASSUME NEW i \in Conns, NEW b, LeftOf(b, i), NEW o \in ConnectorFunctors
    PROVE  Functor(o) \in Range(b) <=> Functor(o) \in Range(batch)
<1>1. i # 0 /\ Functor(o).conn = 0
  BY FunctorIs DEF Conns
<1> QED
  BY <1>1 DEF LeftOf

(* A connection that is up closes, and is destroyed later. *)
LEMMA CloseStep ==
    ASSUME Working, Sound, NEW i \in Conns, Up(i), Close(i, pending), ~Midway,
           i \in attached => ~Queued("ResetChannel") \/ Dying,
           LeftOf(batch', i), ~calling' => batch' = <<>>,
           UNCHANGED <<connector_connect_, state_, retry_delay_ms_, channel_, timers, sockets,
                       alive, keep_alive, connector_, next_conn_id_, attached, shared, accepting,
                       upc, conn, unique, calls, hasty>>
    PROVE  Good
<1> DEFINE g == ConnFunctor("ConnectionDestroyed", i)
<1>1. g \in Functors /\ g.op = "ConnectionDestroyed" /\ g.conn = i
  BY ConnFunctorIs DEF FunctorOps
<1>2. /\ conns' = [conns EXCEPT ![i] = "kdisconnected"] /\ pending' = Append(pending, g)
      /\ IF i \in attached THEN RemoveConnection(i)
         ELSE UNCHANGED <<aborted, connection_, restarting, overrun>>
  BY DEF Close
<1>3. CASE i \in attached /\ Dying
  BY <1>2, <1>3 DEF RemoveConnection, Good
<1>4. CASE ~(i \in attached /\ Dying)
  <2>1. i # 0 /\ ~restarting /\ ~accepting
    BY DEF Conns, Midway
  <2>2. g \notin InQueue
    BY <1>1 DEF Sound, ConnInv, FunctorOK, Up
  <2>3. g' = g
    BY DEF ConnFunctor
  <2>4. Waits("ConnectionDestroyed", i)' <=> g \in InQueue'
    BY <2>3 DEF Waits
  <2> HIDE DEF g
  <2>5. Single(pending', batch') /\ Range(pending') = Range(pending) \cup {g}
    <3>1. PICK b : b = batch'
      OBVIOUS
    <3>2. MayPush(pending, b, g)
      BY <1>1, <2>2, <3>1 DEF MayPush, LeftOf, InQueue
    <3>3. Single(Append(pending, g), b) /\ Range(Append(pending, g)) = Range(pending) \cup {g}
      BY <3>2, PushKeeps
    <3> QED
      BY <1>2, <3>1, <3>3
  <2>6. /\ QueueInv' /\ InQueue' \subseteq InQueue \cup {g} /\ g \in InQueue'
        /\ \A h \in InQueue : h.conn # i => h \in InQueue'
    BY <2>5 DEF QueueInv, InQueue, LeftOf
  <2>7. \A o \in ConnectorFunctors : Queued(o)' <=> Queued(o)
    <3>1. \A o \in ConnectorFunctors : Functor(o) # g
      BY <1>1, FunctorIs DEF ConnectorFunctors
    <3>2. PICK b : b = batch'
      OBVIOUS
    <3>3. \A o \in ConnectorFunctors : Functor(o) \in Range(b) <=> Functor(o) \in Range(batch)
      BY <3>2, LeftConnector
    <3>4. \A o : Functor(o)' = Functor(o)
      BY DEF Functor
    <3> QED
      BY <2>5, <3>1, <3>2, <3>3, <3>4 DEF Queued
  <2>8. /\ conns' \in [Conns -> {"none", "kconnected", "kdisconnecting", "kdisconnected", "gone"}]
        /\ conns'[i] = "kdisconnected"
        /\ \A j \in Conns \ {i} : conns'[j] = conns[j] /\ (Up(j)' <=> Up(j))
        /\ \A j \in Conns : conns'[j] = "none" <=> j >= next_conn_id_'
        /\ ~Up(i)'
    <3>1. conns[i] # "none"
      BY DEF Up
    <3> QED
      BY <1>2, <3>1, ConnChanges
  <2>9. /\ aborted' = "none" /\ (connection_' = connection_ \/ (connection_ = i /\ connection_' = 0))
        /\ connection_' = i => upc \in Late
        /\ restarting' => \/ restarting
                          \/ /\ state_ = "kconnected" /\ channel_ = "none" /\ timers = 0
                             /\ connection_' = 0 /\ alive /\ ~accepting
        /\ connection_' = connection_ \/ upc \notin Destructor
    <3>1. CASE i \in attached
      <4>1. Tended(i) /\ ~Dying
        BY <1>4, <3>1 DEF Sound, ConnInv
      <4>2. ConnFunctor("SetCloseCallback", i).op = "SetCloseCallback"
        BY DEF ConnFunctor
      <4>3. ~Waits("SetCloseCallback", i)
        BY <4>1, <4>2 DEF Waits, Sound, ConnInv, FunctorOK, Dying, Late, Destructor
      <4>4. connection_ = i
        BY <3>1, <4>1, <4>3 DEF Tended
      <4>5. alive /\ state_ = "kconnected"
        BY <2>1, <4>4 DEF Sound, ConnInv
      <4>6. aborted' = "none" /\ connection_' = 0
        BY <1>2, <3>1, <4>4, <4>5 DEF RemoveConnection, Working
      <4>7. timers = 0 /\ channel_ = "none"
        <5>1. "kconnected" # "kdisconnected" /\ "kconnected" # "kconnecting"
          OBVIOUS
        <5> QED
          BY <3>1, <4>1, <4>5, <5>1 DEF Sound, Types, AttemptInv
      <4> QED
        BY <2>1, <4>1, <4>4, <4>5, <4>6, <4>7 DEF Dying
    <3>2. CASE i \notin attached
      <4>1. UNCHANGED <<aborted, connection_, restarting>>
        BY <1>2, <3>2
      <4>2. connection_ = i => upc \in Late
        BY <2>1, <3>2 DEF Sound, ConnInv
      <4> QED
        BY <4>1, <4>2 DEF Working
    <3> QED
      BY <3>1, <3>2
  <2>10. QuietUser
    BY DEF QuietUser
  <2>11. AttemptInv' /\ OwnerInv'
    BY <2>7, <2>9, <2>10, ConnectorKept
  <2>12. Types'
    <3>1. connection_' \in 0 .. MaxConns
      <4>1. 0 \in 0 .. MaxConns
        BY ClientAssumption
      <4>2. connection_ \in 0 .. MaxConns
        BY DEF Sound, Types
      <4> QED
        BY <2>9, <4>1, <4>2, Zenon
    <3> QED
      BY <2>8, <3>1 DEF Sound, Types
  <2>13. ConnInv'
    <3>1. ASSUME NEW j \in Conns PROVE Tended(j)'
      <4>1. CASE j = i
        BY <2>4, <2>6, <2>8, <4>1 DEF Tended
      <4>2. CASE j # i
        <5>1. conns'[j] = conns[j] /\ (Up(j)' <=> Up(j)) /\ Tended(j)
          BY <2>8, <4>2 DEF Sound, ConnInv
        <5>2. \A o : Waits(o, j) => Waits(o, j)'
          <6>1. \A o : ConnFunctor(o, j).conn = j /\ ConnFunctor(o, j)' = ConnFunctor(o, j)
            BY DEF ConnFunctor
          <6> QED
            BY <2>6, <4>2, <6>1 DEF Waits
        <5>3. connection_' = j <=> connection_ = j
          BY <2>1, <2>9, <4>2 DEF Conns
        <5> QED
          BY <5>1, <5>2, <5>3 DEF Tended
      <4> QED
        BY <4>1, <4>2
    <3>2. (connection_ # 0 =>
                /\ alive /\ state_ = "kconnected" /\ conns[connection_] # "none"
                /\ upc \notin Late => connection_ \in attached /\ Up(connection_))'
      <4> SUFFICES ASSUME connection_' # 0
                   PROVE  (/\ alive /\ state_ = "kconnected" /\ conns[connection_] # "none"
                           /\ upc \notin Late => connection_ \in attached /\ Up(connection_))'
        OBVIOUS
      <4>1. PICK c : c = connection_
        OBVIOUS
      <4>2. connection_' = c /\ c # 0
        BY <2>9, <4>1
      <4>3. /\ alive /\ state_ = "kconnected" /\ conns[c] # "none" /\ c \in Conns
            /\ upc \notin Late => c \in attached /\ Up(c)
        <5>1. c \in 0 .. MaxConns
          BY <4>1 DEF Sound, Types
        <5>2. c \in Conns
          BY <4>2, <5>1, ConnIsConn
        <5> QED
          BY <4>1, <4>2, <5>2 DEF Sound, ConnInv
      <4>4. CASE c = i
        BY <2>8, <2>9, <4>2, <4>3, <4>4
      <4>5. CASE c # i
        <5>1. conns'[c] = conns[c] /\ (Up(c)' <=> Up(c))
          BY <2>8, <4>3, <4>5
        <5> QED
          BY <4>2, <4>3, <5>1 DEF Up
      <4> QED
        BY <4>4, <4>5
    <3>3. ASSUME NEW f \in InQueue' PROVE FunctorOK(f)'
      <4>1. CASE f = g
        BY <1>1, <2>8, <4>1 DEF FunctorOK, ConnectorFunctors
      <4>2. CASE f \in InQueue
        <5>1. FunctorOK(f)
          BY <4>2 DEF Sound, ConnInv
        <5>2. f.op = "ConnectionDestroyed" => f.op \notin ConnectorFunctors /\ f.conn \in Conns \ {i}
          BY <5>1 DEF FunctorOK, Up, ConnectorFunctors
        <5>3. f.op \notin ConnectorFunctors => conns'[f.conn] # "none"
          BY <2>8, <5>1 DEF FunctorOK
        <5> QED
          BY <2>8, <5>1, <5>2, <5>3 DEF FunctorOK, Dying
      <4> QED
        BY <2>6, <4>1, <4>2
    <3> QED
      BY <2>8, <3>1, <3>2, <3>3 DEF ConnInv
  <2>14. SocketInv'
    <3>1. i \in Held /\ i \in Held'
      BY <2>8 DEF Held
    <3>2. Elsewhere(i)
      <4>1. ASSUME NEW j \in Conns \ {i}
            PROVE  conns'[j] = conns[j] /\ (connection_' = j <=> connection_ = j) /\ (j \in shared' <=> j \in shared)
        BY <2>1, <2>8, <2>9 DEF Conns
      <4>2. \A h : h.conn \in Conns \ {i} => (h \in InQueue' <=> h \in InQueue)
        BY <1>1, <2>6
      <4> QED
        BY <4>1, <4>2 DEF Elsewhere
    <3>3. Held' = Held
      BY <3>1, <3>2, HeldElsewhere
    <3> QED
      BY <3>3 DEF Sound, SocketInv, Attempted
  <2>15. DestructorInv'
    <3>1. CASE connection_' = connection_
      BY <2>10, <3>1, DestructorKept
    <3>2. CASE upc \notin Destructor
      BY <3>2 DEF Sound, DestructorInv, Destructor
    <3> QED
      BY <2>9, <3>1, <3>2
  <2> QED
    BY <2>6, <2>9, <2>11, <2>12, <2>13, <2>14, <2>15 DEF Good, Sound
<1> QED
  BY <1>3, <1>4

LEMMA HandleCloseStep ==
    ASSUME Working, Sound, NEW i \in Conns, HandleClose(i)
    PROVE  Good
<1>1. /\ ~Midway /\ Up(i) /\ ~Queued("ResetChannel") /\ Close(i, pending)
      /\ UNCHANGED <<connector_connect_, state_, retry_delay_ms_, channel_, timers, sockets,
                     batch, calling, alive, keep_alive, connector_, next_conn_id_, attached, shared,
                     accepting, upc, conn, unique, calls, hasty>>
  BY DEF HandleClose, InEvents, connectorVars, roundVars, ownerVars, userVars
<1>2. LeftOf(batch, i)
  BY DEF Sound, QueueInv, LeftOf
<1>3. LeftOf(batch', i) /\ (~calling' => batch' = <<>>)
  BY <1>1, <1>2 DEF Sound, QueueInv
<1> QED
  BY <1>1, <1>3, CloseStep

-----------------------------------------------------------------------------
(* The loop's thread: functors. *)

(* what the loop knows of the functor it takes *)
Taken(f) ==
    /\ f \in Functors /\ f \in InQueue /\ FunctorOK(f)
    /\ Single(pending, batch') /\ Range(batch) = Range(batch') \cup {f}
    /\ f.op \in OnceOps => f \notin Range(pending) \cup Range(batch')

LEMMA TakeFunctor ==
    ASSUME Sound, batch # <<>>, batch' = Tail(batch)
    PROVE  Taken(Head(batch))
<1>1. Single(pending, batch)
  BY DEF Sound, QueueInv
<1>2. /\ Single(pending, Tail(batch)) /\ Head(batch) \in Functors /\ Head(batch) \in Range(batch)
      /\ Range(batch) = Range(Tail(batch)) \cup {Head(batch)}
      /\ Head(batch).op \in OnceOps => Head(batch) \notin Range(pending) \cup Range(Tail(batch))
  BY <1>1, PopKeeps
<1>3. Head(batch) \in InQueue
  BY <1>2 DEF InQueue
<1>4. FunctorOK(Head(batch))
  BY <1>3 DEF Sound, ConnInv
<1> QED
  BY <1>2, <1>3, <1>4, Zenon DEF Taken

LEMMA IsConnectorFunctor ==
    ASSUME NEW f \in Functors, NEW o \in ConnectorFunctors, f.op = o, FunctorOK(f)
    PROVE  f = Functor(o)
<1>1. f.conn = 0
  BY DEF FunctorOK
<1> QED
  BY <1>1 DEF Functors, Functor

LEMMA ConnectionTaken ==
    ASSUME NEW f, Taken(f), NEW i, f.conn = i
    PROVE  LeftOf(batch', i)
  BY DEF Taken, LeftOf

LEMMA StartFunctorStep ==
    ASSUME Working, Sound, NEW f, Taken(f), f.op = "StartInLoop", connector_, calling, ~Midway,
           StartInLoop(state_, timers, retry_delay_ms_), calling' = calling,
           UNCHANGED <<connector_connect_, pending, alive, keep_alive, connector_,
                       connection_, next_conn_id_, conns, attached, shared, restarting, accepting,
                       upc, conn, unique, calls, hasty>>
    PROVE  Good
<1>1. f = Functor("StartInLoop")
  BY IsConnectorFunctor DEF Taken, ConnectorFunctors
<1>2. Queued("StartInLoop")
  BY <1>1 DEF Taken, Queued, InQueue
<1>3. /\ state_ = "kdisconnected" /\ channel_ = "none" /\ timers = 0 /\ connection_ = 0
      /\ Functor("ResetChannel") \notin InQueue
  BY <1>2 DEF Sound, AttemptInv, ConnInv, Queued, InQueue
<1>4. Started
  <2>1. retry_delay_ms_ \in Delays /\ StartInLoop("kdisconnected", 0, retry_delay_ms_)
    BY <1>3 DEF Sound, Types, Delays
  <2> QED
    BY <1>3, <2>1, StartInLoopEffect
<1>5. InQueue' \subseteq InQueue /\ Functor("StartInLoop") \notin InQueue'
  BY <1>1 DEF Taken, InQueue, OnceOps
<1>6. Functor("ResetChannel") \notin InQueue'
  BY <1>3, <1>5
<1>7. QueueInv'
  BY DEF Taken, QueueInv
<1>8. SameClient /\ QuietUser
  <2>1. \A g \in InQueue : g \in InQueue' \/ g = f
    BY DEF Taken, InQueue
  <2>2. f.conn = 0
    BY <1>1, FunctorIs DEF ConnectorFunctors
  <2> QED
    BY <1>5, <2>1, <2>2 DEF SameClient, QuietUser
<1>9. /\ calls' \in 0 .. MaxCalls /\ (~alive \/ Stopping => ~connector_connect_')
      /\ ~accepting /\ ~accepting' /\ ~restarting'
  BY <1>3 DEF Sound, Types, OwnerInv, Midway
<1>10. Sound'
  BY <1>3, <1>4, <1>5, <1>6, <1>7, <1>8, <1>9, BeginAttempt
<1> QED
  BY <1>4, <1>10 DEF Good, Started, Working

LEMMA StopFunctorStep ==
    ASSUME Working, Sound, NEW f, Taken(f), f.op = "StopInLoop", calling, ~Midway,
           StopInLoop, calling' = calling,
           UNCHANGED <<connector_connect_, aborted, alive, keep_alive, connector_,
                       connection_, next_conn_id_, conns, attached, shared, restarting, accepting,
                       upc, conn, unique, calls, hasty>>
    PROVE  Good
<1>0. QuietUser
  BY DEF QuietUser
<1>1. f = Functor("StopInLoop") /\ f.conn = 0
  BY IsConnectorFunctor, FunctorIs DEF Taken, ConnectorFunctors
<1>2. CASE state_ = "kconnecting"
  <2>1. RemoveAndResetChannel /\ Retry(retry_delay_ms_) /\ sockets' = sockets - 1
    BY <1>2 DEF StopInLoop
  <2>2. Ended
    BY <1>2, <2>1, EndsAttempt
  <2>3. Functor("ResetChannel") \notin InQueue
    BY <1>2 DEF Sound, AttemptInv, Queued, InQueue
  <2>4. PICK b : b = batch'
    OBVIOUS
  <2>5. Single(pending, b) /\ Functor("ResetChannel") \notin Range(pending) \cup Range(b)
    BY <2>3, <2>4 DEF Taken, InQueue
  <2>6. Single(Append(pending, Functor("ResetChannel")), b)
        /\ Range(Append(pending, Functor("ResetChannel"))) = Range(pending) \cup {Functor("ResetChannel")}
    BY <2>5, ResetQueued
  <2>7. Single(pending', batch') /\ Range(pending') = Range(pending) \cup {Functor("ResetChannel")}
    BY <2>1, <2>4, <2>6 DEF RemoveAndResetChannel
  <2>8. /\ QueueInv' /\ InQueue' \subseteq InQueue \cup {Functor("ResetChannel")}
        /\ Functor("ResetChannel") \in InQueue'
    BY <2>7 DEF Taken, QueueInv, InQueue
  <2>9. SameClient
    <3>1. Functor("ResetChannel").op \in ConnectorFunctors /\ Functor("ResetChannel").conn = 0
      BY FunctorIs DEF ConnectorFunctors
    <3>2. \A g \in InQueue : g \in InQueue' \/ g = f
      BY <2>7 DEF Taken, InQueue
    <3> QED
      BY <1>1, <2>8, <3>1, <3>2 DEF SameClient
  <2>10. Sound'
    BY <1>0, <1>2, <2>2, <2>8, <2>9, EndAttempt
  <2> QED
    BY <2>10 DEF Good, Working
<1>3. CASE state_ # "kconnecting"
  <2>1. UNCHANGED <<state_, channel_, timers, retry_delay_ms_, sockets, pending>>
    BY <1>3 DEF StopInLoop
  <2>2. QueueInv' /\ InQueue' \subseteq InQueue /\ InQueue \subseteq InQueue' \cup {f}
    BY <2>1 DEF Taken, QueueInv, InQueue
  <2>3. Queued("ResetChannel")' <=> Queued("ResetChannel")
    <3>1. Functor("ResetChannel") # f
      BY <1>1 DEF Functor
    <3> QED
      BY <2>2, <3>1 DEF Queued, InQueue
  <2>4. \A o : Queued(o)' => Queued(o)
    BY <2>2 DEF Queued, InQueue
  <2>5. UserMoves /\ (Stopping' <=> Stopping) /\ (Released' <=> Released) /\ DestructorInv'
    BY <1>0, QuietUserIs, DestructorKept
  <2>6. ConnInv' /\ Held' = Held
    BY <1>1, <2>1, <2>2, <2>5, SameClientKeeps DEF SameClient
  <2>7. AttemptInv'
    BY <2>1, <2>3, <2>4 DEF Sound, AttemptInv, Midway
  <2>8. Types' /\ SocketInv'
    BY <2>1, <2>6 DEF Sound, Types, SocketInv, Attempted
  <2>9. OwnerInv'
    BY <1>3, <2>1, <2>4, <2>5 DEF Sound, OwnerInv
  <2> QED
    BY <2>2, <2>5, <2>6, <2>7, <2>8, <2>9 DEF Good, Working, Sound
<1> QED
  BY <1>2, <1>3

LEMMA ResetFunctorStep ==
    ASSUME Working, Sound, NEW f, Taken(f), f.op = "ResetChannel", calling, ~Midway,
           channel_' = "none", calling' = calling,
           UNCHANGED <<connector_connect_, state_, timers, retry_delay_ms_, sockets, pending,
                       aborted, alive, keep_alive, connector_,
                       connection_, next_conn_id_, conns, attached, shared, restarting, accepting,
                       upc, conn, unique, calls, hasty>>
    PROVE  Good
<1>0. QuietUser
  BY DEF QuietUser
<1>1. f = Functor("ResetChannel") /\ f.conn = 0
  BY IsConnectorFunctor, FunctorIs DEF Taken, ConnectorFunctors
<1>2. Queued("ResetChannel")
  BY <1>1 DEF Taken, Queued, InQueue
<1>3. channel_ = "removed" /\ state_ # "kconnecting" /\ ~Queued("StartInLoop")
  BY <1>2 DEF Sound, AttemptInv
<1>4. /\ QueueInv' /\ InQueue' \subseteq InQueue /\ InQueue \subseteq InQueue' \cup {f}
      /\ f \notin InQueue'
  BY <1>1 DEF Taken, QueueInv, InQueue, OnceOps
<1>5. ~Queued("ResetChannel")' /\ \A o : Queued(o)' => Queued(o)
  BY <1>1, <1>4 DEF Queued, InQueue
<1>6. UserMoves /\ (Stopping' <=> Stopping) /\ (Released' <=> Released) /\ DestructorInv'
  BY <1>0, QuietUserIs, DestructorKept
<1>7. ConnInv' /\ Held' = Held
  BY <1>1, <1>4, <1>6, SameClientKeeps DEF SameClient
<1>8. AttemptInv'
  BY <1>3, <1>5 DEF Sound, AttemptInv, Midway
<1>9. Types' /\ SocketInv'
  <2>1. Attempted' <=> Attempted
    BY <1>3 DEF Attempted
  <2> QED
    BY <1>7, <2>1 DEF Sound, Types, SocketInv
<1>10. OwnerInv'
  BY <1>3, <1>5, <1>6 DEF Sound, OwnerInv
<1> QED
  BY <1>4, <1>6, <1>7, <1>8, <1>9, <1>10 DEF Good, Working, Sound

(* what a functor of connection i leaves of it *)
Leaves(i) ==
    /\ conns' \in [Conns -> {"none", "kconnected", "kdisconnecting", "kdisconnected", "gone"}]
    /\ conns'[i] # "none" /\ \A j \in Conns \ {i} : conns'[j] = conns[j] /\ (Up(j)' <=> Up(j))
    /\ \A j \in Conns : conns'[j] = "none" <=> j >= next_conn_id_'
    /\ attached' \subseteq attached
    /\ \A j \in Conns \ {i} : j \in attached => j \in attached'
    /\ Tended(i)'
    /\ connection_ = i /\ upc \notin Late => i \in attached' /\ Up(i)'
    /\ \A g \in InQueue' : FunctorOK(g)'

(* and why its socket is closed at the right time *)
Sockets(i) ==
    /\ i \in Held
    /\ Up(i) => connection_ = i \/ i \in shared \/ \E g \in InQueue' : g.conn = i
    /\ ~Up(i) => conns'[i] = "gone" \/ \E g \in InQueue' : g.conn = i
    /\ IF connection_ = i \/ Referenced(i, InQueue')
         THEN UNCHANGED <<sockets, aborted>>
         ELSE IF Up(i)
           THEN aborted' = "~TcpConnection" /\ UNCHANGED sockets
           ELSE sockets' = sockets - 1 /\ UNCHANGED aborted
    /\ Up(i) => Up(i)'

(* The reference of a functor to its connection goes. *)
LEMMA ReleaseStep ==
    ASSUME Working, Sound, NEW f, Taken(f), NEW i \in Conns, i = f.conn, calling, ~Midway,
           calling' = calling, Leaves(i), Sockets(i),
           UNCHANGED <<connector_connect_, state_, retry_delay_ms_, channel_, timers, pending,
                       alive, keep_alive, connector_, connection_, next_conn_id_, shared,
                       restarting, accepting, upc, conn, unique, calls, hasty>>
    PROVE  Good
<1>0. QuietUser
  BY DEF QuietUser
<1>1. /\ QueueInv' /\ InQueue' \subseteq InQueue /\ InQueue = InQueue' \cup {f}
  BY DEF Taken, QueueInv, InQueue
<1>2. \A o \in ConnectorFunctors : Queued(o)' <=> Queued(o)
  <2>1. LeftOf(batch', i)
    BY ConnectionTaken
  <2>2. PICK b : b = batch'
    OBVIOUS
  <2>3. \A o \in ConnectorFunctors : Functor(o) \in Range(b) <=> Functor(o) \in Range(batch)
    BY <2>1, <2>2, LeftConnector
  <2>4. \A o : Functor(o)' = Functor(o)
    BY DEF Functor
  <2> QED
    BY <2>2, <2>3, <2>4 DEF Queued
<1>3. AttemptInv' /\ OwnerInv' /\ DestructorInv'
  BY <1>0, <1>2, ConnectorKept, DestructorKept
<1>4. Elsewhere(i)
  BY <1>1 DEF Elsewhere, Leaves
<1>5. aborted' = "none" /\ SocketInv'
  <2>0. Referenced(i, InQueue)' <=> i \in shared \/ \E g \in InQueue' : g.conn = i
    BY DEF Referenced
  <2>1. PICK e : e = IF Attempted THEN 1 ELSE 0
    OBVIOUS
  <2>2. e \in Nat /\ sockets = e + Cardinality(Held) /\ Cardinality(Held) \in Nat
    BY <2>1, HeldCounts DEF Sound, SocketInv
  <2>3. sockets - 1 = e + (Cardinality(Held) - 1)
    BY <2>2
  <2>4. e = IF Attempted' THEN 1 ELSE 0
    BY <2>1 DEF Attempted
  <2>5. conns'[i] \in {"kconnected", "kdisconnecting", "kdisconnected", "gone"}
    BY DEF Leaves
  <2>6. CASE Kept(i)'
    <3>1. i \in Held /\ i \in Held'
      BY <2>5, <2>6 DEF Held, Up, Sockets
    <3>2. Held' = Held
      BY <1>4, <3>1, HeldElsewhere
    <3>3. UNCHANGED <<sockets, aborted>>
      BY <2>6 DEF Sockets, Kept, Referenced
    <3>4. sockets = e + Cardinality(Held)
      BY <2>2, Zenon
    <3>5. SocketInv'
      BY <2>4, <3>2, <3>3, <3>4, Zenon DEF SocketInv
    <3> QED
      BY <3>3, <3>5 DEF Working
  <2>7. CASE ~Kept(i)'
    <3>1. ~Up(i) /\ conns'[i] = "gone"
      BY <2>0, <2>7 DEF Sockets, Kept
    <3>2. sockets' = sockets - 1 /\ UNCHANGED aborted
      BY <2>7, <3>1 DEF Sockets, Kept, Referenced
    <3>3. i \in Held /\ i \notin Held'
      BY <2>7, <3>1 DEF Held, Up, Sockets
    <3>4. Cardinality(Held') = Cardinality(Held) - 1
      BY <1>4, <3>3, HeldElsewhere
    <3>5. SocketInv'
      BY <2>3, <2>4, <3>2, <3>4, Zenon DEF SocketInv
    <3> QED
      BY <3>2, <3>5 DEF Working
  <2> QED
    BY <2>6, <2>7
<1>6. ConnInv'
  <2>1. ASSUME NEW j \in Conns PROVE Tended(j)'
    <3>1. CASE j = i
      BY <3>1 DEF Leaves
    <3>2. CASE j # i
      <4>1. /\ conns'[j] = conns[j] /\ (Up(j)' <=> Up(j)) /\ Tended(j)
            /\ (j \in attached' => j \in attached)
        BY <3>2 DEF Sound, ConnInv, Leaves
      <4>2. \A o : Waits(o, j) => Waits(o, j)'
        <5>1. \A o : ConnFunctor(o, j).conn = j /\ ConnFunctor(o, j)' = ConnFunctor(o, j)
          BY DEF ConnFunctor
        <5> QED
          BY <1>1, <3>2, <5>1 DEF Waits
      <4> QED
        BY <4>1, <4>2 DEF Tended
    <3> QED
      BY <3>1, <3>2
  <2>2. (connection_ # 0 =>
              /\ alive /\ state_ = "kconnected" /\ conns[connection_] # "none"
              /\ upc \notin Late => connection_ \in attached /\ Up(connection_))'
    <3> SUFFICES ASSUME connection_' # 0
                 PROVE  (/\ alive /\ state_ = "kconnected" /\ conns[connection_] # "none"
                         /\ upc \notin Late => connection_ \in attached /\ Up(connection_))'
      OBVIOUS
    <3>1. PICK c : c = connection_
      OBVIOUS
    <3>2. connection_' = c /\ c # 0 /\ c \in 0 .. MaxConns
      BY <3>1 DEF Sound, Types
    <3>3. /\ alive /\ state_ = "kconnected" /\ conns[c] # "none" /\ c \in Conns
          /\ upc \notin Late => c \in attached /\ Up(c)
      BY <3>1, <3>2, ConnIsConn DEF Sound, ConnInv
    <3>4. CASE c = i
      <4>1. conns'[c] # "none" /\ (upc \notin Late => c \in attached' /\ Up(i)')
        BY <3>1, <3>4 DEF Leaves
      <4> QED
        BY <3>2, <3>3, <3>4, <4>1 DEF Up
    <3>5. CASE c # i
      <4>1. conns'[c] = conns[c] /\ (Up(c)' <=> Up(c)) /\ (c \in attached => c \in attached')
        BY <3>3, <3>5 DEF Leaves
      <4> QED
        BY <3>2, <3>3, <4>1 DEF Up
    <3> QED
      BY <3>4, <3>5
  <2> QED
    BY <2>1, <2>2 DEF ConnInv, Leaves
<1>7. Types'
  BY DEF Sound, Types, Leaves
<1> QED
  BY <1>1, <1>3, <1>5, <1>6, <1>7 DEF Good, Sound

(* ForceCloseInLoop finds the connection down, or SetCloseCallback runs.    *)
LEMMA LateFunctorStep ==
    ASSUME Working, Sound, NEW f, Taken(f), calling, ~Midway, calling' = calling,
           \/ f.op = "ForceCloseInLoop" /\ ~Up(f.conn) /\ attached' = attached
           \/ f.op = "SetCloseCallback" /\ attached' = attached \ {f.conn},
           IF connection_ = f.conn \/ Referenced(f.conn, InQueue')
             THEN UNCHANGED <<sockets, aborted>>
             ELSE IF Up(f.conn)
               THEN aborted' = "~TcpConnection" /\ UNCHANGED sockets
               ELSE sockets' = sockets - 1 /\ UNCHANGED aborted,
           UNCHANGED <<connector_connect_, state_, retry_delay_ms_, channel_, timers, pending,
                       conns, alive, keep_alive, connector_, connection_, next_conn_id_, shared,
                       restarting, accepting, upc, conn, unique, calls, hasty>>
    PROVE  Good
<1>1. PICK i : i = f.conn
  OBVIOUS
<1>2. f.op \notin ConnectorFunctors /\ f.op # "ConnectionDestroyed" /\ f \in InQueue /\ f \in Functors
  BY DEF Taken, ConnectorFunctors
<1>3. i \in Conns /\ conns[i] # "none" /\ FunctorOK(f) /\ Tended(i) /\ i # 0
  BY <1>1, <1>2 DEF Taken, FunctorOK, Sound, ConnInv, Conns
<1>4. InQueue = InQueue' \cup {f}
  BY DEF Taken, InQueue
<1>5. conns \in [Conns -> {"none", "kconnected", "kdisconnecting", "kdisconnected", "gone"}]
  BY DEF Sound, Types
<1>6. conns' = conns /\ \A j : Up(j)' <=> Up(j)
  BY DEF Up
<1>7. \A o : o # f.op => (Waits(o, i) => Waits(o, i)')
  <2>1. \A o : ConnFunctor(o, i).op = o /\ ConnFunctor(o, i)' = ConnFunctor(o, i)
    BY DEF ConnFunctor
  <2> QED
    BY <1>4, <2>1 DEF Waits
<1>8. Up(i) => f.op = "SetCloseCallback"
  BY <1>1
<1>9. connection_ = i /\ upc \notin Late => i \in attached' /\ Up(i)
  <2>1. CASE f.op = "SetCloseCallback"
    <3>1. upc \in Late \cup {"dead"}
      BY <1>3, <2>1 DEF FunctorOK
    <3>2. connection_ = i => alive
      BY <1>3 DEF Sound, ConnInv
    <3> QED
      BY <3>1, <3>2 DEF Sound, DestructorInv
  <2>2. CASE f.op # "SetCloseCallback"
    <3>1. attached' = attached
      BY <2>2
    <3> QED
      BY <1>3, <3>1 DEF Sound, ConnInv
  <2> QED
    BY <2>1, <2>2
<1>10. Tended(i)'
  <2>1. (i \in attached' => i \in attached /\ f.op # "SetCloseCallback")
    BY <1>1
  <2>2. i \in attached' =>
            /\ conns'[i] # "none"
            /\ Up(i)' => Waits("SetCloseCallback", i)' \/ (connection_' = i /\ upc' \notin Late)
    BY <1>3, <1>6, <1>7, <2>1 DEF Tended
  <2>3. conns'[i] = "kdisconnected" => Waits("ConnectionDestroyed", i)'
    BY <1>2, <1>3, <1>6, <1>7 DEF Tended
  <2>4. Up(i)' /\ i \notin shared' /\ (connection_' # i \/ upc' = "end") =>
            Waits("ForceCloseInLoop", i)'
    BY <1>3, <1>6, <1>7, <1>8 DEF Tended
  <2> QED
    BY <2>2, <2>3, <2>4, Zenon DEF Tended
<1>11. Leaves(i)
  <2>1. \A j \in Conns : conns'[j] = "none" <=> j >= next_conn_id_'
    BY <1>6, Zenon DEF Sound, ConnInv
  <2>2. attached' \subseteq attached /\ \A j \in Conns \ {i} : j \in attached => j \in attached'
    BY <1>1
  <2>3. ASSUME NEW g \in InQueue' PROVE FunctorOK(g)'
    <3>1. FunctorOK(g)
      BY <1>4 DEF Sound, ConnInv
    <3> QED
      BY <1>6, <2>2, <3>1 DEF FunctorOK, Dying
  <2> QED
    BY <1>3, <1>5, <1>6, <1>9, <1>10, <2>1, <2>2, <2>3 DEF Leaves
<1>12. Sockets(i)
  <2>1. i \in Held
    <3>1. Referenced(i, InQueue)
      BY <1>1, <1>2 DEF Referenced
    <3> QED
      BY <1>3, <1>5, <3>1 DEF Held, Up, Kept
  <2>2. \A o : ConnFunctor(o, i).conn = i
    BY DEF ConnFunctor
  <2>3. Up(i) => connection_ = i \/ i \in shared \/ \E g \in InQueue' : g.conn = i
    <3>1. Waits("ForceCloseInLoop", i)' => \E g \in InQueue' : g.conn = i
      BY DEF Waits, ConnFunctor
    <3> QED
      BY <1>3, <1>7, <1>8, <3>1 DEF Tended
  <2>4. ~Up(i) => conns'[i] = "gone" \/ \E g \in InQueue' : g.conn = i
    <3>1. Waits("ConnectionDestroyed", i)' => \E g \in InQueue' : g.conn = i
      BY DEF Waits, ConnFunctor
    <3>2. ~Up(i) => conns[i] \in {"kdisconnected", "gone"}
      BY <1>3, <1>5 DEF Up
    <3> QED
      BY <1>2, <1>3, <1>6, <1>7, <3>1, <3>2 DEF Tended
  <2> QED
    BY <1>1, <1>6, <2>1, <2>3, <2>4, Zenon DEF Sockets
<1> QED
  BY <1>1, <1>3, <1>11, <1>12, ReleaseStep

LEMMA DestroyedFunctorStep ==
    ASSUME Working, Sound, NEW f, Taken(f), f.op = "ConnectionDestroyed", calling, ~Midway,
           calling' = calling, conns' = [conns EXCEPT ![f.conn] = "gone"],
           IF connection_ = f.conn \/ Referenced(f.conn, InQueue')
             THEN UNCHANGED <<sockets, aborted>>
             ELSE IF Up(f.conn)
               THEN aborted' = "~TcpConnection" /\ UNCHANGED sockets
               ELSE sockets' = sockets - 1 /\ UNCHANGED aborted,
           UNCHANGED <<connector_connect_, state_, retry_delay_ms_, channel_, timers, pending,
                       attached, alive, keep_alive, connector_, connection_, next_conn_id_, shared,
                       restarting, accepting, upc, conn, unique, calls, hasty>>
    PROVE  Good
<1>1. PICK i : i = f.conn
  OBVIOUS
<1>2. i \in Conns /\ conns[i] = "kdisconnected" /\ f \notin InQueue' /\ i # 0 /\ f \in Functors
  BY <1>1 DEF Taken, FunctorOK, OnceOps, InQueue, ConnectorFunctors, Conns
<1>3. InQueue = InQueue' \cup {f}
  BY DEF Taken, InQueue
<1>4. /\ conns' \in [Conns -> {"none", "kconnected", "kdisconnecting", "kdisconnected", "gone"}]
      /\ conns'[i] = "gone"
      /\ \A j \in Conns \ {i} : conns'[j] = conns[j] /\ (Up(j)' <=> Up(j))
      /\ \A j \in Conns : conns'[j] = "none" <=> j >= next_conn_id_'
      /\ ~Up(i)' /\ ~Up(i)
  <2>1. conns' = [conns EXCEPT ![i] = "gone"] /\ ~Up(i)
    BY <1>1, <1>2 DEF Up
  <2> QED
    BY <1>2, <2>1, ConnChanges
<1>5. Tended(i)'
  BY <1>4 DEF Tended
<1>6. Leaves(i)
  <2>1. connection_ = i => upc \in Late
    BY <1>2, <1>4 DEF Sound, ConnInv
  <2>2. ASSUME NEW h \in InQueue' PROVE FunctorOK(h)'
    <3>1. FunctorOK(h) /\ h \in Functors
      <4>1. h \in Range(pending) \cup Range(batch)
        BY <1>3 DEF InQueue
      <4>2. pending \in Seq(Functors) /\ batch \in Seq(Functors)
        BY DEF Sound, QueueInv, Single
      <4>3. h \in Functors
        BY <4>1, <4>2, QueuedIsFunctor
      <4> QED
        BY <1>3, <4>3 DEF Sound, ConnInv
    <3>2. h.op = "ConnectionDestroyed" => h.conn # i /\ h.op \notin ConnectorFunctors
      <4>1. h # f
        BY <1>2
      <4> QED
        BY <1>1, <1>2, <3>1, <4>1 DEF Functors, ConnectorFunctors
    <3>3. h.op \notin ConnectorFunctors => conns'[h.conn] # "none"
      BY <1>4, <3>1 DEF FunctorOK
    <3> QED
      BY <1>4, <3>1, <3>2, <3>3 DEF FunctorOK, Dying
  <2> QED
    BY <1>4, <1>5, <2>1, <2>2 DEF Leaves
<1>7. Sockets(i)
  <2>1. i \in Held
    BY <1>2 DEF Held
  <2> QED
    BY <1>1, <1>4, <2>1, Zenon DEF Sockets
<1> QED
  BY <1>1, <1>2, <1>6, <1>7, ReleaseStep

LEMMA RunFunctorStep ==
    ASSUME Working, Sound, RunFunctor
    PROVE  Good
<1>1. PICK f : f = Head(batch)
  OBVIOUS
<1>2. /\ calling /\ ~Midway /\ batch # <<>> /\ batch' = Tail(batch)
      /\ RunConnectorFunctor \/ RunConnFunctor
      /\ UNCHANGED <<calling, alive, keep_alive, connector_, accepting, upc, conn, unique, calls,
                     hasty>>
  BY DEF RunFunctor, InFunctors, ownerVars, userVars
<1>3. Taken(f)
  BY <1>1, <1>2, TakeFunctor
<1>4. CASE RunConnectorFunctor
  <2>1. /\ f.op \in ConnectorFunctors
        /\ UNCHANGED <<connector_connect_, connection_, next_conn_id_, conns, attached, shared, restarting>>
    BY <1>1, <1>4 DEF RunConnectorFunctor, connVars
  <2>2. CASE ~connector_ /\ aborted' = "use after free"
    <3>1. f = Functor(f.op)
      BY <1>3, <2>1, IsConnectorFunctor DEF Taken
    <3>2. Queued(f.op)
      BY <1>3, <3>1 DEF Taken, Queued, InQueue
    <3>3. hasty
      BY <2>1, <2>2, <3>2 DEF Sound, OwnerInv, Released
    <3> QED
      BY <1>2, <2>2, <3>3 DEF Good
  <2>3. CASE /\ connector_ /\ f.op = "StartInLoop"
             /\ StartInLoop(state_, timers, retry_delay_ms_) /\ UNCHANGED pending
    BY <1>2, <1>3, <2>1, <2>3, StartFunctorStep
  <2>4. CASE connector_ /\ f.op = "StopInLoop" /\ StopInLoop /\ UNCHANGED aborted
    BY <1>2, <1>3, <2>1, <2>4, StopFunctorStep
  <2>5. CASE /\ connector_ /\ f.op = "ResetChannel" /\ channel_' = "none"
             /\ UNCHANGED <<state_, timers, retry_delay_ms_, sockets, pending, aborted>>
    BY <1>2, <1>3, <2>1, <2>5, ResetFunctorStep
  <2> QED
    BY <1>1, <1>4, <2>2, <2>3, <2>4, <2>5 DEF RunConnectorFunctor
<1>5. CASE RunConnFunctor
  <2> DEFINE Release == IF connection_ = f.conn THEN UNCHANGED <<sockets, aborted>>
                        ELSE LetGo(f.conn, Range(pending) \cup Range(Tail(batch)))
  <2>1. UNCHANGED <<connector_connect_, state_, retry_delay_ms_, channel_, timers, next_conn_id_,
                    shared>>
    BY <1>5 DEF RunConnFunctor, connectorVars
  <2>2. CASE /\ f.op = "ForceCloseInLoop" /\ Up(f.conn) /\ Close(f.conn, pending)
             /\ UNCHANGED <<sockets, attached>>
    <3>1. f.conn \in Conns /\ (f.conn \in attached => Dying)
      BY <1>3, <2>2 DEF Taken, FunctorOK, ConnectorFunctors
    <3>2. LeftOf(batch', f.conn)
      BY <1>3, ConnectionTaken
    <3> QED
      BY <1>2, <2>1, <2>2, <3>1, <3>2, CloseStep
  <2>3. ASSUME pending' = pending, Release
        PROVE  IF connection_ = f.conn \/ Referenced(f.conn, InQueue')
                 THEN UNCHANGED <<sockets, aborted>>
                 ELSE IF Up(f.conn)
                   THEN aborted' = "~TcpConnection" /\ UNCHANGED sockets
                   ELSE sockets' = sockets - 1 /\ UNCHANGED aborted
    <3>1. InQueue' = Range(pending) \cup Range(Tail(batch))
      BY <1>2, <2>3 DEF InQueue
    <3> QED
      BY <2>3, <3>1, Zenon DEF LetGo
  <2>4. CASE /\ f.op = "ForceCloseInLoop" /\ ~Up(f.conn) /\ Release
             /\ UNCHANGED <<pending, conns, connection_, attached, restarting, overrun>>
    <3> HIDE DEF Release
    <3> QED
      BY <1>2, <1>3, <2>1, <2>3, <2>4, LateFunctorStep
  <2>5. CASE /\ f.op = "SetCloseCallback" /\ attached' = attached \ {f.conn} /\ Release
             /\ UNCHANGED <<pending, conns, connection_, restarting, overrun>>
    <3> HIDE DEF Release
    <3> QED
      BY <1>2, <1>3, <2>1, <2>3, <2>5, LateFunctorStep
  <2>6. CASE /\ f.op = "ConnectionDestroyed" /\ conns' = [conns EXCEPT ![f.conn] = "gone"]
             /\ Release
             /\ UNCHANGED <<pending, connection_, attached, restarting, overrun>>
    <3> HIDE DEF Release
    <3> QED
      BY <1>2, <1>3, <2>1, <2>3, <2>6, DestroyedFunctorStep
  <2> QED
    BY <1>1, <1>5, <2>2, <2>4, <2>5, <2>6 DEF RunConnFunctor
<1> QED
  BY <1>2, <1>4, <1>5

-----------------------------------------------------------------------------
(* User code. *)

(* A functor of the connector is queued, alone of its kind if it must be. *)
LEMMA ConnectorQueued ==
    ASSUME Sound, NEW o \in ConnectorFunctors, o \in OnceOps => ~Queued(o),
           pending' = Append(pending, Functor(o)), UNCHANGED <<batch, calling>>
    PROVE  /\ QueueInv' /\ InQueue' = InQueue \cup {Functor(o)}
           /\ Queued(o)' /\ \A q \in ConnectorFunctors \ {o} : Queued(q)' <=> Queued(q)
<1>1. Functor(o) \in Functors /\ Functor(o).op = o
  BY FunctorIs
<1>2. MayPush(pending, batch, Functor(o))
  BY <1>1 DEF Sound, QueueInv, MayPush, Queued
<1>3. /\ Single(Append(pending, Functor(o)), batch)
      /\ Range(Append(pending, Functor(o))) = Range(pending) \cup {Functor(o)}
  BY <1>2, PushKeeps
<1>4. QueueInv' /\ InQueue' = InQueue \cup {Functor(o)}
  BY <1>3 DEF Sound, QueueInv, InQueue
<1>5. \A q \in ConnectorFunctors \ {o} : Functor(q) # Functor(o)
  BY FunctorIs
<1> QED
  BY <1>4, <1>5 DEF Queued, InQueue

(* What the queued functor is to the client. *)
LEMMA ConnectorQueuedSame ==
    ASSUME NEW o \in ConnectorFunctors, InQueue' = InQueue \cup {Functor(o)},
           UNCHANGED <<connection_, next_conn_id_, conns, attached, shared, alive>>
    PROVE  SameClient
<1>1. Functor(o).op \in ConnectorFunctors /\ Functor(o).conn = 0
  BY FunctorIs
<1> QED
  BY <1>1 DEF SameClient

LEMMA CallConnectorStep ==
    ASSUME Working, Sound, NEW op \in Ops, NEW here \in BOOLEAN, CallConnector(op, here),
           ~misused', alive, upc \in Outside, upc' \in Outside, calls' \in 0 .. MaxCalls,
           UNCHANGED <<batch, calling, alive, keep_alive, connector_, connection_, conn, unique,
                       next_conn_id_, attached, shared, restarting, accepting, hasty>>
    PROVE  Good
<1>0. QuietUser
  BY DEF QuietUser
<1>1. /\ connector_ /\ ~keep_alive /\ upc # "end" /\ upc' # "end"
      /\ ~Stopping' /\ ~Released' /\ UserMoves /\ DestructorInv' /\ (Dying' <=> Dying)
      /\ upc' \in Outside \cup Destructor \cup {"dead"} /\ conn' \in 0 .. MaxConns
  <2>1. upc # "end" /\ upc # "keep" /\ upc' # "end" /\ upc' # "keep"
    BY DEF Outside, Ops
  <2>2. connector_ /\ ~keep_alive
    BY <2>1 DEF Sound, OwnerInv
  <2>3. ~Stopping' /\ ~Released'
    BY <2>1 DEF Stopping, Released
  <2> QED
    BY <1>0, <2>1, <2>2, <2>3, QuietUserIs, DestructorKept
<1>2. op = "Connect" => Startable
  BY DEF CallConnector
<1>3. Startable => connection_ = 0 /\ ~accepting /\ ~restarting
  BY DEF Startable, Sound, ConnInv
<1>4. Startable => \A o \in ConnectorFunctors : Functor(o) \notin InQueue
  BY DEF Startable, Queued, InQueue
<1>5. CASE /\ op = "Connect" /\ here /\ StartInLoop(state_, timers, retry_delay_ms_)
           /\ UNCHANGED <<pending, conns>>
  <2>1. /\ state_ = "kdisconnected" /\ channel_ = "none" /\ timers = 0 /\ connection_ = 0
        /\ ~restarting /\ ~accepting
        /\ Functor("StartInLoop") \notin InQueue /\ Functor("ResetChannel") \notin InQueue
    BY <1>2, <1>3, <1>4, <1>5 DEF Startable, ConnectorFunctors
  <2>2. Started
    <3>1. retry_delay_ms_ \in Delays /\ StartInLoop("kdisconnected", 0, retry_delay_ms_)
      BY <1>5, <2>1 DEF Sound, Types, Delays
    <3> QED
      BY <2>1, <3>1, StartInLoopEffect
  <2>3. InQueue' = InQueue /\ QueueInv'
    BY <1>5 DEF Sound, QueueInv, InQueue
  <2>4. SameClient
    BY <1>5, <2>3 DEF SameClient
  <2>5. ~Stopping
    BY DEF Stopping, Outside, Ops
  <2>6. Sound'
    BY <1>0, <1>1, <1>5, <2>1, <2>2, <2>3, <2>4, <2>5, BeginAttempt
  <2> QED
    BY <2>2, <2>6 DEF Good, Started, Working
<1>6. CASE /\ op = "Connect" /\ pending' = Append(pending, Functor("StartInLoop"))
           /\ UNCHANGED <<state_, retry_delay_ms_, channel_, timers, sockets, aborted, conns>>
  <2>1. /\ state_ = "kdisconnected" /\ channel_ = "none" /\ timers = 0 /\ connection_ = 0
        /\ ~restarting /\ ~accepting /\ ~Queued("StartInLoop")
    BY <1>2, <1>3, <1>6 DEF Startable, ConnectorFunctors
  <2>2. /\ QueueInv' /\ InQueue' = InQueue \cup {Functor("StartInLoop")}
        /\ Queued("StartInLoop")' /\ (Queued("ResetChannel")' <=> Queued("ResetChannel"))
    BY <1>6, <2>1, ConnectorQueued DEF ConnectorFunctors
  <2>3. SameClient
    BY <1>6, <2>2, ConnectorQueuedSame DEF ConnectorFunctors
  <2>4. ConnInv' /\ Held' = Held
    BY <1>1, <1>6, <2>3, SameClientKeeps
  <2>5. AttemptInv'
    BY <1>6, <2>1, <2>2 DEF Sound, AttemptInv, Midway
  <2>6. Types' /\ SocketInv'
    BY <1>1, <1>6, <2>4 DEF Sound, Types, SocketInv, Attempted
  <2>7. OwnerInv'
    BY <1>1 DEF OwnerInv
  <2> QED
    BY <1>1, <1>6, <2>2, <2>4, <2>5, <2>6, <2>7 DEF Good, Working, Sound
<1>7. CASE /\ op = "Stop" /\ pending' = Append(pending, Functor("StopInLoop"))
           /\ UNCHANGED <<state_, retry_delay_ms_, channel_, timers, sockets, aborted, conns>>
  <2>1. /\ QueueInv' /\ InQueue' = InQueue \cup {Functor("StopInLoop")}
        /\ (Queued("StartInLoop")' <=> Queued("StartInLoop"))
        /\ (Queued("ResetChannel")' <=> Queued("ResetChannel"))
    BY <1>7, ConnectorQueued DEF ConnectorFunctors, OnceOps
  <2>2. SameClient
    BY <1>7, <2>1, ConnectorQueuedSame DEF ConnectorFunctors
  <2>3. ConnInv' /\ Held' = Held
    BY <1>1, <1>7, <2>2, SameClientKeeps
  <2>4. AttemptInv'
    BY <1>1, <1>7, <2>1 DEF Sound, AttemptInv, Midway
  <2>5. Types' /\ SocketInv'
    BY <1>1, <1>7, <2>3 DEF Sound, Types, SocketInv, Attempted
  <2>6. OwnerInv'
    BY <1>1 DEF OwnerInv
  <2> QED
    BY <1>1, <1>7, <2>1, <2>3, <2>4, <2>5, <2>6 DEF Good, Working, Sound
<1>8. CASE /\ op = "Disconnect"
           /\ conns' = IF connection_ # 0 /\ conns[connection_] = "kconnected"
                         THEN [conns EXCEPT ![connection_] = "kdisconnecting"] ELSE conns
           /\ UNCHANGED <<state_, retry_delay_ms_, channel_, timers, sockets, pending, aborted>>
  <2>1. connector_connect_' = connector_connect_
    BY <1>8 DEF CallConnector
  <2>2. InQueue' = InQueue /\ QueueInv' /\ \A o : Queued(o)' <=> Queued(o)
    BY <1>8 DEF Sound, QueueInv, InQueue, Queued
  <2>3. AttemptInv' /\ OwnerInv'
    BY <1>0, <1>8, <2>1, <2>2, ConnectorKept
  <2>4. CASE conns' = conns
    <3>1. ConnInv' /\ Held' = Held
      BY <1>1, <1>8, <2>2, <2>4, SameClientKeeps DEF SameClient
    <3>2. Types' /\ SocketInv'
      BY <1>1, <1>8, <2>4, <3>1 DEF Sound, Types, SocketInv, Attempted
    <3> QED
      BY <1>1, <1>8, <2>2, <2>3, <3>1, <3>2 DEF Good, Working, Sound
  <2>5. CASE /\ connection_ # 0 /\ conns[connection_] = "kconnected"
             /\ conns' = [conns EXCEPT ![connection_] = "kdisconnecting"]
    <3>1. PICK c : c = connection_
      OBVIOUS
    <3>2. upc \notin Late /\ upc' \notin Late
      BY DEF Outside, Ops, Late
    <3>3. c \in Conns /\ c # 0 /\ conns[c] = "kconnected" /\ c \in attached /\ state_ = "kconnected"
      <4>1. c \in 0 .. MaxConns
        BY <3>1 DEF Sound, Types
      <4> QED
        BY <2>5, <3>1, <3>2, <4>1, ConnIsConn DEF Sound, ConnInv
    <3>4. /\ conns' \in [Conns -> {"none", "kconnected", "kdisconnecting", "kdisconnected", "gone"}]
          /\ conns'[c] = "kdisconnecting"
          /\ \A j \in Conns \ {c} : conns'[j] = conns[j] /\ (Up(j)' <=> Up(j))
          /\ \A j \in Conns : conns'[j] = "none" <=> j >= next_conn_id_'
          /\ Up(c)' /\ Up(c)
      <4>1. Up(c)
        BY <3>3 DEF Up
      <4> QED
        BY <2>5, <3>1, <3>3, <4>1, ConnChanges
    <3>5. Held' = Held
      <4>1. c \in Held /\ c \in Held'
        BY <3>3, <3>4 DEF Held
      <4>2. Elsewhere(c)
        BY <2>2, <3>4 DEF Elsewhere
      <4> QED
        BY <3>3, <4>1, <4>2, HeldElsewhere
    <3>6. Types' /\ SocketInv'
      BY <1>1, <1>8, <3>4, <3>5 DEF Sound, Types, SocketInv, Attempted
    <3>7. ConnInv'
      <4>1. ASSUME NEW j \in Conns PROVE Tended(j)'
        <5>1. Tended(j) /\ (Up(j)' <=> Up(j)) /\ (conns'[j] = conns[j] \/ j = c)
          BY <3>4 DEF Sound, ConnInv
        <5>2. \A o : Waits(o, j)' <=> Waits(o, j)
          BY <2>2 DEF Waits, ConnFunctor
        <5> QED
          BY <1>1, <3>2, <3>4, <5>1, <5>2 DEF Tended
      <4>2. (connection_ # 0 =>
                  /\ alive /\ state_ = "kconnected" /\ conns[connection_] # "none"
                  /\ upc \notin Late => connection_ \in attached /\ Up(connection_))'
        <5>1. Up(connection_)'
          BY <3>1, <3>4 DEF Up
        <5> QED
          BY <1>8, <3>1, <3>3, <3>4, <5>1
      <4>3. ASSUME NEW f \in InQueue' PROVE FunctorOK(f)'
        <5>1. FunctorOK(f)
          BY <2>2 DEF Sound, ConnInv
        <5>2. f.op = "ConnectionDestroyed" => f.op \notin ConnectorFunctors /\ f.conn \in Conns \ {c}
          BY <3>3, <5>1 DEF FunctorOK, ConnectorFunctors
        <5>3. f.op \notin ConnectorFunctors => conns'[f.conn] # "none"
          BY <3>4, <5>1 DEF FunctorOK
        <5> QED
          BY <1>1, <3>4, <5>1, <5>2, <5>3 DEF FunctorOK, UserMoves
      <4> QED
        BY <3>4, <4>1, <4>2, <4>3 DEF ConnInv
    <3> QED
      BY <1>1, <1>8, <2>2, <2>3, <3>6, <3>7 DEF Good, Working, Sound
  <2> QED
    BY <1>8, <2>4, <2>5
<1> QED
  BY <1>5, <1>6, <1>7, <1>8 DEF CallConnector

LEMMA CallHereStep ==
    ASSUME Working, Sound, NEW op \in Ops, CallHere(op), ~misused'
    PROVE  Good
<1>1. /\ alive /\ ~Dying /\ calls < MaxCalls /\ calls' = calls + 1 /\ CallConnector(op, TRUE)
      /\ UNCHANGED <<batch, calling, alive, keep_alive, connector_, connection_,
                     next_conn_id_, attached, shared, restarting, accepting, upc, conn, unique,
                     hasty>>
  BY DEF CallHere, roundVars, midVars
<1>2. calls' \in 0 .. MaxCalls
  <2>1. calls \in 0 .. MaxCalls /\ MaxCalls \in Nat /\ calls < MaxCalls
    BY <1>1, ClientAssumption, Zenon DEF Sound, Types
  <2>2. calls + 1 \in 0 .. MaxCalls
    BY <2>1
  <2> QED
    BY <1>1, <2>2
<1>3. upc \in Outside /\ upc' \in Outside
  BY <1>1 DEF Sound, Types, Dying
<1> QED
  BY <1>1, <1>2, <1>3, CallConnectorStep

LEMMA FinishCallStep ==
    ASSUME Working, Sound, FinishCall, ~misused'
    PROVE  Good
<1>1. /\ upc \in Ops /\ upc' = "idle" /\ CallConnector(upc, FALSE)
      /\ UNCHANGED <<batch, calling, alive, keep_alive, connector_, connection_,
                     next_conn_id_, attached, shared, restarting, accepting, conn, unique, calls,
                     hasty>>
  BY DEF FinishCall, roundVars, ownerVars, midVars
<1>2. PICK op \in Ops : op = upc
  BY <1>1
<1>3. alive /\ calls' \in 0 .. MaxCalls
  BY <1>1 DEF Sound, Types, OwnerInv, Ops
<1>4. CallConnector(op, FALSE) /\ upc \in Outside /\ upc' \in Outside
  BY <1>1, <1>2 DEF Outside
<1> QED
  BY <1>1, <1>3, <1>4, CallConnectorStep

(* ~TcpClient on the loop's thread. *)
LEMMA DestroyStep ==
    ASSUME Working, Sound, Destroy
    PROVE  Good
<1>1. /\ ~calling /\ ~Midway /\ alive /\ upc = "idle" /\ alive' = FALSE /\ connection_' = 0
      /\ UNCHANGED <<state_, retry_delay_ms_, channel_, timers, sockets, batch, calling, aborted,
                     connector_, next_conn_id_, shared, restarting, accepting, upc, conn, unique,
                     calls>>
  BY DEF Destroy, InEvents, roundVars, midVars
<1>2. /\ connector_ /\ ~keep_alive /\ upc \notin Destructor /\ upc \notin Late /\ ~Dying /\ ~Midway'
      /\ DestructorInv' /\ upc \notin {"keep", "end", "dead"}
  <2>1. connector_ /\ ~keep_alive /\ upc \notin Destructor /\ upc \notin Late /\ ~Dying
        /\ upc \notin {"keep", "end", "dead"}
    BY <1>1 DEF Sound, OwnerInv, Destructor, Late, Dying
  <2>2. ~Midway' /\ DestructorInv'
    BY <1>1 DEF Midway, DestructorInv, Destructor
  <2> QED
    BY <2>1, <2>2
<1>3. 0 \in 0 .. MaxConns
  BY ClientAssumption
<1>4. CASE connection_ = 0
  <2>1. /\ connector_connect_' = FALSE /\ pending' = Append(pending, Functor("StopInLoop"))
        /\ keep_alive' = TRUE /\ UNCHANGED <<conns, attached, hasty>>
    BY <1>4 DEF Destroy
  <2>2. /\ QueueInv' /\ InQueue' = InQueue \cup {Functor("StopInLoop")} /\ Queued("StopInLoop")'
        /\ (Queued("StartInLoop")' <=> Queued("StartInLoop"))
        /\ (Queued("ResetChannel")' <=> Queued("ResetChannel"))
    BY <1>1, <2>1, ConnectorQueued DEF ConnectorFunctors, OnceOps
  <2>3. Functor("StopInLoop").op = "StopInLoop" /\ Functor("StopInLoop").conn = 0
    BY FunctorIs DEF ConnectorFunctors
  <2>4. Held' = Held /\ \A i : Up(i)' <=> Up(i)
    <3>1. \A i : Up(i)' <=> Up(i)
      BY <2>1 DEF Up
    <3>2. ASSUME NEW i \in Conns PROVE Kept(i)' <=> Kept(i)
      <4>1. i # 0
        BY DEF Conns
      <4>2. (\E g \in InQueue' : g.conn = i) <=> (\E g \in InQueue : g.conn = i)
        BY <2>2, <2>3, <4>1
      <4> QED
        BY <1>1, <1>4, <4>2 DEF Kept, Referenced
    <3> QED
      BY <2>1, <3>1, <3>2 DEF Held
  <2>5. ConnInv'
    <3>1. ASSUME NEW f \in InQueue PROVE FunctorOK(f)'
      <4>1. FunctorOK(f)
        BY DEF Sound, ConnInv
      <4> QED
        BY <1>1, <2>1, <4>1 DEF FunctorOK, Dying
    <3>2. FunctorOK(Functor("StopInLoop"))'
      BY <2>3 DEF FunctorOK, ConnectorFunctors
    <3>3. \A f \in InQueue' : FunctorOK(f)'
      BY <2>2, <3>1, <3>2 DEF FunctorOK
    <3>4. ASSUME NEW i \in Conns PROVE Tended(i)'
      <4>1. Tended(i) /\ i # 0
        BY DEF Sound, ConnInv, Conns
      <4>2. \A o : Waits(o, i) => Waits(o, i)'
        BY <2>2 DEF Waits, ConnFunctor
      <4> QED
        BY <1>1, <1>4, <2>1, <2>4, <4>1, <4>2 DEF Tended
    <3>5. \A i \in Conns : conns'[i] = "none" <=> i >= next_conn_id_'
      BY <1>1, <2>1, Zenon DEF Sound, ConnInv
    <3> QED
      BY <1>1, <3>3, <3>4, <3>5 DEF ConnInv
  <2>6. AttemptInv'
    BY <1>1, <1>2, <2>2 DEF Sound, AttemptInv, Midway
  <2>7. Types' /\ SocketInv'
    BY <1>1, <1>3, <2>1, <2>4 DEF Sound, Types, SocketInv, Attempted
  <2>8. OwnerInv'
    BY <1>1, <1>2, <2>1, <2>2 DEF OwnerInv, Released
  <2> QED
    BY <1>1, <1>2, <2>2, <2>5, <2>6, <2>7, <2>8 DEF Good, Working, Sound
<1>5. CASE connection_ # 0
  <2>1. PICK c : c = connection_
    OBVIOUS
  <2>2. /\ attached' = attached \ {c}
        /\ IF c \notin shared
             THEN /\ conns' = [conns EXCEPT ![c] = "kdisconnecting"]
                  /\ pending' = Append(pending, ConnFunctor("ForceCloseInLoop", c))
             ELSE UNCHANGED <<conns, pending>>
        /\ hasty' = Unfinished
        /\ UNCHANGED <<connector_connect_, keep_alive>>
    BY <1>5, <2>1 DEF Destroy
  <2>3. c \in Conns /\ c # 0 /\ Up(c) /\ c \in attached /\ state_ = "kconnected" /\ conns[c] # "none"
    <3>1. c \in 0 .. MaxConns
      BY <2>1 DEF Sound, Types
    <3> QED
      BY <1>2, <1>5, <2>1, <3>1, ConnIsConn DEF Sound, ConnInv
  <2>4. PICK g : g = ConnFunctor("ForceCloseInLoop", c)
    OBVIOUS
  <2>5. g \in Functors /\ g.op = "ForceCloseInLoop" /\ g.conn = c
    BY <2>3, <2>4, ConnFunctorIs DEF FunctorOps
  <2>6. /\ QueueInv' /\ InQueue' \subseteq InQueue \cup {g} /\ InQueue \subseteq InQueue'
        /\ c \notin shared => g \in InQueue'
    <3>1. CASE c \in shared
      BY <1>1, <2>2, <3>1 DEF Sound, QueueInv, InQueue
    <3>2. CASE c \notin shared
      <4>1. pending' = Append(pending, g)
        BY <2>2, <2>4, <3>2
      <4>2. MayPush(pending, batch, g)
        BY <2>5 DEF Sound, QueueInv, MayPush, OnceOps
      <4>3. Single(Append(pending, g), batch) /\ Range(Append(pending, g)) = Range(pending) \cup {g}
        BY <4>2, PushKeeps
      <4> QED
        BY <1>1, <4>1, <4>3 DEF Sound, QueueInv, InQueue
    <3> QED
      BY <3>1, <3>2
  <2>7. \A o \in ConnectorFunctors : Queued(o)' <=> Queued(o)
    <3>1. \A o \in ConnectorFunctors : Functor(o) # g
      BY <2>5, FunctorIs DEF ConnectorFunctors
    <3> QED
      BY <2>6, <3>1 DEF Queued, InQueue
  <2>8. /\ conns' \in [Conns -> {"none", "kconnected", "kdisconnecting", "kdisconnected", "gone"}]
        /\ conns'[c] # "none" /\ Up(c)'
        /\ \A j \in Conns \ {c} : conns'[j] = conns[j] /\ (Up(j)' <=> Up(j))
        /\ \A j \in Conns : conns'[j] = "none" <=> j >= next_conn_id_'
    <3>1. CASE c \in shared
      <4>1. conns' = conns
        BY <2>2, <3>1
      <4> QED
        BY <1>1, <2>3, <4>1 DEF Sound, Types, ConnInv, Up
    <3>2. CASE c \notin shared
      <4>1. conns' = [conns EXCEPT ![c] = "kdisconnecting"]
        BY <2>2, <3>2
      <4> QED
        BY <1>1, <2>3, <4>1, ConnChanges
    <3> QED
      BY <3>1, <3>2
  <2>9. Held' = Held
    <3>1. c \in Held /\ c \in Held'
      BY <2>3, <2>8 DEF Held
    <3>2. Elsewhere(c)
      <4>1. \A j \in Conns : j # 0
        BY DEF Conns
      <4>2. ASSUME NEW j \in Conns \ {c}
            PROVE  conns'[j] = conns[j] /\ (connection_' = j <=> connection_ = j) /\ (j \in shared' <=> j \in shared)
        BY <1>1, <2>1, <2>8, <4>1
      <4>3. \A h : h.conn \in Conns \ {c} => (h \in InQueue' <=> h \in InQueue)
        BY <2>5, <2>6
      <4> QED
        BY <4>2, <4>3 DEF Elsewhere
    <3> QED
      BY <2>3, <3>1, <3>2, HeldElsewhere
  <2>10. ConnInv'
    <3>1. ASSUME NEW j \in Conns PROVE Tended(j)'
      <4>1. \A o : Waits(o, j) => Waits(o, j)'
        BY <2>6 DEF Waits, ConnFunctor
      <4>2. CASE j = c
        <5>1. c \notin shared => Waits("ForceCloseInLoop", c)'
          BY <2>4, <2>6 DEF Waits, ConnFunctor
        <5>2. c \notin attached' /\ conns'[c] # "kdisconnected"
          BY <2>2, <2>8 DEF Up
        <5> QED
          BY <1>1, <4>2, <5>1, <5>2 DEF Tended
      <4>3. CASE j # c
        <5>1. conns'[j] = conns[j] /\ (Up(j)' <=> Up(j)) /\ Tended(j) /\ connection_ # j
              /\ (j \in attached' => j \in attached)
          BY <2>1, <2>2, <2>8, <4>3 DEF Sound, ConnInv
        <5> QED
          BY <1>1, <4>1, <5>1 DEF Tended
      <4> QED
        BY <4>2, <4>3
    <3>2. ASSUME NEW f \in InQueue' PROVE FunctorOK(f)'
      <4>1. CASE f = g
        BY <2>2, <2>3, <2>5, <2>8, <4>1 DEF FunctorOK, ConnectorFunctors
      <4>2. CASE f \in InQueue
        <5>1. FunctorOK(f)
          BY <4>2 DEF Sound, ConnInv
        <5>2. f.op = "ConnectionDestroyed" => f.op \notin ConnectorFunctors /\ f.conn \in Conns \ {c}
          BY <2>3, <5>1 DEF FunctorOK, Up, ConnectorFunctors
        <5>3. f.op \notin ConnectorFunctors => conns'[f.conn] # "none"
          BY <2>8, <5>1 DEF FunctorOK
        <5> QED
          BY <1>1, <2>2, <2>8, <5>1, <5>2, <5>3 DEF FunctorOK, Dying
      <4> QED
        BY <2>6, <4>1, <4>2
    <3> QED
      BY <1>1, <2>8, <3>1, <3>2 DEF ConnInv
  <2>11. AttemptInv'
    <3>1. /\ Queued("StartInLoop")' <=> Queued("StartInLoop")
          /\ Queued("ResetChannel")' <=> Queued("ResetChannel")
      BY <2>7 DEF ConnectorFunctors
    <3> QED
      BY <1>1, <1>2, <3>1 DEF Sound, AttemptInv, Midway
  <2>12. Types' /\ SocketInv'
    BY <1>1, <1>3, <2>2, <2>8, <2>9 DEF Sound, Types, SocketInv, Attempted
  <2>13. OwnerInv'
    <3>1. ~hasty' => channel_' = "none" /\ \A o \in ConnectorFunctors : ~Queued(o)'
      BY <1>1, <2>2, <2>7 DEF Unfinished
    <3>2. ~Stopping'
      BY <1>1, <1>2, <2>2 DEF Stopping
    <3> QED
      BY <1>1, <1>2, <2>2, <2>3, <3>1, <3>2 DEF OwnerInv
  <2> QED
    BY <1>1, <1>2, <2>6, <2>10, <2>11, <2>12, <2>13 DEF Good, Working, Sound
<1> QED
  BY <1>4, <1>5

-----------------------------------------------------------------------------
(* ~TcpClient on the other thread. *)

(* a step of it that changes neither the connector nor a connection *)
LEMMA ThreadStep ==
    ASSUME Working, Sound, UserMoves, DestructorInv', OwnerInv',
           upc' \in Outside \cup Destructor \cup {"dead"}, conn' \in 0 .. MaxConns,
           UNCHANGED <<connector_connect_, state_, retry_delay_ms_, channel_, timers, sockets,
                       pending, batch, calling, aborted, alive, connector_, connection_,
                       next_conn_id_, conns, attached, shared, restarting, accepting, calls, hasty>>
    PROVE  Good
<1>1. InQueue' = InQueue /\ QueueInv' /\ \A o : Queued(o)' <=> Queued(o)
  BY DEF Sound, QueueInv, InQueue, Queued
<1>2. ConnInv' /\ Held' = Held
  BY <1>1, SameClientKeeps DEF SameClient
<1>3. Types' /\ AttemptInv' /\ SocketInv'
  BY <1>1, <1>2 DEF Sound, Types, AttemptInv, Midway, UserMoves, SocketInv, Attempted
<1> QED
  BY <1>1, <1>2, <1>3 DEF Good, Working, Sound

LEMMA TakeConnectionStep ==
    ASSUME Working, Sound, TakeConnection
    PROVE  Good
<1>1. /\ upc = "idle" /\ alive /\ conn' = connection_
      /\ upc' = (IF connection_ # 0 THEN "detach" ELSE "stop")
      /\ overrun' = (overrun \/ (connection_ # 0 /\ connection_ \notin shared /\ ~unique'))
      /\ UNCHANGED <<connector_connect_, state_, retry_delay_ms_, channel_, timers, sockets,
                     pending, batch, calling, aborted, alive, keep_alive, connector_, connection_,
                     next_conn_id_, conns, attached, shared, restarting, accepting, calls, hasty>>
  BY DEF TakeConnection, connectorVars, roundVars, ownerVars, connVars, midVars
<1>2. CASE overrun'
  BY <1>1, <1>2 DEF Good, Working
<1>3. CASE ~overrun'
  <2>1. upc' \in {"detach", "stop"}
    BY <1>1
  <2>2. /\ upc' \in Destructor /\ upc' \notin Late /\ upc \notin Late \cup {"dead"} /\ ~Dying
        /\ upc' \notin {"keep", "end", "dead", "force", "store"} /\ upc # "end"
    BY <1>1, <2>1 DEF Destructor, Late, Dying
  <2>3. UserMoves
    BY <2>2 DEF UserMoves
  <2>4. DestructorInv'
    <3>1. connection_ # 0 => (~unique' => connection_ \in shared)
      BY <1>1, <1>3
    <3>2. upc' = "detach" <=> connection_ # 0
      BY <1>1
    <3> QED
      BY <1>1, <2>2, <3>1, <3>2 DEF DestructorInv
  <2>5. OwnerInv'
    <3>1. ~keep_alive /\ connector_
      BY <1>1, <2>2 DEF Sound, OwnerInv
    <3>2. ~Stopping' /\ ~Released'
      BY <1>1, <2>2 DEF Stopping, Released
    <3> QED
      BY <1>1, <3>1, <3>2 DEF OwnerInv
  <2>6. upc' \in Outside \cup Destructor \cup {"dead"} /\ conn' \in 0 .. MaxConns
    BY <1>1, <2>2 DEF Sound, Types
  <2> QED
    BY <1>1, <2>3, <2>4, <2>5, <2>6, ThreadStep
<1> QED
  BY <1>2, <1>3

LEMMA TestStateStep ==
    ASSUME Working, Sound, TestState
    PROVE  Good
<1>1. /\ upc = "force" /\ upc' = (IF Up(conn) THEN "store" ELSE "end")
      /\ UNCHANGED <<connector_connect_, state_, retry_delay_ms_, channel_, timers, sockets,
                     pending, batch, calling, aborted, alive, keep_alive, connector_, connection_,
                     next_conn_id_, conns, attached, shared, restarting, accepting, conn, unique,
                     calls, hasty>>
  BY DEF TestState, connectorVars, roundVars, ownerVars, connVars, midVars
<1>2. upc' \in {"store", "end"} /\ upc' \in Late /\ upc \in Late /\ upc' \in Destructor /\ upc \in Destructor
  BY <1>1 DEF Late, Destructor
<1>3. alive /\ connection_ = conn /\ conn # 0
  BY <1>1, <1>2 DEF Sound, DestructorInv
<1>4. UserMoves
  BY <1>1, <1>2, <1>3 DEF UserMoves, Dying
<1>5. DestructorInv'
  BY <1>1, <1>2, <1>3 DEF DestructorInv
<1>6. OwnerInv'
  <2>1. ~keep_alive /\ connector_
    BY <1>3 DEF Sound, OwnerInv
  <2>2. ~Stopping' /\ ~Released'
    BY <1>1, <1>3 DEF Stopping, Released
  <2> QED
    BY <1>1, <1>3, <2>1, <2>2 DEF OwnerInv
<1>7. upc' \in Outside \cup Destructor \cup {"dead"} /\ conn' \in 0 .. MaxConns
  BY <1>1, <1>2 DEF Sound, Types
<1> QED
  BY <1>1, <1>4, <1>5, <1>6, <1>7, ThreadStep

LEMMA KeepConnectorStep ==
    ASSUME Working, Sound, KeepConnector
    PROVE  Good
<1>1. /\ upc = "keep" /\ upc' = "end" /\ keep_alive' = TRUE
      /\ UNCHANGED <<connector_connect_, state_, retry_delay_ms_, channel_, timers, sockets,
                     pending, batch, calling, aborted, alive, connector_, connection_,
                     next_conn_id_, conns, attached, shared, restarting, accepting, conn, unique,
                     calls, hasty>>
  BY DEF KeepConnector, connectorVars, roundVars, connVars, midVars
<1>2. alive /\ connection_ = 0 /\ conn = 0 /\ Stopping
  BY <1>1 DEF Sound, DestructorInv, Destructor, Stopping
<1>3. UserMoves
  BY <1>1, <1>2 DEF UserMoves, Dying, Destructor, Late
<1>4. DestructorInv'
  BY <1>1, <1>2 DEF DestructorInv
<1>5. OwnerInv'
  <2>1. connector_ /\ \A o : Queued(o)' <=> Queued(o)
    BY <1>1, <1>2 DEF Sound, OwnerInv, Queued
  <2> QED
    BY <1>1, <1>2, <2>1 DEF Sound, OwnerInv, Released
<1>6. upc' \in Outside \cup Destructor \cup {"dead"} /\ conn' \in 0 .. MaxConns
  BY <1>1 DEF Sound, Types, Destructor
<1> QED
  BY <1>1, <1>3, <1>4, <1>5, <1>6, ThreadStep

LEMMA StopConnectorStep ==
    ASSUME Working, Sound, StopConnector
    PROVE  Good
<1>1. /\ upc = "stop" /\ upc' = "keep" /\ connector_connect_' = FALSE
      /\ pending' = Append(pending, Functor("StopInLoop"))
      /\ UNCHANGED <<state_, retry_delay_ms_, channel_, timers, sockets, batch, calling, aborted,
                     alive, keep_alive, connector_, connection_, next_conn_id_, conns, attached,
                     shared, restarting, accepting, conn, unique, calls, hasty>>
  BY DEF StopConnector, roundVars, ownerVars, connVars, midVars
<1>2. alive /\ connection_ = 0 /\ conn = 0 /\ connector_ /\ ~keep_alive
  BY <1>1 DEF Sound, DestructorInv, Destructor, OwnerInv
<1>3. UserMoves
  BY <1>1, <1>2 DEF UserMoves, Dying, Destructor, Late
<1>4. DestructorInv'
  BY <1>1, <1>2 DEF DestructorInv
<1>5. /\ QueueInv' /\ InQueue' = InQueue \cup {Functor("StopInLoop")} /\ Queued("StopInLoop")'
      /\ (Queued("StartInLoop")' <=> Queued("StartInLoop"))
      /\ (Queued("ResetChannel")' <=> Queued("ResetChannel"))
  BY <1>1, ConnectorQueued DEF ConnectorFunctors, OnceOps
<1>6. SameClient
  BY <1>1, <1>5, ConnectorQueuedSame DEF ConnectorFunctors
<1>7. ConnInv' /\ Held' = Held
  BY <1>1, <1>3, <1>6, SameClientKeeps
<1>8. AttemptInv'
  BY <1>1, <1>2, <1>5 DEF Sound, AttemptInv, Midway
<1>9. Types' /\ SocketInv'
  BY <1>1, <1>7 DEF Sound, Types, SocketInv, Attempted, Destructor
<1>10. OwnerInv'
  BY <1>1, <1>2, <1>5 DEF OwnerInv, Released
<1> QED
  BY <1>1, <1>4, <1>5, <1>7, <1>8, <1>9, <1>10 DEF Good, Working, Sound

(* it queues a functor of its connection *)
LEMMA QueueForConn ==
    ASSUME Sound, NEW o \in {"ForceCloseInLoop", "SetCloseCallback"}, NEW c \in Conns,
           pending' = Append(pending, ConnFunctor(o, c)), UNCHANGED <<batch, calling>>
    PROVE  /\ QueueInv' /\ InQueue' = InQueue \cup {ConnFunctor(o, c)}
           /\ ConnFunctor(o, c).op = o /\ ConnFunctor(o, c).conn = c
           /\ \A q \in ConnectorFunctors : Queued(q)' <=> Queued(q)
           /\ \A q, j : Waits(q, j) => Waits(q, j)'
           /\ Waits(o, c)'
<1>1. ConnFunctor(o, c) \in Functors /\ ConnFunctor(o, c).op = o /\ ConnFunctor(o, c).conn = c
  BY ConnFunctorIs DEF FunctorOps
<1>2. MayPush(pending, batch, ConnFunctor(o, c))
  BY <1>1 DEF Sound, QueueInv, MayPush, OnceOps
<1>3. /\ Single(Append(pending, ConnFunctor(o, c)), batch)
      /\ Range(Append(pending, ConnFunctor(o, c))) = Range(pending) \cup {ConnFunctor(o, c)}
  BY <1>2, PushKeeps
<1>4. QueueInv' /\ InQueue' = InQueue \cup {ConnFunctor(o, c)}
  BY <1>3 DEF Sound, QueueInv, InQueue
<1>5. \A q \in ConnectorFunctors : Functor(q) # ConnFunctor(o, c)
  BY <1>1, FunctorIs DEF ConnectorFunctors
<1>6. \A q \in ConnectorFunctors : Queued(q)' <=> Queued(q)
  BY <1>4, <1>5 DEF Queued, InQueue
<1>7. \A q, j : ConnFunctor(q, j)' = ConnFunctor(q, j)
  BY DEF ConnFunctor
<1>8. (\A q, j : Waits(q, j) => Waits(q, j)') /\ Waits(o, c)'
  BY <1>4, <1>7 DEF Waits
<1> QED
  BY <1>1, <1>4, <1>6, <1>8

LEMMA DetachStep ==
    ASSUME Working, Sound, Detach
    PROVE  Good
<1>1. PICK c : c = conn
  OBVIOUS
<1>2. /\ upc = "detach" /\ upc' = (IF unique THEN "force" ELSE "end")
      /\ pending' = Append(pending, ConnFunctor("SetCloseCallback", c))
      /\ UNCHANGED <<connector_connect_, state_, retry_delay_ms_, channel_, timers, sockets,
                     batch, calling, aborted, alive, keep_alive, connector_, connection_,
                     next_conn_id_, conns, attached, shared, restarting, accepting, conn, unique,
                     calls, hasty>>
  BY <1>1 DEF Detach, connectorVars, roundVars, ownerVars, connVars, midVars
<1>3. /\ upc' \in {"force", "end"} /\ upc' \in Late /\ upc \notin Late /\ upc' \in Destructor
      /\ upc \in Destructor /\ Dying /\ Dying' /\ upc' \notin {"detach", "stop", "keep", "dead"}
  BY <1>2 DEF Late, Destructor, Dying
<1>4. /\ alive /\ connection_ = c /\ c # 0 /\ c \in Conns /\ (~unique => c \in shared)
      /\ c \in attached /\ Up(c) /\ state_ = "kconnected" /\ conns[c] # "none"
  <2>1. alive /\ connection_ = c /\ c # 0 /\ c \in 0 .. MaxConns /\ (~unique => c \in shared)
    BY <1>1, <1>2, <1>3 DEF Sound, DestructorInv, Types
  <2>2. c \in Conns
    BY <2>1, ConnIsConn
  <2> QED
    BY <1>3, <2>1, <2>2 DEF Sound, ConnInv
<1>5. PICK g : g = ConnFunctor("SetCloseCallback", c)
  OBVIOUS
<1>6. /\ QueueInv' /\ InQueue' = InQueue \cup {g} /\ g.op = "SetCloseCallback" /\ g.conn = c
      /\ \A q \in ConnectorFunctors : Queued(q)' <=> Queued(q)
      /\ \A q, j : Waits(q, j) => Waits(q, j)'
      /\ Waits("SetCloseCallback", c)'
  BY <1>2, <1>4, <1>5, QueueForConn
<1>7. \A i : Up(i)' <=> Up(i)
  BY <1>2 DEF Up
<1>8. Held' = Held
  <2>1. c \in Held /\ c \in Held'
    BY <1>4, <1>7 DEF Held
  <2>2. Elsewhere(c)
    BY <1>2, <1>6 DEF Elsewhere
  <2> QED
    BY <1>4, <2>1, <2>2, HeldElsewhere
<1>9. ConnInv'
  <2>1. ASSUME NEW j \in Conns PROVE Tended(j)'
    <3>1. Tended(j) /\ (upc' = "end" => c \in shared)
      BY <1>2, <1>4 DEF Sound, ConnInv
    <3>2. CASE j = c
      <4>1. conns[c] # "kdisconnected"
        BY <1>4 DEF Up
      <4>2. Up(c)' /\ c \notin shared' /\ (connection_' # c \/ upc' = "end") =>
                Waits("ForceCloseInLoop", c)'
        BY <1>2, <1>4, <3>1
      <4> QED
        BY <1>2, <1>4, <1>6, <3>2, <4>1, <4>2 DEF Tended
    <3>3. CASE j # c
      BY <1>2, <1>4, <1>6, <1>7, <3>1, <3>3 DEF Tended
    <3> QED
      BY <3>2, <3>3
  <2>2. ASSUME NEW f \in InQueue' PROVE FunctorOK(f)'
    <3>1. CASE f = g
      BY <1>2, <1>3, <1>4, <1>6, <3>1 DEF FunctorOK, ConnectorFunctors
    <3>2. CASE f \in InQueue
      <4>1. FunctorOK(f)
        BY <3>2 DEF Sound, ConnInv
      <4> QED
        BY <1>2, <1>3, <4>1 DEF FunctorOK
    <3> QED
      BY <1>6, <3>1, <3>2
  <2>3. \A i \in Conns : conns'[i] = "none" <=> i >= next_conn_id_'
    BY <1>2, Zenon DEF Sound, ConnInv
  <2> QED
    BY <1>2, <1>3, <1>4, <2>1, <2>2, <2>3 DEF ConnInv
<1>10. AttemptInv' /\ OwnerInv' /\ DestructorInv'
  <2>1. ~Stopping' /\ ~Released' /\ ~keep_alive /\ connector_
    BY <1>1, <1>2, <1>3, <1>4 DEF Sound, OwnerInv, Stopping, Released
  <2>2. /\ Queued("StartInLoop")' <=> Queued("StartInLoop")
        /\ Queued("ResetChannel")' <=> Queued("ResetChannel")
    BY <1>6 DEF ConnectorFunctors
  <2>3. AttemptInv'
    BY <1>2, <1>3, <2>2 DEF Sound, AttemptInv, Midway
  <2>4. OwnerInv'
    BY <1>2, <1>4, <2>1 DEF OwnerInv
  <2>5. DestructorInv'
    BY <1>1, <1>2, <1>3, <1>4 DEF DestructorInv
  <2> QED
    BY <2>3, <2>4, <2>5
<1>11. Types' /\ SocketInv'
  BY <1>2, <1>3, <1>8 DEF Sound, Types, SocketInv, Attempted
<1> QED
  BY <1>2, <1>6, <1>9, <1>10, <1>11 DEF Good, Working, Sound

LEMMA StoreStateStep ==
    ASSUME Working, Sound, StoreState
    PROVE  Good
<1>1. PICK c : c = conn
  OBVIOUS
<1>2. /\ upc = "store" /\ upc' = "end" /\ conns' = [conns EXCEPT ![c] = "kdisconnecting"]
      /\ pending' = Append(pending, ConnFunctor("ForceCloseInLoop", c))
      /\ overrun' = (overrun \/ ~Up(c)) /\ aborted' = (IF Up(c) THEN aborted ELSE "RemoveChannel")
      /\ UNCHANGED <<connector_connect_, state_, retry_delay_ms_, channel_, timers, sockets,
                     batch, calling, alive, keep_alive, connector_, connection_,
                     next_conn_id_, attached, shared, restarting, accepting, conn, unique,
                     calls, hasty>>
  BY <1>1 DEF StoreState, connectorVars, roundVars, ownerVars, midVars
<1>3. CASE ~Up(c)
  BY <1>2, <1>3 DEF Good
<1>4. CASE Up(c)
  <2>1. /\ upc' \in Late /\ upc \in Late /\ upc' \in Destructor /\ upc \in Destructor
        /\ Dying /\ Dying' /\ upc' \notin {"detach", "stop", "keep", "dead", "force", "store"}
    BY <1>2 DEF Late, Destructor, Dying
  <2>2. /\ alive /\ connection_ = c /\ c # 0 /\ c \in Conns /\ state_ = "kconnected"
        /\ conns[c] # "none"
    <3>1. alive /\ connection_ = c /\ c # 0 /\ c \in 0 .. MaxConns
      BY <1>1, <1>2, <2>1 DEF Sound, DestructorInv, Types
    <3>2. c \in Conns
      BY <3>1, ConnIsConn
    <3> QED
      BY <3>1, <3>2 DEF Sound, ConnInv
  <2>3. PICK g : g = ConnFunctor("ForceCloseInLoop", c)
    OBVIOUS
  <2>4. /\ QueueInv' /\ InQueue' = InQueue \cup {g} /\ g.op = "ForceCloseInLoop" /\ g.conn = c
        /\ \A q \in ConnectorFunctors : Queued(q)' <=> Queued(q)
        /\ \A q, j : Waits(q, j) => Waits(q, j)'
        /\ Waits("ForceCloseInLoop", c)'
    BY <1>2, <2>2, <2>3, QueueForConn
  <2>5. /\ conns' \in [Conns -> {"none", "kconnected", "kdisconnecting", "kdisconnected", "gone"}]
        /\ conns'[c] = "kdisconnecting" /\ Up(c)'
        /\ \A j \in Conns \ {c} : conns'[j] = conns[j] /\ (Up(j)' <=> Up(j))
        /\ \A j \in Conns : conns'[j] = "none" <=> j >= next_conn_id_'
    BY <1>2, <2>2, ConnChanges
  <2>6. Held' = Held
    <3>1. c \in Held /\ c \in Held'
      BY <1>4, <2>2, <2>5 DEF Held
    <3>2. Elsewhere(c)
      BY <1>2, <2>4, <2>5 DEF Elsewhere
    <3> QED
      BY <2>2, <3>1, <3>2, HeldElsewhere
  <2>7. ConnInv'
    <3>1. ASSUME NEW j \in Conns PROVE Tended(j)'
      <4>1. Tended(j)
        BY DEF Sound, ConnInv
      <4>2. CASE j = c
        BY <1>2, <1>4, <2>1, <2>4, <2>5, <4>1, <4>2 DEF Tended
      <4>3. CASE j # c
        <5>1. conns'[j] = conns[j] /\ (Up(j)' <=> Up(j))
          BY <2>5, <4>3
        <5> QED
          BY <1>2, <2>1, <2>2, <2>4, <4>1, <4>3, <5>1 DEF Tended
      <4> QED
        BY <4>2, <4>3
    <3>2. ASSUME NEW f \in InQueue' PROVE FunctorOK(f)'
      <4>1. CASE f = g
        BY <2>1, <2>2, <2>4, <2>5, <4>1 DEF FunctorOK, ConnectorFunctors
      <4>2. CASE f \in InQueue
        <5>1. FunctorOK(f)
          BY <4>2 DEF Sound, ConnInv
        <5>2. f.op = "ConnectionDestroyed" => f.op \notin ConnectorFunctors /\ f.conn \in Conns \ {c}
          BY <1>4, <5>1 DEF FunctorOK, Up, ConnectorFunctors
        <5>3. f.op \notin ConnectorFunctors => conns'[f.conn] # "none"
          BY <2>5, <5>1 DEF FunctorOK
        <5> QED
          BY <1>2, <2>1, <2>5, <5>1, <5>2, <5>3 DEF FunctorOK
      <4> QED
        BY <2>4, <4>1, <4>2
    <3> QED
      BY <1>2, <2>1, <2>2, <2>5, <3>1, <3>2 DEF ConnInv
  <2>8. AttemptInv' /\ OwnerInv' /\ DestructorInv'
    <3>1. ~Stopping' /\ ~Released' /\ ~keep_alive /\ connector_
      BY <1>1, <1>2, <2>2 DEF Sound, OwnerInv, Stopping, Released
    <3>2. /\ Queued("StartInLoop")' <=> Queued("StartInLoop")
          /\ Queued("ResetChannel")' <=> Queued("ResetChannel")
      BY <2>4 DEF ConnectorFunctors
    <3>3. AttemptInv'
      BY <1>2, <2>1, <3>2 DEF Sound, AttemptInv, Midway
    <3>4. OwnerInv'
      BY <1>2, <2>2, <3>1 DEF OwnerInv
    <3>5. DestructorInv'
      BY <1>1, <1>2, <2>1, <2>2 DEF DestructorInv
    <3> QED
      BY <3>3, <3>4, <3>5
  <2>9. Types' /\ SocketInv'
    BY <1>2, <2>1, <2>5, <2>6 DEF Sound, Types, SocketInv, Attempted
  <2> QED
    BY <1>2, <1>4, <2>4, <2>7, <2>8, <2>9 DEF Good, Working, Sound
<1> QED
  BY <1>3, <1>4

LEMMA EndDestroyStep ==
    ASSUME Working, Sound, EndDestroy
    PROVE  Good
<1>1. PICK c : c = connection_
  OBVIOUS
<1>2. /\ upc = "end" /\ upc' = "dead" /\ alive' = FALSE /\ connection_' = 0
      /\ hasty' = (hasty \/ (conn # 0 /\ Unfinished))
      /\ IF c = 0 THEN UNCHANGED <<sockets, aborted>> ELSE LetGo(c, InQueue)
      /\ UNCHANGED <<connector_connect_, state_, retry_delay_ms_, channel_, timers, pending,
                     batch, calling, keep_alive, connector_,
                     next_conn_id_, conns, attached, shared, restarting, accepting, conn, unique,
                     calls>>
  BY <1>1 DEF EndDestroy, connectorVars, roundVars, midVars, InQueue
<1>3. /\ upc \in Late /\ upc \in Destructor /\ Dying' /\ upc' \notin Destructor /\ upc' \notin Late
      /\ upc' \notin {"keep", "end"}
  BY <1>2 DEF Late, Destructor, Dying
<1>4. alive /\ connector_ /\ conn = c /\ c \in 0 .. MaxConns
  BY <1>1, <1>2, <1>3 DEF Sound, DestructorInv, OwnerInv, Types
<1>5. InQueue' = InQueue /\ QueueInv' /\ \A o : Queued(o)' <=> Queued(o)
  BY <1>2 DEF Sound, QueueInv, InQueue, Queued
<1>6. \A i : (Up(i)' <=> Up(i)) /\ \A o : Waits(o, i)' <=> Waits(o, i)
  BY <1>2, <1>5 DEF Up, Waits, ConnFunctor
<1>7. ConnInv'
  <2>1. ASSUME NEW i \in Conns PROVE Tended(i)'
    <3>1. Tended(i) /\ i # 0
      BY DEF Sound, ConnInv, Conns
    <3> QED
      BY <1>2, <1>3, <1>6, <3>1 DEF Tended
  <2>2. ASSUME NEW f \in InQueue' PROVE FunctorOK(f)'
    <3>1. FunctorOK(f)
      BY <1>5 DEF Sound, ConnInv
    <3> QED
      BY <1>2, <1>3, <3>1 DEF FunctorOK
  <2>3. \A i \in Conns : conns'[i] = "none" <=> i >= next_conn_id_'
    BY <1>2, Zenon DEF Sound, ConnInv
  <2> QED
    BY <1>2, <2>1, <2>2, <2>3 DEF ConnInv
<1>8. aborted' = "none" /\ SocketInv'
  <2>1. PICK e : e = IF Attempted THEN 1 ELSE 0
    OBVIOUS
  <2>2. e \in Nat /\ sockets = e + Cardinality(Held) /\ Cardinality(Held) \in Nat
    BY <2>1, HeldCounts DEF Sound, SocketInv
  <2>3. sockets - 1 = e + (Cardinality(Held) - 1) /\ sockets = e + Cardinality(Held)
    BY <2>2
  <2>4. e = IF Attempted' THEN 1 ELSE 0
    BY <1>2, <2>1 DEF Attempted
  <2>5. CASE c = 0
    <3>1. Held' = Held
      BY <1>1, <1>2, <1>5, <1>6, <2>5 DEF Held, Kept, Referenced
    <3>2. UNCHANGED <<sockets, aborted>>
      BY <1>2, <2>5
    <3>3. SocketInv'
      BY <2>3, <2>4, <3>1, <3>2, Zenon DEF SocketInv
    <3> QED
      BY <3>2, <3>3 DEF Working
  <2>6. CASE c # 0
    <3>1. c \in Conns
      BY <1>4, <2>6, ConnIsConn
    <3>2. Tended(c) /\ conns[c] # "none"
      BY <1>1, <2>6, <3>1 DEF Sound, ConnInv
    <3>3. conns \in [Conns -> {"none", "kconnected", "kdisconnecting", "kdisconnected", "gone"}]
      BY DEF Sound, Types
    <3>4. c \in Held
      BY <1>1, <3>1, <3>2, <3>3 DEF Held, Up, Kept
    <3>5. Elsewhere(c)
      <4>1. \A j \in Conns : j # 0
        BY DEF Conns
      <4> QED
        BY <1>1, <1>2, <1>5, <4>1 DEF Elsewhere
    <3>6. LetGo(c, InQueue)
      BY <1>2, <2>6
    <3>7. CASE Referenced(c, InQueue)
      <4>1. c \in Held'
        BY <1>2, <1>5, <1>6, <3>1, <3>2, <3>3, <3>7 DEF Held, Up, Kept, Referenced
      <4>2. Held' = Held
        BY <3>1, <3>4, <3>5, <4>1, HeldElsewhere
      <4>3. UNCHANGED <<sockets, aborted>>
        BY <3>6, <3>7 DEF LetGo
      <4>4. SocketInv'
        BY <2>3, <2>4, <4>2, <4>3, Zenon DEF SocketInv
      <4> QED
        BY <4>3, <4>4 DEF Working
    <3>8. CASE ~Referenced(c, InQueue)
      <4>1. \A o : ~Waits(o, c) /\ c \notin shared
        BY <3>8 DEF Waits, ConnFunctor, Referenced
      <4>2. ~Up(c) /\ conns[c] = "gone"
        <5>1. ~Up(c)
          BY <1>2, <3>2, <4>1 DEF Tended
        <5>2. conns[c] # "kdisconnected"
          BY <3>2, <4>1 DEF Tended
        <5> QED
          BY <3>1, <3>2, <3>3, <5>1, <5>2 DEF Up
      <4>3. sockets' = sockets - 1 /\ UNCHANGED aborted
        BY <3>6, <3>8, <4>2 DEF LetGo
      <4>4. c \notin Held'
        BY <1>2, <1>5, <1>6, <2>6, <3>8, <4>2 DEF Held, Kept, Referenced
      <4>5. Cardinality(Held') = Cardinality(Held) - 1
        BY <3>1, <3>4, <3>5, <4>4, HeldElsewhere
      <4>6. SocketInv'
        BY <2>3, <2>4, <4>3, <4>5, Zenon DEF SocketInv
      <4> QED
        BY <4>3, <4>6 DEF Working
    <3> QED
      BY <3>7, <3>8
  <2> QED
    BY <2>5, <2>6
<1>9. OwnerInv'
  <2>1. ~connector_connect_ \/ state_ = "kconnected"
    <3>1. CASE c = 0
      BY <1>2, <1>4, <3>1 DEF Sound, OwnerInv, Stopping
    <3>2. CASE c # 0
      BY <1>1, <3>2 DEF Sound, ConnInv
    <3> QED
      BY <3>1, <3>2
  <2>2. Stopping' => Stopping
    BY <1>2, <1>3, <1>4 DEF Sound, OwnerInv, Stopping
  <2>3. Released' /\ ~hasty' => channel_ = "none" /\ \A o \in ConnectorFunctors : ~Queued(o)
    <3>1. CASE c = 0
      BY <1>2, <1>4, <3>1 DEF Sound, OwnerInv, Released
    <3>2. CASE c # 0
      BY <1>2, <1>4, <3>2 DEF Unfinished
    <3> QED
      BY <3>1, <3>2
  <2> QED
    BY <1>2, <1>4, <1>5, <2>1, <2>2, <2>3 DEF Sound, OwnerInv
<1>10. AttemptInv'
  BY <1>2, <1>3, <1>5 DEF Sound, AttemptInv, Midway
<1>11. DestructorInv'
  BY <1>2, <1>3 DEF DestructorInv
<1>12. Types'
  <2>1. 0 \in 0 .. MaxConns
    BY ClientAssumption
  <2> QED
    BY <1>2, <2>1 DEF Sound, Types
<1> QED
  BY <1>5, <1>7, <1>8, <1>9, <1>10, <1>11, <1>12 DEF Good, Sound


-----------------------------------------------------------------------------
(* The client. *)

LEMMA ClientInit == Init => ClientInv
<1> SUFFICES ASSUME Init PROVE ClientInv
  OBVIOUS
<1>1. pending = <<>> /\ batch = <<>> /\ ~calling /\ InQueue = {} /\ \A o : ~Queued(o)
  BY EmptyRange DEF Init, ConnectorInit, InQueue, Queued
<1>2. QueueInv
  <2>1. <<>> \in Seq(Functors) /\ DOMAIN <<>> = {}
    BY EmptySeq
  <2> QED
    BY <1>1, <2>1, EmptyRange DEF QueueInv, Single
<1>3. Types
  BY DelayAssumption, ClientAssumption DEF Init, ConnectorInit, Types, Outside
<1>4. AttemptInv
  BY <1>1 DEF Init, ConnectorInit, AttemptInv, Midway
<1>5. ConnInv
  <2>1. \A i \in Conns : conns[i] = "none" /\ i >= next_conn_id_ /\ ~Up(i)
    BY DEF Init, Conns, Up
  <2>2. \A i \in Conns : Tended(i)
    BY <2>1 DEF Init, Tended
  <2> QED
    BY <1>1, <2>1, <2>2 DEF Init, ConnInv
<1>6. SocketInv
  <2>1. Held = {}
    BY DEF Init, Held, Up
  <2> QED
    BY <2>1, FS_EmptySet DEF Init, ConnectorInit, SocketInv, Attempted
<1>7. OwnerInv /\ DestructorInv
  BY DEF Init, OwnerInv, DestructorInv, Stopping, Released, Destructor
<1> QED
  BY <1>2, <1>3, <1>4, <1>5, <1>6, <1>7
     DEF ClientInv, Sound, AssertsHold, Init, ConnectorInit

(* what the history says of the last Stop *)
StopKept ==
    /\ stopped /\ connector_connect_ => overtaken
    /\ stopped /\ accepting => overtaken \/ slipped

(* A Stop that no Restart overtook keeps the connector's connect_ false,    *)
(* and HandleWrite has tested connect_ before it or not at all.             *)
LEMMA StopStep ==
    ASSUME StopKept, Next
    PROVE  StopKept'
<1>1. CASE UNCHANGED <<connector_connect_, stopped, overtaken, accepting, slipped>>
  BY <1>1 DEF StopKept
<1>2. CASE RestartConnector
  <2>1. UNCHANGED <<stopped, accepting, slipped>>
    BY <1>2 DEF RestartConnector
  <2>2. overtaken' = (overtaken \/ stopped \/ upc = "Stop") \/ UNCHANGED <<overtaken, connector_connect_>>
    BY <1>2 DEF RestartConnector, connectorVars
  <2>3. CASE overtaken' = (overtaken \/ stopped \/ upc = "Stop")
    BY <2>1, <2>3 DEF StopKept
  <2>4. CASE UNCHANGED <<overtaken, connector_connect_>>
    BY <1>1, <2>1, <2>4
  <2> QED
    BY <2>2, <2>3, <2>4
<1>3. ASSUME NEW op, NEW here, CallConnector(op, here), UNCHANGED <<overtaken, accepting>>
      PROVE  StopKept'
  <2>1. CASE op = "Disconnect"
    BY <1>3, <2>1 DEF CallConnector, StopKept
  <2>2. CASE op # "Disconnect"
    <3>1. /\ stopped' = (op = "Stop") /\ connector_connect_' = (op = "Connect")
          /\ slipped' = (op # "Connect" /\ (slipped \/ (op = "Stop" /\ accepting)))
      BY <1>3, <2>2 DEF CallConnector
    <3> QED
      BY <1>3, <3>1 DEF StopKept
  <2> QED
    BY <2>1, <2>2
<1>4. ASSUME NEW op \in Ops, CallHere(op) PROVE StopKept'
  BY <1>3, <1>4 DEF CallHere, midVars
<1>5. CASE FinishCall
  BY <1>3, <1>5 DEF FinishCall, midVars
<1>6. CASE Destroy
  BY <1>6 DEF Destroy, InEvents, Midway, midVars, StopKept
<1>7. CASE \/ HandleError \/ RetryTimer \/ KeepAliveTimer \/ DropConnector
           \/ SwapFunctors \/ EndCalling
  BY <1>1, <1>7 DEF HandleError, RetryTimer, KeepAliveTimer, DropConnector,
       SwapFunctors, EndCalling, connectorVars, midVars, userVars
<1>8. CASE HandleWrite
  BY <1>8 DEF HandleWrite, Wanted, userVars, StopKept
<1>9. CASE NewConnection
  BY <1>9 DEF NewConnection, connectorVars, StopKept
<1>10. CASE RunFunctor
  BY <1>1, <1>10 DEF RunFunctor, RunConnectorFunctor, RunConnFunctor, connectorVars, userVars
<1>11. ASSUME NEW i \in Conns, HandleClose(i) PROVE StopKept'
  BY <1>1, <1>11 DEF HandleClose, connectorVars, userVars
<1>12. ASSUME NEW op \in Ops, Call(op) PROVE StopKept'
  BY <1>1, <1>12 DEF Call, connectorVars, midVars
<1>13. CASE TakeConnection \/ Detach \/ TestState \/ StoreState \/ KeepConnector \/ EndDestroy
  BY <1>1, <1>13 DEF TakeConnection, Detach, TestState, StoreState, KeepConnector, EndDestroy,
       connectorVars, midVars
<1>14. CASE StopConnector
  BY <1>14 DEF StopConnector, midVars, StopKept
<1> QED
  BY <1>2, <1>4, <1>5, <1>6, <1>7, <1>8, <1>9, <1>10, <1>11, <1>12, <1>13, <1>14
     DEF Next, Loop, DestroyElsewhere

LEMMA MisuseStays == Next /\ (misused \/ overrun) => misused' \/ overrun'
<1> SUFFICES ASSUME Next PROVE (misused => misused') /\ (overrun => overrun')
  OBVIOUS
<1> DEFINE Stays == (misused => misused') /\ (overrun => overrun')
<1>1. ASSUME NEW op, NEW here, CallConnector(op, here), UNCHANGED overrun PROVE Stays
  BY <1>1 DEF CallConnector
<1>0. ASSUME UNCHANGED misused, UNCHANGED overrun \/ \E b : overrun' = (overrun \/ b) PROVE Stays
  <2>1. misused => misused'
    BY <1>0
  <2>2. overrun => overrun'
    BY <1>0
  <2> QED
    BY <2>1, <2>2
<1>2. CASE \/ HandleWrite \/ NewConnection \/ HandleError \/ RetryTimer \/ KeepAliveTimer
           \/ DropConnector \/ RestartConnector \/ SwapFunctors \/ EndCalling
  <2>1. CASE HandleWrite \/ HandleError \/ RetryTimer \/ KeepAliveTimer
    BY <1>0, <2>1 DEF HandleWrite, HandleError, RetryTimer, KeepAliveTimer, userVars
  <2>2. CASE DropConnector \/ SwapFunctors \/ EndCalling
    BY <1>0, <2>2 DEF DropConnector, SwapFunctors, EndCalling, userVars
  <2>3. CASE NewConnection
    BY <1>0, <2>3 DEF NewConnection
  <2>4. CASE RestartConnector
    BY <1>0, <2>4 DEF RestartConnector
  <2> QED
    BY <1>2, <2>1, <2>2, <2>3, <2>4
<1>3. ASSUME NEW i, NEW queue, Close(i, queue), UNCHANGED misused PROVE Stays
  BY <1>3 DEF Close, RemoveConnection
<1>4. CASE RunFunctor
  <2>1. CASE RunConnectorFunctor
    BY <1>4, <2>1 DEF RunFunctor, RunConnectorFunctor, userVars
  <2>2. CASE RunConnFunctor
    <3>1. UNCHANGED misused
      BY <1>4 DEF RunFunctor, userVars
    <3>2. UNCHANGED overrun \/ Close(Head(batch).conn, pending)
      BY <2>2 DEF RunConnFunctor
    <3> QED
      BY <1>3, <3>1, <3>2
  <2> QED
    BY <1>4, <2>1, <2>2 DEF RunFunctor
<1>5. ASSUME NEW i \in Conns, HandleClose(i) PROVE Stays
  BY <1>3, <1>5 DEF HandleClose, userVars
<1>6. ASSUME NEW op \in Ops, CallHere(op) \/ Call(op) PROVE Stays
  <2>1. CASE CallHere(op)
    BY <1>1, <2>1 DEF CallHere
  <2>2. CASE Call(op)
    BY <1>0, <2>2 DEF Call
  <2> QED
    BY <1>6, <2>1, <2>2
<1>7. CASE FinishCall
  BY <1>1, <1>7 DEF FinishCall
<1>8. CASE Destroy \/ TakeConnection \/ DestroyElsewhere
  <2>1. CASE Destroy \/ Detach \/ TestState \/ StopConnector \/ KeepConnector \/ EndDestroy
    BY <1>0, <2>1 DEF Destroy, Detach, TestState, StopConnector, KeepConnector, EndDestroy
  <2>2. CASE TakeConnection \/ StoreState
    BY <1>0, <2>2 DEF TakeConnection, StoreState
  <2> QED
    BY <1>8, <2>1, <2>2 DEF DestroyElsewhere
<1> QED
  BY <1>2, <1>4, <1>5, <1>6, <1>7, <1>8 DEF Next, Loop

LEMMA ClientStep ==
    ASSUME Working, Sound, Next, ~misused'
    PROVE  Good
<1>1. CASE Loop
  BY <1>1, HandleWriteStep, NewConnectionStep, HandleErrorStep, RetryTimerStep, KeepAliveTimerStep,
     DropConnectorStep, RestartStep, RoundStep, RunFunctorStep DEF Loop
<1>2. CASE \E i \in Conns : HandleClose(i)
  BY <1>2, HandleCloseStep
<1>3. CASE \E op \in Ops : CallHere(op) \/ Call(op)
  BY <1>3, CallHereStep, CallStep
<1>4. CASE FinishCall \/ Destroy \/ TakeConnection
  BY <1>4, FinishCallStep, DestroyStep, TakeConnectionStep
<1>5. CASE DestroyElsewhere
  BY <1>5, DetachStep, TestStateStep, StoreStateStep, StopConnectorStep, KeepConnectorStep,
     EndDestroyStep DEF DestroyElsewhere
<1> QED
  BY <1>1, <1>2, <1>3, <1>4, <1>5 DEF Next

LEMMA ClientStutters == ClientInv /\ UNCHANGED vars => ClientInv'
<1> SUFFICES ASSUME ClientInv, UNCHANGED vars PROVE ClientInv'
  OBVIOUS
<1>1. UNCHANGED <<connector_connect_, state_, retry_delay_ms_, channel_, timers, sockets, pending,
                  batch, calling, aborted, alive, retry_, connect_, keep_alive, connector_,
                  connection_, next_conn_id_, conns, attached, shared, restarting, accepting,
                  upc, conn, unique, calls, stopped, overtaken, slipped, misused, hasty, overrun>>
  BY DEF vars, connectorVars, roundVars, ownerVars, connVars, midVars, userVars
<1>2. InQueue' = InQueue /\ \A o : Queued(o)' <=> Queued(o)
  BY <1>1 DEF InQueue, Queued
<1>3. (\A i : Up(i)' <=> Up(i)) /\ \A o, i : Waits(o, i)' <=> Waits(o, i)
  BY <1>1, <1>2 DEF Up, Waits
<1>4. /\ Dying' <=> Dying
      /\ \A f : FunctorOK(f)' <=> FunctorOK(f)
      /\ \A i : Tended(i)' <=> Tended(i)
  BY <1>1, <1>3 DEF FunctorOK, Tended, Dying
<1>5. Held' = Held
  BY <1>1, <1>2, <1>3 DEF Held, Kept, Referenced
<1>6. Sound => Types' /\ QueueInv' /\ DestructorInv'
  BY <1>1 DEF Sound, Types, QueueInv, DestructorInv
<1>7. Sound => AttemptInv' /\ SocketInv' /\ OwnerInv'
  BY <1>1, <1>2, <1>4, <1>5 DEF Sound, AttemptInv, SocketInv, OwnerInv, Midway, Attempted,
     Stopping, Released
<1>8. Sound => ConnInv'
  BY <1>1, <1>2, <1>3, <1>4 DEF Sound, ConnInv
<1> QED
  BY <1>1, <1>6, <1>7, <1>8 DEF ClientInv, Working, Sound, AssertsHold

LEMMA ClientInvAlways == Spec => []ClientInv
<1>1. ClientInv /\ [Next]_vars => ClientInv'
  <2> SUFFICES ASSUME ClientInv, Next PROVE ClientInv'
    BY ClientStutters
  <2>1. StopKept'
    BY StopStep DEF ClientInv, StopKept
  <2>2. ~misused' /\ ~overrun' => Good
    <3> SUFFICES ASSUME ~misused', ~overrun' PROVE Good
      OBVIOUS
    <3>1. Working
      BY MisuseStays DEF Working, Next
    <3> QED
      BY <3>1, ClientStep DEF ClientInv
  <2>3. Working' => Sound'
    BY <2>2 DEF Good, Working
  <2>4. AssertsHold'
    BY <2>2 DEF Good, AssertsHold
  <2> QED
    BY <2>1, <2>3, <2>4 DEF ClientInv, StopKept
<1> QED
  BY <1>1, ClientInit, PTL DEF Spec

(* As long as Connect is only called on a connector at rest and nothing     *)
(* overruns a destructor, there is one attempt at most, the connector's     *)
(* state, channel and queued functors agree, and every socket belongs to    *)
(* the attempt or to a connection that somebody still refers to.            *)
THEOREM OneAttemptAtATime == Spec => []OneAttempt
<1>1. ClientInv => OneAttempt
  <2> SUFFICES ASSUME Sound PROVE
        /\ TypeOK
        /\ timers <= 1
        /\ channel_ = "in loop" <=> state_ = "kconnecting"
        /\ timers = 1 => state_ = "kdisconnected"
        /\ channel_ = "removed" <=> Queued("ResetChannel")
        /\ connection_ # 0 => /\ state_ = "kconnected"
                              /\ conns[connection_] = "gone" => Dying
        /\ sockets = (IF channel_ = "in loop" \/ accepting THEN 1 ELSE 0)
                + Cardinality({i \in Conns :
                        \/ Up(i) \/ conns[i] = "kdisconnected"
                        \/ /\ conns[i] = "gone"
                           /\ \/ connection_ = i
                              \/ Referenced(i, Range(pending) \cup Range(batch))})
    BY DEF ClientInv, Working, OneAttempt
  <2>1. sockets = (IF Attempted THEN 1 ELSE 0) + Cardinality(Held)
    BY DEF Sound, SocketInv
  <2>2. sockets \in Nat
    <3>1. PICK e \in {0, 1} : sockets = e + Cardinality(Held)
      BY <2>1
    <3>2. Cardinality(Held) \in Nat
      BY HeldCounts
    <3> HIDE DEF Held
    <3> QED
      BY <3>1, <3>2
  <2>3. timers <= 1 /\ timers \in Nat
    <3>1. timers \in {0, 1}
      BY DEF Sound, Types
    <3> QED
      BY <3>1
  <2>4. TypeOK
    BY <2>2, <2>3 DEF Sound, Types, TypeOK, Outside
  <2>5. connection_ # 0 => /\ state_ = "kconnected"
                           /\ conns[connection_] = "gone" => Dying
    BY DEF Sound, ConnInv, Up, Late, Dying, Destructor
  <2> QED
    BY <2>1, <2>3, <2>4, <2>5, Zenon DEF Sound, AttemptInv, Attempted, Held, Kept, InQueue
<1> QED
  BY <1>1, ClientInvAlways, PTL

(* No assertion of the connector or the client fails and no callback finds  *)
(* its object gone, but after a Connect on a connector that is not at rest, *)
(* after a destructor that left functors of the connector in the queue, or  *)
(* when the loop's thread overruns a destructor on another thread.          *)
THEOREM OnlyMisuseAborts == Spec => []AssertsHold
<1>1. ClientInv => AssertsHold
  BY DEF ClientInv
<1> QED
  BY <1>1, ClientInvAlways, PTL

(* After Stop no connection comes up but the one whose HandleWrite had      *)
(* tested connect_ before it, unless a Restart overtook the Stop.           *)
THEOREM StoppedClientStaysDown == Spec => StopIsFinal
<1>1. ClientInv /\ [Next]_vars =>
        [next_conn_id_' # next_conn_id_ /\ stopped => overtaken \/ slipped]_vars
  <2> SUFFICES ASSUME ClientInv, Next, next_conn_id_' # next_conn_id_, stopped
               PROVE  overtaken \/ slipped
    BY DEF vars, connVars
  <2>1. NewConnection
    BY DEF Next, Loop, HandleWrite, HandleError, RetryTimer, KeepAliveTimer, DropConnector,
           RestartConnector, SwapFunctors, RunFunctor, RunConnectorFunctor, RunConnFunctor,
           EndCalling, HandleClose, CallHere, Call, FinishCall, Destroy, TakeConnection,
           DestroyElsewhere, Detach, TestState, StoreState, StopConnector, KeepConnector,
           EndDestroy, connVars
  <2>2. accepting
    BY <2>1 DEF NewConnection
  <2> QED
    BY <2>2 DEF ClientInv
<1> QED
  BY <1>1, ClientInvAlways, PTL DEF Spec, StopIsFinal
=============================================================================
