-------------------------- MODULE TcpServerProofs --------------------------
(***************************************************************************)
(* What TcpServer promises, proved for any clients, threads and number of  *)
(* descriptors: the loops are dealt connections evenly, no connection and  *)
(* no descriptor is lost, the spare descriptor is kept and only a server   *)
(* destroyed over open connections, or a connection closed a second time,  *)
(* can go wrong.                                                           *)
(***************************************************************************)
EXTENDS TcpServer, SequenceTheorems, FiniteSetTheorems, TLAPS

ConnStates == {"none", "waiting", "refused", "kconnecting", "kconnected", "kdisconnecting",
               "kdisconnected", "destroyed", "gone"}
FunctorOps == {"Remove", "RemoveAgain", "ConnectionEstablished", "ConnectionDestroyed"}
Functors == [op : FunctorOps, conn : Clients]

Standing == server \in {"new", "started"}
Sane == aborted \in {"none", "fatal"}
Spare == IF idle_fd_ THEN 1 ELSE 0

(* The types of what no other part of the invariant bounds. *)
Types ==
    /\ server \in {"new", "started", "destructing", "dead"}
    /\ num_thread_ \in 0 .. MaxThreads
    /\ conn \in [Clients -> ConnStates]
    /\ late \subseteq Clients /\ revived \subseteq Clients
    /\ io_loop \in [Clients -> Loops]
    /\ queue \in [Loops -> Seq(Functors)]
    /\ listening_ \in BOOLEAN /\ idle_fd_ \in BOOLEAN
    /\ robbed \in BOOLEAN /\ unclean \in BOOLEAN
    /\ apc \in {"idle", "emfile", "closed", "taken", "reopen"}
    /\ free \in Nat /\ others \in Nat

(* The loops before next_ have been dealt one connection more than the rest *)
(* of this turn.                                                            *)
Dealt(k) == \A i \in 1 .. num_thread_ : dealt[i] = IF i <= next_ THEN k + 1 ELSE k

PoolInv ==
    /\ dealt \in [Loops -> Nat]
    /\ server = "new" => dealt = [l \in Loops |-> 0]
    /\ \/ loops_ = <<>> /\ next_ = 0
       \/ /\ server # "new" /\ loops_ = [i \in 1 .. num_thread_ |-> i]
          /\ next_ \in 0 .. num_thread_ - 1
          /\ \E k \in Nat : Dealt(k)

(* The io loops run from Start on, and until the destructor has had them    *)
(* leave one by one.                                                        *)
LoopsInv ==
    /\ looping \subseteq 1 .. num_thread_ /\ entered \subseteq looping
    /\ quit \subseteq 1 .. num_thread_ /\ lost \subseteq 1 .. num_thread_
    /\ server = "started" => looping = 1 .. num_thread_
    /\ server = "new" => looping = {} /\ \A c \in Clients : conn[c] = "none"
    /\ Standing => quit = {} /\ lost = {}
    /\ server = "dead" => looping = {} /\ connections_ = {}

(* Every descriptor is counted once. *)
FdInv ==
    /\ free + others + Cardinality(Open) + Spare <= MaxFds + 1
    /\ Standing => free + others + Cardinality(Open) + Spare = MaxFds + 1

(* Where the spare descriptor is in the course of HandleRead. *)
SpareInv ==
    /\ apc \in {"closed", "reopen"} => ~idle_fd_
    /\ ~robbed /\ server # "dead" =>
            /\ apc \in {"idle", "emfile", "taken"} => idle_fd_
            /\ apc \in {"closed", "reopen"} => free > 0

(* What a functor in the queue of loop l says of its connection; of one    *)
(* that a late ForceClose has revived it says little.                       *)
FunctorOK(f, l) ==
    LET c == f.conn IN
    /\ f.op = "ConnectionEstablished" =>
            l = io_loop[c] /\ l # Base /\ conn[c] = "kconnecting"
    /\ f.op = "ConnectionDestroyed" =>
            l = io_loop[c] /\ c \in Open /\ c \notin connections_
    /\ f.op \in RemoveOps =>
            l = Base /\ c \in Open /\ io_loop[c] \in 1 .. num_thread_
    /\ f.op = "Remove" /\ c \notin revived =>
            /\ conn[c] \in {"kdisconnected", "destroyed"}
            /\ Standing => conn[c] = "kdisconnected" /\ c \in connections_
    /\ f.op = "RemoveAgain" => c \in revived /\ conn[c] \in {"kdisconnected", "destroyed"}

(* No functor is queued twice, and a connection is established before it is *)
(* destroyed.                                                               *)
Ordered(q) ==
    \A i, j \in DOMAIN q :
        /\ q[i] = q[j] => i = j
        /\ /\ q[i].op = "ConnectionEstablished" /\ q[j].op = "ConnectionDestroyed"
           /\ q[i].conn = q[j].conn
           => i < j

(* What a ForceClose of another thread says of a connection. *)
LateOK(c) ==
    /\ c \in late => c \in Open /\ conn[c] # "kconnecting" /\ c \notin revived
    /\ c \in revived => conn[c] \in {"kdisconnecting", "kdisconnected", "destroyed", "gone"}

(* What connections_ says of a connection. *)
KeptOK(c) ==
    /\ LateOK(c)
    /\ c \in Open => io_loop[c] = Base \/ io_loop[c] \in 1 .. num_thread_
    /\ c \in connections_ => c \in Open
    /\ conn[c] \in {"kconnected", "kdisconnecting"} /\ c \notin revived /\ io_loop[c] = Base =>
            c \in connections_
    /\ Standing /\ c \in Open /\ c \notin connections_ =>
            \/ c \in revived \/ conn[c] = "destroyed"
            \/ /\ conn[c] = "kdisconnected"
               /\ Functor("ConnectionDestroyed", c) \in Range(queue[io_loop[c]])

QueueInv ==
    Sane =>
        /\ \A c \in Clients : KeptOK(c)
        /\ \A l \in Loops : Ordered(queue[l]) /\ \A f \in Range(queue[l]) : FunctorOK(f, l)

CleanInv ==
    /\ aborted \in {"none", "fatal", "destroyed while up", "use after free", "erase",
                    "kdisconnecting"}
    /\ CleanWithoutConnections
    /\ Sane /\ ~Standing /\ ~unclean => Open = {} /\ \A l \in Loops : queue[l] = <<>>

ServerInv ==
    /\ Types /\ connections_ \subseteq Clients
    /\ PoolInv /\ LoopsInv /\ FdInv /\ SpareInv /\ QueueInv /\ CleanInv

-----------------------------------------------------------------------------
(* The queues of the loops. *)

(* no functor of q is queued twice or out of order *)
AllOrdered(q) == q \in [Loops -> Seq(Functors)] /\ \A l \in Loops : Ordered(q[l])

(* r is q with f queued in l, or with the first functor of l taken out *)
Pushed(q, r, l, f) == r = [q EXCEPT ![l] = Append(@, f)]
Popped(q, r, l) == r = [q EXCEPT ![l] = Tail(@)]

(* a functor f that may be queued in q[l] *)
MayPush(q, l, f) ==
    /\ AllOrdered(q) /\ l \in Loops /\ f \in Functors /\ f \notin Range(q[l])
    /\ f.op = "ConnectionEstablished" =>
            \A g \in Range(q[l]) : g.op = "ConnectionDestroyed" => g.conn # f.conn

LEMMA PushKeeps ==
    ASSUME NEW q, NEW r, NEW l, NEW f, MayPush(q, l, f),
           Pushed(q, r, l, f)
    PROVE  /\ AllOrdered(r)
           /\ Range(r[l]) = Range(q[l]) \cup {f}
           /\ \A k \in Loops \ {l} : r[k] = q[k]
<1> DEFINE s == q[l]
           t == Append(s, f)
<1>1. /\ q \in [Loops -> Seq(Functors)] /\ l \in Loops /\ f \in Functors
      /\ \A k \in Loops : Ordered(q[k])
  BY DEF MayPush, AllOrdered
<1> HIDE DEF Functors
<1>2. s \in Seq(Functors) /\ Ordered(s)
  BY <1>1
<1>3. /\ t \in Seq(Functors) /\ Len(t) = Len(s) + 1
      /\ \A i \in 1 .. Len(s) : t[i] = s[i]
      /\ t[Len(s) + 1] = f
  BY <1>1, <1>2, AppendProperties
<1>4. Len(s) \in Nat /\ DOMAIN s = 1 .. Len(s) /\ DOMAIN t = 1 .. Len(s) + 1
  BY <1>2, <1>3, LenProperties
<1>5. r \in [Loops -> Seq(Functors)] /\ r[l] = t /\ \A k \in Loops \ {l} : r[k] = q[k]
  BY <1>1, <1>3 DEF Pushed
<1>6. /\ \A i \in 1 .. Len(s) : s[i] # f
      /\ f.op = "ConnectionEstablished" =>
            \A i \in 1 .. Len(s) : s[i].op = "ConnectionDestroyed" => s[i].conn # f.conn
  BY <1>4 DEF MayPush, Range
<1> HIDE DEF s, t
<1>7. Ordered(t)
  <2>1. ASSUME NEW i \in DOMAIN t, NEW j \in DOMAIN t
        PROVE  /\ t[i] = t[j] => i = j
               /\ /\ t[i].op = "ConnectionEstablished" /\ t[j].op = "ConnectionDestroyed"
                  /\ t[i].conn = t[j].conn
                  => i < j
    <3>1. CASE i \in 1 .. Len(s) /\ j \in 1 .. Len(s)
      BY <1>2, <1>3, <1>4, <3>1 DEF Ordered
    <3>2. CASE i \in 1 .. Len(s) /\ j = Len(s) + 1
      BY <1>3, <1>4, <1>6, <3>2
    <3>3. CASE i = Len(s) + 1 /\ j \in 1 .. Len(s)
      BY <1>3, <1>4, <1>6, <3>3
    <3>4. CASE i = Len(s) + 1 /\ j = Len(s) + 1
      <4>1. t[i].op = "ConnectionEstablished" => t[j].op # "ConnectionDestroyed"
        BY <3>4
      <4> QED
        BY <3>4, <4>1
    <3> QED
      BY <1>4, <3>1, <3>2, <3>3, <3>4
  <2> QED
    BY <2>1 DEF Ordered
<1>8. Range(t) = Range(s) \cup {f}
  <2>1. \A i \in DOMAIN t : t[i] \in Range(s) \cup {f}
    BY <1>3, <1>4 DEF Range
  <2>2. \A i \in DOMAIN s : s[i] \in Range(t)
    BY <1>3, <1>4 DEF Range
  <2>3. f \in Range(t)
    BY <1>3, <1>4 DEF Range
  <2> QED
    BY <2>1, <2>2, <2>3 DEF Range
<1> QED
  BY <1>1, <1>5, <1>7, <1>8 DEF AllOrdered, s

LEMMA PopKeeps ==
    ASSUME NEW q, NEW r, NEW l \in Loops, AllOrdered(q), q[l] # <<>>,
           Popped(q, r, l)
    PROVE  /\ AllOrdered(r) /\ Head(q[l]) \in Functors /\ Head(q[l]) \in Range(q[l])
           /\ Range(r[l]) = Range(q[l]) \ {Head(q[l])}
           /\ \A k \in Loops \ {l} : r[k] = q[k]
           /\ Head(q[l]).op = "ConnectionDestroyed" =>
                \A g \in Range(q[l]) :
                    g.op = "ConnectionEstablished" => g.conn # Head(q[l]).conn
<1> DEFINE s == q[l]
           t == Tail(s)
<1>1. q \in [Loops -> Seq(Functors)] /\ \A k \in Loops : Ordered(q[k])
  BY DEF AllOrdered
<1> HIDE DEF Functors
<1>2. s \in Seq(Functors) /\ Ordered(s) /\ s # <<>>
  BY <1>1
<1>3. /\ Head(s) \in Functors /\ t \in Seq(Functors) /\ Len(t) = Len(s) - 1
      /\ \A i \in 1 .. Len(t) : t[i] = s[i + 1]
      /\ Head(s) = s[1]
  BY <1>2, HeadTailProperties
<1>4. /\ Len(s) \in Nat \ {0} /\ DOMAIN s = 1 .. Len(s) /\ DOMAIN t = 1 .. Len(s) - 1
  BY <1>2, <1>3, EmptySeq, LenProperties
<1>5. r \in [Loops -> Seq(Functors)] /\ r[l] = t /\ \A k \in Loops \ {l} : r[k] = q[k]
  BY <1>1, <1>3 DEF Popped
<1> HIDE DEF s, t
<1>6. \A i \in DOMAIN t : i + 1 \in DOMAIN s /\ i + 1 # 1 /\ t[i] = s[i + 1] /\ i \in Nat
  BY <1>3, <1>4
<1>7. Ordered(t)
  <2>1. ASSUME NEW i \in DOMAIN t, NEW j \in DOMAIN t
        PROVE  /\ t[i] = t[j] => i = j
               /\ /\ t[i].op = "ConnectionEstablished" /\ t[j].op = "ConnectionDestroyed"
                  /\ t[i].conn = t[j].conn
                  => i < j
    <3>1. /\ i + 1 \in DOMAIN s /\ j + 1 \in DOMAIN s /\ i \in Nat /\ j \in Nat
          /\ t[i] = s[i + 1] /\ t[j] = s[j + 1]
      BY <1>6
    <3>2. /\ t[i] = t[j] => i + 1 = j + 1
          /\ /\ t[i].op = "ConnectionEstablished" /\ t[j].op = "ConnectionDestroyed"
             /\ t[i].conn = t[j].conn
             => i + 1 < j + 1
      BY <1>2, <3>1 DEF Ordered
    <3> QED
      BY <3>1, <3>2
  <2> QED
    BY <2>1 DEF Ordered
<1>8. 1 \in DOMAIN s
  BY <1>4
<1>9. Range(t) = Range(s) \ {s[1]}
  <2>1. \A i \in DOMAIN t : t[i] \in Range(s) /\ t[i] # s[1]
    BY <1>2, <1>6, <1>8 DEF Range, Ordered
  <2>2. ASSUME NEW i \in DOMAIN s, s[i] # s[1] PROVE s[i] \in Range(t)
    <3>1. i - 1 \in DOMAIN t /\ t[i - 1] = s[i]
      BY <1>3, <1>4, <2>2
    <3> QED
      BY <3>1 DEF Range
  <2> QED
    BY <2>1, <2>2 DEF Range
<1>10. s[1].op = "ConnectionDestroyed" =>
          \A i \in DOMAIN s : s[i].op = "ConnectionEstablished" => s[i].conn # s[1].conn
  <2>1. \A i \in DOMAIN s : ~(i < 1)
    BY <1>4
  <2> QED
    BY <1>2, <1>8, <2>1 DEF Ordered
<1>11. AllOrdered(r)
  BY <1>1, <1>5, <1>7 DEF AllOrdered
<1>12. Head(s) \in Range(s) /\ Range(t) = Range(s) \ {Head(s)}
  BY <1>3, <1>8, <1>9 DEF Range
<1>13. Head(s).op = "ConnectionDestroyed" =>
          \A g \in Range(s) : g.op = "ConnectionEstablished" => g.conn # Head(s).conn
  BY <1>3, <1>10 DEF Range
<1> QED
  BY <1>3, <1>5, <1>11, <1>12, <1>13 DEF s

-----------------------------------------------------------------------------
(* The descriptors of the connections. *)

OpenStates == {"kconnecting", "kconnected", "kdisconnecting", "kdisconnected", "destroyed"}

LEMMA OpenCounts == IsFiniteSet(Open) /\ Cardinality(Open) \in Nat
<1>1. Open \subseteq Clients
  BY DEF Open
<1>2. IsFiniteSet(Open)
  BY <1>1, ServerAssumption, FS_Subset
<1> QED
  BY <1>2, FS_CardinalityType

LEMMA OpenStep ==
    ASSUME NEW T, conn \in [Clients -> T], NEW c \in Clients, NEW st,
           conn' = [conn EXCEPT ![c] = st]
    PROVE  /\ Open' = IF st \in OpenStates THEN Open \cup {c} ELSE Open \ {c}
           /\ Cardinality(Open') \in Nat
           /\ Cardinality(Open') = Cardinality(Open) + (IF st \in OpenStates THEN 1 ELSE 0)
                                                     - (IF c \in Open THEN 1 ELSE 0)
<1>1. Open' = IF st \in OpenStates THEN Open \cup {c} ELSE Open \ {c}
  BY DEF Open, OpenStates
<1>2. IsFiniteSet(Open) /\ Cardinality(Open) \in Nat
  BY OpenCounts
<1> HIDE DEF Open
<1>3. CASE st \in OpenStates
  <2>1. Cardinality(Open') = IF c \in Open THEN Cardinality(Open) ELSE Cardinality(Open) + 1
    BY <1>1, <1>2, <1>3, FS_AddElement
  <2> QED
    BY <1>1, <1>2, <1>3, <2>1
<1>4. CASE st \notin OpenStates
  <2>1. Cardinality(Open') = IF c \in Open THEN Cardinality(Open) - 1 ELSE Cardinality(Open)
    BY <1>1, <1>2, <1>4, FS_RemoveElement
  <2>2. c \in Open => Cardinality(Open) # 0
    BY <1>2, FS_EmptySet
  <2> QED
    BY <1>1, <1>2, <1>4, <2>1, <2>2
<1> QED
  BY <1>3, <1>4

-----------------------------------------------------------------------------
(* The steps that leave the queues alone. *)

LEMMA QueuedIsFunctor ==
    ASSUME NEW q \in [Loops -> Seq(Functors)], NEW l \in Loops, NEW f \in Range(q[l])
    PROVE  f \in Functors
<1> HIDE DEF Functors
<1>1. q[l] \in Seq(Functors)
  OBVIOUS
<1>2. \A i \in DOMAIN q[l] : q[l][i] \in Functors
  BY <1>1, ElementOfSeq, LenProperties
<1> QED
  BY <1>2 DEF Range

(* clients come and are turned away *)
ClientsWait ==
    \A c \in Clients :
        \/ conn'[c] = conn[c]
        \/ conn[c] \in {"none", "waiting"} /\ conn'[c] \in {"waiting", "refused"}

LEMMA OpenSame ==
    ASSUME ClientsWait
    PROVE  Open' = Open
<1>1. \A c \in Clients : conn'[c] \in OpenStates <=> conn[c] \in OpenStates
  BY DEF ClientsWait, OpenStates
<1> QED
  BY <1>1 DEF Open, OpenStates

LEMMA QuietQueue ==
    ASSUME ServerInv, aborted = "none", aborted' \in {"none", "fatal"},
           UNCHANGED <<connections_, io_loop, queue, late, revived>>, ClientsWait,
           num_thread_' = num_thread_ \/ server = "new",
           Standing' => Standing, Standing => Standing' \/ unclean' = (Open # {}),
           ~Standing => unclean' = unclean,
           Types', PoolInv', LoopsInv', FdInv', SpareInv'
    PROVE  ServerInv'
<1>1. Open' = Open
  BY OpenSame
<1>2. /\ \A c \in Clients : KeptOK(c)
      /\ \A l \in Loops : Ordered(queue[l]) /\ \A f \in Range(queue[l]) : FunctorOK(f, l)
  BY DEF ServerInv, QueueInv, Sane
<1>3. ASSUME NEW l \in Loops, NEW f \in Range(queue[l]) PROVE f.conn \in Clients /\ f.op \in FunctorOps
  <2>1. f \in Functors
    BY <1>3, QueuedIsFunctor DEF ServerInv, Types
  <2> QED
    BY <2>1 DEF Functors
<1>4. ASSUME NEW c \in Clients PROVE KeptOK(c)'
  <2>1. conn[c] \in OpenStates \cup {"gone"} \/ conn'[c] \in OpenStates => conn'[c] = conn[c]
    BY DEF ClientsWait, OpenStates
  <2>2. LateOK(c)'
    BY <1>1, <1>2, <2>1 DEF KeptOK, LateOK, Open, OpenStates
  <2>3. c \in Open => io_loop[c] = Base \/ io_loop[c] \in 1 .. num_thread_'
    <3>1. server = "new" => c \notin Open
      BY DEF ServerInv, LoopsInv, Open
    <3> QED
      BY <1>2, <3>1 DEF KeptOK
  <2>4. /\ c \in connections_ => c \in Open
        /\ conn'[c] \in {"kconnected", "kdisconnecting"} /\ c \notin revived /\ io_loop[c] = Base =>
                c \in connections_
    BY <1>2, <2>1 DEF KeptOK, OpenStates
  <2>5. Standing /\ c \in Open /\ c \notin connections_ =>
            \/ c \in revived \/ conn'[c] = "destroyed"
            \/ /\ conn'[c] = "kdisconnected"
               /\ Functor("ConnectionDestroyed", c) \in Range(queue[io_loop[c]])
    BY <1>2, <2>1 DEF KeptOK, OpenStates
  <2> QED
    BY <1>1, <2>2, <2>3, <2>4, <2>5 DEF KeptOK
<1>5. ASSUME NEW l \in Loops, NEW f \in Range(queue[l]) PROVE FunctorOK(f, l)'
  <2> DEFINE c == f.conn
  <2>1. c \in Clients /\ FunctorOK(f, l)
    BY <1>2, <1>3
  <2>2. conn[c] \in OpenStates => conn'[c] = conn[c]
    BY <2>1 DEF ClientsWait, OpenStates
  <2>3. f.op \in RemoveOps => io_loop[c] \in 1 .. num_thread_'
    <3>1. f.op \in RemoveOps => io_loop[c] \in 1 .. num_thread_ /\ c \in Open
      BY <2>1 DEF FunctorOK
    <3>2. server = "new" => c \notin Open
      BY <2>1 DEF ServerInv, LoopsInv, Open
    <3> QED
      BY <3>1, <3>2
  <2> QED
    BY <1>1, <2>1, <2>2, <2>3 DEF FunctorOK, OpenStates
<1>6. QueueInv'
  BY <1>2, <1>4, <1>5 DEF QueueInv
<1>7. CleanInv'
  <2>1. Sane' /\ CleanWithoutConnections'
    BY DEF Sane, CleanWithoutConnections
  <2>2. ASSUME ~Standing', ~unclean'
        PROVE  Open' = {} /\ \A l \in Loops : queue'[l] = <<>>
    <3>1. CASE ~Standing
      <4>1. ~unclean
        BY <2>2, <3>1
      <4> QED
        BY <1>1, <3>1, <4>1 DEF ServerInv, CleanInv, Sane
    <3>2. CASE Standing
      <4>1. Open = {}
        BY <2>2, <3>2
      <4>2. ASSUME NEW l \in Loops, NEW f \in Range(queue[l]) PROVE FALSE
        <5>1. FunctorOK(f, l) /\ f.conn \in Clients /\ f.op \in FunctorOps
          BY <1>2, <1>3
        <5>2. f.conn \in Open
          BY <5>1 DEF FunctorOK, FunctorOps, RemoveOps, Open
        <5> QED
          BY <4>1, <5>2
      <4>3. ASSUME NEW l \in Loops PROVE queue[l] = <<>>
        <5>1. queue[l] \in Seq(Functors)
          BY DEF ServerInv, Types
        <5> HIDE DEF Functors
        <5>2. DOMAIN queue[l] = 1 .. Len(queue[l]) /\ Len(queue[l]) \in Nat
          BY <5>1, LenProperties
        <5>3. DOMAIN queue[l] = {}
          BY <4>2 DEF Range
        <5>4. Len(queue[l]) # 0 => 1 \in DOMAIN queue[l]
          BY <5>2
        <5> QED
          BY <5>1, <5>2, <5>3, <5>4, EmptySeq
      <4> QED
        BY <1>1, <4>1, <4>3
    <3> QED
      BY <3>1, <3>2
  <2> QED
    BY <2>1, <2>2 DEF CleanInv
<1> QED
  BY <1>6, <1>7 DEF ServerInv

LEMMA PoolSame ==
    ASSUME PoolInv, UNCHANGED poolVars, server' = "new" => server = "new"
    PROVE  PoolInv'
<1>1. UNCHANGED <<num_thread_, loops_, next_, dealt>>
  BY DEF poolVars
<1>2. \A k : Dealt(k)' <=> Dealt(k)
  BY <1>1 DEF Dealt
<1> QED
  BY <1>1, <1>2 DEF PoolInv

LEMMA SetThreadNumStep ==
    ASSUME ServerInv, aborted = "none", NEW n \in 0 .. MaxThreads, SetThreadNum(n)
    PROVE  ServerInv'
<1>1. /\ server = "new" /\ num_thread_' = n
      /\ UNCHANGED <<server, loops_, next_, dealt, connections_, conn, io_loop, late, revived,
                     queue, looping, entered, quit, lost, listening_, apc, idle_fd_, free, others, robbed, aborted, unclean>>
  BY DEF SetThreadNum, connVars, loopVars, fdVars
<1>2. ClientsWait /\ Open' = Open
  BY <1>1, OpenSame DEF ClientsWait
<1>3. Types'
  BY <1>1 DEF ServerInv, Types
<1>4. PoolInv' /\ LoopsInv'
  BY <1>1 DEF ServerInv, PoolInv, LoopsInv, Standing
<1>5. FdInv' /\ SpareInv' /\ Standing'
  BY <1>1, <1>2 DEF ServerInv, FdInv, SpareInv, Standing, Spare
<1> QED
  BY <1>1, <1>2, <1>3, <1>4, <1>5, QuietQueue DEF Standing

LEMMA StartStep ==
    ASSUME ServerInv, aborted = "none", Start
    PROVE  ServerInv'
<1>1. /\ server = "new" /\ server' = "started"
      /\ loops_' = [i \in 1 .. num_thread_ |-> i] /\ looping' = 1 .. num_thread_
      /\ listening_' = TRUE
      /\ UNCHANGED <<num_thread_, next_, dealt, connections_, conn, io_loop, late, revived, queue,
                     entered, quit, lost, apc, idle_fd_, free, others, robbed, aborted, unclean>>
  BY DEF Start, PoolStart, Listen, connVars, fdVars
<1>2. ClientsWait /\ Open' = Open
  BY <1>1, OpenSame DEF ClientsWait
<1>3. Types'
  BY <1>1 DEF ServerInv, Types
<1>4. PoolInv'
  <2>1. /\ num_thread_ \in 0 .. MaxThreads /\ MaxThreads \in Nat
        /\ dealt = [l \in Loops |-> 0] /\ next_ = 0
    BY <1>1, ServerAssumption DEF ServerInv, Types, PoolInv
  <2>2. CASE num_thread_ = 0
    <3>1. loops_' = <<>>
      BY <1>1, <2>2
    <3> QED
      BY <1>1, <2>1, <3>1 DEF ServerInv, PoolInv
  <2>3. CASE num_thread_ # 0
    <3>1. Dealt(0)' /\ 0 \in 0 .. num_thread_ - 1
      BY <1>1, <2>1, <2>3 DEF Dealt, Loops
    <3> QED
      BY <1>1, <2>1, <3>1 DEF ServerInv, PoolInv
  <2> QED
    BY <2>2, <2>3
<1>5. LoopsInv' /\ FdInv' /\ SpareInv' /\ Standing /\ Standing'
  BY <1>1, <1>2 DEF ServerInv, LoopsInv, FdInv, SpareInv, Standing, Spare
<1> QED
  BY <1>1, <1>2, <1>3, <1>4, <1>5, QuietQueue

(* descriptors go from hand to hand *)
SameCount ==
    \E f, o, s \in Nat : /\ free' = f /\ others' = o /\ Spare' = s
                         /\ f + o + s = free + others + Spare

LEMMA SpareCounts == ASSUME idle_fd_ \in BOOLEAN PROVE Spare \in Nat
  BY DEF Spare

LEMMA FdSame ==
    ASSUME ServerInv, SameCount, Open' = Open, Standing' => Standing
    PROVE  FdInv' /\ free' \in Nat /\ others' \in Nat
<1>1. PICK f \in Nat, o \in Nat, s \in Nat :
            /\ free' = f /\ others' = o /\ Spare' = s
            /\ f + o + s = free + others + Spare
  BY DEF SameCount
<1>2. free \in Nat /\ others \in Nat /\ Spare \in Nat
  BY SpareCounts DEF ServerInv, Types
<1>3. Cardinality(Open) \in Nat
  BY OpenCounts
<1>4. f + o + s = free + others + Spare
  BY <1>1, Zenon
<1>5. f + o + Cardinality(Open) + s = free + others + Cardinality(Open) + Spare
  BY <1>2, <1>3, <1>4
<1>6. /\ f + o + Cardinality(Open) + s <= MaxFds + 1
      /\ Standing => f + o + Cardinality(Open) + s = MaxFds + 1
  BY <1>5, Zenon DEF ServerInv, FdInv
<1>7. Cardinality(Open)' = Cardinality(Open)
  BY Zenon
<1>8. free' = f /\ others' = o /\ Spare' = s
  BY <1>1, Zenon
<1>9. FdInv'
  BY <1>6, <1>7, <1>8, Zenon DEF FdInv
<1> QED
  BY <1>8, <1>9, Zenon

(* The acceptor without a descriptor, the clients and the rest of the       *)
(* process.                                                                 *)
AcceptorMoves ==
    /\ ClientsWait /\ aborted' \in {"none", "fatal"}
    /\ UNCHANGED <<server, poolVars, connections_, io_loop, late, revived, loopVars, listening_,
                   unclean>>
    /\ conn' \in [Clients -> ConnStates]
    /\ server = "new" => conn' = conn
    /\ apc' \in {"idle", "emfile", "closed", "taken", "reopen"}
    /\ idle_fd_' \in BOOLEAN /\ robbed' \in BOOLEAN

LEMMA AcceptorStep ==
    ASSUME ServerInv, aborted = "none", AcceptorMoves, SameCount, SpareInv'
    PROVE  ServerInv'
<1> USE DEF AcceptorMoves
<1>1. Open' = Open
  BY OpenSame
<1>2. UNCHANGED <<num_thread_, queue, looping, entered, quit, lost>>
  BY DEF poolVars, loopVars
<1>3. FdInv' /\ free' \in Nat /\ others' \in Nat
  BY <1>1, FdSame DEF Standing
<1>4. Types'
  BY <1>2, <1>3 DEF ServerInv, Types
<1>5. PoolInv'
  BY PoolSame DEF ServerInv
<1>6. LoopsInv'
  BY <1>2 DEF ServerInv, LoopsInv, Standing
<1> QED
  BY <1>2, <1>3, <1>4, <1>5, <1>6, QuietQueue DEF Standing

LEMMA AcceptFailsStep ==
    ASSUME ServerInv, aborted = "none", AcceptFails \/ AcceptFatal
    PROVE  ServerInv'
<1>1. /\ UNCHANGED <<server, poolVars, connections_, conn, io_loop, late, revived, loopVars, listening_,
                     idle_fd_, free, others, robbed, unclean>>
      /\ apc = "idle" /\ apc' \in {"idle", "emfile"} /\ aborted' \in {"none", "fatal"}
  BY DEF AcceptFails, AcceptFatal, BaseIdle, connVars, fdVars
<1>2. AcceptorMoves
  BY <1>1 DEF AcceptorMoves, ClientsWait, ServerInv, Types
<1>3. SameCount
  <2>1. free \in Nat /\ others \in Nat /\ Spare \in Nat /\ Spare' = Spare
    BY <1>1, SpareCounts DEF ServerInv, Types, Spare
  <2> QED
    BY <1>1, <2>1 DEF SameCount
<1>4. SpareInv'
  BY <1>1 DEF ServerInv, SpareInv
<1> QED
  BY <1>2, <1>3, <1>4, AcceptorStep

LEMMA CloseSpareStep ==
    ASSUME ServerInv, aborted = "none", CloseIdle \/ CloseTaken
    PROVE  ServerInv'
<1>1. /\ UNCHANGED <<server, poolVars, connections_, conn, io_loop, late, revived, loopVars, listening_,
                     others, robbed, aborted, unclean>>
      /\ apc \in {"emfile", "taken"} /\ apc' \in {"closed", "reopen"}
      /\ idle_fd_' = FALSE /\ free' = IF idle_fd_ THEN free + 1 ELSE free
  BY DEF CloseIdle, CloseTaken, connVars
<1>2. AcceptorMoves
  BY <1>1 DEF AcceptorMoves, ClientsWait, ServerInv, Types
<1>3. free \in Nat /\ others \in Nat /\ idle_fd_ \in BOOLEAN
  BY DEF ServerInv, Types
<1>4. Spare' = 0
  BY <1>1 DEF Spare
<1>5. SameCount
  <2>1. CASE idle_fd_
    <3>1. Spare = 1 /\ free' = free + 1 /\ free + 1 \in Nat /\ others' = others
      BY <1>1, <1>3, <2>1 DEF Spare
    <3>2. (free + 1) + others + 0 = free + others + Spare
      BY <1>3, <3>1
    <3> QED
      BY <1>3, <1>4, <3>1, <3>2 DEF SameCount
  <2>2. CASE ~idle_fd_
    <3>1. Spare = 0 /\ free' = free /\ others' = others
      BY <1>1, <2>2 DEF Spare
    <3> QED
      BY <1>3, <1>4, <3>1 DEF SameCount
  <2> QED
    BY <1>3, <2>1, <2>2
<1>6. SpareInv'
  <2>1. ~robbed /\ server # "dead" => free + 1 > 0 /\ free' = free + 1
    BY <1>1, <1>3 DEF ServerInv, SpareInv
  <2> QED
    BY <1>1, <2>1 DEF SpareInv
<1> QED
  BY <1>2, <1>5, <1>6, AcceptorStep

LEMMA AcceptIdleStep ==
    ASSUME ServerInv, aborted = "none", AcceptIdle
    PROVE  ServerInv'
<1>1. /\ UNCHANGED <<server, poolVars, connections_, io_loop, late, revived, loopVars, listening_,
                     others, robbed, aborted, unclean>>
      /\ apc = "closed" /\ apc' = "taken"
  BY DEF AcceptIdle
<1>2. free \in Nat /\ others \in Nat /\ idle_fd_ = FALSE /\ Spare = 0
  BY <1>1 DEF ServerInv, Types, SpareInv, Spare
<1>3. CASE free > 0
  <2>1. PICK c \in Clients : conn[c] = "waiting" /\ conn' = [conn EXCEPT ![c] = "refused"]
    BY <1>3 DEF AcceptIdle
  <2>2. free' = free - 1 /\ idle_fd_' = TRUE
    BY <1>3 DEF AcceptIdle
  <2>3. server # "new"
    BY <2>1 DEF ServerInv, LoopsInv
  <2>4. AcceptorMoves
    BY <1>1, <2>1, <2>2, <2>3 DEF AcceptorMoves, ClientsWait, ServerInv, Types, ConnStates
  <2>5. SameCount
    <3>1. Spare' = 1 /\ free - 1 \in Nat /\ (free - 1) + others + 1 = free + others + Spare
      BY <1>2, <1>3, <2>2 DEF Spare
    <3> QED
      BY <1>1, <1>2, <2>2, <3>1 DEF SameCount
  <2>6. SpareInv'
    BY <1>1, <2>2 DEF SpareInv
  <2> QED
    BY <2>4, <2>5, <2>6, AcceptorStep
<1>4. CASE ~(free > 0)
  <2>1. UNCHANGED <<conn, free, idle_fd_>>
    BY <1>4 DEF AcceptIdle
  <2>2. AcceptorMoves
    BY <1>1, <2>1 DEF AcceptorMoves, ClientsWait, ServerInv, Types
  <2>3. SameCount
    BY <1>1, <1>2, <2>1 DEF SameCount, Spare
  <2>4. SpareInv'
    BY <1>1, <1>4, <2>1 DEF ServerInv, SpareInv
  <2> QED
    BY <2>2, <2>3, <2>4, AcceptorStep
<1> QED
  BY <1>3, <1>4

LEMMA ReopenStep ==
    ASSUME ServerInv, aborted = "none", Reopen
    PROVE  ServerInv'
<1>1. /\ UNCHANGED <<server, poolVars, connections_, conn, io_loop, late, revived, loopVars, listening_,
                     others, robbed, aborted, unclean>>
      /\ apc = "reopen" /\ apc' = "idle" /\ idle_fd_' = (free > 0)
      /\ free' = IF free > 0 THEN free - 1 ELSE free
  BY DEF Reopen, connVars
<1>2. free \in Nat /\ others \in Nat /\ idle_fd_ = FALSE /\ Spare = 0
  BY <1>1 DEF ServerInv, Types, SpareInv, Spare
<1>3. AcceptorMoves
  <2>1. (free > 0) \in BOOLEAN
    BY <1>2, SMT
  <2>2. idle_fd_' \in BOOLEAN
    BY <1>1, <2>1, Zenon
  <2> QED
    BY <1>1, <2>2 DEF AcceptorMoves, ClientsWait, ServerInv, Types
<1>4. SameCount
  <2>1. CASE free > 0
    <3>1. Spare' = 1 /\ free' = free - 1
      BY <1>1, <2>1 DEF Spare
    <3>2. free - 1 \in Nat /\ (free - 1) + others + 1 = free + others + Spare
      BY <1>2, <2>1
    <3> QED
      BY <1>1, <1>2, <3>1, <3>2 DEF SameCount
  <2>2. CASE ~(free > 0)
    <3>1. Spare' = 0 /\ free' = free
      BY <1>1, <2>2 DEF Spare
    <3> QED
      BY <1>1, <1>2, <3>1 DEF SameCount
  <2> QED
    BY <2>1, <2>2
<1>5. SpareInv'
  <2>1. ~robbed /\ server # "dead" => free > 0
    BY <1>1 DEF ServerInv, SpareInv
  <2> QED
    BY <1>1, <2>1 DEF SpareInv
<1> QED
  BY <1>3, <1>4, <1>5, AcceptorStep

LEMMA ConnectStep ==
    ASSUME ServerInv, aborted = "none", NEW c \in Clients, Connect(c)
    PROVE  ServerInv'
<1>1. /\ UNCHANGED <<server, poolVars, connections_, io_loop, late, revived, loopVars, listening_, apc,
                     idle_fd_, free, others, robbed, aborted, unclean>>
      /\ conn[c] = "none" /\ server = "started" /\ conn' = [conn EXCEPT ![c] = "waiting"]
  BY DEF Connect, fdVars
<1>2. AcceptorMoves
  BY <1>1 DEF AcceptorMoves, ClientsWait, ServerInv, Types, ConnStates
<1>3. SameCount
  <2>1. free \in Nat /\ others \in Nat /\ Spare \in Nat /\ Spare' = Spare
    BY <1>1, SpareCounts DEF ServerInv, Types, Spare
  <2> QED
    BY <1>1, <2>1 DEF SameCount
<1>4. SpareInv'
  BY <1>1 DEF ServerInv, SpareInv
<1> QED
  BY <1>2, <1>3, <1>4, AcceptorStep

LEMMA FileStep ==
    ASSUME ServerInv, aborted = "none", OpenFile \/ CloseFile
    PROVE  ServerInv'
<1>1. UNCHANGED <<server, poolVars, connections_, conn, io_loop, late, revived, loopVars, listening_, apc,
                  idle_fd_, aborted, unclean>>
  BY DEF OpenFile, CloseFile, connVars
<1>2. free \in Nat /\ others \in Nat /\ robbed \in BOOLEAN /\ Spare \in Nat /\ Spare' = Spare
  BY <1>1, SpareCounts DEF ServerInv, Types, Spare
<1>3. CASE OpenFile
  <2>1. free > 0 /\ free' = free - 1 /\ others' = others + 1 /\ robbed' = (robbed \/ apc # "idle")
    BY <1>3 DEF OpenFile
  <2>2. robbed' \in BOOLEAN
    BY <2>1, Zenon
  <2>3. AcceptorMoves
    BY <1>1, <2>2 DEF AcceptorMoves, ClientsWait, ServerInv, Types
  <2>4. SameCount
    <3>1. /\ free - 1 \in Nat /\ others + 1 \in Nat
          /\ (free - 1) + (others + 1) + Spare = free + others + Spare
      BY <1>2, <2>1
    <3> QED
      BY <1>2, <2>1, <3>1 DEF SameCount
  <2>5. SpareInv'
    BY <1>1, <2>1 DEF ServerInv, SpareInv
  <2> QED
    BY <2>3, <2>4, <2>5, AcceptorStep
<1>4. CASE CloseFile
  <2>1. others > 0 /\ free' = free + 1 /\ others' = others - 1 /\ robbed' = robbed
    BY <1>4 DEF CloseFile
  <2>2. AcceptorMoves
    BY <1>1, <1>2, <2>1 DEF AcceptorMoves, ClientsWait, ServerInv, Types
  <2>3. SameCount
    <3>1. /\ free + 1 \in Nat /\ others - 1 \in Nat
          /\ (free + 1) + (others - 1) + Spare = free + others + Spare
      BY <1>2, <2>1
    <3> QED
      BY <1>2, <2>1, <3>1 DEF SameCount
  <2>4. SpareInv'
    <3>1. free + 1 > 0
      BY <1>2
    <3> QED
      BY <1>1, <2>1, <3>1 DEF ServerInv, SpareInv
  <2> QED
    BY <2>2, <2>3, <2>4, AcceptorStep
<1> QED
  BY <1>3, <1>4

-----------------------------------------------------------------------------
(* The destructor and its io loops. *)

LEMMA BeginDestructorStep ==
    ASSUME ServerInv, aborted = "none", BeginDestructor
    PROVE  ServerInv'
<1>1. /\ UNCHANGED <<num_thread_, poolVars, connections_, conn, io_loop, late, revived, queue, looping, entered, quit, lost,
                     listening_, apc, idle_fd_, free, others, robbed, aborted>>
      /\ server \in {"new", "started"} /\ server' = "destructing" /\ unclean' = (Open # {})
  BY DEF BeginDestructor, poolVars, connVars, loopVars, fdVars
<1>2. ClientsWait /\ Open' = Open
  BY <1>1, OpenSame DEF ClientsWait
<1>3. Types'
  <2>1. unclean' \in BOOLEAN
    BY <1>1, Zenon
  <2> QED
    BY <1>1, <2>1 DEF ServerInv, Types
<1>4. PoolInv'
  BY <1>1, PoolSame DEF ServerInv
<1>5. LoopsInv' /\ FdInv' /\ SpareInv' /\ Standing /\ ~Standing'
  BY <1>1, <1>2 DEF ServerInv, LoopsInv, FdInv, SpareInv, Standing, Spare
<1> QED
  BY <1>1, <1>2, <1>3, <1>4, <1>5, QuietQueue

LEMMA QuitLoopStep ==
    ASSUME ServerInv, aborted = "none", NEW l \in Loops, QuitLoop(l)
    PROVE  ServerInv'
<1>1. /\ UNCHANGED <<server, num_thread_, poolVars, connections_, conn, io_loop, late, revived, queue, looping,
                     entered, lost, listening_, apc, idle_fd_, free, others, robbed, aborted, unclean>>
      /\ server = "destructing" /\ l \in looping /\ quit' = quit \cup {l}
  BY DEF QuitLoop, poolVars, connVars, fdVars
<1>2. ClientsWait /\ Open' = Open
  BY <1>1, OpenSame DEF ClientsWait
<1>3. Types'
  BY <1>1 DEF ServerInv, Types
<1>4. PoolInv'
  BY <1>1, PoolSame DEF ServerInv
<1>5. LoopsInv' /\ FdInv' /\ SpareInv' /\ ~Standing /\ ~Standing'
  BY <1>1, <1>2 DEF ServerInv, LoopsInv, FdInv, SpareInv, Standing, Spare
<1> QED
  BY <1>1, <1>2, <1>3, <1>4, <1>5, QuietQueue

LEMMA EndDestructorStep ==
    ASSUME ServerInv, aborted = "none", EndDestructor
    PROVE  ServerInv'
<1>1. /\ UNCHANGED <<num_thread_, poolVars, connections_, conn, io_loop, late, revived, queue, looping, entered, quit, lost,
                     apc, others, robbed, aborted, unclean>>
      /\ server = "destructing" /\ server' = "dead" /\ connections_ = {} /\ looping = {}
      /\ listening_' = FALSE /\ idle_fd_' = FALSE
      /\ free' = IF idle_fd_ THEN free + 1 ELSE free
  BY DEF EndDestructor, poolVars, connVars, loopVars
<1>2. ClientsWait /\ Open' = Open
  BY <1>1, OpenSame DEF ClientsWait
<1>3. ~Standing /\ ~Standing'
  BY <1>1 DEF Standing
<1>4. free \in Nat /\ others \in Nat /\ idle_fd_ \in BOOLEAN
  BY DEF ServerInv, Types
<1>5. SameCount
  <2>0. Spare' = 0
    BY <1>1 DEF Spare
  <2>1. CASE idle_fd_
    <3>1. Spare = 1 /\ free' = free + 1 /\ free + 1 \in Nat /\ others' = others
      BY <1>1, <1>4, <2>1 DEF Spare
    <3>2. (free + 1) + others + 0 = free + others + Spare
      BY <1>4, <3>1
    <3> QED
      BY <1>4, <2>0, <3>1, <3>2 DEF SameCount
  <2>2. CASE ~idle_fd_
    <3>1. Spare = 0 /\ free' = free /\ others' = others
      BY <1>1, <2>2 DEF Spare
    <3> QED
      BY <1>4, <2>0, <3>1 DEF SameCount
  <2> QED
    BY <1>4, <2>1, <2>2
<1>6. FdInv' /\ free' \in Nat /\ others' \in Nat
  BY <1>2, <1>3, <1>5, FdSame
<1>7. Types'
  BY <1>1, <1>6 DEF ServerInv, Types
<1>8. PoolInv'
  BY <1>1, PoolSame DEF ServerInv
<1>9. LoopsInv' /\ SpareInv'
  BY <1>1, <1>3 DEF ServerInv, LoopsInv, SpareInv
<1> QED
  BY <1>1, <1>2, <1>3, <1>6, <1>7, <1>8, <1>9, QuietQueue

-----------------------------------------------------------------------------
(* The steps that move one connection along. *)

LEMMA Queued ==
    ASSUME ServerInv, aborted = "none", NEW l \in Loops, NEW f \in Range(queue[l])
    PROVE  /\ f \in Functors /\ f.conn \in Clients /\ f.op \in FunctorOps
           /\ f = Functor(f.op, f.conn) /\ FunctorOK(f, l)
           /\ Standing \/ unclean
<1>1. f \in Functors
  BY QueuedIsFunctor DEF ServerInv, Types
<1>2. f.conn \in Clients /\ f.op \in FunctorOps /\ f = Functor(f.op, f.conn)
  BY <1>1 DEF Functors, Functor
<1>3. FunctorOK(f, l)
  BY DEF ServerInv, QueueInv, Sane
<1>4. queue[l] # <<>>
  BY DEF Range
<1>5. Standing \/ unclean
  BY <1>4 DEF ServerInv, CleanInv, Sane
<1> QED
  BY <1>1, <1>2, <1>3, <1>5

LEMMA FunctorIs ==
    ASSUME NEW op \in FunctorOps, NEW c \in Clients
    PROVE  /\ Functor(op, c) \in Functors
           /\ Functor(op, c).op = op /\ Functor(op, c).conn = c
  BY DEF Functor, Functors

LEMMA QueuesOrdered ==
    ASSUME ServerInv, aborted = "none"
    PROVE  AllOrdered(queue)
  BY DEF ServerInv, Types, QueueInv, Sane, AllOrdered

(* a step that only concerns the connection of c: it leaves the functors of *)
(* the others where they are                                                *)
SameOf(d) ==
    /\ conn'[d] = conn[d] /\ io_loop'[d] = io_loop[d]
    /\ d \in connections_' <=> d \in connections_
    /\ d \in late' <=> d \in late
    /\ d \in revived' <=> d \in revived

OnlyOf(c) ==
    /\ UNCHANGED <<server, num_thread_>>
    /\ \A d \in Clients \ {c} : SameOf(d)
    /\ \A l \in Loops : Ordered(queue'[l])
    /\ \A l \in Loops : \A g \in Functors :
            g.conn # c => (g \in Range(queue'[l]) <=> g \in Range(queue[l]))

LEMMA QueueStep ==
    ASSUME ServerInv, aborted = "none", NEW c \in Clients, OnlyOf(c),
           Types', KeptOK(c)',
           \A l \in Loops : \A g \in Range(queue'[l]) : g.conn = c => FunctorOK(g, l)'
    PROVE  QueueInv'
<1>1. ASSUME NEW d \in Clients \ {c} PROVE KeptOK(d)' /\ (d \in Open' <=> d \in Open)
  <2>1. KeptOK(d)
    BY DEF ServerInv, QueueInv, Sane
  <2>2. SameOf(d) /\ io_loop[d] \in Loops /\ server' = server /\ num_thread_' = num_thread_
    BY DEF OnlyOf, ServerInv, Types
  <2>3. d \in Open' <=> d \in Open
    BY <2>2 DEF Open, SameOf
  <2>4. Functor("ConnectionDestroyed", d) \in Functors /\ Functor("ConnectionDestroyed", d).conn = d
    BY FunctorIs DEF FunctorOps
  <2>5. Functor("ConnectionDestroyed", d) \in Range(queue[io_loop[d]]) =>
            Functor("ConnectionDestroyed", d) \in Range(queue'[io_loop[d]])
    BY <2>2, <2>4 DEF OnlyOf
  <2>6. KeptOK(d)'
    BY <2>1, <2>2, <2>3, <2>5 DEF KeptOK, LateOK, SameOf, Standing
  <2> QED
    BY <2>3, <2>6
<1>2. ASSUME NEW l \in Loops, NEW g \in Range(queue'[l]) PROVE FunctorOK(g, l)'
  <2>1. CASE g.conn = c
    BY <2>1
  <2>2. CASE g.conn # c
    <3>1. g \in Functors
      BY QueuedIsFunctor DEF Types
    <3>2. g \in Range(queue[l])
      BY <2>2, <3>1 DEF OnlyOf
    <3>3. FunctorOK(g, l) /\ g.conn \in Clients \ {c}
      BY <2>2, <3>2, Queued
    <3>4. /\ SameOf(g.conn) /\ (g.conn \in Open' <=> g.conn \in Open)
          /\ server' = server /\ num_thread_' = num_thread_
      BY <1>1, <3>3 DEF OnlyOf
    <3> QED
      BY <3>3, <3>4 DEF FunctorOK, SameOf, Standing
  <2> QED
    BY <2>1, <2>2
<1>3. \A l \in Loops : Ordered(queue'[l])
  BY DEF OnlyOf
<1> QED
  BY <1>1, <1>2, <1>3 DEF QueueInv

(* the descriptor of a connection is taken or given back *)
FdMoves ==
    \E f, n \in Nat :
        /\ free' = f /\ Cardinality(Open') = n
        /\ UNCHANGED <<others, idle_fd_, robbed, apc>>
        /\ f + n <= free + Cardinality(Open)
        /\ Standing => f + n = free + Cardinality(Open)
        /\ apc = "idle" \/ free <= f

LEMMA FdStep ==
    ASSUME ServerInv, FdMoves, server' = server
    PROVE  FdInv' /\ SpareInv' /\ free' \in Nat
<1>1. PICK f \in Nat, n \in Nat :
        /\ free' = f /\ Cardinality(Open') = n
        /\ UNCHANGED <<others, idle_fd_, robbed, apc>>
        /\ f + n <= free + Cardinality(Open)
        /\ Standing => f + n = free + Cardinality(Open)
        /\ apc = "idle" \/ free <= f
  BY DEF FdMoves
<1>2. free \in Nat /\ others \in Nat /\ Spare \in Nat /\ Cardinality(Open) \in Nat
  BY SpareCounts, OpenCounts DEF ServerInv, Types
<1>3. /\ f + n <= free + Cardinality(Open)
      /\ Standing => f + n = free + Cardinality(Open)
      /\ apc = "idle" \/ free <= f
  BY <1>1, Zenon
<1>4. /\ free + others + Cardinality(Open) + Spare <= MaxFds + 1
      /\ Standing => free + others + Cardinality(Open) + Spare = MaxFds + 1
  BY DEF ServerInv, FdInv
<1>5. f + others + n + Spare <= MaxFds + 1
  BY <1>2, <1>3, <1>4, ServerAssumption
<1>6. Standing => f + others + n + Spare = MaxFds + 1
  BY <1>2, <1>3, <1>4, ServerAssumption
<1>7. /\ free' = f /\ others' = others /\ Spare' = Spare /\ Cardinality(Open') = n
      /\ Standing' <=> Standing
  BY <1>1, Zenon DEF Spare, Standing
<1>8. FdInv'
  BY <1>5, <1>6, <1>7, Zenon DEF FdInv
<1>9. SpareInv'
  <2>1. apc \in {"closed", "reopen"} /\ free > 0 => f > 0
    BY <1>2, <1>3
  <2>2. UNCHANGED <<idle_fd_, robbed, apc, server>> /\ free' = f
    BY <1>1, Zenon
  <2> QED
    BY <2>1, <2>2, Zenon DEF ServerInv, SpareInv
<1> QED
  BY <1>7, <1>8, <1>9, Zenon

(* what the steps of a connection leave alone *)
ServerSame ==
    UNCHANGED <<server, num_thread_, looping, entered, quit, lost, listening_, unclean>>

LEMMA ConnectionStep ==
    ASSUME ServerInv, aborted = "none", ServerSame, FdMoves, PoolInv',
           NEW c \in Clients, server # "new", server = "dead" => connections_' = {},
           connections_' \subseteq Clients, late' \subseteq Clients, revived' \subseteq Clients,
           conn' \in [Clients -> ConnStates],
           io_loop' \in [Clients -> Loops], queue' \in [Loops -> Seq(Functors)],
           \/ /\ aborted' = "none" /\ (Standing \/ unclean) /\ OnlyOf(c) /\ KeptOK(c)'
              /\ \A l \in Loops : \A g \in Range(queue'[l]) : g.conn = c => FunctorOK(g, l)'
           \/ CleanInv' /\ ~Sane'
    PROVE  ServerInv'
<1>1. FdInv' /\ SpareInv' /\ free' \in Nat
  BY FdStep DEF ServerSame
<1>2. UNCHANGED <<others, idle_fd_, robbed, apc>>
  BY DEF FdMoves
<1>3. Types'
  BY <1>1, <1>2 DEF ServerInv, Types, ServerSame
<1>4. LoopsInv'
  BY DEF ServerInv, LoopsInv, ServerSame, Standing
<1>5. QueueInv' /\ CleanInv'
  <2>1. CASE /\ aborted' = "none" /\ (Standing \/ unclean) /\ OnlyOf(c) /\ KeptOK(c)'
             /\ \A l \in Loops : \A g \in Range(queue'[l]) : g.conn = c => FunctorOK(g, l)'
    <3>1. QueueInv'
      BY <1>3, <2>1, QueueStep
    <3>2. CleanInv'
      BY <2>1 DEF CleanInv, CleanWithoutConnections, ServerSame, Standing
    <3> QED
      BY <3>1, <3>2
  <2>2. CASE CleanInv' /\ ~Sane'
    BY <2>2 DEF QueueInv
  <2> QED
    BY <2>1, <2>2
<1> QED
  BY <1>1, <1>3, <1>4, <1>5 DEF ServerInv

-----------------------------------------------------------------------------
(* The base loop: NewConnection and RemoveConnectionInLoop. *)

(* The loop that comes next is given a connection: the turn goes on, or a   *)
(* new one begins.                                                          *)
LEMMA NextLoopStep ==
    ASSUME ServerInv, server = "started", server' = "started",
           NEW l \in Loops, GetNextLoop(l)
    PROVE  PoolInv' /\ num_thread_' = num_thread_ /\ (l = Base \/ l \in 1 .. num_thread_)
<1>1. /\ UNCHANGED <<num_thread_, loops_>> /\ dealt' = [dealt EXCEPT ![l] = @ + 1]
      /\ l = IF loops_ = <<>> THEN Base ELSE loops_[next_ + 1]
      /\ next_' = IF loops_ = <<>> THEN next_ ELSE NextIndex
  BY DEF GetNextLoop
<1>2. dealt \in [Loops -> Nat] /\ num_thread_ \in 0 .. MaxThreads /\ MaxThreads \in Nat
  BY ServerAssumption DEF ServerInv, PoolInv, Types
<1>3. dealt' \in [Loops -> Nat]
  BY <1>1, <1>2
<1>4. CASE loops_ = <<>> /\ next_ = 0
  BY <1>1, <1>3, <1>4 DEF PoolInv
<1>5. CASE ~(loops_ = <<>> /\ next_ = 0)
  <2>1. /\ loops_ = [i \in 1 .. num_thread_ |-> i] /\ next_ \in 0 .. num_thread_ - 1
        /\ \E k \in Nat : Dealt(k)
    BY <1>5 DEF ServerInv, PoolInv
  <2>2. PICK k \in Nat : Dealt(k)
    BY <2>1
  <2>3. num_thread_ \in Nat \ {0} /\ next_ \in Nat
    BY <1>2, <2>1
  <2>4. loops_ # <<>> /\ Len(loops_) = num_thread_ /\ l = next_ + 1
    <3>1. DOMAIN loops_ = 1 .. num_thread_
      BY <2>1
    <3>2. loops_ \in Seq(Nat)
      BY <2>1, <2>3
    <3>3. Len(loops_) = num_thread_ /\ loops_ # <<>>
      BY <2>3, <3>1, <3>2, LenProperties
    <3>4. loops_[next_ + 1] = next_ + 1
      BY <2>1, <2>3
    <3> QED
      BY <1>1, <3>3, <3>4
  <2>5. l \in 1 .. num_thread_ /\ \A i \in 1 .. num_thread_ : i \in Loops
    BY <1>2, <2>1, <2>3, <2>4 DEF Loops
  <2>6. CASE next_ + 1 >= num_thread_
    <3>1. next_' = 0 /\ next_ + 1 = num_thread_
      BY <1>1, <2>1, <2>3, <2>4, <2>6 DEF NextIndex
    <3>2. ASSUME NEW i \in 1 .. num_thread_ PROVE dealt'[i] = k + 1
      BY <1>1, <1>2, <2>2, <2>3, <2>4, <2>5, <3>1 DEF Dealt
    <3>3. Dealt(k + 1)'
      <4>1. \A i \in 1 .. num_thread_ : ~(i <= 0)
        BY <2>3
      <4> QED
        BY <1>1, <3>1, <3>2, <4>1 DEF Dealt
    <3>4. k + 1 \in Nat /\ 0 \in 0 .. num_thread_ - 1
      BY <2>3
    <3> QED
      BY <1>1, <1>3, <2>1, <2>5, <3>1, <3>3, <3>4 DEF PoolInv
  <2>7. CASE ~(next_ + 1 >= num_thread_)
    <3>1. next_' = next_ + 1 /\ next_ + 1 \in 0 .. num_thread_ - 1
      BY <1>1, <2>1, <2>3, <2>4, <2>7 DEF NextIndex
    <3>2. ASSUME NEW i \in 1 .. num_thread_
          PROVE  dealt'[i] = IF i <= next_ + 1 THEN k + 1 ELSE k
      <4>1. CASE i = next_ + 1
        BY <1>1, <1>2, <2>2, <2>3, <2>4, <2>5, <4>1 DEF Dealt
      <4>2. CASE i # next_ + 1
        <5>1. dealt'[i] = dealt[i]
          BY <1>1, <1>2, <2>4, <2>5, <4>2
        <5>2. i <= next_ + 1 <=> i <= next_
          BY <2>3, <4>2
        <5> QED
          BY <2>2, <5>1, <5>2 DEF Dealt
      <4> QED
        BY <4>1, <4>2
    <3>3. Dealt(k)'
      BY <1>1, <3>1, <3>2 DEF Dealt
    <3> QED
      BY <1>1, <1>3, <2>1, <2>5, <3>1, <3>3 DEF PoolInv
  <2> QED
    BY <2>6, <2>7
<1> QED
  BY <1>1, <1>4, <1>5

(* No functor is about a connection of which no object exists. *)
LEMMA NotQueued ==
    ASSUME ServerInv, aborted = "none", NEW c \in Clients, conn[c] = "waiting"
    PROVE  /\ c \notin connections_ /\ c \notin Open /\ c \notin late /\ c \notin revived
           /\ \A l \in Loops : \A g \in Range(queue[l]) : g.conn # c
<1>1. KeptOK(c)
  BY DEF ServerInv, QueueInv, Sane
<1>2. c \notin Open /\ c \notin connections_ /\ c \notin late /\ c \notin revived
  BY <1>1 DEF KeptOK, LateOK, Open
<1>3. ASSUME NEW l \in Loops, NEW g \in Range(queue[l]), g.conn = c PROVE FALSE
  <2>1. FunctorOK(g, l) /\ g.op \in FunctorOps
    BY Queued
  <2> QED
    BY <1>2, <1>3, <2>1 DEF FunctorOK, FunctorOps, RemoveOps
<1> QED
  BY <1>2, <1>3

LEMMA AcceptStep ==
    ASSUME ServerInv, aborted = "none", NEW c \in Clients, Accept(c)
    PROVE  ServerInv'
<1>1. /\ apc = "idle" /\ server = "started" /\ conn[c] = "waiting" /\ free > 0
      /\ free' = free - 1 /\ aborted' = "none"
      /\ UNCHANGED <<server, late, revived, looping, entered, quit, lost, listening_, apc,
                     idle_fd_, others, robbed, unclean>>
  BY DEF Accept, BaseIdle
<1>2. PICK l \in Loops :
        /\ GetNextLoop(l)
        /\ io_loop' = [io_loop EXCEPT ![c] = l]
        /\ connections_' = connections_ \cup {c}
        /\ IF l = Base
             THEN conn' = [conn EXCEPT ![c] = "kconnected"] /\ UNCHANGED queue
             ELSE /\ conn' = [conn EXCEPT ![c] = "kconnecting"]
                  /\ queue' = [queue EXCEPT ![l] =
                                    Append(@, Functor("ConnectionEstablished", c))]
  BY DEF Accept, NewConnection
<1>3. PoolInv' /\ num_thread_' = num_thread_ /\ (l = Base \/ l \in 1 .. num_thread_)
  BY <1>1, <1>2, NextLoopStep
<1>4. PICK st \in {"kconnected", "kconnecting"} :
        /\ conn' = [conn EXCEPT ![c] = st]
        /\ st = IF l = Base THEN "kconnected" ELSE "kconnecting"
  BY <1>2
<1>5. /\ conn \in [Clients -> ConnStates]
      /\ io_loop \in [Clients -> Loops] /\ queue \in [Loops -> Seq(Functors)]
      /\ free \in Nat
  BY DEF ServerInv, Types
<1>6. /\ c \notin connections_ /\ c \notin Open /\ c \notin late /\ c \notin revived
      /\ \A k \in Loops : \A g \in Range(queue[k]) : g.conn # c
  BY <1>1, NotQueued
<1>7. FdMoves
  <2>1. /\ Cardinality(Open') \in Nat
        /\ Cardinality(Open') = Cardinality(Open) + (IF st \in OpenStates THEN 1 ELSE 0)
                                                  - (IF c \in Open THEN 1 ELSE 0)
    BY <1>4, <1>5, OpenStep
  <2>2. st \in OpenStates
    BY DEF OpenStates
  <2>3. Cardinality(Open) \in Nat
    BY OpenCounts
  <2>4. Cardinality(Open') = Cardinality(Open) + 1
    BY <1>6, <2>1, <2>2, <2>3
  <2>5. /\ free - 1 \in Nat /\ Cardinality(Open) + 1 \in Nat
        /\ (free - 1) + (Cardinality(Open) + 1) = free + Cardinality(Open)
        /\ (free - 1) + (Cardinality(Open) + 1) <= free + Cardinality(Open)
    BY <1>1, <1>5, <2>3
  <2> QED
    BY <1>1, <2>4, <2>5, Zenon DEF FdMoves
<1>8. ServerSame /\ Standing
  BY <1>1, <1>3 DEF ServerSame, Standing
<1>9. KeptOK(c)'
  <2>1. conn'[c] = st /\ c \in connections_' /\ io_loop'[c] = l
    BY <1>2, <1>4, <1>5
  <2> QED
    BY <1>1, <1>3, <1>6, <2>1 DEF KeptOK, LateOK, Open
<1>10. AllOrdered(queue)
  BY QueuesOrdered
<1>11. /\ conn' \in [Clients -> ConnStates]
       /\ io_loop' \in [Clients -> Loops] /\ connections_' \subseteq Clients
       /\ late' \subseteq Clients /\ revived' \subseteq Clients
       /\ conn'[c] = st /\ io_loop'[c] = l
       /\ \A d \in Clients \ {c} : SameOf(d)
  <2>1. conn' \in [Clients -> ConnStates]
    BY <1>4, <1>5 DEF ConnStates
  <2>2. /\ io_loop' \in [Clients -> Loops] /\ connections_' \subseteq Clients
        /\ late' \subseteq Clients /\ revived' \subseteq Clients
    BY <1>1, <1>2, <1>5 DEF ServerInv, Types
  <2>3. conn'[c] = st /\ io_loop'[c] = l
    BY <1>2, <1>4, <1>5
  <2>4. \A d \in Clients \ {c} : SameOf(d)
    BY <1>1, <1>2, <1>4, <1>5 DEF SameOf
  <2> QED
    BY <2>1, <2>2, <2>3, <2>4
<1>12. CASE l = Base
  <2>1. queue' = queue
    BY <1>2, <1>12
  <2>2. OnlyOf(c)
    BY <1>1, <1>3, <1>10, <1>11, <2>1 DEF OnlyOf, AllOrdered
  <2>3. \A k \in Loops : \A g \in Range(queue'[k]) : g.conn = c => FunctorOK(g, k)'
    BY <1>6, <2>1
  <2> QED
    BY <1>1, <1>3, <1>5, <1>7, <1>8, <1>9, <1>11, <2>1, <2>2, <2>3, ConnectionStep
<1>13. CASE l # Base
  <2> DEFINE f == Functor("ConnectionEstablished", c)
  <2>1. queue' = [queue EXCEPT ![l] = Append(@, f)] /\ st = "kconnecting"
    BY <1>2, <1>4, <1>13
  <2>2. f \in Functors /\ f.op = "ConnectionEstablished" /\ f.conn = c
    BY FunctorIs DEF FunctorOps
  <2> HIDE DEF f
  <2>3. MayPush(queue, l, f)
    BY <1>6, <1>10, <2>2 DEF MayPush
  <2>4. /\ AllOrdered(queue') /\ Range(queue'[l]) = Range(queue[l]) \cup {f}
        /\ \A k \in Loops \ {l} : queue'[k] = queue[k]
    <3>1. Pushed(queue, queue', l, f)
      BY <2>1 DEF Pushed
    <3> QED
      BY <2>3, <3>1, PushKeeps
  <2>5. OnlyOf(c)
    BY <1>1, <1>3, <1>11, <2>2, <2>4 DEF OnlyOf, AllOrdered
  <2>6. ASSUME NEW k \in Loops, NEW g \in Range(queue'[k]), g.conn = c PROVE FunctorOK(g, k)'
    <3>1. g = f /\ k = l
      BY <1>6, <2>4, <2>6
    <3> QED
      BY <1>11, <1>13, <2>1, <2>2, <3>1 DEF FunctorOK, RemoveOps
  <2> QED
    BY <1>1, <1>3, <1>7, <1>8, <1>9, <1>11, <2>4, <2>5, <2>6, ConnectionStep DEF AllOrdered
<1> QED
  BY <1>12, <1>13

(* A connection changes its state, and gives its descriptor back when it is *)
(* gone.                                                                    *)
MovesOn(c, st) ==
    /\ c \in Clients /\ conn' = [conn EXCEPT ![c] = st] /\ io_loop' = io_loop
    /\ UNCHANGED <<server, poolVars, looping, entered, quit, lost, listening_, apc, idle_fd_,
                   others, robbed, unclean>>
    /\ \/ st \in OpenStates /\ c \in Open /\ free' = free
       \/ st = "gone" /\ c \in Open /\ free' = free + 1

Moves(c, st) == MovesOn(c, st) /\ UNCHANGED <<late, revived>>

LEMMA MovesStep ==
    ASSUME ServerInv, NEW c, NEW st, MovesOn(c, st)
    PROVE  /\ FdMoves /\ ServerSame /\ PoolInv' /\ server # "new"
           /\ conn'[c] = st /\ \A d \in Clients \ {c} : conn'[d] = conn[d]
           /\ conn' \in [Clients -> ConnStates]
           /\ io_loop' \in [Clients -> Loops]
<1>1. /\ conn \in [Clients -> ConnStates]
      /\ io_loop \in [Clients -> Loops] /\ c \in Clients
      /\ free \in Nat /\ Cardinality(Open) \in Nat
  BY OpenCounts DEF ServerInv, Types, MovesOn
<1>2. /\ UNCHANGED <<server, poolVars, looping, entered, quit, lost, listening_, apc, idle_fd_,
                     others, robbed, unclean>>
      /\ conn' = [conn EXCEPT ![c] = st] /\ io_loop' = io_loop
  BY DEF MovesOn
<1>3. ServerSame
  BY <1>2 DEF ServerSame, poolVars
<1>4. PoolInv'
  BY <1>2, PoolSame DEF ServerInv
<1>5. c \in Open
  BY DEF MovesOn
<1>6. server # "new"
  BY <1>1, <1>5 DEF ServerInv, LoopsInv, Open
<1>7. st \in ConnStates
  BY DEF MovesOn, OpenStates, ConnStates
<1>8. /\ Cardinality(Open') \in Nat
      /\ Cardinality(Open') = Cardinality(Open) + (IF st \in OpenStates THEN 1 ELSE 0)
                                                - (IF c \in Open THEN 1 ELSE 0)
  BY <1>1, <1>2, OpenStep
<1>9. "gone" \notin OpenStates
  BY DEF OpenStates
<1>10. FdMoves
  <2>1. CASE st \in OpenStates /\ free' = free
    <3>1. Cardinality(Open') = Cardinality(Open)
      BY <1>1, <1>5, <1>8, <2>1
    <3>2. free <= free /\ free + Cardinality(Open) <= free + Cardinality(Open)
      BY <1>1
    <3> QED
      BY <1>1, <1>2, <2>1, <3>1, <3>2, Zenon DEF FdMoves
  <2>2. CASE st = "gone"
    <3>1. \E n \in Nat : n + 1 = Cardinality(Open) /\ Cardinality(Open') = n
      <4>1. Cardinality(Open') = Cardinality(Open) - 1
        BY <1>1, <1>5, <1>8, <1>9, <2>2
      <4>2. Cardinality(Open) - 1 \in Nat
        BY <1>8, <4>1, Zenon
      <4>3. (Cardinality(Open) - 1) + 1 = Cardinality(Open)
        BY <1>1
      <4> QED
        BY <4>1, <4>2, <4>3, Zenon
    <3>2. PICK n \in Nat : n + 1 = Cardinality(Open) /\ Cardinality(Open') = n
      BY <3>1
    <3>3. n + 1 = Cardinality(Open)
      BY <3>2
    <3>4. /\ free + 1 \in Nat /\ free <= free + 1 /\ free <= free
          /\ (free + 1) + n = free + Cardinality(Open)
          /\ (free + 1) + n <= free + Cardinality(Open)
          /\ free + n <= free + Cardinality(Open)
      BY <1>1, <3>3
    <3>5. free' = free + 1
      BY <1>9, <2>2 DEF MovesOn
    <3> QED
      BY <1>2, <3>2, <3>4, <3>5, Zenon DEF FdMoves
  <2> QED
    BY <1>9, <2>1, <2>2 DEF MovesOn
<1>11. conn'[c] = st /\ \A d \in Clients \ {c} : conn'[d] = conn[d]
  BY <1>1, <1>2
<1>12. conn' \in [Clients -> ConnStates]
  BY <1>1, <1>2, <1>7
<1> QED
  BY <1>1, <1>2, <1>3, <1>4, <1>6, <1>10, <1>11, <1>12

(* A connection that connections_ holds is handed to its own loop to be     *)
(* destroyed there: no other functor but its Remove waits for it then.      *)
LEMMA HandOver ==
    ASSUME ServerInv, aborted = "none", aborted' = "none", NEW c \in Clients, NEW q, NEW st,
           Moves(c, st), st \in OpenStates, c \in connections_, connections_' = connections_ \ {c},
           Standing => st = "kdisconnected" \/ c \in revived, LateOK(c)',
           AllOrdered(q),
           \A l \in Loops : \A g \in Functors :
                g.conn # c => (g \in Range(q[l]) <=> g \in Range(queue[l])),
           \A l \in Loops : \A g \in Range(q[l]) : g.conn = c =>
                FunctorOK(g, l)' /\ g.op # "ConnectionDestroyed",
           Pushed(q, queue', io_loop[c], Functor("ConnectionDestroyed", c)),
           io_loop[c] = Base => st = "kdisconnected" \/ c \in revived
    PROVE  ServerInv'
<1> DEFINE f == Functor("ConnectionDestroyed", c)
           k == io_loop[c]
<1>1. f \in Functors /\ f.op = "ConnectionDestroyed" /\ f.conn = c
  BY FunctorIs DEF FunctorOps
<1>2. /\ k \in Loops /\ io_loop' = io_loop /\ MovesOn(c, st)
      /\ UNCHANGED <<late, revived>> /\ late' \subseteq Clients /\ revived' \subseteq Clients
  BY DEF ServerInv, Types, Moves, MovesOn
<1>3. /\ FdMoves /\ ServerSame /\ PoolInv' /\ server # "new"
      /\ conn'[c] = st /\ \A d \in Clients \ {c} : conn'[d] = conn[d]
      /\ conn' \in [Clients -> ConnStates]
      /\ io_loop' \in [Clients -> Loops]
  BY <1>2, MovesStep
<1>4. Pushed(q, queue', k, f)
  OBVIOUS
<1> HIDE DEF f, k
<1>5. MayPush(q, k, f)
  BY <1>1, <1>2 DEF MayPush
<1>6. /\ AllOrdered(queue') /\ Range(queue'[k]) = Range(q[k]) \cup {f}
      /\ \A l \in Loops \ {k} : queue'[l] = q[l]
  BY <1>4, <1>5, PushKeeps
<1>7. c \in Open /\ c \in Open' /\ c \notin connections_'
  BY <1>2, <1>3 DEF Open, OpenStates, MovesOn
<1>8. Standing \/ unclean
  BY <1>7 DEF ServerInv, CleanInv, Sane
<1>9. OnlyOf(c)
  <2>1. UNCHANGED <<server, num_thread_, io_loop>>
    BY <1>2, <1>3 DEF ServerSame
  <2>2. \A l \in Loops : \A g \in Functors :
            g.conn # c => (g \in Range(queue'[l]) <=> g \in Range(queue[l]))
    BY <1>1, <1>6
  <2>3. \A d \in Clients \ {c} : SameOf(d)
    BY <1>2, <1>3 DEF SameOf
  <2> QED
    BY <1>6, <2>1, <2>2, <2>3 DEF OnlyOf, AllOrdered
<1>10. ASSUME NEW l \in Loops, NEW g \in Range(queue'[l]), g.conn = c PROVE FunctorOK(g, l)'
  <2>1. CASE g \in Range(q[l])
    BY <1>10, <2>1
  <2>2. CASE g = f /\ l = k
    BY <1>1, <1>2, <1>7, <2>2 DEF FunctorOK, RemoveOps, k
  <2> QED
    BY <1>6, <2>1, <2>2
<1>11. KeptOK(c)'
  <2>1. f \in Range(queue'[k]) /\ io_loop'[c] = k /\ num_thread_' = num_thread_
    BY <1>2, <1>3, <1>6 DEF k, ServerSame
  <2>2. k = Base \/ k \in 1 .. num_thread_
    BY <1>7 DEF ServerInv, QueueInv, Sane, KeptOK, k
  <2>3. Standing' <=> Standing
    BY <1>3 DEF ServerSame, Standing
  <2>4. c \in revived' <=> c \in revived
    BY <1>2
  <2> QED
    BY <1>3, <1>7, <2>1, <2>2, <2>3, <2>4 DEF KeptOK, f, k
<1>12. connections_' \subseteq Clients /\ (server = "dead" => connections_' = {})
  BY DEF ServerInv, LoopsInv
<1> QED
  BY <1>2, <1>3, <1>6, <1>8, <1>9, <1>10, <1>11, <1>12, ConnectionStep DEF AllOrdered

(* A functor of the connection c leaves the queue of l and c moves on.      *)
LEMMA TakeOut ==
    ASSUME ServerInv, aborted = "none", aborted' = "none", NEW l \in Loops, NEW c, NEW st,
           queue[l] # <<>>, Popped(queue, queue', l), c = Head(queue[l]).conn,
           Moves(c, st), connections_' = connections_, KeptOK(c)',
           \A k \in Loops : \A g \in Range(queue'[k]) : g.conn = c => FunctorOK(g, k)'
    PROVE  ServerInv'
<1> DEFINE f == Head(queue[l])
<1>1. AllOrdered(queue)
  BY QueuesOrdered
<1>2. /\ AllOrdered(queue') /\ f \in Range(queue[l])
      /\ Range(queue'[l]) = Range(queue[l]) \ {f}
      /\ \A k \in Loops \ {l} : queue'[k] = queue[k]
  BY <1>1, PopKeeps
<1>3. c \in Clients /\ (Standing \/ unclean)
  BY <1>2, Queued
<1>4. /\ FdMoves /\ ServerSame /\ PoolInv' /\ server # "new"
      /\ conn'[c] = st /\ \A d \in Clients \ {c} : conn'[d] = conn[d]
      /\ conn' \in [Clients -> ConnStates]
      /\ io_loop' \in [Clients -> Loops]
  BY MovesStep DEF Moves
<1>5. f.conn = c /\ io_loop' = io_loop /\ UNCHANGED <<late, revived>>
  BY DEF Moves, MovesOn
<1> HIDE DEF f
<1>6. OnlyOf(c)
  <2>1. UNCHANGED <<server, num_thread_, io_loop>>
    BY <1>4, <1>5 DEF ServerSame
  <2>2. \A k \in Loops : \A g \in Functors :
            g.conn # c => (g \in Range(queue'[k]) <=> g \in Range(queue[k]))
    BY <1>2, <1>5
  <2>3. \A d \in Clients \ {c} : SameOf(d)
    BY <1>4, <1>5 DEF SameOf
  <2> QED
    BY <1>2, <2>1, <2>2, <2>3 DEF OnlyOf, AllOrdered
<1>7. /\ connections_' \subseteq Clients /\ (server = "dead" => connections_' = {})
      /\ late' \subseteq Clients /\ revived' \subseteq Clients
  BY <1>5 DEF ServerInv, LoopsInv, Types
<1> QED
  BY <1>2, <1>3, <1>4, <1>6, <1>7, ConnectionStep DEF AllOrdered

(* What a functor that is taken out leaves in the queues of its connection. *)
LEMMA LeftOver ==
    ASSUME ServerInv, aborted = "none", NEW l \in Loops, NEW q,
           queue[l] # <<>>, Popped(queue, q, l)
    PROVE  /\ AllOrdered(q) /\ Head(queue[l]) \in Range(queue[l])
           /\ \A k \in Loops : \A g \in Functors : g.conn # Head(queue[l]).conn =>
                    (g \in Range(q[k]) <=> g \in Range(queue[k]))
           /\ \A k \in Loops : \A g \in Range(q[k]) :
                    /\ g \in Range(queue[k])
                    /\ k = l => g # Head(queue[l])
           /\ \A g \in Range(q[l]) : g.conn = Head(queue[l]).conn =>
                    /\ g.op # Head(queue[l]).op
                    /\ Head(queue[l]).op = "ConnectionDestroyed" => g.op # "ConnectionEstablished"
<1> DEFINE f == Head(queue[l])
<1>1. AllOrdered(queue)
  BY QueuesOrdered
<1>2. /\ AllOrdered(q) /\ f \in Range(queue[l])
      /\ Range(q[l]) = Range(queue[l]) \ {f}
      /\ \A k \in Loops \ {l} : q[k] = queue[k]
      /\ f.op = "ConnectionDestroyed" =>
            \A g \in Range(queue[l]) : g.op = "ConnectionEstablished" => g.conn # f.conn
  BY <1>1, PopKeeps
<1> HIDE DEF f
<1>3. \A k \in Loops : \A g \in Range(q[k]) : g \in Range(queue[k]) /\ (k = l => g # f)
  BY <1>2
<1>4. ASSUME NEW g \in Range(q[l]), g.conn = f.conn PROVE g.op # f.op
  <2>1. g \in Range(queue[l]) /\ g # f
    BY <1>3
  <2>2. g = Functor(g.op, g.conn) /\ f = Functor(f.op, f.conn)
    BY <1>2, <2>1, Queued
  <2> QED
    BY <1>4, <2>1, <2>2, Zenon
<1>5. \A k \in Loops : \A g \in Functors : g.conn # f.conn =>
            (g \in Range(q[k]) <=> g \in Range(queue[k]))
  BY <1>2
<1> QED
  BY <1>2, <1>3, <1>4, <1>5 DEF f

(* A step that ends the process. *)
LEMMA AbortStep ==
    ASSUME ServerInv, aborted = "none", NEW c \in Clients, NEW st, MovesOn(c, st),
           CleanInv' /\ ~Sane', server = "dead" => connections_' = {},
           connections_' \subseteq Clients, late' \subseteq Clients, revived' \subseteq Clients,
           queue' \in [Loops -> Seq(Functors)]
    PROVE  ServerInv'
<1>1. /\ FdMoves /\ ServerSame /\ PoolInv' /\ server # "new"
      /\ conn' \in [Clients -> ConnStates] /\ io_loop' \in [Clients -> Loops]
  BY MovesStep
<1> QED
  BY <1>1, ConnectionStep

(* What ConnectionDestroyed leaves alone. *)
DestroyedSame ==
    UNCHANGED <<server, poolVars, io_loop, late, revived, looping, entered, quit, lost,
                listening_, apc, idle_fd_, others, robbed, unclean>>

(* A connection that is held is not freed. *)
LEMMA DestroyedMoves ==
    ASSUME ServerInv, aborted = "none", NEW c \in Clients, c \in Open,
           ConnectionDestroyed(c), DestroyedSame
    PROVE  \/ /\ aborted' = "none"
              /\ \/ Moves(c, "gone") /\ ~Held(c)
                 \/ Moves(c, "destroyed") /\ Held(c) /\ ~ShuttingDown(c)
                 \/ Moves(c, "kdisconnecting") /\ c \in revived /\ ShuttingDown(c)
           \/ /\ aborted' = "kdisconnecting" /\ conn' = conn
              /\ Moves(c, "kdisconnecting") /\ c \notin revived /\ ShuttingDown(c)
<1>1. conn \in [Clients -> ConnStates]
  BY DEF ServerInv, Types
<1>2. CASE ShuttingDown(c)
  <2>1. UNCHANGED <<conn, free>> /\ aborted' = IF c \in revived THEN aborted ELSE "kdisconnecting"
    BY <1>2 DEF ConnectionDestroyed
  <2>2. conn' = [conn EXCEPT ![c] = "kdisconnecting"]
    BY <1>1, <1>2, <2>1 DEF ShuttingDown
  <2>3. Moves(c, "kdisconnecting")
    BY <2>1, <2>2 DEF Moves, MovesOn, DestroyedSame, OpenStates
  <2> QED
    BY <1>2, <2>1, <2>3
<1>3. CASE ~ShuttingDown(c)
  <2>1. /\ conn' = [conn EXCEPT ![c] = IF Held(c) THEN "destroyed" ELSE "gone"]
        /\ free' = IF Held(c) THEN free ELSE free + 1
        /\ aborted' = aborted
    BY <1>3 DEF ConnectionDestroyed
  <2>2. CASE Held(c)
    <3>1. Moves(c, "destroyed")
      BY <2>1, <2>2 DEF Moves, MovesOn, DestroyedSame, OpenStates
    <3> QED
      BY <1>3, <2>1, <2>2, <3>1
  <2>3. CASE ~Held(c)
    <3>1. Moves(c, "gone")
      BY <2>1, <2>3 DEF Moves, MovesOn, DestroyedSame, OpenStates
    <3> QED
      BY <2>1, <2>3, <3>1
  <2> QED
    BY <2>2, <2>3
<1> QED
  BY <1>2, <1>3

LEMMA RemoveIsHeld ==
    ASSUME ServerInv, aborted = "none", NEW l \in Loops, NEW g \in Range(queue[l]),
           g.op \in RemoveOps
    PROVE  Held(g.conn)
<1>1. g = Functor(g.op, g.conn) /\ FunctorOK(g, l)
  BY Queued
<1>2. l = Base
  BY <1>1 DEF FunctorOK
<1> QED
  BY <1>1, <1>2, Zenon DEF Held, RemoveQueued

(* What remains of a connection after ConnectionDestroyed. *)
LEMMA DestroyedKeeps ==
    ASSUME ServerInv, aborted = "none", aborted' = "none", NEW c \in Clients, c \in Open,
           ConnectionDestroyed(c), DestroyedSame,
           connections_' = connections_ \ {c}, Standing => c \notin connections_
    PROVE  /\ KeptOK(c)'
           /\ \A l \in Loops : \A g \in Range(queue[l]) :
                    g.conn = c /\ g.op \in RemoveOps => FunctorOK(g, l)'
<1>1. /\ KeptOK(c) /\ io_loop' = io_loop /\ UNCHANGED <<server, num_thread_, late, revived>>
      /\ conn \in [Clients -> ConnStates] /\ (Standing' <=> Standing)
  BY DEF ServerInv, QueueInv, Sane, Types, DestroyedSame, poolVars, Standing
<1>2. \/ conn'[c] = "gone" /\ ~Held(c)
      \/ conn'[c] = "destroyed" /\ Held(c) /\ conn[c] # "kdisconnecting"
      \/ conn'[c] = "kdisconnecting" /\ c \in revived /\ conn[c] = "kdisconnecting"
  BY <1>1, DestroyedMoves DEF Moves, MovesOn, ShuttingDown
<1>3. c \notin connections_'
  OBVIOUS
<1>4. c \in Open' <=> conn'[c] # "gone"
  BY <1>2 DEF Open
<1>5. LateOK(c)'
  <2>1. conn'[c] = "gone" => c \notin late
    BY <1>2 DEF Held
  <2>2. c \in late => c \notin revived
    BY <1>1 DEF KeptOK, LateOK
  <2> QED
    BY <1>1, <1>2, <1>4, <2>1, <2>2 DEF LateOK
<1>6. KeptOK(c)'
  BY <1>1, <1>2, <1>3, <1>4, <1>5 DEF KeptOK
<1>7. ASSUME NEW l \in Loops, NEW g \in Range(queue[l]), g.conn = c, g.op \in RemoveOps
      PROVE  FunctorOK(g, l)'
  <2>1. FunctorOK(g, l) /\ Held(c)
    BY <1>7, Queued, RemoveIsHeld
  <2>2. c \in Open' /\ conn'[c] \in {"destroyed", "kdisconnecting"}
    BY <1>2, <1>4, <2>1
  <2>3. g.op = "Remove" /\ c \notin revived => conn'[c] = "destroyed" /\ ~Standing
    BY <1>2, <1>7, <2>1 DEF FunctorOK
  <2>4. g.op = "RemoveAgain" => c \in revived /\ conn'[c] = "destroyed"
    BY <1>2, <1>7, <2>1 DEF FunctorOK
  <2> QED
    BY <1>1, <1>7, <2>1, <2>2, <2>3, <2>4 DEF FunctorOK, RemoveOps
<1> QED
  BY <1>6, <1>7

(* A loop runs the ConnectionDestroyed at the head of its queue. *)
LEMMA DestroyedStep ==
    ASSUME ServerInv, aborted = "none", NEW l \in Loops, NEW c, queue[l] # <<>>,
           Popped(queue, queue', l), Head(queue[l]).op = "ConnectionDestroyed",
           c = Head(queue[l]).conn, ConnectionDestroyed(c), DestroyedSame,
           connections_' = connections_
    PROVE  ServerInv'
<1> DEFINE f == Head(queue[l])
<1>1. /\ AllOrdered(queue') /\ f \in Range(queue[l])
      /\ \A k \in Loops : \A g \in Range(queue'[k]) : g \in Range(queue[k])
      /\ \A g \in Range(queue'[l]) : g.conn = c =>
                g.op # f.op /\ g.op # "ConnectionEstablished"
  BY LeftOver
<1>2. c \in Clients /\ FunctorOK(f, l) /\ (Standing \/ unclean)
  BY <1>1, Queued
<1>3. io_loop[c] = l /\ c \in Open /\ c \notin connections_
  BY <1>2 DEF FunctorOK
<1>4. KeptOK(c)
  BY <1>2 DEF ServerInv, QueueInv, Sane
<1>5. CASE aborted' = "none"
  <2>1. PICK st : Moves(c, st)
    BY <1>2, <1>3, <1>5, DestroyedMoves
  <2>2. connections_' = connections_ \ {c}
    BY <1>3
  <2>3. /\ KeptOK(c)'
        /\ \A k \in Loops : \A g \in Range(queue[k]) :
                g.conn = c /\ g.op \in RemoveOps => FunctorOK(g, k)'
    BY <1>2, <1>3, <1>5, <2>2, DestroyedKeeps
  <2>4. ASSUME NEW k \in Loops, NEW g \in Range(queue'[k]), g.conn = c PROVE FunctorOK(g, k)'
    <3>1. g \in Range(queue[k]) /\ FunctorOK(g, k) /\ g.op \in FunctorOps
      BY <1>1, Queued
    <3>2. g.op \notin RemoveOps => k = l
      BY <1>3, <2>4, <3>1 DEF FunctorOK, FunctorOps, RemoveOps
    <3>3. g.op \in RemoveOps
      BY <1>1, <2>4, <3>1, <3>2 DEF FunctorOps, RemoveOps
    <3> QED
      BY <2>3, <2>4, <3>1, <3>3
  <2> QED
    BY <1>5, <2>1, <2>3, <2>4, TakeOut
<1>6. CASE aborted' # "none"
  <2>1. /\ aborted' = "kdisconnecting" /\ conn' = conn /\ c \notin revived
        /\ Moves(c, "kdisconnecting") /\ conn[c] = "kdisconnecting"
    BY <1>2, <1>3, <1>6, DestroyedMoves DEF ShuttingDown
  <2>2. ~Standing /\ unclean /\ unclean' = unclean
    BY <1>2, <1>3, <1>4, <2>1 DEF KeptOK, DestroyedSame
  <2>3. CleanInv' /\ ~Sane'
    BY <1>2, <2>1, <2>2 DEF CleanInv, CleanWithoutConnections, Sane
  <2>4. /\ connections_' \subseteq Clients /\ (server = "dead" => connections_' = {})
        /\ late' \subseteq Clients /\ revived' \subseteq Clients
    BY DEF ServerInv, LoopsInv, Types, DestroyedSame
  <2> QED
    BY <1>1, <1>2, <2>1, <2>3, <2>4, AbortStep DEF AllOrdered, Moves
<1> QED
  BY <1>5, <1>6

LEMMA RunBaseFunctorStep ==
    ASSUME ServerInv, aborted = "none", RunBaseFunctor
    PROVE  ServerInv'
<1> DEFINE f == Head(queue[Base])
           rest == [queue EXCEPT ![Base] = Tail(@)]
<1>0. PICK c : c = f.conn
  OBVIOUS
<1>1. /\ apc = "idle" /\ server # "destructing" /\ queue[Base] # <<>>
      /\ \/ /\ f.op \in RemoveOps
            /\ RemoveConnectionInLoop(c, rest)
            /\ UNCHANGED <<conn, free>>
         \/ /\ f.op = "ConnectionDestroyed"
            /\ ConnectionDestroyed(c)
            /\ queue' = rest
            /\ UNCHANGED connections_
      /\ DestroyedSame
  BY <1>0 DEF RunBaseFunctor, BaseIdle, DestroyedSame
<1>2. Base \in Loops
  BY ServerAssumption DEF Base, Loops
<1>3. Popped(queue, rest, Base)
  BY DEF Popped
<1>4. /\ AllOrdered(rest) /\ f \in Range(queue[Base])
      /\ \A k \in Loops : \A g \in Functors : g.conn # c =>
                (g \in Range(rest[k]) <=> g \in Range(queue[k]))
      /\ \A k \in Loops : \A g \in Range(rest[k]) : g \in Range(queue[k])
      /\ \A g \in Range(rest[Base]) : g.conn = c => g.op # f.op
  <2> HIDE DEF rest
  <2> QED
    BY <1>0, <1>1, <1>2, <1>3, LeftOver
<1>5. CASE /\ f.op = "ConnectionDestroyed" /\ ConnectionDestroyed(c)
           /\ queue' = rest /\ UNCHANGED connections_
  <2>1. Popped(queue, queue', Base)
    BY <1>3, <1>5
  <2> HIDE DEF rest
  <2> QED
    BY <1>0, <1>1, <1>2, <1>5, <2>1, DestroyedStep
<1>6. CASE /\ f.op \in RemoveOps /\ RemoveConnectionInLoop(c, rest)
           /\ UNCHANGED <<conn, free>>
  <2>1. /\ f \in Functors /\ c \in Clients /\ FunctorOK(f, Base) /\ (Standing \/ unclean)
        /\ KeptOK(c)
    BY <1>0, <1>2, <1>4, Queued DEF ServerInv, QueueInv, Sane
  <2>2. /\ io_loop[c] \in 1 .. num_thread_ /\ c \in Open
        /\ c \in revived \/ f.op = "Remove"
        /\ Standing /\ c \notin revived => conn[c] = "kdisconnected" /\ c \in connections_
    BY <1>0, <1>6, <2>1 DEF FunctorOK, RemoveOps
  <2>3. /\ connections_' = connections_ \ {c}
        /\ Pushed(rest, queue', io_loop[c], Functor("ConnectionDestroyed", c))
        /\ aborted' = CASE server = "dead" -> "use after free"
                        [] server # "dead" /\ c \notin connections_ -> "erase"
                        [] OTHER -> "none"
    BY <1>6 DEF RemoveConnectionInLoop, Pushed
  <2>4. io_loop[c] # Base /\ num_thread_ > 0 /\ io_loop[c] \in Loops
    <3>1. num_thread_ \in Nat /\ io_loop[c] \in Loops
      BY <2>1, ServerAssumption DEF ServerInv, Types
    <3> QED
      BY <2>2, <3>1 DEF Base
  <2>5. conn \in [Clients -> ConnStates]
    BY DEF ServerInv, Types
  <2>6. PICK st : st = conn[c]
    OBVIOUS
  <2>7. Moves(c, st) /\ st \in OpenStates
    <3>1. conn' = [conn EXCEPT ![c] = st]
      BY <1>6, <2>1, <2>5, <2>6
    <3> QED
      BY <1>1, <1>6, <2>1, <2>2, <2>6, <3>1 DEF Moves, MovesOn, DestroyedSame, Open, OpenStates
  <2>8. UNCHANGED <<num_thread_, unclean, server, late, revived, io_loop>>
    BY <1>1 DEF poolVars, DestroyedSame
  <2>9. CASE aborted' # "none"
    <3>1. CleanInv' /\ ~Sane'
      <4>1. CASE server = "dead"
        <5>1. aborted' = "use after free" /\ unclean
          BY <2>1, <2>3, <4>1 DEF Standing
        <5> QED
          BY <2>4, <2>8, <4>1, <5>1 DEF CleanInv, CleanWithoutConnections, Sane
      <4>2. CASE server # "dead"
        <5>1. Standing
          BY <1>1, <4>2 DEF ServerInv, Types, Standing
        <5>2. aborted' = "erase" /\ c \notin connections_
          BY <2>3, <2>9, <4>2
        <5>3. revived' # {}
          BY <2>2, <2>8, <5>1, <5>2
        <5> QED
          BY <5>2, <5>3 DEF CleanInv, CleanWithoutConnections, Sane
      <4> QED
        BY <4>1, <4>2
    <3>2. queue' \in [Loops -> Seq(Functors)]
      <4>1. Functor("ConnectionDestroyed", c) \in Functors /\ rest \in [Loops -> Seq(Functors)]
        BY <1>4, <2>1, FunctorIs DEF FunctorOps, AllOrdered
      <4> HIDE DEF rest, Functors
      <4>2. Append(rest[io_loop[c]], Functor("ConnectionDestroyed", c)) \in Seq(Functors)
        BY <2>4, <4>1, AppendProperties
      <4> QED
        BY <2>3, <2>4, <4>1, <4>2 DEF Pushed
    <3>3. /\ connections_' \subseteq Clients /\ (server = "dead" => connections_' = {})
          /\ late' \subseteq Clients /\ revived' \subseteq Clients
      BY <2>3, <2>8 DEF ServerInv, LoopsInv, Types
    <3> QED
      BY <2>1, <2>7, <3>1, <3>2, <3>3, AbortStep DEF Moves
  <2>10. CASE aborted' = "none"
    <3>1. server # "dead" /\ c \in connections_
      BY <2>3, <2>10
    <3>2. st = "kdisconnected" \/ c \in revived
      <4>1. Standing
        BY <1>1, <3>1 DEF ServerInv, Types, Standing
      <4> QED
        BY <2>2, <2>6, <4>1
    <3>3. Open' = Open /\ conn' = conn
      BY <1>6 DEF Open
    <3>4. LateOK(c)'
      BY <2>1, <2>8, <3>3 DEF KeptOK, LateOK
    <3>5. ASSUME NEW k \in Loops, NEW g \in Range(rest[k]), g.conn = c
          PROVE  FunctorOK(g, k)' /\ g.op # "ConnectionDestroyed"
      <4>1. FunctorOK(g, k) /\ g.op \in FunctorOps
        BY <1>4, Queued
      <4>2. g.op # "ConnectionDestroyed"
        BY <3>1, <3>5, <4>1 DEF FunctorOK
      <4>3. g.op = "Remove" => c \in revived
        <5>1. g.op = "Remove" => k = Base
          BY <4>1 DEF FunctorOK, RemoveOps
        <5> QED
          BY <1>4, <2>2, <3>5, <5>1
      <4> QED
        BY <2>8, <3>3, <3>5, <4>1, <4>2, <4>3 DEF FunctorOK
    <3> HIDE DEF f, rest
    <3> QED
      BY <1>4, <2>1, <2>3, <2>4, <2>7, <2>10, <3>1, <3>2, <3>4, <3>5, HandOver
  <2> QED
    BY <2>9, <2>10
<1> QED
  BY <1>1, <1>5, <1>6

LEMMA HandleCloseStep ==
    ASSUME ServerInv, aborted = "none", NEW c \in Clients, HandleClose(c)
    PROVE  ServerInv'
<1>1. /\ conn[c] \in {"kconnected", "kdisconnecting"}
      /\ conn' = [conn EXCEPT ![c] = "kdisconnected"]
      /\ DestroyedSame /\ UNCHANGED free /\ InLoop(io_loop[c])
      /\ \/ /\ io_loop[c] = Base
            /\ RemoveConnectionInLoop(c, queue)
         \/ /\ io_loop[c] # Base
            /\ queue' = [queue EXCEPT ![Base] = Append(@,
                      Functor(IF c \in revived THEN "RemoveAgain" ELSE "Remove", c))]
            /\ UNCHANGED <<connections_, aborted>>
  BY DEF HandleClose, fdVars, DestroyedSame
<1>2. KeptOK(c) /\ c \in Open
  BY <1>1 DEF ServerInv, QueueInv, Sane, Open
<1>3. Moves(c, "kdisconnected") /\ "kdisconnected" \in OpenStates
  BY <1>1, <1>2 DEF Moves, MovesOn, DestroyedSame, OpenStates
<1>4. /\ FdMoves /\ ServerSame /\ PoolInv' /\ server # "new"
      /\ conn'[c] = "kdisconnected" /\ \A d \in Clients \ {c} : conn'[d] = conn[d]
      /\ conn' \in [Clients -> ConnStates] /\ io_loop' \in [Clients -> Loops]
  BY <1>3, MovesStep DEF Moves
<1>5. /\ UNCHANGED <<server, num_thread_, io_loop, late, revived>>
      /\ late' \subseteq Clients /\ revived' \subseteq Clients
  BY <1>1 DEF DestroyedSame, poolVars, ServerInv, Types
<1>6. AllOrdered(queue)
  BY QueuesOrdered
<1>7. \A l \in Loops : \A g \in Range(queue[l]) : FunctorOK(g, l) /\ g.op \in FunctorOps
  BY Queued
<1>8. c \in Open' /\ LateOK(c)' /\ (Standing \/ unclean)
  BY <1>2, <1>4, <1>5 DEF Open, KeptOK, LateOK, ServerInv, CleanInv, Sane
<1>9. CASE io_loop[c] = Base /\ RemoveConnectionInLoop(c, queue)
  <2>1. /\ connections_' = connections_ \ {c}
        /\ Pushed(queue, queue', io_loop[c], Functor("ConnectionDestroyed", c))
        /\ aborted' = CASE server = "dead" -> "use after free"
                        [] server # "dead" /\ c \notin connections_ -> "erase"
                        [] OTHER -> "none"
    BY <1>9 DEF RemoveConnectionInLoop, Pushed
  <2>2. CASE c \in connections_
    <3>1. aborted' = "none"
      BY <2>1, <2>2 DEF ServerInv, LoopsInv
    <3>2. \A i \in 1 .. num_thread_ : i # Base
      BY DEF Base
    <3>3. \A l \in Loops : \A g \in Range(queue[l]) : g.conn # c
      BY <1>7, <1>9, <2>2, <3>2 DEF FunctorOK, FunctorOps, RemoveOps
    <3> QED
      BY <1>3, <1>6, <1>8, <2>1, <2>2, <3>1, <3>3, HandOver
  <2>3. CASE c \notin connections_
    <3>1. revived' # {}
      BY <1>1, <1>2, <1>5, <1>9, <2>3 DEF KeptOK
    <3>2. aborted' \in {"use after free", "erase"}
      BY <2>1, <2>3
    <3>3. CleanInv' /\ ~Sane'
      BY <3>1, <3>2 DEF CleanInv, CleanWithoutConnections, Sane
    <3>4. queue' \in [Loops -> Seq(Functors)]
      <4>1. /\ Functor("ConnectionDestroyed", c) \in Functors /\ io_loop[c] \in Loops
            /\ queue \in [Loops -> Seq(Functors)]
        BY FunctorIs DEF FunctorOps, ServerInv, Types
      <4> HIDE DEF Functors
      <4>2. Append(queue[io_loop[c]], Functor("ConnectionDestroyed", c)) \in Seq(Functors)
        BY <4>1, AppendProperties
      <4> QED
        BY <2>1, <4>1, <4>2 DEF Pushed
    <3>5. connections_' \subseteq Clients /\ (server = "dead" => connections_' = {})
      BY <2>1 DEF ServerInv, LoopsInv
    <3> QED
      BY <1>3, <1>5, <3>3, <3>4, <3>5, AbortStep DEF Moves
  <2> QED
    BY <2>2, <2>3
<1>10. CASE /\ io_loop[c] # Base
            /\ queue' = [queue EXCEPT ![Base] = Append(@,
                      Functor(IF c \in revived THEN "RemoveAgain" ELSE "Remove", c))]
            /\ UNCHANGED <<connections_, aborted>>
  <2>0. PICK op : op = IF c \in revived THEN "RemoveAgain" ELSE "Remove"
    OBVIOUS
  <2> DEFINE f == Functor(op, c)
  <2>1. f \in Functors /\ f.op = op /\ f.conn = c /\ op \in RemoveOps
    BY <2>0, FunctorIs DEF FunctorOps, RemoveOps
  <2>2. Pushed(queue, queue', Base, f) /\ Base \in Loops
    BY <1>10, <2>0, ServerAssumption DEF Pushed, Base, Loops
  <2> HIDE DEF f
  <2>3. f \notin Range(queue[Base])
    BY <1>1, <1>7, <2>0, <2>1, <2>2 DEF FunctorOK
  <2>4. MayPush(queue, Base, f)
    BY <1>6, <2>1, <2>2, <2>3 DEF MayPush, RemoveOps
  <2>5. /\ AllOrdered(queue') /\ Range(queue'[Base]) = Range(queue[Base]) \cup {f}
        /\ \A l \in Loops \ {Base} : queue'[l] = queue[l]
    BY <2>2, <2>4, PushKeeps
  <2>6. OnlyOf(c)
    <3>1. \A l \in Loops : \A g \in Functors :
            g.conn # c => (g \in Range(queue'[l]) <=> g \in Range(queue[l]))
      BY <2>1, <2>2, <2>5
    <3>2. \A d \in Clients \ {c} : SameOf(d)
      BY <1>4, <1>5, <1>10 DEF SameOf
    <3> QED
      BY <1>5, <2>5, <3>1, <3>2 DEF OnlyOf, AllOrdered
  <2>7. io_loop[c] \in 1 .. num_thread_
    BY <1>2, <1>10 DEF KeptOK
  <2>8. Standing => c \in connections_ \/ c \in revived
    BY <1>1, <1>2 DEF KeptOK
  <2>9. Standing' <=> Standing
    BY <1>5 DEF Standing
  <2>10. KeptOK(c)'
    BY <1>4, <1>5, <1>8, <1>10, <2>7, <2>8, <2>9 DEF KeptOK
  <2>11. ASSUME NEW l \in Loops, NEW g \in Range(queue'[l]), g.conn = c PROVE FunctorOK(g, l)'
    <3>1. CASE g = f /\ l = Base
      BY <1>4, <1>5, <1>8, <1>10, <2>0, <2>1, <2>7, <2>8, <2>9, <3>1 DEF FunctorOK
    <3>2. CASE g \in Range(queue[l])
      <4>1. FunctorOK(g, l) /\ g.op \in FunctorOps
        BY <1>7, <3>2
      <4>2. /\ g.op # "ConnectionEstablished" /\ g.op # "RemoveAgain"
            /\ g.op = "Remove" => c \in revived
        BY <1>1, <2>11, <4>1 DEF FunctorOK
      <4> QED
        BY <1>5, <1>8, <1>10, <2>11, <4>1, <4>2 DEF FunctorOK
    <3> QED
      BY <2>5, <3>1, <3>2
  <2>12. connections_' \subseteq Clients /\ (server = "dead" => connections_' = {})
    BY <1>10 DEF ServerInv, LoopsInv
  <2> QED
    BY <1>4, <1>5, <1>8, <1>10, <2>5, <2>6, <2>10, <2>11, <2>12, ConnectionStep DEF AllOrdered
<1> QED
  BY <1>1, <1>9, <1>10

-----------------------------------------------------------------------------
(* Shutdown and the ForceClose of another thread. *)

(* The connection changes where it stands, and nothing else. *)
LEMMA StateStep ==
    ASSUME ServerInv, aborted = "none", aborted' = "none", NEW c \in Clients, NEW st,
           MovesOn(c, st), st \in OpenStates, UNCHANGED <<connections_, queue>>,
           late' \subseteq Clients, revived' \subseteq Clients,
           \A d \in Clients \ {c} : (d \in late' <=> d \in late) /\ (d \in revived' <=> d \in revived),
           KeptOK(c)', \A l \in Loops : \A g \in Range(queue[l]) : g.conn = c => FunctorOK(g, l)'
    PROVE  ServerInv'
<1>1. /\ FdMoves /\ ServerSame /\ PoolInv' /\ server # "new"
      /\ conn'[c] = st /\ \A d \in Clients \ {c} : conn'[d] = conn[d]
      /\ conn' \in [Clients -> ConnStates] /\ io_loop' \in [Clients -> Loops]
  BY MovesStep
<1>2. UNCHANGED <<server, num_thread_, io_loop>> /\ c \in Open
  BY <1>1 DEF MovesOn, ServerSame
<1>3. AllOrdered(queue')
  BY QueuesOrdered
<1>4. OnlyOf(c)
  <2>1. \A d \in Clients \ {c} : SameOf(d)
    BY <1>1, <1>2 DEF SameOf
  <2> QED
    BY <1>2, <1>3, <2>1 DEF OnlyOf, AllOrdered
<1>5. Standing \/ unclean
  BY <1>2 DEF ServerInv, CleanInv, Sane
<1>6. connections_' \subseteq Clients /\ (server = "dead" => connections_' = {})
  BY DEF ServerInv, LoopsInv
<1> QED
  BY <1>1, <1>3, <1>4, <1>5, <1>6, ConnectionStep DEF AllOrdered

LEMMA ShutdownStep ==
    ASSUME ServerInv, aborted = "none", NEW c \in Clients, Shutdown(c)
    PROVE  ServerInv'
<1>1. /\ conn[c] = "kconnected" /\ conn' = [conn EXCEPT ![c] = "kdisconnecting"]
      /\ DestroyedSame /\ UNCHANGED <<free, connections_, queue, aborted>>
  BY DEF Shutdown, fdVars, loopVars, DestroyedSame
<1>2. KeptOK(c) /\ c \in Open /\ conn'[c] = "kdisconnecting"
  BY <1>1 DEF ServerInv, QueueInv, Sane, Open, Types
<1>3. MovesOn(c, "kdisconnecting") /\ "kdisconnecting" \in OpenStates
  BY <1>1, <1>2 DEF MovesOn, DestroyedSame, OpenStates
<1>4. /\ UNCHANGED <<server, num_thread_, io_loop, late, revived>>
      /\ late' \subseteq Clients /\ revived' \subseteq Clients
  BY <1>1 DEF DestroyedSame, poolVars, ServerInv, Types
<1>5. c \in Open' /\ c \notin revived /\ (Standing' <=> Standing)
  BY <1>1, <1>2, <1>4 DEF Open, KeptOK, LateOK, Standing
<1>6. KeptOK(c)'
  BY <1>1, <1>2, <1>4, <1>5 DEF KeptOK, LateOK
<1>7. ASSUME NEW l \in Loops, NEW g \in Range(queue[l]), g.conn = c PROVE FunctorOK(g, l)'
  <2>1. FunctorOK(g, l) /\ g.op \in FunctorOps
    BY Queued
  <2>2. g.op = "ConnectionDestroyed"
    BY <1>1, <1>5, <1>7, <2>1 DEF FunctorOK, FunctorOps
  <2> QED
    BY <1>1, <1>4, <1>5, <1>7, <2>1, <2>2 DEF FunctorOK, RemoveOps
<1> QED
  BY <1>1, <1>3, <1>4, <1>6, <1>7, StateStep

LEMMA TestStateStep ==
    ASSUME ServerInv, aborted = "none", NEW c \in Clients, TestState(c)
    PROVE  ServerInv'
<1>1. /\ conn[c] \in {"kconnected", "kdisconnecting"} /\ c \notin revived
      /\ late' = late \cup {c} /\ conn' = conn
      /\ UNCHANGED <<free, connections_, queue, aborted, revived, server, num_thread_, io_loop>>
  BY DEF TestState, fdVars, loopVars, poolVars
<1>2. KeptOK(c) /\ c \in Open /\ conn \in [Clients -> ConnStates]
  BY <1>1 DEF ServerInv, QueueInv, Sane, Open, Types
<1>3. PICK st : st = conn[c]
  OBVIOUS
<1>4. MovesOn(c, st) /\ st \in OpenStates
  <2>1. conn' = [conn EXCEPT ![c] = st]
    BY <1>1, <1>2, <1>3
  <2> QED
    BY <1>1, <1>2, <1>3, <2>1 DEF TestState, fdVars, loopVars, MovesOn, OpenStates
<1>5. late' \subseteq Clients /\ revived' \subseteq Clients
  BY <1>1 DEF ServerInv, Types
<1>6. Open' = Open /\ (Standing' <=> Standing)
  BY <1>1 DEF Open, Standing
<1>7. KeptOK(c)'
  BY <1>1, <1>2, <1>6 DEF KeptOK, LateOK
<1>8. ASSUME NEW l \in Loops, NEW g \in Range(queue[l]), g.conn = c PROVE FunctorOK(g, l)'
  <2>1. FunctorOK(g, l)
    BY Queued
  <2> QED
    BY <1>1, <1>6, <2>1 DEF FunctorOK
<1> QED
  BY <1>1, <1>4, <1>5, <1>7, <1>8, StateStep

LEMMA StoreStateStep ==
    ASSUME ServerInv, aborted = "none", NEW c \in Clients, StoreState(c)
    PROVE  ServerInv'
<1>1. /\ c \in late /\ late' = late \ {c} /\ conn' = [conn EXCEPT ![c] = "kdisconnecting"]
      /\ revived' = IF conn[c] \in {"kdisconnected", "destroyed"}
                      THEN revived \cup {c} ELSE revived
      /\ aborted' = IF io_loop[c] = Base \/ io_loop[c] \in looping
                      THEN aborted ELSE "use after free"
      /\ UNCHANGED <<free, connections_, queue, server, num_thread_, io_loop>>
  BY DEF StoreState, fdVars, loopVars, poolVars
<1>2. KeptOK(c)
  BY DEF ServerInv, QueueInv, Sane
<1>3. c \in Open /\ conn[c] # "kconnecting" /\ c \notin revived
  BY <1>1, <1>2 DEF KeptOK, LateOK
<1>4. conn'[c] = "kdisconnecting" /\ c \in Open' /\ (Standing' <=> Standing)
  BY <1>1 DEF ServerInv, Types, Open, Standing
<1>5. MovesOn(c, "kdisconnecting") /\ "kdisconnecting" \in OpenStates
  BY <1>1, <1>3 DEF StoreState, fdVars, loopVars, MovesOn, OpenStates
<1>6. late' \subseteq Clients /\ revived' \subseteq Clients
  BY <1>1 DEF ServerInv, Types
<1>7. CASE aborted' = "none"
  <2>1. LateOK(c)'
    BY <1>1, <1>4 DEF LateOK
  <2>2. KeptOK(c)'
    BY <1>1, <1>2, <1>3, <1>4, <2>1 DEF KeptOK, Open
  <2>3. ASSUME NEW l \in Loops, NEW g \in Range(queue[l]), g.conn = c PROVE FunctorOK(g, l)'
    <3>1. FunctorOK(g, l) /\ g.op \in FunctorOps
      BY Queued
    <3>2. /\ g.op # "ConnectionEstablished" /\ g.op # "RemoveAgain"
          /\ g.op = "Remove" => c \in revived'
      BY <1>1, <1>3, <2>3, <3>1 DEF FunctorOK
    <3> QED
      BY <1>1, <1>4, <2>3, <3>1, <3>2 DEF FunctorOK
  <2> QED
    BY <1>1, <1>5, <1>6, <1>7, <2>2, <2>3, StateStep
<1>8. CASE aborted' # "none"
  <2>1. aborted' = "use after free" /\ io_loop[c] \notin looping /\ io_loop[c] \in 1 .. num_thread_
    BY <1>1, <1>2, <1>3, <1>8 DEF KeptOK
  <2>2. num_thread_ > 0
    <3>1. num_thread_ \in Nat
      BY ServerAssumption DEF ServerInv, Types
    <3>2. PICK l : l = io_loop[c] /\ l \in 1 .. num_thread_
      BY <2>1
    <3> QED
      BY <3>1, <3>2
  <2>3. unclean /\ unclean' = unclean
    <3>1. server # "new"
      BY <1>3 DEF ServerInv, LoopsInv, Open
    <3>2. server # "started"
      BY <2>1 DEF ServerInv, LoopsInv
    <3> QED
      BY <1>3, <1>5, <3>1, <3>2 DEF ServerInv, CleanInv, Sane, Standing, MovesOn
  <2>4. CleanInv' /\ ~Sane'
    BY <1>1, <2>1, <2>2, <2>3 DEF CleanInv, CleanWithoutConnections, Sane
  <2>5. /\ connections_' \subseteq Clients /\ (server = "dead" => connections_' = {})
        /\ queue' \in [Loops -> Seq(Functors)]
    BY <1>1 DEF ServerInv, LoopsInv, Types
  <2> QED
    BY <1>5, <1>6, <2>4, <2>5, AbortStep
<1> QED
  BY <1>7, <1>8

-----------------------------------------------------------------------------
(* The io loops. *)

LEMMA EnterLoopStep ==
    ASSUME ServerInv, aborted = "none", NEW l \in Loops, EnterLoop(l)
    PROVE  ServerInv'
<1>1. /\ UNCHANGED <<server, num_thread_, poolVars, connections_, conn, io_loop, late, revived,
                     queue, looping, listening_, apc, idle_fd_, free, others, robbed, aborted,
                     unclean>>
      /\ l \in looping /\ entered' = entered \cup {l} /\ quit' = quit \ {l}
      /\ lost' = lost \cup (quit \cap {l})
  BY DEF EnterLoop, poolVars, connVars, fdVars
<1>2. ClientsWait /\ Open' = Open
  BY <1>1, OpenSame DEF ClientsWait
<1>3. Types'
  BY <1>1 DEF ServerInv, Types
<1>4. PoolInv'
  BY <1>1, PoolSame DEF ServerInv
<1>5. LoopsInv' /\ FdInv' /\ SpareInv' /\ (Standing' <=> Standing)
  BY <1>1, <1>2 DEF ServerInv, LoopsInv, FdInv, SpareInv, Standing, Spare
<1> QED
  BY <1>1, <1>2, <1>3, <1>4, <1>5, QuietQueue

LEMMA RunFunctorStep ==
    ASSUME ServerInv, aborted = "none", NEW l \in Loops, RunFunctor(l)
    PROVE  ServerInv'
<1> DEFINE f == Head(queue[l])
<1>0. PICK c : c = f.conn
  OBVIOUS
<1>1. /\ queue[l] # <<>> /\ Popped(queue, queue', l) /\ DestroyedSame
      /\ UNCHANGED connections_
      /\ \/ /\ f.op = "ConnectionEstablished"
            /\ conn' = [conn EXCEPT ![c] = "kconnected"]
            /\ UNCHANGED <<free, aborted>>
         \/ f.op = "ConnectionDestroyed" /\ ConnectionDestroyed(c)
  BY <1>0 DEF RunFunctor, Popped, DestroyedSame
<1>2. CASE f.op = "ConnectionDestroyed" /\ ConnectionDestroyed(c)
  BY <1>0, <1>1, <1>2, DestroyedStep
<1>3. CASE /\ f.op = "ConnectionEstablished"
           /\ conn' = [conn EXCEPT ![c] = "kconnected"]
           /\ UNCHANGED <<free, aborted>>
  <2>1. /\ f \in Range(queue[l])
        /\ \A k \in Loops : \A g \in Range(queue'[k]) : g \in Range(queue[k])
        /\ \A g \in Range(queue'[l]) : g.conn = c => g.op # f.op
    BY <1>0, <1>1, LeftOver
  <2>2. f \in Functors /\ c \in Clients /\ FunctorOK(f, l)
    BY <1>0, <2>1, Queued
  <2>3. /\ KeptOK(c) /\ conn \in [Clients -> ConnStates]
        /\ UNCHANGED <<server, num_thread_, io_loop, late, revived>>
    BY <1>1, <2>2 DEF ServerInv, QueueInv, Sane, Types, DestroyedSame, poolVars
  <2>4. io_loop[c] = l /\ conn[c] = "kconnecting" /\ l # Base /\ c \in Open
    BY <1>0, <1>3, <2>2 DEF FunctorOK, Open
  <2>5. Moves(c, "kconnected")
    BY <1>1, <1>3, <2>2, <2>4 DEF Moves, MovesOn, DestroyedSame, OpenStates
  <2>6. /\ conn'[c] = "kconnected" /\ c \in Open' /\ (Standing' <=> Standing)
        /\ c \notin late /\ c \notin revived
    BY <1>3, <2>2, <2>3, <2>4 DEF Open, Standing, KeptOK, LateOK
  <2>7. KeptOK(c)'
    BY <1>1, <2>3, <2>4, <2>6 DEF KeptOK, LateOK
  <2>8. ASSUME NEW k \in Loops, NEW g \in Range(queue'[k]), g.conn = c PROVE FunctorOK(g, k)'
    <3>1. FunctorOK(g, k) /\ g.op \in FunctorOps
      BY <2>1, Queued
    <3>2. g.op \notin RemoveOps
      BY <2>4, <2>6, <2>8, <3>1 DEF FunctorOK, RemoveOps
    <3>3. g.op = "ConnectionEstablished" => k = l
      BY <2>4, <2>8, <3>1 DEF FunctorOK
    <3>4. g.op = "ConnectionDestroyed"
      BY <1>3, <2>1, <2>8, <3>1, <3>2, <3>3 DEF FunctorOps, RemoveOps
    <3> QED
      BY <1>1, <2>3, <2>6, <2>8, <3>1, <3>4 DEF FunctorOK, RemoveOps
  <2> QED
    BY <1>0, <1>1, <1>3, <2>5, <2>7, <2>8, TakeOut
<1> QED
  BY <1>1, <1>2, <1>3

LEMMA LeaveLoopStep ==
    ASSUME ServerInv, aborted = "none", NEW l \in Loops, LeaveLoop(l)
    PROVE  ServerInv'
<1> DEFINE dropped == {f.conn : f \in Range(queue[l])} \cup
                      {c \in revived : io_loop[c] = l /\ conn[c] = "kdisconnecting"}
<1>1. /\ l \in entered /\ l \in quit
      /\ looping' = looping \ {l} /\ entered' = entered \ {l}
      /\ queue' = [queue EXCEPT ![l] = <<>>]
      /\ aborted' = IF \E c \in dropped : ~Held(c) THEN "destroyed while up" ELSE aborted
      /\ UNCHANGED <<server, num_thread_, poolVars, connections_, conn, io_loop, late, revived,
                     quit, lost, listening_, apc, idle_fd_, free, others, robbed, unclean>>
  BY DEF LeaveLoop, poolVars, connVars, fdVars
<1>2. server = "destructing" /\ ~Standing /\ ~Standing'
  BY <1>1 DEF ServerInv, Types, LoopsInv, Standing
<1>3. Open' = Open
  BY <1>1 DEF Open
<1>4. queue \in [Loops -> Seq(Functors)]
  BY DEF ServerInv, Types
<1>5. /\ queue' \in [Loops -> Seq(Functors)] /\ queue'[l] = <<>>
      /\ \A k \in Loops \ {l} : queue'[k] = queue[k]
  <2> HIDE DEF Functors
  <2>1. <<>> \in Seq(Functors)
    BY EmptySeq
  <2> QED
    BY <1>1, <1>4, <2>1
<1>6. Types'
  BY <1>1, <1>5 DEF ServerInv, Types
<1>7. PoolInv'
  BY <1>1, PoolSame DEF ServerInv
<1>8. LoopsInv' /\ FdInv' /\ SpareInv'
  <2>1. LoopsInv'
    BY <1>1, <1>2 DEF ServerInv, LoopsInv
  <2>2. Spare' = Spare
    BY <1>1 DEF Spare
  <2>3. FdInv'
    BY <1>1, <1>2, <1>3, <2>2 DEF ServerInv, FdInv
  <2>4. SpareInv'
    BY <1>1 DEF ServerInv, SpareInv
  <2> QED
    BY <2>1, <2>3, <2>4
<1>9. CASE aborted' = "destroyed while up"
  <2>1. PICK c : c \in dropped
    BY <1>1, <1>9
  <2>2. unclean \/ revived # {}
    BY <1>2, <2>1, Queued
  <2>3. num_thread_ > 0
    <3>1. l \in 1 .. num_thread_ /\ num_thread_ \in 0 .. MaxThreads /\ MaxThreads \in Nat
      BY <1>1, ServerAssumption DEF ServerInv, Types, LoopsInv
    <3> QED
      BY <3>1
  <2>4. CleanInv' /\ ~Sane'
    BY <1>1, <1>2, <1>9, <2>2, <2>3 DEF CleanInv, CleanWithoutConnections, Sane
  <2> QED
    BY <1>1, <1>6, <1>7, <1>8, <2>4 DEF ServerInv, QueueInv
<1>10. CASE aborted' = "none"
  <2>1. ASSUME NEW c \in Clients PROVE KeptOK(c)'
    <3>1. KeptOK(c)
      BY DEF ServerInv, QueueInv, Sane
    <3> QED
      BY <1>1, <1>2, <1>3, <3>1 DEF KeptOK, LateOK
  <2>2. ASSUME NEW k \in Loops
        PROVE  Ordered(queue'[k]) /\ \A f \in Range(queue'[k]) : FunctorOK(f, k)'
    <3>1. CASE k = l
      <4>1. DOMAIN queue'[k] = {}
        BY <1>5, <3>1
      <4> QED
        BY <4>1 DEF Ordered, Range
    <3>2. CASE k # l
      <4>1. queue'[k] = queue[k] /\ Ordered(queue[k])
        BY <1>5, <3>2 DEF ServerInv, QueueInv, Sane
      <4>2. ASSUME NEW f \in Range(queue[k]) PROVE FunctorOK(f, k)'
        <5>1. FunctorOK(f, k)
          BY Queued
        <5> QED
          BY <1>1, <1>2, <1>3, <5>1 DEF FunctorOK
      <4> QED
        BY <4>1, <4>2
    <3> QED
      BY <3>1, <3>2
  <2>3. QueueInv'
    BY <2>1, <2>2 DEF QueueInv
  <2>4. CleanInv'
    <3>1. ~unclean => Open = {} /\ \A k \in Loops : queue'[k] = <<>>
      BY <1>2, <1>5 DEF ServerInv, CleanInv, Sane
    <3> QED
      BY <1>1, <1>3, <1>10, <3>1 DEF CleanInv, CleanWithoutConnections
  <2> QED
    BY <1>1, <1>6, <1>7, <1>8, <2>3, <2>4 DEF ServerInv
<1> QED
  BY <1>1, <1>9, <1>10

LEMMA DestroyConnectionStep ==
    ASSUME ServerInv, aborted = "none", NEW c \in Clients, DestroyConnection(c)
    PROVE  ServerInv'
<1>1. /\ server = "destructing" /\ c \in connections_ /\ connections_' = connections_ \ {c}
      /\ DestroyedSame
  BY DEF DestroyConnection, DestroyedSame
<1>2. KeptOK(c) /\ c \in Open /\ ~Standing /\ ~Standing'
  BY <1>1 DEF ServerInv, QueueInv, Sane, KeptOK, Standing, DestroyedSame
<1>3. AllOrdered(queue)
  BY QueuesOrdered
<1>4. \A l \in Loops : \A g \in Range(queue[l]) : FunctorOK(g, l) /\ g.op \in FunctorOps
  BY Queued
<1>5. /\ UNCHANGED <<server, num_thread_, io_loop, late, revived, unclean>>
      /\ unclean /\ conn \in [Clients -> ConnStates]
  BY <1>1, <1>2 DEF poolVars, DestroyedSame, ServerInv, CleanInv, Sane, Types
<1>6. connections_' \subseteq Clients /\ late' \subseteq Clients /\ revived' \subseteq Clients
  BY <1>1, <1>5 DEF ServerInv, Types
<1>7. CASE io_loop[c] = Base
  <2>1. ConnectionDestroyed(c) /\ queue' = queue
    BY <1>7 DEF DestroyConnection
  <2>2. queue' \in [Loops -> Seq(Functors)]
    BY <1>3, <2>1 DEF AllOrdered
  <2>3. CASE aborted' = "none"
    <3>1. PICK st : Moves(c, st)
      BY <1>1, <1>2, <2>1, <2>3, DestroyedMoves
    <3>2. /\ FdMoves /\ ServerSame /\ PoolInv' /\ server # "new"
          /\ conn'[c] = st /\ \A d \in Clients \ {c} : conn'[d] = conn[d]
          /\ conn' \in [Clients -> ConnStates] /\ io_loop' \in [Clients -> Loops]
      BY <3>1, MovesStep DEF Moves
    <3>3. \A i \in 1 .. num_thread_ : i # Base
      BY DEF Base
    <3>4. \A l \in Loops : \A g \in Range(queue[l]) : g.conn # c
      BY <1>1, <1>4, <1>7, <3>3 DEF FunctorOK, FunctorOps, RemoveOps
    <3>5. OnlyOf(c)
      <4>1. \A d \in Clients \ {c} : SameOf(d)
        BY <1>1, <1>5, <3>2 DEF SameOf
      <4> QED
        BY <1>3, <1>5, <2>1, <4>1 DEF OnlyOf, AllOrdered
    <3>6. KeptOK(c)'
      BY <1>1, <1>2, <2>1, <2>3, DestroyedKeeps
    <3>7. \A l \in Loops : \A g \in Range(queue'[l]) : g.conn = c => FunctorOK(g, l)'
      BY <2>1, <3>4
    <3> QED
      BY <1>1, <1>5, <1>6, <2>2, <2>3, <3>2, <3>5, <3>6, <3>7, ConnectionStep
  <2>4. CASE aborted' # "none"
    <3>1. /\ aborted' = "kdisconnecting" /\ conn' = conn
          /\ Moves(c, "kdisconnecting") /\ conn[c] = "kdisconnecting"
      BY <1>1, <1>2, <2>1, <2>4, DestroyedMoves DEF ShuttingDown
    <3>2. CleanInv' /\ ~Sane'
      BY <1>5, <3>1 DEF CleanInv, CleanWithoutConnections, Sane
    <3> QED
      BY <1>1, <1>6, <2>2, <3>1, <3>2, AbortStep DEF Moves
  <2> QED
    BY <2>3, <2>4
<1>8. CASE io_loop[c] # Base
  <2>1. /\ conn' = conn /\ free' = free /\ aborted' = "none"
        /\ Pushed(queue, queue', io_loop[c], Functor("ConnectionDestroyed", c))
    BY <1>8 DEF DestroyConnection, Pushed
  <2>2. PICK st : st = conn[c]
    OBVIOUS
  <2>3. st \in OpenStates /\ conn' = [conn EXCEPT ![c] = st]
    BY <1>2, <1>5, <2>1, <2>2 DEF Open, OpenStates
  <2>4. Moves(c, st)
    BY <1>1, <1>2, <2>1, <2>3 DEF Moves, MovesOn, DestroyedSame
  <2>5. Open' = Open /\ LateOK(c)'
    BY <1>2, <1>5, <2>1 DEF Open, KeptOK, LateOK
  <2>6. ASSUME NEW l \in Loops, NEW g \in Range(queue[l]), g.conn = c
        PROVE  FunctorOK(g, l)' /\ g.op # "ConnectionDestroyed"
    <3>1. FunctorOK(g, l)
      BY <1>4
    <3>2. g.op # "ConnectionDestroyed"
      BY <1>1, <2>6, <3>1 DEF FunctorOK
    <3> QED
      BY <1>2, <1>5, <2>1, <2>5, <2>6, <3>1, <3>2 DEF FunctorOK
  <2> QED
    BY <1>1, <1>2, <1>3, <1>8, <2>1, <2>3, <2>4, <2>5, <2>6, HandOver
<1> QED
  BY <1>7, <1>8

-----------------------------------------------------------------------------
(* The invariant. *)

LEMMA InitHolds ==
    ASSUME Init
    PROVE  ServerInv
<1>1. /\ server = "new" /\ num_thread_ = 0 /\ loops_ = <<>> /\ next_ = 0
      /\ listening_ = FALSE /\ idle_fd_ = TRUE /\ apc = "idle" /\ connections_ = {}
      /\ conn = [c \in Clients |-> "none"] /\ io_loop = [c \in Clients |-> Base]
      /\ queue = [l \in Loops |-> <<>>] /\ looping = {} /\ entered = {} /\ quit = {}
      /\ late = {} /\ revived = {} /\ lost = {}
      /\ free = MaxFds /\ others = 0 /\ aborted = "none" /\ dealt = [l \in Loops |-> 0]
      /\ robbed = FALSE /\ unclean = FALSE
  BY DEF Init, PoolInit, AcceptorInit
<1>2. MaxThreads \in Nat /\ MaxFds \in Nat /\ Base \in Loops
  BY ServerAssumption DEF Base, Loops
<1>3. Open = {}
  BY <1>1 DEF Open
<1>4. Types
  <2>1. queue \in [Loops -> Seq(Functors)]
    <3> HIDE DEF Functors
    <3>1. <<>> \in Seq(Functors)
      BY EmptySeq
    <3> QED
      BY <1>1, <3>1
  <2>2. num_thread_ \in 0 .. MaxThreads /\ io_loop \in [Clients -> Loops]
    BY <1>1, <1>2
  <2> QED
    BY <1>1, <1>2, <2>1, <2>2 DEF Types, ConnStates
<1>5. PoolInv /\ LoopsInv /\ SpareInv /\ CleanInv
  BY <1>1 DEF PoolInv, LoopsInv, SpareInv, CleanInv, CleanWithoutConnections, Standing
<1>6. FdInv
  <2>1. Cardinality(Open) = 0 /\ Spare = 1
    BY <1>1, <1>3, FS_EmptySet DEF Spare
  <2> QED
    BY <1>1, <1>2, <2>1 DEF FdInv
<1>7. QueueInv
  <2>1. \A c \in Clients : KeptOK(c)
    BY <1>1, <1>3 DEF KeptOK, LateOK
  <2>2. \A l \in Loops : DOMAIN queue[l] = {}
    BY <1>1
  <2> QED
    BY <2>1, <2>2 DEF QueueInv, Ordered, Range
<1> QED
  BY <1>1, <1>4, <1>5, <1>6, <1>7 DEF ServerInv

LEMMA StutterHolds ==
    ASSUME ServerInv, UNCHANGED vars
    PROVE  ServerInv'
<1>1. UNCHANGED <<server, num_thread_, loops_, next_, dealt, connections_, conn, io_loop, late,
                  revived, queue, looping, entered, quit, lost, listening_, apc, idle_fd_, free, others, robbed, aborted, unclean>>
  BY DEF vars, poolVars, connVars, loopVars, fdVars
<1>2. Open' = Open /\ Spare' = Spare /\ (Standing' <=> Standing) /\ (Sane' <=> Sane)
  BY <1>1 DEF Open, Spare, Standing, Sane
<1>3. Types' /\ LoopsInv' /\ FdInv' /\ SpareInv'
  BY <1>1, <1>2 DEF ServerInv, Types, LoopsInv, FdInv, SpareInv
<1>4. PoolInv'
  BY <1>1, PoolSame DEF ServerInv, poolVars
<1>5. (\A c : KeptOK(c)' <=> KeptOK(c)) /\ (\A f, l : FunctorOK(f, l)' <=> FunctorOK(f, l))
  BY <1>1, <1>2 DEF KeptOK, LateOK, FunctorOK
<1>6. QueueInv'
  BY <1>1, <1>2, <1>5 DEF ServerInv, QueueInv
<1>7. CleanInv'
  BY <1>1, <1>2 DEF ServerInv, CleanInv, CleanWithoutConnections
<1> QED
  BY <1>1, <1>3, <1>4, <1>6, <1>7 DEF ServerInv

(* Every step of the server keeps the invariant. *)
LEMMA ServerInvAlways == Spec => []ServerInv
<1>1. Init => ServerInv
  BY InitHolds
<1>2. ServerInv /\ [Next]_vars => ServerInv'
  <2> SUFFICES ASSUME ServerInv, [Next]_vars PROVE ServerInv'
    OBVIOUS
  <2>1. CASE UNCHANGED vars
    BY <2>1, StutterHolds
  <2>2. CASE Next
    <3>0. aborted = "none"
      BY <2>2 DEF Next
    <3>1. CASE \E n \in 0 .. MaxThreads : SetThreadNum(n)
      BY <3>0, <3>1, SetThreadNumStep
    <3>2. CASE Start
      BY <3>0, <3>2, StartStep
    <3>3. CASE HandleRead
      BY <3>0, <3>3, AcceptStep, AcceptFailsStep, CloseSpareStep, AcceptIdleStep, ReopenStep
         DEF HandleRead
    <3>4. CASE RunBaseFunctor
      BY <3>0, <3>4, RunBaseFunctorStep
    <3>5. CASE \E c \in Clients : Shutdown(c) \/ HandleClose(c) \/ TestState(c) \/ StoreState(c)
      BY <3>0, <3>5, ShutdownStep, HandleCloseStep, TestStateStep, StoreStateStep
    <3>6. CASE \E l \in Loops : EnterLoop(l) \/ RunFunctor(l) \/ LeaveLoop(l)
      BY <3>0, <3>6, EnterLoopStep, RunFunctorStep, LeaveLoopStep
    <3>7. CASE BeginDestructor
      BY <3>0, <3>7, BeginDestructorStep
    <3>8. CASE Destructor
      BY <3>0, <3>8, DestroyConnectionStep, QuitLoopStep, EndDestructorStep DEF Destructor
    <3>9. CASE \E c \in Clients : Connect(c)
      BY <3>0, <3>9, ConnectStep
    <3>10. CASE OpenFile \/ CloseFile \/ AcceptFatal
      BY <3>0, <3>10, FileStep, AcceptFailsStep
    <3> QED
      BY <2>2, <3>1, <3>2, <3>3, <3>4, <3>5, <3>6, <3>7, <3>8, <3>9, <3>10 DEF Next
  <2> QED
    BY <2>1, <2>2
<1> QED
  BY <1>1, <1>2, PTL DEF Spec

-----------------------------------------------------------------------------
(* What follows from it. *)

LEMMA PoolLoops ==
    ASSUME ServerInv
    PROVE  /\ loops_ = <<>> => GetAllLoops = <<Base>>
           /\ loops_ # <<>> =>
                /\ num_thread_ \in Nat \ {0} /\ num_thread_ <= MaxThreads
                /\ loops_ = [i \in 1 .. num_thread_ |-> i] /\ GetAllLoops = loops_
                /\ Len(loops_) = num_thread_ /\ next_ \in 0 .. num_thread_ - 1
                /\ \E k \in Nat : Dealt(k)
<1>1. loops_ = <<>> => GetAllLoops = <<Base>>
  BY DEF GetAllLoops
<1>2. ASSUME loops_ # <<>>
      PROVE  /\ num_thread_ \in Nat \ {0} /\ num_thread_ <= MaxThreads
             /\ loops_ = [i \in 1 .. num_thread_ |-> i] /\ GetAllLoops = loops_
             /\ Len(loops_) = num_thread_ /\ next_ \in 0 .. num_thread_ - 1
             /\ \E k \in Nat : Dealt(k)
  <2>1. /\ loops_ = [i \in 1 .. num_thread_ |-> i] /\ next_ \in 0 .. num_thread_ - 1
        /\ \E k \in Nat : Dealt(k)
        /\ num_thread_ \in 0 .. MaxThreads /\ MaxThreads \in Nat
    BY <1>2, ServerAssumption DEF ServerInv, PoolInv, Types
  <2>2. num_thread_ \in Nat \ {0} /\ num_thread_ <= MaxThreads
    BY <2>1
  <2>3. Len(loops_) = num_thread_
    <3>1. DOMAIN loops_ = 1 .. num_thread_ /\ loops_ \in Seq(Nat)
      BY <2>1, <2>2
    <3> QED
      BY <2>2, <3>1, LenProperties
  <2> QED
    BY <1>2, <2>1, <2>2, <2>3 DEF GetAllLoops
<1> QED
  BY <1>1, <1>2

LEMMA BalancedHolds ==
    ASSUME ServerInv
    PROVE  LoopsAreBalanced
<1>1. CASE loops_ = <<>>
  <2>1. Range(GetAllLoops) = {Base}
    BY <1>1, PoolLoops DEF Range
  <2>2. dealt[Base] \in Nat
    BY ServerAssumption DEF ServerInv, PoolInv, Base, Loops
  <2>3. dealt[Base] <= dealt[Base] + 1
    BY <2>2
  <2>4. \A h \in 0 .. 2 * MaxThreads : GetLoopForHash(h) = Base
    BY <1>1 DEF GetLoopForHash
  <2> QED
    BY <2>1, <2>3, <2>4 DEF LoopsAreBalanced
<1>2. CASE loops_ # <<>>
  <2>1. /\ num_thread_ \in Nat \ {0} /\ loops_ = [i \in 1 .. num_thread_ |-> i]
        /\ GetAllLoops = loops_ /\ Len(loops_) = num_thread_ /\ next_ \in 0 .. num_thread_ - 1
        /\ \E k \in Nat : Dealt(k)
    BY <1>2, PoolLoops
  <2>2. Range(GetAllLoops) = 1 .. num_thread_
    BY <2>1 DEF Range
  <2>3. PICK k \in Nat : Dealt(k)
    BY <2>1
  <2>4. \A i \in 1 .. num_thread_ : dealt[i] = k \/ dealt[i] = k + 1
    BY <2>3 DEF Dealt
  <2>5. \A i, j \in 1 .. num_thread_ : dealt[i] <= dealt[j] + 1
    BY <2>4
  <2>6. ASSUME NEW h \in 0 .. 2 * MaxThreads PROVE GetLoopForHash(h) \in 1 .. num_thread_
    <3>1. h \in Nat
      BY ServerAssumption
    <3>2. h % num_thread_ \in 0 .. num_thread_ - 1
      BY <2>1, <3>1
    <3>3. (h % num_thread_) + 1 \in 1 .. num_thread_
      BY <2>1, <3>2
    <3> QED
      BY <1>2, <2>1, <3>3 DEF GetLoopForHash
  <2> QED
    BY <2>2, <2>5, <2>6 DEF LoopsAreBalanced
<1> QED
  BY <1>1, <1>2

(* The pool deals connections out evenly (GetNextLoop), and GetLoopForHash  *)
(* stays within the loops, for any number of threads and connections.       *)
THEOREM PoolIsFair == Spec => []LoopsAreBalanced
<1>1. ServerInv => LoopsAreBalanced
  BY BalancedHolds
<1> QED
  BY <1>1, ServerInvAlways, PTL

LEMMA TypesHold ==
    ASSUME ServerInv
    PROVE  TypeOK
<1>1. free \in 0 .. MaxFds + 1 /\ others \in 0 .. MaxFds + 1
  <2>1. /\ free \in Nat /\ others \in Nat /\ Spare \in Nat /\ Cardinality(Open) \in Nat
        /\ MaxFds \in Nat /\ free + others + Cardinality(Open) + Spare <= MaxFds + 1
    BY SpareCounts, OpenCounts, ServerAssumption DEF ServerInv, Types, FdInv
  <2> QED
    BY <2>1
<1>2. loops_ \in Seq(Loops) /\ next_ \in 0 .. MaxThreads
  <2>1. CASE loops_ = <<>>
    <3>1. loops_ \in Seq(Loops)
      BY <2>1, EmptySeq
    <3>2. next_ = 0
      <4>1. loops_ = <<>> => num_thread_ = 0 \/ next_ = 0
        <5>1. CASE loops_ = [i \in 1 .. num_thread_ |-> i]
          <6>1. DOMAIN loops_ = 1 .. num_thread_
            BY <5>1
          <6>2. loops_ = <<>> => DOMAIN loops_ = {}
            OBVIOUS
          <6>3. num_thread_ \in 0 .. MaxThreads
            BY DEF ServerInv, Types
          <6> QED
            BY <6>1, <6>2, <6>3
        <5>2. CASE loops_ # [i \in 1 .. num_thread_ |-> i]
          BY <5>2 DEF ServerInv, PoolInv
        <5> QED
          BY <5>1, <5>2
      <4>2. num_thread_ = 0 => next_ = 0
        BY DEF ServerInv, PoolInv
      <4> QED
        BY <2>1, <4>1, <4>2
    <3> QED
      BY <3>1, <3>2, ServerAssumption
  <2>2. CASE loops_ # <<>>
    <3>1. /\ num_thread_ \in Nat \ {0} /\ num_thread_ <= MaxThreads
          /\ loops_ = [i \in 1 .. num_thread_ |-> i] /\ next_ \in 0 .. num_thread_ - 1
      BY <2>2, PoolLoops
    <3>2. next_ \in 0 .. MaxThreads /\ \A i \in 1 .. num_thread_ : i \in Loops
      BY <3>1, ServerAssumption DEF Loops
    <3>3. loops_ \in Seq(Loops)
      BY <3>1, <3>2
    <3> QED
      BY <3>2, <3>3
  <2> QED
    BY <2>1, <2>2
<1>3. DOMAIN queue = Loops
  BY DEF ServerInv, Types
<1> QED
  BY <1>1, <1>2, <1>3 DEF ServerInv, Types, ConnStates, LoopsInv, TypeOK

LEMMA NoneForgottenHolds ==
    ASSUME ServerInv
    PROVE  NoneForgotten
<1> DEFINE Destroying(c, l) ==
                {i \in DOMAIN queue[l] : queue[l][i] = Functor("ConnectionDestroyed", c)}
<1>1. ASSUME server = "started", aborted = "none", NEW c \in Open
      PROVE  /\ c \in connections_ => Destroying(c, io_loop[c]) = {}
             /\ \/ c \in connections_ \/ conn[c] = "destroyed" \/ c \in revived
                \/ Destroying(c, io_loop[c]) # {}
             /\ \A l \in Loops : Cardinality(Destroying(c, l)) <=
                                    (IF l = io_loop[c] THEN 1 ELSE 0)
  <2> DEFINE f == Functor("ConnectionDestroyed", c)
  <2>1. Sane /\ Standing
    BY <1>1 DEF Sane, Standing
  <2>2. c \in Clients /\ KeptOK(c) /\ io_loop[c] \in Loops
    BY <2>1 DEF Open, ServerInv, QueueInv, Types
  <2>3. f.op = "ConnectionDestroyed" /\ f.conn = c
    BY <2>2, FunctorIs DEF FunctorOps
  <2>4. \A l \in Loops : Ordered(queue[l]) /\ \A g \in Range(queue[l]) : FunctorOK(g, l)
    BY <2>1 DEF ServerInv, QueueInv
  <2>5. \A l \in Loops : Destroying(c, l) # {} <=> f \in Range(queue[l])
    BY DEF Range
  <2>6. /\ c \in connections_ => Destroying(c, io_loop[c]) = {}
        /\ \/ c \in connections_ \/ conn[c] = "destroyed" \/ c \in revived
           \/ Destroying(c, io_loop[c]) # {}
    <3>1. f \in Range(queue[io_loop[c]]) => c \notin connections_
      BY <2>2, <2>3, <2>4 DEF FunctorOK
    <3>2. \/ c \in connections_ \/ conn[c] = "destroyed" \/ c \in revived
          \/ f \in Range(queue[io_loop[c]])
      BY <1>1, <2>1, <2>2 DEF KeptOK
    <3> QED
      BY <2>2, <2>5, <3>1, <3>2
  <2>7. ASSUME NEW l \in Loops
        PROVE  Cardinality(Destroying(c, l)) <= (IF l = io_loop[c] THEN 1 ELSE 0)
    <3>1. CASE Destroying(c, l) = {}
      <4>1. Cardinality(Destroying(c, l)) = 0
        BY <3>1, FS_EmptySet, Zenon
      <4> HIDE DEF Destroying
      <4> QED
        BY <4>1
    <3>2. CASE Destroying(c, l) # {}
      <4>1. f \in Range(queue[l])
        BY <2>5, <3>2
      <4>2. l = io_loop[c]
        BY <2>3, <2>4, <4>1 DEF FunctorOK
      <4>3. PICK i : i \in Destroying(c, l)
        BY <3>2
      <4>4. ASSUME NEW j \in Destroying(c, l) PROVE j = i
        <5>1. Ordered(queue[l])
          BY <2>4
        <5>2. i \in DOMAIN queue[l] /\ j \in DOMAIN queue[l] /\ queue[l][i] = queue[l][j]
          BY <4>3
        <5> QED
          BY <5>1, <5>2 DEF Ordered
      <4>5. Destroying(c, l) = {i}
        BY <4>3, <4>4
      <4>6. Cardinality(Destroying(c, l)) = 1
        BY <4>5, FS_Singleton, Zenon
      <4> HIDE DEF Destroying
      <4> QED
        BY <4>2, <4>6
    <3> QED
      BY <3>1, <3>2
  <2> QED
    BY <2>6, <2>7
<1>2. Standing => free + others + Cardinality(Open) + (IF idle_fd_ THEN 1 ELSE 0) = MaxFds + 1
  BY DEF ServerInv, FdInv, Spare
<1>3. TypeOK
  BY TypesHold
<1> QED
  BY <1>1, <1>2, <1>3 DEF NoneForgotten, Standing

(* While the server stands every connection is kept by connections_ until   *)
(* exactly one ConnectionDestroyed for it waits in its own loop, but for    *)
(* those a late ForceClose revived, and every descriptor is accounted for,  *)
(* whatever the number of clients and threads.                              *)
THEOREM NoConnectionIsLost == Spec => []NoneForgotten
<1>1. ServerInv => NoneForgotten
  BY NoneForgottenHolds
<1> QED
  BY <1>1, ServerInvAlways, PTL

(* HandleRead takes its spare descriptor back whenever nobody opened a file *)
(* in between.                                                              *)
THEOREM SpareComesBack == Spec => []SpareDescriptorKept
<1>1. ServerInv => SpareDescriptorKept
  BY DEF ServerInv, SpareInv, SpareDescriptorKept
<1> QED
  BY <1>1, ServerInvAlways, PTL

(* As long as no late ForceClose revives a closed connection, only a        *)
(* destructor that runs over open connections can go wrong, and without io  *)
(* loops only over one that is being shut down: RemoveConenctionInLoop      *)
(* never misses a connection it has to erase, and nothing is used or        *)
(* destroyed too early while the server stands.                             *)
THEOREM OnlyTheDestructorFails == Spec => []CleanWithoutConnections
<1>1. ServerInv => CleanWithoutConnections
  BY DEF ServerInv, CleanInv
<1> QED
  BY <1>1, ServerInvAlways, PTL
=============================================================================
