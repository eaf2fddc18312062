-------------------------- MODULE ThreadPoolProofs --------------------------
(***************************************************************************)
(* Proofs about ThreadPool, for any number of workers and tasks and any    *)
(* limits of the queues: no task is lost or run twice, the limits are      *)
(* kept, and the latch opens only when every result is there.              *)
(***************************************************************************)
EXTENDS ThreadPool, SequenceTheorems, FiniteSetTheorems, TLAPS

(* where each thread can be *)
PlacesOf(t) ==
    CASE t = Main -> {"start", "next", "Run", "bounded.Put", "Wait", "unbounded.Take",
                      "Stop", "joining", "done"}
      [] t = Other -> {"idle", "next", "Run", "bounded.Put"}
      [] t = Collector -> {"bounded.Take", "unbounded.Put", "CountDown"}
      [] OTHER -> {"idle", "loop", "Take", "bounded.Put", "ended"}

OpsTyped == DOMAIN op = Threads /\ \A t \in Threads : op[t] \in PlacesOf(t)
MonitorTyped ==
    /\ holder_ \in [Mutexes -> Threads \cup {Nobody}]
    /\ waits \in [Conditions -> SUBSET Threads]
DataTyped ==
    /\ item \in [Threads -> AllTasks \cup {NoTask}]
    /\ queue_ \in Seq(AllTasks) /\ bounded \in Seq(AllTasks)
    /\ unbounded \in Seq(AllTasks) /\ count_ \in Int
    /\ running_ \in BOOLEAN /\ threads_ \subseteq Workers
    /\ todo \in [Producers -> Seq(AllTasks)] /\ refused \subseteq AllTasks
    /\ ran \in Seq(AllTasks) /\ got \in Seq(AllTasks) /\ max_queue_size_ \in Nat

Types == OpsTyped /\ MonitorTyped /\ DataTyped

(* Nobody but Main has begun before Start. *)
BeforeStart ==
    op[Main] = "start" =>
        refused = {} /\ \A t \in Threads \ {Main, Collector} : op[t] = "idle"

(* A mutex is held by a thread in an operation on it, that does not wait. *)
HoldersRight ==
    \A m \in Mutexes, t \in Threads :
        holder_[m] = t => op[t] \in Operations /\ MutexOf(op[t]) = m /\ ~Waiting(t)

Limits ==
    /\ refused # {} => ~running_
    /\ Len(bounded) <= Capacity
    /\ max_queue_size_ > 0 => Len(queue_) <= max_queue_size_

(* Where a task can be: in a sequence, or in the hands of a thread that     *)
(* calls Run with it, or with its result a Put.                             *)
Kinds == {"todo", "given", "queue_", "refused", "result", "bounded", "unbounded", "got"}
Holders == Threads \cup {Nobody}
Spot(k, t) ==
    CASE k = "todo" /\ t \in Producers -> Range(todo[t])
      [] k = "given" /\ t \in Threads -> IF op[t] = "Run" THEN {item[t]} ELSE {}
      [] k = "queue_" /\ t = Nobody -> Range(queue_)
      [] k = "refused" /\ t = Nobody -> refused
      [] k = "result" /\ t \in Threads ->
            IF op[t] \in {"bounded.Put", "unbounded.Put"} THEN {item[t]} ELSE {}
      [] k = "bounded" /\ t = Nobody -> Range(bounded)
      [] k = "unbounded" /\ t = Nobody -> Range(unbounded)
      [] k = "got" /\ t = Nobody -> Range(got)
      [] OTHER -> {}

Spots == [k \in Kinds |-> [t \in Holders |-> Spot(k, t)]]

(* the places of a task that has been run *)
Done == {"result", "bounded", "unbounded", "got"}
DoneTasks(P) == {x \in AllTasks : \E k \in Done, t \in Holders : x \in P[k][t]}

(* Every task is in exactly one place. *)
Partition(P) ==
    /\ AllTasks = UNION {P[k][t] : k \in Kinds, t \in Holders}
    /\ \A k, l \in Kinds : \A t, u \in Holders :
            k # l \/ t # u => P[k][t] \cap P[l][u] = {}

OnePlace ==
    /\ Partition(Spots)
    /\ Range(ran) = DoneTasks(Spots) /\ Cardinality(Range(ran)) = Len(ran)
    /\ \A p \in Producers : IsInjective(todo[p])
    /\ IsInjective(queue_) /\ IsInjective(bounded) /\ IsInjective(unbounded)

(* The latch counts the results the collector has passed on. *)
Counted ==
    /\ count_ + Cardinality(Range(unbounded) \cup Range(got))
            = Cardinality(AllTasks) + (IF op[Collector] = "CountDown" THEN 1 ELSE 0)
    /\ Cardinality(Range(got)) = Len(got)
    /\ waits["unbounded.not_empty"] = {}
    /\ op[Main] \in {"start", "next", "Run", "bounded.Put", "Wait"} => got = <<>>
    /\ op[Main] = "unbounded.Take" =>
            /\ Range(unbounded) \cup Range(got) = AllTasks
            /\ Len(got) < Cardinality(AllTasks)

PoolInv == Types /\ BeforeStart /\ HoldersRight /\ Limits /\ OnePlace /\ Counted

-----------------------------------------------------------------------------
(* The threads, the sequences and the places. *)

LEMMA ThreadFacts ==
    /\ Main \in Threads /\ Other \in Threads /\ Collector \in Threads
    /\ Workers \subseteq Threads /\ Nobody \notin Threads
    /\ Main # Other /\ Main # Collector /\ Other # Collector
    /\ \A w \in Workers : w # Main /\ w # Other /\ w # Collector
    /\ \A t \in Threads : t = Main \/ t = Other \/ t = Collector \/ t \in Workers
BY PoolAssumption DEF Threads, Producers

LEMMA PlaceFacts ==
    /\ PlacesOf(Main) = {"start", "next", "Run", "bounded.Put", "Wait", "unbounded.Take",
                         "Stop", "joining", "done"}
    /\ PlacesOf(Other) = {"idle", "next", "Run", "bounded.Put"}
    /\ PlacesOf(Collector) = {"bounded.Take", "unbounded.Put", "CountDown"}
    /\ \A w \in Workers : PlacesOf(w) = {"idle", "loop", "Take", "bounded.Put", "ended"}
BY ThreadFacts DEF PlacesOf

(* Append at the end of a queue. *)
LEMMA PushFacts ==
    ASSUME NEW S, NEW q \in Seq(S), NEW x \in S
    PROVE  /\ Append(q, x) \in Seq(S) /\ Len(Append(q, x)) = Len(q) + 1
           /\ Range(Append(q, x)) = Range(q) \cup {x}
           /\ IsInjective(q) /\ x \notin Range(q) => IsInjective(Append(q, x))
<1>1. /\ Append(q, x) \in Seq(S) /\ Len(Append(q, x)) = Len(q) + 1
      /\ \A i \in 1 .. Len(q) : Append(q, x)[i] = q[i]
      /\ Append(q, x)[Len(q) + 1] = x
  BY AppendProperties
<1>2. Len(q) \in Nat /\ DOMAIN q = 1 .. Len(q) /\ DOMAIN Append(q, x) = 1 .. Len(q) + 1
  BY <1>1, LenProperties
<1>3. PICK a : a = Append(q, x)
  OBVIOUS
<1> PICK n \in Nat : n = Len(q)
  BY <1>2
<1>4. /\ DOMAIN q = 1 .. n /\ DOMAIN a = 1 .. n + 1 /\ a[n + 1] = x
      /\ \A i \in 1 .. n : a[i] = q[i]
  BY <1>1, <1>2, <1>3
<1>5. \A i \in 1 .. n + 1 : i \in 1 .. n \/ i = n + 1
  OBVIOUS
<1>6. \A i \in 1 .. n : i \in 1 .. n + 1
  OBVIOUS
<1>7. n + 1 \in 1 .. n + 1
  OBVIOUS
<1>8. Range(a) = Range(q) \cup {x}
  BY <1>4, <1>5, <1>6, <1>7, Zenon DEF Range
<1>9. IsInjective(q) /\ x \notin Range(q) => IsInjective(a)
  BY <1>4, <1>5 DEF Range, IsInjective
<1> QED
  BY <1>1, <1>3, <1>8, <1>9

(* Head and Tail of a queue that is not empty. *)
LEMMA PopFacts ==
    ASSUME NEW S, NEW q \in Seq(S), q # << >>
    PROVE  /\ Head(q) \in S /\ Head(q) \in Range(q)
           /\ Tail(q) \in Seq(S) /\ Len(Tail(q)) = Len(q) - 1
           /\ IsInjective(q) => /\ IsInjective(Tail(q))
                                /\ Range(Tail(q)) = Range(q) \ {Head(q)}
<1>1. /\ Head(q) \in S /\ Tail(q) \in Seq(S) /\ Len(Tail(q)) = Len(q) - 1
      /\ \A i \in 1 .. Len(Tail(q)) : Tail(q)[i] = q[i + 1]
  BY HeadTailProperties
<1>2. Len(q) \in Nat /\ DOMAIN q = 1 .. Len(q) /\ Len(q) # 0 /\ Head(q) = q[1]
  BY LenProperties, EmptySeq
<1>3. DOMAIN Tail(q) = 1 .. Len(q) - 1
  BY <1>1, LenProperties
<1>4. PICK a, h : a = Tail(q) /\ h = Head(q)
  OBVIOUS
<1> PICK n \in Nat : n = Len(q) /\ n # 0
  BY <1>2
<1>5. /\ DOMAIN q = 1 .. n /\ DOMAIN a = 1 .. n - 1 /\ h = q[1]
      /\ \A i \in 1 .. n - 1 : a[i] = q[i + 1]
  BY <1>1, <1>2, <1>3, <1>4
<1>6. \A i \in 1 .. n : i = 1 \/ (i - 1 \in 1 .. n - 1 /\ (i - 1) + 1 = i)
  OBVIOUS
<1>7. /\ \A i \in 1 .. n - 1 : i + 1 \in 1 .. n /\ i + 1 # 1
      /\ \A i, j \in 1 .. n - 1 : i + 1 = j + 1 => i = j
      /\ 1 \in 1 .. n
  BY <1>4
<1>8. h \in Range(q)
  BY <1>5, <1>7, Zenon DEF Range
<1>9. IsInjective(q) => IsInjective(a)
  <2> SUFFICES ASSUME IsInjective(q), NEW i \in 1 .. n - 1, NEW j \in 1 .. n - 1, a[i] = a[j]
               PROVE  i = j
    BY <1>5 DEF IsInjective
  <2>1. q[i + 1] = q[j + 1] /\ i + 1 \in DOMAIN q /\ j + 1 \in DOMAIN q
    BY <1>5, <1>7
  <2>2. i + 1 = j + 1
    BY <2>1 DEF IsInjective
  <2> QED
    BY <2>2
<1>10. IsInjective(q) => Range(a) = Range(q) \ {h}
  <2> SUFFICES ASSUME IsInjective(q) PROVE Range(a) = Range(q) \ {h}
    OBVIOUS
  <2>1. \A i \in 1 .. n - 1 : a[i] \in Range(q) /\ a[i] # h
    BY <1>5, <1>7, Zenon DEF Range, IsInjective
  <2>2. \A i \in 1 .. n : q[i] # h => \E j \in 1 .. n - 1 : q[i] = a[j]
    BY <1>5, <1>6
  <2> QED
    <3>1. Range(a) = {a[i] : i \in 1 .. n - 1} /\ Range(q) = {q[i] : i \in 1 .. n}
      BY <1>5 DEF Range
    <3>2. ASSUME NEW y PROVE y \in Range(a) <=> y \in Range(q) /\ y # h
      <4>1. ASSUME y \in Range(a) PROVE y \in Range(q) /\ y # h
        <5>1. PICK i \in 1 .. n - 1 : y = a[i]
          BY <3>1, <4>1
        <5> QED
          BY <2>1, <5>1
      <4>2. ASSUME y \in Range(q), y # h PROVE y \in Range(a)
        <5>1. PICK i \in 1 .. n : y = q[i]
          BY <3>1, <4>2
        <5>2. PICK j \in 1 .. n - 1 : y = a[j]
          BY <2>2, <4>2, <5>1
        <5> QED
          BY <3>1, <5>2
      <4> QED
        BY <4>1, <4>2
    <3>3. \A y : y \in {a[i] : i \in 1 .. n - 1} <=> y \in {q[i] : i \in 1 .. n} \ {h}
      BY <3>1, <3>2, Zenon
    <3> QED
      BY <3>1, <3>3
<1> QED
  BY <1>1, <1>4, <1>8, <1>9, <1>10

(* A sequence has finitely many entries. *)
LEMMA RangeFinite ==
    ASSUME NEW S, NEW q \in Seq(S)
    PROVE  IsFiniteSet(Range(q))
<1>1. Len(q) \in Nat /\ DOMAIN q = 1 .. Len(q)
  BY LenProperties
<1>2. IsFiniteSet(1 .. Len(q))
  BY <1>1, FS_Interval
<1>3. q \in Surjection(1 .. Len(q), Range(q))
  BY <1>1 DEF Surjection, Range
<1> QED
  BY <1>2, <1>3, FS_Surjection

(* There are finitely many tasks, so that the latch can count them. *)
LEMMA TasksFinite == IsFiniteSet(AllTasks) /\ Cardinality(AllTasks) \in Nat
<1>1. IsFiniteSet(Range(Tasks[Main])) /\ IsFiniteSet(Range(Tasks[Other]))
  BY PoolAssumption, RangeFinite DEF Producers
<1>2. AllTasks = Range(Tasks[Main]) \cup Range(Tasks[Other])
  BY DEF AllTasks, Producers
<1> QED
  BY <1>1, <1>2, FS_Union, FS_CardinalityType

(* Task x goes from place k of t to place l of u. *)
Moved(P, Q, k, t, l, u, x) ==
    /\ k # l /\ x \in P[k][t] /\ Q[k][t] = P[k][t] \ {x} /\ Q[l][u] = P[l][u] \cup {x}
    /\ \A j \in Kinds, v \in Holders :
            ~(j = k /\ v = t) /\ ~(j = l /\ v = u) => Q[j][v] = P[j][v]

(* A task that moves is in one place again. *)
LEMMA Move ==
    ASSUME NEW P, NEW Q, Partition(P), NEW k \in Kinds, NEW l \in Kinds,
           NEW t \in Holders, NEW u \in Holders, NEW x, Moved(P, Q, k, t, l, u, x)
    PROVE  /\ Partition(Q)
           /\ k \notin Done => x \notin DoneTasks(P)
           /\ DoneTasks(Q) = IF k \notin Done /\ l \in Done THEN DoneTasks(P) \cup {x}
                             ELSE IF k \in Done /\ l \notin Done THEN DoneTasks(P) \ {x}
                             ELSE DoneTasks(P)
<1> DEFINE InP(y, j, v) == y \in P[j][v]
           InQ(y, j, v) == y \in Q[j][v]
<1>0. Done \subseteq Kinds
  BY DEF Done, Kinds
<1>1. /\ \A y : y \in AllTasks <=> \E j \in Kinds, v \in Holders : InP(y, j, v)
      /\ \A y, i, j, v, w : i \in Kinds /\ j \in Kinds /\ v \in Holders /\ w \in Holders
            /\ InP(y, i, v) /\ InP(y, j, w) => i = j /\ v = w
  BY DEF Partition
<1>2. \A y, j, v : j \in Kinds /\ v \in Holders =>
        (InQ(y, j, v) <=> IF y = x THEN j = l /\ v = u ELSE InP(y, j, v))
  <2> SUFFICES ASSUME NEW y, NEW j \in Kinds, NEW v \in Holders
               PROVE  InQ(y, j, v) <=> IF y = x THEN j = l /\ v = u ELSE InP(y, j, v)
    OBVIOUS
  <2>1. InP(x, k, t)
    BY DEF Moved
  <2> QED
    BY <1>1, <2>1 DEF Moved
<1>3. InP(x, k, t)
  BY DEF Moved
<1>4. Partition(Q)
  <2>1. \A y : y \in AllTasks <=> \E j \in Kinds, v \in Holders : InQ(y, j, v)
    BY <1>1, <1>2, <1>3
  <2>2. \A y, i, j, v, w : i \in Kinds /\ j \in Kinds /\ v \in Holders /\ w \in Holders
            /\ InQ(y, i, v) /\ InQ(y, j, w) => i = j /\ v = w
    BY <1>1, <1>2
  <2>3. AllTasks = UNION {Q[j][v] : j \in Kinds, v \in Holders}
    <3>1. AllTasks \subseteq UNION {Q[j][v] : j \in Kinds, v \in Holders}
      BY <2>1
    <3>2. UNION {Q[j][v] : j \in Kinds, v \in Holders} \subseteq AllTasks
      BY <2>1
    <3> QED
      BY <3>1, <3>2
  <2>4. ASSUME NEW i \in Kinds, NEW j \in Kinds, NEW v \in Holders, NEW w \in Holders,
               i # j \/ v # w
        PROVE  Q[i][v] \cap Q[j][w] = {}
    BY <2>2, <2>4
  <2> QED
    BY <2>3, <2>4 DEF Partition
<1>5. x \in AllTasks
  BY <1>1, <1>3
<1> DEFINE DP(y) == \E j \in Done, v \in Holders : InP(y, j, v)
           DQ(y) == \E j \in Done, v \in Holders : InQ(y, j, v)
<1>6. DP(x) <=> k \in Done
  BY <1>0, <1>1, <1>3
<1>7. DQ(x) <=> l \in Done
  BY <1>0, <1>2
<1>8. \A y : y # x => (DQ(y) <=> DP(y))
  BY <1>0, <1>2
<1>9. DoneTasks(P) = {y \in AllTasks : DP(y)} /\ DoneTasks(Q) = {y \in AllTasks : DQ(y)}
  BY DEF DoneTasks
<1> HIDE DEF DP, DQ
<1> QED
  BY <1>4, <1>5, <1>6, <1>7, <1>8, <1>9
(* The places, one by one. *)
Hands == {"Run", "bounded.Put", "unbounded.Put"}
Shared == {"queue_", "refused", "bounded", "unbounded", "got"}
SpotValues ==
    /\ \A p \in Producers : Spots["todo"][p] = Range(todo[p])
    /\ \A t \in Threads :
        /\ Spots["given"][t] = IF op[t] = "Run" THEN {item[t]} ELSE {}
        /\ Spots["result"][t] =
                IF op[t] \in {"bounded.Put", "unbounded.Put"} THEN {item[t]} ELSE {}
    /\ Spots["queue_"][Nobody] = Range(queue_) /\ Spots["refused"][Nobody] = refused
    /\ Spots["bounded"][Nobody] = Range(bounded)
    /\ Spots["unbounded"][Nobody] = Range(unbounded) /\ Spots["got"][Nobody] = Range(got)
    /\ \A t \in Holders \ Producers : Spots["todo"][t] = {}
    /\ Spots["given"][Nobody] = {} /\ Spots["result"][Nobody] = {}
    /\ \A k \in Shared, t \in Threads : Spots[k][t] = {}

(* The places, each by itself. *)
LEMMA SpotsAre == SpotValues
<1>1. /\ Nobody \in Holders /\ Nobody \notin Threads /\ Threads \subseteq Holders
      /\ Producers \subseteq Threads /\ Nobody \notin Producers
  BY ThreadFacts DEF Holders, Producers
<1>2. \A k \in Kinds, t \in Holders : Spots[k][t] = Spot(k, t)
  BY DEF Spots
<1>3. Shared \subseteq Kinds /\ "todo" \in Kinds /\ "given" \in Kinds /\ "result" \in Kinds
  BY DEF Shared, Kinds
<1>4. \A p \in Producers : Spots["todo"][p] = Range(todo[p])
  BY <1>1, <1>2, <1>3 DEF Spot
<1>5. \A t \in Threads :
        /\ Spots["given"][t] = IF op[t] = "Run" THEN {item[t]} ELSE {}
        /\ Spots["result"][t] =
                IF op[t] \in {"bounded.Put", "unbounded.Put"} THEN {item[t]} ELSE {}
  BY <1>1, <1>2, <1>3 DEF Spot
<1>6. /\ Spots["queue_"][Nobody] = Range(queue_) /\ Spots["refused"][Nobody] = refused
      /\ Spots["bounded"][Nobody] = Range(bounded)
      /\ Spots["unbounded"][Nobody] = Range(unbounded) /\ Spots["got"][Nobody] = Range(got)
  BY <1>1, <1>2, <1>3 DEF Spot, Shared
<1>7. \A t \in Holders \ Producers : Spots["todo"][t] = {}
  BY <1>1, <1>2, <1>3 DEF Spot
<1>8. Spots["given"][Nobody] = {} /\ Spots["result"][Nobody] = {}
  BY <1>1, <1>2, <1>3 DEF Spot
<1>9. \A k \in Shared, t \in Threads : Spots[k][t] = {}
  BY <1>1, <1>2, <1>3 DEF Spot, Shared
<1> QED
  BY <1>4, <1>5, <1>6, <1>7, <1>8, <1>9 DEF SpotValues

LEMMA KindFacts ==
    /\ Kinds = Shared \cup {"todo", "given", "result"}
    /\ Producers \subseteq Threads /\ Threads \subseteq Holders /\ Nobody \in Holders
    /\ Nobody \notin Threads /\ Holders = Threads \cup {Nobody}
BY ThreadFacts DEF Kinds, Shared, Holders, Producers

(* What a thread has in its hands is a task. *)
LEMMA HandIsTask ==
    ASSUME OnePlace, NEW t \in Threads, op[t] \in Hands
    PROVE  item[t] \in AllTasks
<1>1. item[t] \in Spots["given"][t] \/ item[t] \in Spots["result"][t]
  BY SpotsAre DEF SpotValues, Hands
<1>2. "given" \in Kinds /\ "result" \in Kinds /\ t \in Holders
  BY KindFacts
<1> QED
  BY <1>1, <1>2 DEF OnePlace, Partition

(* thread t alone acts *)
Alone(t) == \A u \in Threads : u # t => op'[u] = op[u] /\ item'[u] = item[u]

(* Where no sequence changes and no thread takes a task in its hands or     *)
(* lets it go, every task stays where it is.                                *)
LEMMA SpotsKept ==
    ASSUME UNCHANGED <<todo, queue_, refused, bounded, unbounded, got>>,
           \A u \in Threads : \/ op'[u] = op[u] /\ item'[u] = item[u]
                              \/ op[u] \notin Hands /\ op'[u] \notin Hands
    PROVE  Spots' = Spots
<1>1. SpotValues /\ SpotValues'
  BY SpotsAre, PTL
<1>2. PICK P, Q : P = Spots /\ Q = Spots'
  OBVIOUS
<1>3. ASSUME NEW k \in Kinds, NEW t \in Holders PROVE Q[k][t] = P[k][t]
  <2>1. CASE k = "todo"
    BY <1>1, <1>2, <2>1 DEF SpotValues
  <2>2. CASE k \in {"given", "result"} /\ t = Nobody
    BY <1>1, <1>2, <2>2 DEF SpotValues
  <2>3. CASE k = "given" /\ t \in Threads
    BY <1>1, <1>2, <2>3 DEF SpotValues, Hands
  <2>4. CASE k = "result" /\ t \in Threads
    BY <1>1, <1>2, <2>4 DEF SpotValues, Hands
  <2>5. CASE k \in Shared /\ t = Nobody
    BY <1>1, <1>2, <2>5 DEF SpotValues, Shared
  <2>6. CASE k \in Shared /\ t \in Threads
    BY <1>1, <1>2, <2>6 DEF SpotValues
  <2> QED
    BY <2>1, <2>2, <2>3, <2>4, <2>5, <2>6, KindFacts
<1>4. /\ P = [k \in Kinds |-> [t \in Holders |-> P[k][t]]]
      /\ Q = [k \in Kinds |-> [t \in Holders |-> Q[k][t]]]
  BY <1>2 DEF Spots
<1>5. P = Q
  BY <1>3, <1>4
<1> QED
  BY <1>2, <1>5

(* A task that goes from one place to another is in one place, and counts   *)
(* as run from when it leaves the todo lists or queue_ to be run.           *)
LEMMA TaskMoves ==
    ASSUME OnePlace, ran \in Seq(AllTasks), NEW k \in Kinds, NEW l \in Kinds,
           NEW t \in Holders, NEW u \in Holders, NEW x,
           Moved(Spots, Spots', k, t, l, u, x), k \in Done => l \in Done,
           ran' = IF k \notin Done /\ l \in Done THEN Append(ran, x) ELSE ran
    PROVE  /\ Partition(Spots)' /\ x \in AllTasks
           /\ (Range(ran) = DoneTasks(Spots) /\ Cardinality(Range(ran)) = Len(ran))'
<1>1. PICK P, Q : P = Spots /\ Q = Spots'
  OBVIOUS
<1>2. Partition(P)
  BY <1>1 DEF OnePlace
<1>3. /\ Partition(Q)
      /\ k \notin Done => x \notin DoneTasks(P)
      /\ DoneTasks(Q) = IF k \notin Done /\ l \in Done THEN DoneTasks(P) \cup {x}
                        ELSE DoneTasks(P)
  <2>1. Moved(P, Q, k, t, l, u, x)
    BY <1>1
  <2>2. /\ Partition(Q)
        /\ k \notin Done => x \notin DoneTasks(P)
        /\ DoneTasks(Q) = IF k \notin Done /\ l \in Done THEN DoneTasks(P) \cup {x}
                          ELSE IF k \in Done /\ l \notin Done THEN DoneTasks(P) \ {x}
                          ELSE DoneTasks(P)
    BY <1>2, <2>1, Move
  <2> QED
    BY <2>2
<1>4. x \in AllTasks
  BY <1>1, <1>2 DEF Partition, Moved
<1>5. PICK r : r = ran'
  OBVIOUS
<1>6. Range(r) = DoneTasks(Q) /\ Cardinality(Range(r)) = Len(r)
  <2>1. CASE k \notin Done /\ l \in Done
    <3>1. /\ r = Append(ran, x) /\ Range(ran) = DoneTasks(P) /\ x \notin Range(ran)
          /\ Cardinality(Range(ran)) = Len(ran)
      BY <1>1, <1>3, <1>5, <2>1 DEF OnePlace
    <3>2. Len(r) = Len(ran) + 1 /\ Range(r) = Range(ran) \cup {x}
      BY <1>4, <3>1, PushFacts
    <3>3. IsFiniteSet(Range(ran))
      BY RangeFinite
    <3>4. Cardinality(Range(ran) \cup {x}) = Cardinality(Range(ran)) + 1
      BY <3>1, <3>3, FS_AddElement
    <3> QED
      BY <1>3, <2>1, <3>1, <3>2, <3>4
  <2>2. CASE ~(k \notin Done /\ l \in Done)
    BY <1>1, <1>3, <1>5, <2>2 DEF OnePlace
  <2> QED
    BY <2>1, <2>2
<1>7. Partition(Spots)'
  BY <1>1, <1>3 DEF Partition
<1>8. (Range(ran) = DoneTasks(Spots))' /\ (Cardinality(Range(ran)) = Len(ran))'
  <2>1. Range(ran)' = Range(r) /\ Len(ran)' = Len(r)
    BY <1>5 DEF Range
  <2>2. DoneTasks(Spots)' = DoneTasks(Q)
    BY <1>1 DEF DoneTasks
  <2>3. Cardinality(Range(ran))' = Cardinality(Range(r))
    BY <1>5
  <2> QED
    BY <1>6, <2>1, <2>2, <2>3
<1> QED
  BY <1>4, <1>7, <1>8
-----------------------------------------------------------------------------
(* What the parts of an operation do to the threads and the mutexes. *)

LEMMA MutexFacts ==
    /\ \A o : MutexOf(o) \in Mutexes
    /\ MutexOf("Run") = "pool" /\ MutexOf("Take") = "pool" /\ MutexOf("Stop") = "pool"
    /\ MutexOf("bounded.Put") = "bounded" /\ MutexOf("bounded.Take") = "bounded"
    /\ MutexOf("unbounded.Put") = "unbounded" /\ MutexOf("unbounded.Take") = "unbounded"
    /\ MutexOf("CountDown") = "latch" /\ MutexOf("Wait") = "latch"
BY DEF MutexOf, Mutexes

(* A thread that goes on goes to a place of its own. *)
LEMMA OpUpdate ==
    ASSUME OpsTyped, NEW t \in Threads, NEW n \in PlacesOf(t), op' = [op EXCEPT ![t] = n]
    PROVE  OpsTyped' /\ op'[t] = n /\ \A u \in Threads : u # t => op'[u] = op[u]
BY DEF OpsTyped, PlacesOf

(* nobody begins to wait *)
NoNewWaits == \A c \in Conditions : waits'[c] \subseteq waits[c]

(* Condition::Notify wakes a thread and makes none wait. *)
LEMMA NotifyFacts ==
    ASSUME MonitorTyped, NEW c \in Conditions, Notify(c)
    PROVE  waits' \in [Conditions -> SUBSET Threads] /\ NoNewWaits
BY DEF MonitorTyped, Notify, NoNewWaits

(* The end of an operation gives its mutex back. *)
LEMMA UnlockFacts ==
    ASSUME OpsTyped, MonitorTyped, HoldersRight, NEW t \in Threads, NEW o, In(t, o),
           o \in Operations, NEW n \in PlacesOf(t), Unlock(t, n),
           waits' \in [Conditions -> SUBSET Threads], NoNewWaits
    PROVE  /\ OpsTyped' /\ MonitorTyped' /\ HoldersRight'
           /\ op'[t] = n /\ \A u \in Threads : u # t => op'[u] = op[u]
<1>1. op[t] = o /\ holder_[MutexOf(o)] = t /\ MutexOf(o) \in Mutexes
  BY MutexFacts DEF In
<1>2. op' = [op EXCEPT ![t] = n] /\ holder_' = [holder_ EXCEPT ![MutexOf(o)] = Nobody]
  BY <1>1 DEF Unlock
<1>3. OpsTyped' /\ op'[t] = n /\ \A u \in Threads : u # t => op'[u] = op[u]
  BY <1>2, OpUpdate
<1>4. MonitorTyped'
  BY <1>2 DEF MonitorTyped
<1>5. ASSUME NEW m \in Mutexes, NEW u \in Threads, holder_'[m] = u
      PROVE  op'[u] \in Operations /\ MutexOf(op'[u]) = m /\ ~Waiting(u)'
  <2>1. m # MutexOf(o) /\ holder_[m] = u
    BY <1>1, <1>2, <1>5, ThreadFacts DEF MonitorTyped
  <2>2. op[u] \in Operations /\ MutexOf(op[u]) = m /\ ~Waiting(u)
    BY <2>1 DEF HoldersRight
  <2>3. u # t
    BY <1>1, <2>1, <2>2
  <2>4. ~Waiting(u)'
    BY <2>2 DEF Waiting, NoNewWaits
  <2> QED
    BY <1>3, <2>2, <2>3, <2>4
<1>6. HoldersRight'
  BY <1>5 DEF HoldersRight, MutexOf
<1> QED
  BY <1>3, <1>4, <1>6

(* Condition::Wait gives the mutex back before the thread sleeps. *)
LEMMA WaitFacts ==
    ASSUME OpsTyped, MonitorTyped, HoldersRight, NEW t \in Threads, NEW o, In(t, o),
           NEW c \in Conditions, Wait(t, c)
    PROVE  OpsTyped' /\ MonitorTyped' /\ HoldersRight' /\ op' = op
<1>1. op[t] = o /\ holder_[MutexOf(o)] = t /\ MutexOf(o) \in Mutexes
  BY MutexFacts DEF In
<1>2. /\ op' = op /\ holder_' = [holder_ EXCEPT ![MutexOf(o)] = Nobody]
      /\ waits' = [waits EXCEPT ![c] = waits[c] \cup {t}]
  BY <1>1 DEF Wait
<1>3. OpsTyped'
  BY <1>2 DEF OpsTyped, PlacesOf
<1>4. MonitorTyped'
  BY <1>2 DEF MonitorTyped
<1>5. ASSUME NEW m \in Mutexes, NEW u \in Threads, holder_'[m] = u
      PROVE  op'[u] \in Operations /\ MutexOf(op'[u]) = m /\ ~Waiting(u)'
  <2>1. m # MutexOf(o) /\ holder_[m] = u
    BY <1>1, <1>2, <1>5, ThreadFacts DEF MonitorTyped
  <2>2. op[u] \in Operations /\ MutexOf(op[u]) = m /\ ~Waiting(u)
    BY <2>1 DEF HoldersRight
  <2>3. u # t
    BY <1>1, <2>1, <2>2
  <2>4. ~Waiting(u)'
    BY <1>2, <2>2, <2>3 DEF Waiting, MonitorTyped
  <2> QED
    BY <1>2, <2>2, <2>4
<1>6. HoldersRight'
  BY <1>5 DEF HoldersRight, MutexOf
<1> QED
  BY <1>2, <1>3, <1>4, <1>6

(* A mutex that is free is taken by a thread that does not wait. *)
LEMMA LockFacts ==
    ASSUME OpsTyped, MonitorTyped, HoldersRight, NEW t \in Threads, Lock(t)
    PROVE  OpsTyped' /\ MonitorTyped' /\ HoldersRight'
<1>1. PICK m \in Mutexes : m = MutexOf(op[t])
  BY MutexFacts
<1>2. /\ holder_' = [holder_ EXCEPT ![m] = t] /\ op' = op /\ waits' = waits
      /\ op[t] \in Operations /\ ~Waiting(t)
  BY <1>1 DEF Lock
<1>3. OpsTyped'
  BY <1>2 DEF OpsTyped, PlacesOf
<1>4. MonitorTyped'
  BY <1>2 DEF MonitorTyped
<1>5. ASSUME NEW n \in Mutexes, NEW u \in Threads, holder_'[n] = u
      PROVE  op'[u] \in Operations /\ MutexOf(op'[u]) = n /\ ~Waiting(u)'
  <2>1. (n = m /\ u = t) \/ holder_[n] = u
    BY <1>2, <1>5 DEF MonitorTyped
  <2>2. op[u] \in Operations /\ MutexOf(op[u]) = n /\ ~Waiting(u)
    BY <1>1, <1>2, <2>1 DEF HoldersRight
  <2> QED
    BY <1>2, <2>2 DEF Waiting
<1>6. HoldersRight'
  BY <1>5 DEF HoldersRight, MutexOf
<1> QED
  BY <1>3, <1>4, <1>6

(* a thread goes on outside of the monitors *)
LEMMA OutsideFacts ==
    ASSUME OpsTyped, MonitorTyped, HoldersRight, NEW t \in Threads, op[t] \notin Operations,
           NEW n \in PlacesOf(t), op' = [op EXCEPT ![t] = n], UNCHANGED <<holder_, waits>>
    PROVE  /\ OpsTyped' /\ MonitorTyped' /\ HoldersRight'
           /\ op'[t] = n /\ \A u \in Threads : u # t => op'[u] = op[u]
<1>1. OpsTyped' /\ op'[t] = n /\ \A u \in Threads : u # t => op'[u] = op[u]
  BY OpUpdate
<1>2. MonitorTyped'
  BY DEF MonitorTyped
<1>3. ASSUME NEW m \in Mutexes, NEW u \in Threads, holder_'[m] = u
      PROVE  op'[u] \in Operations /\ MutexOf(op'[u]) = m /\ ~Waiting(u)'
  <2>1. op[u] \in Operations /\ MutexOf(op[u]) = m /\ ~Waiting(u)
    BY <1>3 DEF HoldersRight
  <2>2. u # t
    BY <2>1
  <2> QED
    BY <1>1, <2>1, <2>2 DEF Waiting
<1>4. HoldersRight'
  BY <1>3 DEF HoldersRight, MutexOf
<1> QED
  BY <1>1, <1>2, <1>4
-----------------------------------------------------------------------------
(* The parts of the invariant that a step of thread t does not touch. *)

(* t alone acts, and of the shared places only those in C change *)
Framed(t, C) ==
    /\ Alone(t) /\ \A p \in Producers : p # t => todo'[p] = todo[p]
    /\ "queue_" \in C \/ queue_' = queue_
    /\ "refused" \in C \/ refused' = refused
    /\ "bounded" \in C \/ bounded' = bounded
    /\ "unbounded" \in C \/ unbounded' = unbounded
    /\ "got" \in C \/ got' = got

(* A step of t touches what t has and the sequences in C. *)
LEMMA FrameSpots ==
    ASSUME NEW t \in Threads, NEW C \in SUBSET Shared, Framed(t, C)
    PROVE  \A k \in Kinds, v \in Holders :
              \/ k \in {"todo", "given", "result"} /\ v = t
              \/ k \in C /\ v = Nobody
              \/ Spots'[k][v] = Spots[k][v]
<1>1. SpotValues /\ SpotValues'
  BY SpotsAre, PTL
<1> SUFFICES ASSUME NEW k \in Kinds, NEW v \in Holders,
                    ~(k \in {"todo", "given", "result"} /\ v = t), ~(k \in C /\ v = Nobody)
             PROVE  Spots'[k][v] = Spots[k][v]
  OBVIOUS
<1>2. CASE k = "todo" /\ v \in Producers
  BY <1>1, <1>2 DEF SpotValues, Framed
<1>3. CASE k = "todo" /\ v \notin Producers
  BY <1>1, <1>3 DEF SpotValues
<1>4. CASE k \in {"given", "result"} /\ v \in Threads
  <2>1. v # t /\ op'[v] = op[v] /\ item'[v] = item[v]
    BY <1>4 DEF Framed, Alone
  <2>2. Spots'["given"][v] = Spots["given"][v]
    BY <1>1, <1>4, <2>1 DEF SpotValues
  <2>3. Spots'["result"][v] = Spots["result"][v]
    BY <1>1, <1>4, <2>1 DEF SpotValues
  <2> QED
    BY <1>4, <2>2, <2>3
<1>5. CASE k \in {"given", "result"} /\ v = Nobody
  BY <1>1, <1>5 DEF SpotValues
<1>6. CASE k \in Shared /\ v = Nobody
  BY <1>1, <1>6 DEF SpotValues, Shared, Framed
<1>7. CASE k \in Shared /\ v \in Threads
  BY <1>1, <1>7 DEF SpotValues
<1> QED
  BY <1>2, <1>3, <1>4, <1>5, <1>6, <1>7, KindFacts

(* Where nothing moves, every task stays in one place. *)
LEMMA PlacesKept ==
    ASSUME OnePlace, Spots' = Spots, UNCHANGED <<ran, todo, queue_, bounded, unbounded>>
    PROVE  OnePlace'
<1>1. Partition(Spots)'
  BY DEF OnePlace, Partition
<1>2. DoneTasks(Spots)' = DoneTasks(Spots)
  BY DEF DoneTasks
<1>3. Range(ran)' = Range(ran) /\ Len(ran)' = Len(ran)
  BY DEF Range
<1>4. (Range(ran) = DoneTasks(Spots))' /\ (Cardinality(Range(ran)) = Len(ran))'
  BY <1>2, <1>3 DEF OnePlace
<1>5. /\ (\A p \in Producers : IsInjective(todo[p]))'
      /\ IsInjective(queue_)' /\ IsInjective(bounded)' /\ IsInjective(unbounded)'
  BY DEF OnePlace, IsInjective
<1> QED
  BY <1>1, <1>4, <1>5 DEF OnePlace

(* Before Start only Main moves, and the collector, who refuses nothing. *)
LEMMA StartKept ==
    ASSUME BeforeStart, NEW t \in Threads, op[t] # "idle", op'[t] # "start",
           t = Collector => refused' = refused, \A u \in Threads : u # t => op'[u] = op[u]
    PROVE  BeforeStart'
BY ThreadFacts DEF BeforeStart

(* The limits hold on where no queue changes. *)
LEMMA LimitsKept ==
    ASSUME Limits, UNCHANGED <<refused, bounded, max_queue_size_, queue_>>,
           refused = {} \/ (running_' => running_)
    PROVE  Limits'
BY DEF Limits

(* The count holds on where no result is passed on or taken. *)
LEMMA CountKept ==
    ASSUME Counted, UNCHANGED <<count_, unbounded, got>>,
           waits'["unbounded.not_empty"] \subseteq waits["unbounded.not_empty"],
           op'[Collector] = "CountDown" <=> op[Collector] = "CountDown",
           op'[Main] \in {"start", "next", "Run", "bounded.Put", "Wait"} =>
                op[Main] \in {"start", "next", "Run", "bounded.Put", "Wait"},
           op'[Main] = "unbounded.Take" => op[Main] = "unbounded.Take"
    PROVE  Counted'
<1>1. waits'["unbounded.not_empty"] = {}
  BY DEF Counted
<1>2. /\ op'[Main] \in {"start", "next", "Run", "bounded.Put", "Wait"} => got' = <<>>
      /\ op'[Main] = "unbounded.Take" =>
            /\ Range(unbounded) \cup Range(got) = AllTasks
            /\ Len(got) < Cardinality(AllTasks)
  BY DEF Counted
<1>3. Range(unbounded)' = Range(unbounded) /\ Range(got)' = Range(got)
  BY DEF Range
<1>4. PICK n : n = count_ + Cardinality(Range(unbounded) \cup Range(got))
  OBVIOUS
<1>5. (count_ + Cardinality(Range(unbounded) \cup Range(got)))' = n
  BY <1>3, <1>4
<1>6. n = Cardinality(AllTasks) + (IF op[Collector] = "CountDown" THEN 1 ELSE 0)
  BY <1>4 DEF Counted
<1>7. n = Cardinality(AllTasks) + (IF op'[Collector] = "CountDown" THEN 1 ELSE 0)
  BY <1>6
<1>8. (Cardinality(Range(got)) = Len(got))'
  BY <1>3 DEF Counted
<1> QED
  BY <1>1, <1>2, <1>3, <1>5, <1>7, <1>8 DEF Counted

-----------------------------------------------------------------------------
(* Steps that move a task. *)

(* Run takes the next task of the producer; without threads it runs it at once. *)
LEMMA CallRunKeeps ==
    ASSUME PoolInv, NEW p \in Producers, CallRun(p)
    PROVE  PoolInv'
<1>1. p \in Threads /\ p \in {Main, Other} /\ "Run" \in PlacesOf(p) /\ "bounded.Put" \in PlacesOf(p)
      /\ p # Collector
  BY ThreadFacts, PlaceFacts DEF Producers
<1>2. PICK x : x = Head(todo[p])
  OBVIOUS
<1>3. PICK n \in {"Run", "bounded.Put"} :
          op' = [op EXCEPT ![p] = n] /\ ran' = IF n = "bounded.Put" THEN Append(ran, x) ELSE ran
  BY <1>2 DEF CallRun
<1>4. /\ op[p] = "next" /\ todo[p] # <<>> /\ item' = [item EXCEPT ![p] = x]
      /\ todo' = [todo EXCEPT ![p] = Tail(todo[p])]
      /\ UNCHANGED <<holder_, waits, bounded, unbounded, count_, max_queue_size_, running_,
                     threads_, queue_, refused, got>>
  BY <1>2 DEF CallRun, poolVars
<1>5. /\ OpsTyped' /\ MonitorTyped' /\ HoldersRight'
      /\ op'[p] = n /\ \A u \in Threads : u # p => op'[u] = op[u]
  BY <1>1, <1>3, <1>4, OutsideFacts DEF PoolInv, Types, Operations
<1>6. /\ x \in AllTasks /\ x \in Range(todo[p]) /\ Tail(todo[p]) \in Seq(AllTasks)
      /\ Range(Tail(todo[p])) = Range(todo[p]) \ {x} /\ IsInjective(Tail(todo[p]))
  BY <1>2, <1>4, PopFacts DEF PoolInv, Types, DataTyped, OnePlace
<1>7. item'[p] = x /\ Alone(p)
  BY <1>1, <1>4, <1>5 DEF PoolInv, Types, DataTyped, Alone
<1>8. todo'[p] = Tail(todo[p]) /\ \A q \in Producers : q # p => todo'[q] = todo[q]
  BY <1>4 DEF PoolInv, Types, DataTyped
<1>9. PICK k \in {"given", "result"} : k = IF n = "Run" THEN "given" ELSE "result"
  OBVIOUS
<1>10. Moved(Spots, Spots', "todo", p, k, p, x)
  <2>1. SpotValues /\ SpotValues'
    BY SpotsAre, PTL
  <2>2. Spots["todo"][p] = Range(todo[p]) /\ Spots'["todo"][p] = Range(Tail(todo[p]))
    BY <1>8, <2>1 DEF SpotValues
  <2>3. Spots["given"][p] = {} /\ Spots["result"][p] = {}
    BY <1>1, <1>4, <2>1 DEF SpotValues
  <2>4. /\ Spots'["given"][p] = IF k = "given" THEN {x} ELSE {}
        /\ Spots'["result"][p] = IF k = "result" THEN {x} ELSE {}
    BY <1>1, <1>5, <1>7, <1>9, <2>1 DEF SpotValues
  <2>5. \A j \in Kinds, v \in Holders :
            (j \in {"todo", "given", "result"} /\ v = p) \/ Spots'[j][v] = Spots[j][v]
    <3>1. PICK C \in SUBSET Shared : C = {}
      OBVIOUS
    <3>2. Framed(p, C)
      BY <1>4, <1>7, <1>8 DEF Framed
    <3> QED
      BY <1>1, <3>1, <3>2, FrameSpots
  <2> QED
    BY <1>6, <2>2, <2>3, <2>4, <2>5 DEF Moved
<1>11. /\ Partition(Spots)'
       /\ (Range(ran) = DoneTasks(Spots) /\ Cardinality(Range(ran)) = Len(ran))'
  <2>1. "todo" \in Kinds /\ k \in Kinds /\ p \in Holders /\ "todo" \notin Done
        /\ (k \in Done <=> n = "bounded.Put")
    BY <1>1, <1>9, KindFacts DEF Done
  <2> QED
    BY <1>3, <1>10, <2>1, TaskMoves DEF PoolInv, Types, DataTyped
<1>12. DataTyped'
  BY <1>1, <1>3, <1>4, <1>6, PushFacts DEF PoolInv, Types, DataTyped
<1>13. OnePlace'
  BY <1>4, <1>6, <1>8, <1>11 DEF PoolInv, OnePlace, IsInjective
<1>14. BeforeStart'
  BY <1>1, <1>4, <1>5, StartKept DEF PoolInv
<1>15. Limits'
  BY <1>4, LimitsKept DEF PoolInv
<1>16. Counted'
  BY <1>1, <1>4, <1>5, CountKept, ThreadFacts DEF PoolInv
<1> QED
  BY <1>5, <1>12, <1>13, <1>14, <1>15, <1>16 DEF PoolInv, Types
(* the early places of Main, before it takes results *)
Early == {"start", "next", "Run", "bounded.Put", "Wait"}

(* A step that leaves the tasks and the latch alone. *)
LEMMA QuietKeeps ==
    ASSUME PoolInv, OpsTyped', MonitorTyped', HoldersRight', BeforeStart',
           UNCHANGED <<item, todo, refused, ran, got, bounded, unbounded, count_,
                       max_queue_size_, queue_>>,
           running_' \in BOOLEAN, threads_' \subseteq Workers,
           \A u \in Threads : op'[u] = op[u] \/ (op[u] \notin Hands /\ op'[u] \notin Hands),
           refused = {} \/ (running_' => running_),
           waits'["unbounded.not_empty"] \subseteq waits["unbounded.not_empty"],
           op'[Collector] = op[Collector],
           op'[Main] \in Early => op[Main] \in Early,
           op'[Main] = "unbounded.Take" => op[Main] = "unbounded.Take"
    PROVE  PoolInv'
<1>1. DataTyped'
  BY DEF PoolInv, Types, DataTyped
<1>2. Spots' = Spots
  BY SpotsKept
<1>3. OnePlace'
  BY <1>2, PlacesKept DEF PoolInv
<1>4. Limits'
  BY LimitsKept DEF PoolInv
<1>5. Counted'
  BY CountKept DEF PoolInv, Early
<1> QED
  BY <1>1, <1>3, <1>4, <1>5 DEF PoolInv, Types

(* A thread that begins to wait changes nothing else. *)
LEMMA WaitKeeps ==
    ASSUME PoolInv, NEW t \in Threads, NEW o, In(t, o),
           NEW c \in Conditions \ {"unbounded.not_empty"}, Wait(t, c),
           UNCHANGED <<item, todo, refused, ran, got, bounded, unbounded, count_,
                       max_queue_size_, queue_, running_, threads_>>
    PROVE  PoolInv'
<1>1. OpsTyped' /\ MonitorTyped' /\ HoldersRight' /\ op' = op
  BY WaitFacts DEF PoolInv, Types
<1>2. waits'["unbounded.not_empty"] = waits["unbounded.not_empty"]
  BY DEF Wait, PoolInv, Types, MonitorTyped
<1>3. BeforeStart'
  BY <1>1 DEF PoolInv, BeforeStart
<1>4. running_ \in BOOLEAN /\ threads_ \subseteq Workers
  BY DEF PoolInv, Types, DataTyped
<1> QED
  BY <1>1, <1>2, <1>3, <1>4, QuietKeeps

(* Run queues the task, waits for room, or refuses it after Stop. *)
LEMMA RunKeeps ==
    ASSUME PoolInv, NEW p \in Producers, Run(p)
    PROVE  PoolInv'
<1>1. /\ p \in Threads /\ p \in {Main, Other} /\ "next" \in PlacesOf(p) /\ p # Collector
      /\ p \in Holders
  BY ThreadFacts, PlaceFacts DEF Producers, Holders
<1>2. In(p, "Run") /\ op[p] = "Run" /\ "Run" \in Operations
  BY DEF Run, In, Operations
<1>3. UNCHANGED <<item, bounded, unbounded, count_, max_queue_size_, running_, threads_,
                  todo, ran, got>>
  BY DEF Run
<1>4. CASE Wait(p, "pool.not_full") /\ UNCHANGED <<queue_, refused>>
  <2>1. "pool.not_full" \in Conditions \ {"unbounded.not_empty"}
    BY DEF Conditions
  <2> QED
    BY <1>1, <1>2, <1>3, <1>4, <2>1, WaitKeeps
<1>5. CASE /\ ~Wait(p, "pool.not_full") \/ ~UNCHANGED <<queue_, refused>>
  <2> DEFINE Refuses == /\ ~running_ /\ refused' = refused \cup {item[p]}
                        /\ waits' = waits /\ queue_' = queue_
             Queues == /\ running_ /\ ~IsFull /\ queue_' = Append(queue_, item[p])
                       /\ Notify("pool.not_empty") /\ refused' = refused
  <2>1. Unlock(p, "next") /\ (Refuses \/ Queues)
    BY <1>5 DEF Run
  <2>2. waits' \in [Conditions -> SUBSET Threads] /\ NoNewWaits
    <3>1. CASE Refuses
      BY <3>1 DEF PoolInv, Types, MonitorTyped, NoNewWaits
    <3>2. CASE Queues
      BY <3>2, NotifyFacts DEF PoolInv, Types, Conditions
    <3> QED
      BY <2>1, <3>1, <3>2
  <2>3. /\ OpsTyped' /\ MonitorTyped' /\ HoldersRight'
        /\ op'[p] = "next" /\ \A u \in Threads : u # p => op'[u] = op[u]
    BY <1>1, <1>2, <2>1, <2>2, UnlockFacts DEF PoolInv, Types
  <2>4. BeforeStart'
    BY <1>1, <1>2, <2>3, StartKept DEF PoolInv
  <2>5. Counted'
    BY <1>1, <1>2, <1>3, <2>2, <2>3, CountKept, ThreadFacts
    DEF PoolInv, NoNewWaits, Conditions
  <2>6. PICK x \in AllTasks : x = item[p]
    BY <1>1, <1>2, HandIsTask DEF PoolInv, Hands
  <2>7. SpotValues /\ SpotValues'
    BY SpotsAre, PTL
  <2>8. /\ Spots["given"][p] = {x} /\ Spots'["given"][p] = {}
        /\ Spots["result"][p] = {} /\ Spots'["result"][p] = {}
        /\ Spots["todo"][p] = Range(todo[p]) /\ Spots'["todo"][p] = Range(todo[p])
    BY <1>1, <1>2, <1>3, <2>3, <2>6, <2>7 DEF SpotValues
  <2>9. Alone(p) /\ \A q \in Producers : q # p => todo'[q] = todo[q]
    BY <1>3, <2>3 DEF Alone
  <2>10. {"given", "queue_", "refused"} \subseteq Kinds \ Done /\ Nobody \in Holders
         /\ {"queue_"} \in SUBSET Shared /\ {"refused"} \in SUBSET Shared
    BY KindFacts DEF Done, Kinds, Shared
  <2>11. CASE Refuses
    <3>1. Framed(p, {"refused"})
      BY <1>3, <2>9, <2>11 DEF Framed
    <3>2. \A j \in Kinds, v \in Holders :
              \/ j \in {"todo", "given", "result"} /\ v = p
              \/ j \in {"refused"} /\ v = Nobody
              \/ Spots'[j][v] = Spots[j][v]
      BY <1>1, <2>10, <3>1, FrameSpots
    <3>3. Spots["refused"][Nobody] = refused /\ Spots'["refused"][Nobody] = refused \cup {x}
      BY <2>6, <2>7, <2>11 DEF SpotValues
    <3>4. Moved(Spots, Spots', "given", p, "refused", Nobody, x)
      BY <2>8, <3>2, <3>3 DEF Moved
    <3>5. /\ Partition(Spots)'
          /\ (Range(ran) = DoneTasks(Spots) /\ Cardinality(Range(ran)) = Len(ran))'
      BY <1>1, <1>3, <2>10, <3>4, TaskMoves DEF PoolInv, Types, DataTyped
    <3>6. OnePlace'
      BY <1>3, <2>11, <3>5 DEF PoolInv, OnePlace, IsInjective
    <3>7. DataTyped'
      BY <1>3, <2>6, <2>11 DEF PoolInv, Types, DataTyped
    <3>8. Limits'
      BY <1>3, <2>11 DEF PoolInv, Limits
    <3> QED
      BY <2>3, <2>4, <2>5, <3>6, <3>7, <3>8 DEF PoolInv, Types
  <2>12. CASE Queues
    <3>1. Framed(p, {"queue_"})
      BY <1>3, <2>9, <2>12 DEF Framed
    <3>2. \A j \in Kinds, v \in Holders :
              \/ j \in {"todo", "given", "result"} /\ v = p
              \/ j \in {"queue_"} /\ v = Nobody
              \/ Spots'[j][v] = Spots[j][v]
      BY <1>1, <2>10, <3>1, FrameSpots
    <3>3. PICK q \in Seq(AllTasks) : q = queue_
      BY DEF PoolInv, Types, DataTyped
    <3>4. /\ Append(q, x) \in Seq(AllTasks) /\ Len(Append(q, x)) = Len(q) + 1
          /\ Range(Append(q, x)) = Range(q) \cup {x}
          /\ IsInjective(q) /\ x \notin Range(q) => IsInjective(Append(q, x))
      BY PushFacts
    <3>5. queue_' = Append(q, x) /\ IsInjective(q)
      BY <2>6, <2>12, <3>3 DEF PoolInv, OnePlace
    <3>6. Spots["queue_"][Nobody] = Range(q) /\ Spots'["queue_"][Nobody] = Range(q) \cup {x}
      BY <2>7, <3>3, <3>4, <3>5 DEF SpotValues
    <3>7. Moved(Spots, Spots', "given", p, "queue_", Nobody, x)
      BY <2>8, <3>2, <3>6 DEF Moved
    <3>8. x \notin Range(q)
      BY <1>1, <2>8, <2>10, <3>6 DEF PoolInv, OnePlace, Partition
    <3>9. /\ Partition(Spots)'
          /\ (Range(ran) = DoneTasks(Spots) /\ Cardinality(Range(ran)) = Len(ran))'
      BY <1>1, <1>3, <2>10, <3>7, TaskMoves DEF PoolInv, Types, DataTyped
    <3>10. OnePlace'
      BY <1>3, <3>4, <3>5, <3>8, <3>9 DEF PoolInv, OnePlace, IsInjective
    <3>11. DataTyped'
      BY <1>3, <2>12, <3>4, <3>5 DEF PoolInv, Types, DataTyped
    <3>12. Limits'
      <4>1. max_queue_size_ \in Nat /\ Len(q) \in Nat /\ ~(max_queue_size_ > 0 /\ Len(q) >= max_queue_size_)
        BY <2>12, <3>3, LenProperties DEF IsFull, PoolInv, Types, DataTyped
      <4>2. max_queue_size_ > 0 => Len(q) + 1 <= max_queue_size_
        BY <4>1
      <4>3. Len(queue_)' = Len(q) + 1
        BY <3>4, <3>5
      <4>4. (max_queue_size_ > 0 => Len(queue_) <= max_queue_size_)'
        BY <1>3, <4>2, <4>3
      <4> QED
        BY <1>3, <2>12, <4>4 DEF PoolInv, Limits
    <3> QED
      BY <2>3, <2>4, <2>5, <3>10, <3>11, <3>12 DEF PoolInv, Types
  <2> QED
    BY <2>1, <2>11, <2>12
<1> QED
  BY <1>4, <1>5

(* Take gives a worker a task to run, or nothing after Stop. *)
LEMMA TakeKeeps ==
    ASSUME PoolInv, NEW w \in Workers, Take(w)
    PROVE  PoolInv'
<1>1. /\ w \in Threads /\ w # Collector /\ w # Main /\ w \in Holders /\ w \notin Producers
      /\ "loop" \in PlacesOf(w) /\ "bounded.Put" \in PlacesOf(w)
  BY ThreadFacts, PlaceFacts DEF Producers, Holders
<1>2. In(w, "Take") /\ op[w] = "Take" /\ "Take" \in Operations
  BY DEF Take, In, Operations
<1>3. UNCHANGED <<bounded, unbounded, count_, max_queue_size_, running_, threads_, todo,
                  refused, got>>
  BY DEF Take
<1>4. running_ \in BOOLEAN /\ threads_ \subseteq Workers
  BY DEF PoolInv, Types, DataTyped
<1>5. CASE Wait(w, "pool.not_empty") /\ UNCHANGED <<item, queue_, ran>>
  <2>1. "pool.not_empty" \in Conditions \ {"unbounded.not_empty"}
    BY DEF Conditions
  <2> QED
    BY <1>1, <1>2, <1>3, <1>5, <2>1, WaitKeeps
<1>6. CASE Unlock(w, "loop") /\ UNCHANGED <<item, waits, queue_, ran>>
  <2>1. waits' \in [Conditions -> SUBSET Threads] /\ NoNewWaits
    BY <1>6 DEF PoolInv, Types, MonitorTyped, NoNewWaits
  <2>2. /\ OpsTyped' /\ MonitorTyped' /\ HoldersRight'
        /\ op'[w] = "loop" /\ \A u \in Threads : u # w => op'[u] = op[u]
    BY <1>1, <1>2, <1>6, <2>1, UnlockFacts DEF PoolInv, Types
  <2>3. BeforeStart'
    BY <1>1, <1>2, <1>3, <2>2, StartKept DEF PoolInv
  <2>4. \A u \in Threads : op'[u] = op[u] \/ (op[u] \notin Hands /\ op'[u] \notin Hands)
    BY <1>2, <2>2 DEF Hands
  <2>5. op'[Main] = op[Main] /\ op'[Collector] = op[Collector]
    BY <1>1, <2>2, ThreadFacts
  <2> QED
    BY <1>3, <1>4, <1>6, <2>2, <2>3, <2>4, <2>5, QuietKeeps
<1>7. CASE /\ queue_ # <<>> /\ item' = [item EXCEPT ![w] = Head(queue_)]
           /\ queue_' = Tail(queue_)
           /\ IF max_queue_size_ > 0 THEN Notify("pool.not_full") ELSE UNCHANGED waits
           /\ ran' = Append(ran, Head(queue_)) /\ Unlock(w, "bounded.Put")
  <2>1. waits' \in [Conditions -> SUBSET Threads] /\ NoNewWaits
    <3>1. CASE Notify("pool.not_full")
      BY <3>1, NotifyFacts DEF PoolInv, Types, Conditions
    <3>2. CASE UNCHANGED waits
      BY <3>2 DEF PoolInv, Types, MonitorTyped, NoNewWaits
    <3> QED
      BY <1>7, <3>1, <3>2
  <2>2. /\ OpsTyped' /\ MonitorTyped' /\ HoldersRight'
        /\ op'[w] = "bounded.Put" /\ \A u \in Threads : u # w => op'[u] = op[u]
    BY <1>1, <1>2, <1>7, <2>1, UnlockFacts DEF PoolInv, Types
  <2>3. PICK q \in Seq(AllTasks) : q = queue_ /\ q # <<>> /\ IsInjective(q)
    BY <1>7 DEF PoolInv, Types, DataTyped, OnePlace
  <2>4. PICK x : x = Head(q)
    OBVIOUS
  <2>5. /\ x \in AllTasks /\ x \in Range(q) /\ Tail(q) \in Seq(AllTasks)
        /\ Len(Tail(q)) = Len(q) - 1
        /\ Range(Tail(q)) = Range(q) \ {x} /\ IsInjective(Tail(q))
    BY <2>3, <2>4, PopFacts
  <2>6. /\ item' = [item EXCEPT ![w] = x] /\ queue_' = Tail(q) /\ ran' = Append(ran, x)
    BY <1>7, <2>3, <2>4
  <2>7. item'[w] = x /\ Alone(w)
    BY <1>1, <2>2, <2>6 DEF PoolInv, Types, DataTyped, Alone
  <2>8. SpotValues /\ SpotValues'
    BY SpotsAre, PTL
  <2>9. /\ Spots["given"][w] = {} /\ Spots'["given"][w] = {}
        /\ Spots["result"][w] = {} /\ Spots'["result"][w] = {x}
        /\ Spots["todo"][w] = {} /\ Spots'["todo"][w] = {}
    BY <1>1, <1>2, <2>2, <2>7, <2>8 DEF SpotValues
  <2>10. Spots["queue_"][Nobody] = Range(q) /\ Spots'["queue_"][Nobody] = Range(q) \ {x}
    BY <2>3, <2>5, <2>6, <2>8 DEF SpotValues
  <2>11. {"queue_", "result"} \subseteq Kinds /\ "queue_" \notin Done /\ "result" \in Done
         /\ Nobody \in Holders /\ {"queue_"} \in SUBSET Shared
    BY KindFacts DEF Done, Kinds, Shared
  <2>12. Framed(w, {"queue_"})
    BY <1>3, <2>7 DEF Framed
  <2>13. \A j \in Kinds, v \in Holders :
              \/ j \in {"todo", "given", "result"} /\ v = w
              \/ j \in {"queue_"} /\ v = Nobody
              \/ Spots'[j][v] = Spots[j][v]
    BY <1>1, <2>11, <2>12, FrameSpots
  <2>14. Moved(Spots, Spots', "queue_", Nobody, "result", w, x)
    BY <2>5, <2>9, <2>10, <2>13 DEF Moved
  <2>15. /\ Partition(Spots)'
         /\ (Range(ran) = DoneTasks(Spots) /\ Cardinality(Range(ran)) = Len(ran))'
    BY <1>1, <2>6, <2>11, <2>14, TaskMoves DEF PoolInv, Types, DataTyped
  <2>16. OnePlace'
    BY <1>3, <2>5, <2>6, <2>15 DEF PoolInv, OnePlace, IsInjective
  <2>17. DataTyped'
    BY <1>1, <1>3, <2>5, <2>6, PushFacts DEF PoolInv, Types, DataTyped
  <2>18. BeforeStart'
    BY <1>1, <1>2, <1>3, <2>2, StartKept DEF PoolInv
  <2>19. Counted'
    BY <1>1, <1>3, <2>1, <2>2, CountKept, ThreadFacts DEF PoolInv, NoNewWaits, Conditions
  <2>20. Limits'
    <3>1. max_queue_size_ \in Nat /\ Len(q) \in Nat
          /\ (max_queue_size_ > 0 => Len(q) <= max_queue_size_)
      BY <2>3, LenProperties DEF PoolInv, Types, DataTyped, Limits
    <3>2. max_queue_size_ > 0 => Len(q) - 1 <= max_queue_size_
      BY <3>1
    <3>3. Len(queue_)' = Len(q) - 1
      BY <2>5, <2>6
    <3>4. (max_queue_size_ > 0 => Len(queue_) <= max_queue_size_)'
      BY <1>3, <3>2, <3>3
    <3> QED
      BY <1>3, <3>4 DEF PoolInv, Limits
  <2> QED
    BY <2>2, <2>16, <2>17, <2>18, <2>19, <2>20 DEF PoolInv, Types
<1> QED
  BY <1>5, <1>6, <1>7 DEF Take

(* The result of a task goes into the bounded queue. *)
LEMMA PutResultKeeps ==
    ASSUME PoolInv, NEW t \in Workers \cup Producers, PutResult(t)
    PROVE  PoolInv'
<1>1. t \in Threads /\ t # Collector /\ t \in Holders
  BY ThreadFacts DEF Producers, Holders
<1>2. PICK n \in {"loop", "next"} : n = IF t \in Workers THEN "loop" ELSE "next"
  OBVIOUS
<1>3. n \in PlacesOf(t)
  BY <1>2, ThreadFacts, PlaceFacts DEF Producers
<1>4. In(t, "bounded.Put") /\ op[t] = "bounded.Put" /\ "bounded.Put" \in Operations
  BY DEF PutResult, BoundedPut, In, Operations
<1>5. UNCHANGED <<item, unbounded, count_, max_queue_size_, running_, threads_, queue_, todo,
                  refused, ran, got>>
  BY DEF PutResult, BoundedPut, poolVars
<1>6. CASE Wait(t, "bounded.not_full") /\ UNCHANGED bounded
  <2>1. "bounded.not_full" \in Conditions \ {"unbounded.not_empty"}
    BY DEF Conditions
  <2> QED
    BY <1>1, <1>4, <1>5, <1>6, <2>1, WaitKeeps
<1>7. CASE ~Full /\ bounded' = Append(bounded, item[t]) /\ Notify("bounded.not_empty")
           /\ Unlock(t, n)
  <2>1. waits' \in [Conditions -> SUBSET Threads] /\ NoNewWaits
    BY <1>7, NotifyFacts DEF PoolInv, Types, Conditions
  <2>2. /\ OpsTyped' /\ MonitorTyped' /\ HoldersRight'
        /\ op'[t] = n /\ \A u \in Threads : u # t => op'[u] = op[u]
    BY <1>1, <1>3, <1>4, <1>7, <2>1, UnlockFacts DEF PoolInv, Types
  <2>3. PICK x \in AllTasks : x = item[t]
    BY <1>1, <1>4, HandIsTask DEF PoolInv, Hands
  <2>4. PICK q \in Seq(AllTasks) : q = bounded /\ IsInjective(q)
    BY DEF PoolInv, Types, DataTyped, OnePlace
  <2>5. /\ Append(q, x) \in Seq(AllTasks) /\ Len(Append(q, x)) = Len(q) + 1
        /\ Range(Append(q, x)) = Range(q) \cup {x}
        /\ IsInjective(q) /\ x \notin Range(q) => IsInjective(Append(q, x))
    BY PushFacts
  <2>6. bounded' = Append(q, x)
    BY <1>7, <2>3, <2>4
  <2>7. SpotValues /\ SpotValues'
    BY SpotsAre, PTL
  <2>8. /\ Spots["result"][t] = {x} /\ Spots'["result"][t] = {}
        /\ Spots["given"][t] = {} /\ Spots'["given"][t] = {}
    BY <1>1, <1>4, <2>2, <2>3, <2>7 DEF SpotValues
  <2>9. Spots'["todo"][t] = Spots["todo"][t]
    BY <1>1, <1>5, <2>7 DEF SpotValues
  <2>10. Spots["bounded"][Nobody] = Range(q) /\ Spots'["bounded"][Nobody] = Range(q) \cup {x}
    BY <2>4, <2>5, <2>6, <2>7 DEF SpotValues
  <2>11. {"result", "bounded"} \subseteq Kinds \cap Done /\ Nobody \in Holders
         /\ {"bounded"} \in SUBSET Shared
    BY KindFacts DEF Done, Kinds, Shared
  <2>12. Framed(t, {"bounded"})
    BY <1>5, <2>2 DEF Framed, Alone
  <2>13. \A j \in Kinds, v \in Holders :
              \/ j \in {"todo", "given", "result"} /\ v = t
              \/ j \in {"bounded"} /\ v = Nobody
              \/ Spots'[j][v] = Spots[j][v]
    BY <1>1, <2>11, <2>12, FrameSpots
  <2>14. Moved(Spots, Spots', "result", t, "bounded", Nobody, x)
    BY <2>8, <2>9, <2>10, <2>13 DEF Moved
  <2>15. x \notin Range(q)
    BY <1>1, <2>8, <2>10, <2>11 DEF PoolInv, OnePlace, Partition
  <2>16. /\ Partition(Spots)'
         /\ (Range(ran) = DoneTasks(Spots) /\ Cardinality(Range(ran)) = Len(ran))'
    BY <1>1, <1>5, <2>11, <2>14, TaskMoves DEF PoolInv, Types, DataTyped
  <2>17. OnePlace'
    BY <1>5, <2>4, <2>5, <2>6, <2>15, <2>16 DEF PoolInv, OnePlace, IsInjective
  <2>18. DataTyped'
    BY <1>5, <2>5, <2>6 DEF PoolInv, Types, DataTyped
  <2>19. BeforeStart'
    BY <1>1, <1>2, <1>4, <2>2, StartKept DEF PoolInv
  <2>20. Counted'
    BY <1>1, <1>4, <1>5, <2>1, <2>2, CountKept, ThreadFacts DEF PoolInv, NoNewWaits, Conditions
  <2>21. Limits'
    <3>1. Len(q) \in Nat /\ Capacity \in Nat /\ ~(Len(q) >= Capacity)
      BY <1>7, <2>4, LenProperties, CapacityAssumption DEF Full
    <3>2. Len(q) + 1 <= Capacity
      BY <3>1
    <3>3. Len(bounded)' = Len(q) + 1
      BY <2>5, <2>6
    <3> QED
      BY <1>5, <3>2, <3>3 DEF PoolInv, Limits
  <2> QED
    BY <2>2, <2>17, <2>18, <2>19, <2>20, <2>21 DEF PoolInv, Types
<1> QED
  BY <1>2, <1>6, <1>7 DEF PutResult, BoundedPut

(* The collector Takes a result from the bounded queue. *)
LEMMA CollectTakeKeeps ==
    ASSUME PoolInv, BoundedTake(Collector, "unbounded.Put"),
           UNCHANGED <<poolVars, todo, refused, ran, got>>
    PROVE  PoolInv'
<1>1. /\ Collector \in Threads /\ Collector # Main /\ Collector \in Holders
      /\ Collector \notin Producers /\ "unbounded.Put" \in PlacesOf(Collector)
  BY ThreadFacts, PlaceFacts DEF Producers, Holders
<1>2. /\ In(Collector, "bounded.Take") /\ op[Collector] = "bounded.Take"
      /\ "bounded.Take" \in Operations
  BY DEF BoundedTake, In, Operations
<1>3. UNCHANGED <<unbounded, count_, max_queue_size_, running_, threads_, queue_, todo,
                  refused, ran, got>>
  BY DEF BoundedTake, poolVars
<1>4. CASE Wait(Collector, "bounded.not_empty") /\ UNCHANGED <<bounded, item>>
  <2>1. "bounded.not_empty" \in Conditions \ {"unbounded.not_empty"}
    BY DEF Conditions
  <2> QED
    BY <1>1, <1>2, <1>3, <1>4, <2>1, WaitKeeps
<1>5. CASE /\ bounded # <<>> /\ item' = [item EXCEPT ![Collector] = Head(bounded)]
           /\ bounded' = Tail(bounded) /\ Notify("bounded.not_full")
           /\ Unlock(Collector, "unbounded.Put")
  <2>1. waits' \in [Conditions -> SUBSET Threads] /\ NoNewWaits
    BY <1>5, NotifyFacts DEF PoolInv, Types, Conditions
  <2>2. /\ OpsTyped' /\ MonitorTyped' /\ HoldersRight'
        /\ op'[Collector] = "unbounded.Put"
        /\ \A u \in Threads : u # Collector => op'[u] = op[u]
    BY <1>1, <1>2, <1>5, <2>1, UnlockFacts DEF PoolInv, Types
  <2>3. PICK q \in Seq(AllTasks) : q = bounded /\ q # <<>> /\ IsInjective(q)
    BY <1>5 DEF PoolInv, Types, DataTyped, OnePlace
  <2>4. PICK x : x = Head(q)
    OBVIOUS
  <2>5. /\ x \in AllTasks /\ x \in Range(q) /\ Tail(q) \in Seq(AllTasks)
        /\ Len(Tail(q)) = Len(q) - 1
        /\ Range(Tail(q)) = Range(q) \ {x} /\ IsInjective(Tail(q))
    BY <2>3, <2>4, PopFacts
  <2>6. item' = [item EXCEPT ![Collector] = x] /\ bounded' = Tail(q)
    BY <1>5, <2>3, <2>4
  <2>7. item'[Collector] = x /\ Alone(Collector)
    BY <1>1, <2>2, <2>6 DEF PoolInv, Types, DataTyped, Alone
  <2>8. SpotValues /\ SpotValues'
    BY SpotsAre, PTL
  <2>9. /\ Spots["given"][Collector] = {} /\ Spots'["given"][Collector] = {}
        /\ Spots["result"][Collector] = {} /\ Spots'["result"][Collector] = {x}
        /\ Spots["todo"][Collector] = {} /\ Spots'["todo"][Collector] = {}
    BY <1>1, <1>2, <2>2, <2>7, <2>8 DEF SpotValues
  <2>10. Spots["bounded"][Nobody] = Range(q) /\ Spots'["bounded"][Nobody] = Range(q) \ {x}
    BY <2>3, <2>5, <2>6, <2>8 DEF SpotValues
  <2>11. {"bounded", "result"} \subseteq Kinds \cap Done
         /\ Nobody \in Holders /\ {"bounded"} \in SUBSET Shared
    BY KindFacts DEF Done, Kinds, Shared
  <2>12. Framed(Collector, {"bounded"})
    BY <1>3, <2>7 DEF Framed
  <2>13. \A j \in Kinds, v \in Holders :
              \/ j \in {"todo", "given", "result"} /\ v = Collector
              \/ j \in {"bounded"} /\ v = Nobody
              \/ Spots'[j][v] = Spots[j][v]
    BY <1>1, <2>11, <2>12, FrameSpots
  <2>14. Moved(Spots, Spots', "bounded", Nobody, "result", Collector, x)
    BY <2>5, <2>9, <2>10, <2>13 DEF Moved
  <2>15. /\ Partition(Spots)'
         /\ (Range(ran) = DoneTasks(Spots) /\ Cardinality(Range(ran)) = Len(ran))'
    BY <1>1, <1>3, <2>11, <2>14, TaskMoves DEF PoolInv, Types, DataTyped
  <2>16. OnePlace'
    BY <1>3, <2>5, <2>6, <2>15 DEF PoolInv, OnePlace, IsInjective
  <2>17. DataTyped'
    BY <1>1, <1>3, <2>5, <2>6 DEF PoolInv, Types, DataTyped
  <2>18. BeforeStart'
    BY <1>1, <1>2, <1>3, <2>2, StartKept DEF PoolInv
  <2>19. Counted'
    BY <1>1, <1>2, <1>3, <2>1, <2>2, CountKept, ThreadFacts
    DEF PoolInv, NoNewWaits, Conditions
  <2>20. Limits'
    <3>1. Len(q) \in Nat /\ Capacity \in Nat /\ Len(q) <= Capacity
      BY <2>3, LenProperties, CapacityAssumption DEF PoolInv, Limits
    <3>2. Len(q) - 1 <= Capacity
      BY <3>1
    <3>3. Len(bounded)' = Len(q) - 1
      BY <2>5, <2>6
    <3> QED
      BY <1>3, <3>2, <3>3 DEF PoolInv, Limits
  <2> QED
    BY <2>2, <2>16, <2>17, <2>18, <2>19, <2>20 DEF PoolInv, Types
<1> QED
  BY <1>4, <1>5 DEF BoundedTake

(* The collector passes the result on: one more than the latch has counted. *)
LEMMA CollectPutKeeps ==
    ASSUME PoolInv, UnboundedPut(Collector, "CountDown"),
           UNCHANGED <<poolVars, todo, refused, ran, got>>
    PROVE  PoolInv'
<1>1. /\ Collector \in Threads /\ Collector # Main /\ Collector \in Holders
      /\ Collector \notin Producers /\ "CountDown" \in PlacesOf(Collector)
  BY ThreadFacts, PlaceFacts DEF Producers, Holders
<1>2. /\ In(Collector, "unbounded.Put") /\ op[Collector] = "unbounded.Put"
      /\ "unbounded.Put" \in Operations
  BY DEF UnboundedPut, In, Operations
<1>3. UNCHANGED <<item, bounded, count_, max_queue_size_, running_, threads_, queue_, todo,
                  refused, ran, got>>
  BY DEF UnboundedPut, poolVars
<1>4. waits' \in [Conditions -> SUBSET Threads] /\ NoNewWaits
  BY NotifyFacts DEF PoolInv, Types, Conditions, UnboundedPut
<1>5. /\ OpsTyped' /\ MonitorTyped' /\ HoldersRight'
      /\ op'[Collector] = "CountDown"
      /\ \A u \in Threads : u # Collector => op'[u] = op[u]
  <2>1. Unlock(Collector, "CountDown")
    BY DEF UnboundedPut
  <2> QED
    BY <1>1, <1>2, <1>4, <2>1, UnlockFacts DEF PoolInv, Types
<1>6. PICK x \in AllTasks : x = item[Collector]
  BY <1>1, <1>2, HandIsTask DEF PoolInv, Hands
<1>7. PICK q \in Seq(AllTasks) : q = unbounded /\ IsInjective(q)
  BY DEF PoolInv, Types, DataTyped, OnePlace
<1>8. /\ Append(q, x) \in Seq(AllTasks)
      /\ Range(Append(q, x)) = Range(q) \cup {x}
      /\ IsInjective(q) /\ x \notin Range(q) => IsInjective(Append(q, x))
  BY PushFacts
<1>9. unbounded' = Append(q, x)
  BY <1>6, <1>7 DEF UnboundedPut
<1>10. SpotValues /\ SpotValues'
  BY SpotsAre, PTL
<1>11. /\ Spots["result"][Collector] = {x} /\ Spots'["result"][Collector] = {}
       /\ Spots["given"][Collector] = {} /\ Spots'["given"][Collector] = {}
       /\ Spots["todo"][Collector] = {} /\ Spots'["todo"][Collector] = {}
  BY <1>1, <1>2, <1>5, <1>6, <1>10 DEF SpotValues
<1>12. /\ Spots["unbounded"][Nobody] = Range(q)
       /\ Spots'["unbounded"][Nobody] = Range(q) \cup {x}
       /\ Spots["got"][Nobody] = Range(got)
  BY <1>7, <1>8, <1>9, <1>10 DEF SpotValues
<1>13. {"result", "unbounded", "got"} \subseteq Kinds \cap Done /\ Nobody \in Holders
       /\ {"unbounded"} \in SUBSET Shared
  BY KindFacts DEF Done, Kinds, Shared
<1>14. Framed(Collector, {"unbounded"})
  BY <1>3, <1>5 DEF Framed, Alone
<1>15. \A j \in Kinds, v \in Holders :
            \/ j \in {"todo", "given", "result"} /\ v = Collector
            \/ j \in {"unbounded"} /\ v = Nobody
            \/ Spots'[j][v] = Spots[j][v]
  BY <1>1, <1>13, <1>14, FrameSpots
<1>16. Moved(Spots, Spots', "result", Collector, "unbounded", Nobody, x)
  BY <1>11, <1>12, <1>15 DEF Moved
<1>17. x \notin Range(q) /\ x \notin Range(got)
  BY <1>1, <1>11, <1>12, <1>13 DEF PoolInv, OnePlace, Partition
<1>18. /\ Partition(Spots)'
       /\ (Range(ran) = DoneTasks(Spots) /\ Cardinality(Range(ran)) = Len(ran))'
  BY <1>1, <1>3, <1>13, <1>16, TaskMoves DEF PoolInv, Types, DataTyped
<1>19. OnePlace'
  BY <1>3, <1>7, <1>8, <1>9, <1>17, <1>18 DEF PoolInv, OnePlace, IsInjective
<1>20. DataTyped'
  BY <1>3, <1>8, <1>9 DEF PoolInv, Types, DataTyped
<1>21. BeforeStart'
  BY <1>1, <1>2, <1>3, <1>5, StartKept DEF PoolInv
<1>22. Limits'
  BY <1>3 DEF PoolInv, Limits
<1>23. Counted'
  <2>1. PICK r : r = Range(q) \cup Range(got)
    OBVIOUS
  <2>2. IsFiniteSet(r) /\ x \notin r
    BY <1>17, <2>1, RangeFinite, FS_Union DEF PoolInv, Types, DataTyped
  <2>3. Cardinality(r \cup {x}) = Cardinality(r) + 1 /\ Cardinality(r) \in Nat
    BY <2>2, FS_AddElement, FS_CardinalityType
  <2>4. Range(unbounded)' = Range(q) \cup {x} /\ Range(got)' = Range(got)
    BY <1>3, <1>8, <1>9 DEF Range
  <2>5. (Range(unbounded) \cup Range(got))' = r \cup {x}
    BY <2>1, <2>4
  <2>6. PICK c \in Int : c = count_ /\ c + Cardinality(r) = Cardinality(AllTasks)
    <3>1. count_ + Cardinality(r) = Cardinality(AllTasks) + 0 /\ count_ \in Int
      BY <1>2, <1>7, <2>1 DEF PoolInv, Counted, Types, DataTyped
    <3> QED
      BY <3>1, TasksFinite
  <2>7. c + (Cardinality(r) + 1) = Cardinality(AllTasks) + 1
    BY <2>3, <2>6
  <2>8. (count_ + Cardinality(Range(unbounded) \cup Range(got))
            = Cardinality(AllTasks) + (IF op[Collector] = "CountDown" THEN 1 ELSE 0))'
    <3>1. count_' = c /\ op'[Collector] = "CountDown"
      BY <1>3, <1>5, <2>6
    <3>2. Cardinality((Range(unbounded) \cup Range(got))') = Cardinality(r) + 1
      BY <2>3, <2>5
    <3> QED
      BY <2>7, <3>1, <3>2
  <2>9. (Cardinality(Range(got)) = Len(got))'
    BY <1>3 DEF PoolInv, Counted, Range
  <2>10. waits'["unbounded.not_empty"] = {}
    BY <1>4 DEF PoolInv, Counted, NoNewWaits, Conditions
  <2>11. op'[Main] = op[Main]
    BY <1>1, <1>5, ThreadFacts
  <2>12. op[Main] = "unbounded.Take" =>
            r \cup {x} = AllTasks /\ Len(got) < Cardinality(AllTasks)
    BY <1>7, <2>1 DEF PoolInv, Counted
  <2>13. (op[Main] = "unbounded.Take" =>
            /\ Range(unbounded) \cup Range(got) = AllTasks
            /\ Len(got) < Cardinality(AllTasks))'
    BY <1>3, <2>5, <2>11, <2>12
  <2>14. op'[Main] \in {"start", "next", "Run", "bounded.Put", "Wait"} => got' = <<>>
    BY <1>3, <2>11 DEF PoolInv, Counted
  <2> QED
    BY <2>8, <2>9, <2>10, <2>13, <2>14 DEF Counted
<1> QED
  BY <1>5, <1>19, <1>20, <1>21, <1>22, <1>23 DEF PoolInv, Types

(* Main Takes a result; the latch has seen to it that there is one. *)
LEMMA TakeResultKeeps ==
    ASSUME PoolInv, TakeResult
    PROVE  PoolInv'
<1>1. /\ Main \in Threads /\ Collector # Main /\ Main \in Holders /\ Main \in Producers
      /\ "unbounded.Take" \in PlacesOf(Main) /\ "Stop" \in PlacesOf(Main)
  BY ThreadFacts, PlaceFacts DEF Producers, Holders
<1>2. /\ In(Main, "unbounded.Take") /\ op[Main] = "unbounded.Take"
      /\ "unbounded.Take" \in Operations
  BY DEF TakeResult, UnboundedTake, In, Operations
<1>3. UNCHANGED <<bounded, count_, max_queue_size_, running_, threads_, queue_, todo,
                  refused, ran>>
  BY DEF TakeResult, UnboundedTake, poolVars
<1>4. PICK q \in Seq(AllTasks), g \in Seq(AllTasks) :
          /\ q = unbounded /\ g = got /\ IsInjective(q) /\ Cardinality(Range(g)) = Len(g)
          /\ Range(q) \cup Range(g) = AllTasks /\ Len(g) < Cardinality(AllTasks)
  BY <1>2 DEF PoolInv, Types, DataTyped, OnePlace, Counted
<1>5. Len(g) \in Nat /\ Cardinality(AllTasks) \in Nat
  BY LenProperties, TasksFinite
<1>6. q # <<>>
  <2> SUFFICES ASSUME q = <<>> PROVE FALSE
    OBVIOUS
  <2>1. Range(q) = {}
    BY EmptySeq DEF Range
  <2>2. Range(g) = AllTasks
    BY <1>4, <2>1
  <2> QED
    BY <1>4, <1>5, <2>2
<1>7. PICK n \in {"unbounded.Take", "Stop"} :
          n = IF Len(g) + 1 < Cardinality(AllTasks) THEN "unbounded.Take" ELSE "Stop"
  OBVIOUS
<1>8. PICK x : x = Head(q)
  OBVIOUS
<1>9. /\ item' = [item EXCEPT ![Main] = x] /\ unbounded' = Tail(q) /\ got' = Append(g, x)
      /\ Unlock(Main, n) /\ waits' = waits
  BY <1>4, <1>6, <1>7, <1>8 DEF TakeResult, UnboundedTake
<1>10. waits' \in [Conditions -> SUBSET Threads] /\ NoNewWaits
  BY <1>9 DEF PoolInv, Types, MonitorTyped, NoNewWaits
<1>11. /\ OpsTyped' /\ MonitorTyped' /\ HoldersRight'
       /\ op'[Main] = n /\ \A u \in Threads : u # Main => op'[u] = op[u]
  BY <1>1, <1>2, <1>7, <1>9, <1>10, UnlockFacts DEF PoolInv, Types
<1>12. /\ x \in AllTasks /\ x \in Range(q) /\ Tail(q) \in Seq(AllTasks)
       /\ Range(Tail(q)) = Range(q) \ {x} /\ IsInjective(Tail(q))
  BY <1>4, <1>6, <1>8, PopFacts
<1>13. /\ Append(g, x) \in Seq(AllTasks) /\ Len(Append(g, x)) = Len(g) + 1
       /\ Range(Append(g, x)) = Range(g) \cup {x}
  BY <1>12, PushFacts
<1>14. SpotValues /\ SpotValues'
  BY SpotsAre, PTL
<1>15. /\ Spots["result"][Main] = {} /\ Spots'["result"][Main] = {}
       /\ Spots["given"][Main] = {} /\ Spots'["given"][Main] = {}
       /\ Spots'["todo"][Main] = Spots["todo"][Main]
  BY <1>1, <1>2, <1>3, <1>11, <1>14 DEF SpotValues
<1>16. /\ Spots["unbounded"][Nobody] = Range(q)
       /\ Spots'["unbounded"][Nobody] = Range(q) \ {x}
       /\ Spots["got"][Nobody] = Range(g) /\ Spots'["got"][Nobody] = Range(g) \cup {x}
  BY <1>4, <1>9, <1>12, <1>13, <1>14 DEF SpotValues
<1>17. {"unbounded", "got"} \subseteq Kinds \cap Done /\ Nobody \in Holders
       /\ {"unbounded", "got"} \in SUBSET Shared
  BY KindFacts DEF Done, Kinds, Shared
<1>18. Framed(Main, {"unbounded", "got"})
  BY <1>1, <1>3, <1>9, <1>11 DEF Framed, Alone, PoolInv, Types, DataTyped
<1>19. \A j \in Kinds, v \in Holders :
            \/ j \in {"todo", "given", "result"} /\ v = Main
            \/ j \in {"unbounded", "got"} /\ v = Nobody
            \/ Spots'[j][v] = Spots[j][v]
  BY <1>1, <1>17, <1>18, FrameSpots
<1>20. Moved(Spots, Spots', "unbounded", Nobody, "got", Nobody, x)
  BY <1>12, <1>15, <1>16, <1>19 DEF Moved
<1>21. x \notin Range(g)
  BY <1>12, <1>16, <1>17 DEF PoolInv, OnePlace, Partition
<1>22. /\ Partition(Spots)'
       /\ (Range(ran) = DoneTasks(Spots) /\ Cardinality(Range(ran)) = Len(ran))'
  BY <1>3, <1>17, <1>20, TaskMoves DEF PoolInv, Types, DataTyped
<1>23. OnePlace'
  BY <1>3, <1>9, <1>12, <1>22 DEF PoolInv, OnePlace, IsInjective
<1>24. DataTyped'
  BY <1>1, <1>3, <1>9, <1>12, <1>13 DEF PoolInv, Types, DataTyped
<1>25. BeforeStart'
  BY <1>1, <1>2, <1>7, <1>11, StartKept DEF PoolInv
<1>26. Limits'
  BY <1>3 DEF PoolInv, Limits
<1>27. Counted'
  <2>1. Cardinality(Range(g) \cup {x}) = Len(g) + 1
    <3>1. PICK r : r = Range(g)
      OBVIOUS
    <3>2. IsFiniteSet(r) /\ x \notin r /\ Cardinality(r) = Len(g)
      BY <1>4, <1>21, <3>1, RangeFinite
    <3>3. Cardinality(r \cup {x}) = Cardinality(r) + 1
      BY <3>2, FS_AddElement
    <3> QED
      BY <3>1, <3>2, <3>3
  <2>2. Range(Tail(q)) \cup Range(Append(g, x)) = AllTasks
    BY <1>4, <1>12, <1>13
  <2>3. Range(unbounded)' = Range(Tail(q)) /\ Range(got)' = Range(Append(g, x))
        /\ Len(got)' = Len(g) + 1
    BY <1>9, <1>13 DEF Range
  <2>4. (Range(unbounded) \cup Range(got))' = AllTasks
    BY <2>2, <2>3
  <2>5. op'[Collector] = op[Collector]
    BY <1>1, <1>11, ThreadFacts
  <2>6. (count_ + Cardinality(Range(unbounded) \cup Range(got))
            = Cardinality(AllTasks) + (IF op[Collector] = "CountDown" THEN 1 ELSE 0))'
    <3>1. count_ + Cardinality(AllTasks)
            = Cardinality(AllTasks) + (IF op[Collector] = "CountDown" THEN 1 ELSE 0)
      BY <1>4 DEF PoolInv, Counted
    <3>2. Cardinality((Range(unbounded) \cup Range(got))') = Cardinality(AllTasks)
      BY <2>4
    <3> QED
      BY <1>3, <2>5, <3>1, <3>2
  <2>7. (Cardinality(Range(got)) = Len(got))'
    <3>1. Cardinality(Range(got)') = Len(g) + 1
      BY <1>13, <2>1, <2>3
    <3> QED
      BY <2>3, <3>1
  <2>8. waits'["unbounded.not_empty"] = {}
    BY <1>9 DEF PoolInv, Counted
  <2>9. n = "unbounded.Take" => Len(g) + 1 < Cardinality(AllTasks)
    BY <1>7
  <2>10. (op[Main] = "unbounded.Take" =>
            /\ Range(unbounded) \cup Range(got) = AllTasks
            /\ Len(got) < Cardinality(AllTasks))'
    BY <1>11, <2>3, <2>4, <2>9
  <2>11. op'[Main] \notin {"start", "next", "Run", "bounded.Put", "Wait"}
    BY <1>7, <1>11
  <2> QED
    BY <2>6, <2>7, <2>8, <2>10, <2>11 DEF Counted
<1> QED
  BY <1>11, <1>23, <1>24, <1>25, <1>26, <1>27 DEF PoolInv, Types

-----------------------------------------------------------------------------
(* The latch. *)

(* The latch counts the result that was passed on. *)
LEMMA CountDownKeeps ==
    ASSUME PoolInv, CountDown(Collector, "bounded.Take"),
           UNCHANGED <<poolVars, todo, refused, ran, got>>
    PROVE  PoolInv'
<1>1. /\ Collector \in Threads /\ Collector # Main /\ "bounded.Take" \in PlacesOf(Collector)
  BY ThreadFacts, PlaceFacts
<1>2. /\ In(Collector, "CountDown") /\ op[Collector] = "CountDown"
      /\ "CountDown" \in Operations
  BY DEF CountDown, In, Operations
<1>3. UNCHANGED <<item, bounded, unbounded, max_queue_size_, running_, threads_, queue_, todo,
                  refused, ran, got>>
  BY DEF CountDown, poolVars
<1>4. waits' = [waits EXCEPT !["latch"] = {}] \/ waits' = waits
  BY DEF CountDown
<1>5. waits' \in [Conditions -> SUBSET Threads] /\ NoNewWaits
  BY <1>4 DEF PoolInv, Types, MonitorTyped, NoNewWaits, Conditions
<1>6. Unlock(Collector, "bounded.Take") /\ count_' = count_ - 1
  BY DEF CountDown
<1>7. /\ OpsTyped' /\ MonitorTyped' /\ HoldersRight' /\ op'[Collector] = "bounded.Take"
      /\ \A u \in Threads : u # Collector => op'[u] = op[u]
  BY <1>1, <1>2, <1>5, <1>6, UnlockFacts DEF PoolInv, Types
<1>8. PICK c \in Int : c = count_
  BY DEF PoolInv, Types, DataTyped
<1>9. count_' = c - 1 /\ c - 1 \in Int
  BY <1>6, <1>8
<1>10. DataTyped'
  BY <1>3, <1>9 DEF PoolInv, Types, DataTyped
<1>11. Spots' = Spots
  BY <1>2, <1>3, <1>7, SpotsKept DEF Hands
<1>12. OnePlace'
  BY <1>3, <1>11, PlacesKept DEF PoolInv
<1>13. BeforeStart'
  BY <1>1, <1>2, <1>3, <1>7, StartKept DEF PoolInv
<1>14. Limits'
  BY <1>3, LimitsKept DEF PoolInv
<1>15. Counted'
  <2>1. PICK r : r = Range(unbounded) \cup Range(got)
    OBVIOUS
  <2>2. IsFiniteSet(r) /\ Cardinality(r) \in Nat
    BY <2>1, RangeFinite, FS_Union, FS_CardinalityType DEF PoolInv, Types, DataTyped
  <2>3. c + Cardinality(r) = Cardinality(AllTasks) + 1
    BY <1>2, <1>8, <2>1 DEF PoolInv, Counted
  <2>4. (c - 1) + Cardinality(r) = Cardinality(AllTasks) + 0
    BY <2>2, <2>3, TasksFinite
  <2>5. (Range(unbounded) \cup Range(got))' = r
    BY <1>3, <2>1 DEF Range
  <2>6. (count_ + Cardinality(Range(unbounded) \cup Range(got))
            = Cardinality(AllTasks) + (IF op[Collector] = "CountDown" THEN 1 ELSE 0))'
    <3>1. Cardinality((Range(unbounded) \cup Range(got))') = Cardinality(r)
      BY <2>5
    <3>2. op'[Collector] # "CountDown"
      BY <1>7
    <3> QED
      BY <1>9, <2>4, <3>1, <3>2
  <2>7. (Cardinality(Range(got)) = Len(got))'
    BY <1>3 DEF PoolInv, Counted, Range
  <2>8. waits'["unbounded.not_empty"] = {}
    BY <1>5 DEF PoolInv, Counted, NoNewWaits, Conditions
  <2>9. op'[Main] = op[Main]
    BY <1>1, <1>7, ThreadFacts
  <2>10. op[Main] = "unbounded.Take" => r = AllTasks /\ Len(got) < Cardinality(AllTasks)
    BY <2>1 DEF PoolInv, Counted
  <2>11. (op[Main] = "unbounded.Take" =>
            /\ Range(unbounded) \cup Range(got) = AllTasks
            /\ Len(got) < Cardinality(AllTasks))'
    BY <1>3, <2>5, <2>9, <2>10
  <2>12. op'[Main] \in {"start", "next", "Run", "bounded.Put", "Wait"} => got' = <<>>
    BY <1>3, <2>9 DEF PoolInv, Counted
  <2> QED
    BY <2>6, <2>7, <2>8, <2>11, <2>12 DEF Counted
<1> QED
  BY <1>7, <1>10, <1>12, <1>13, <1>14, <1>15 DEF PoolInv, Types

(* At zero every result has been passed on, by the count of the sets. *)
LEMMA WaitForLatchKeeps ==
    ASSUME PoolInv, WaitForLatch
    PROVE  PoolInv'
<1>1. /\ Main \in Threads /\ Collector # Main /\ "unbounded.Take" \in PlacesOf(Main)
  BY ThreadFacts, PlaceFacts
<1>2. In(Main, "Wait") /\ op[Main] = "Wait" /\ "Wait" \in Operations
  BY DEF WaitForLatch, LatchWait, In, Operations
<1>3. UNCHANGED <<item, bounded, unbounded, count_, max_queue_size_, running_, threads_, queue_,
                  todo, refused, ran, got>>
  BY DEF WaitForLatch, LatchWait, poolVars
<1>4. CASE Wait(Main, "latch")
  <2>1. "latch" \in Conditions \ {"unbounded.not_empty"}
    BY DEF Conditions
  <2> QED
    BY <1>1, <1>2, <1>3, <1>4, <2>1, WaitKeeps
<1>5. CASE count_ <= 0 /\ Unlock(Main, "unbounded.Take") /\ waits' = waits
  <2>1. waits' \in [Conditions -> SUBSET Threads] /\ NoNewWaits
    BY <1>5 DEF PoolInv, Types, MonitorTyped, NoNewWaits
  <2>2. /\ OpsTyped' /\ MonitorTyped' /\ HoldersRight' /\ op'[Main] = "unbounded.Take"
        /\ \A u \in Threads : u # Main => op'[u] = op[u]
    BY <1>1, <1>2, <1>5, <2>1, UnlockFacts DEF PoolInv, Types
  <2>3. DataTyped'
    BY <1>3 DEF PoolInv, Types, DataTyped
  <2>4. Spots' = Spots
    BY <1>2, <1>3, <2>2, SpotsKept DEF Hands
  <2>5. OnePlace'
    BY <1>3, <2>4, PlacesKept DEF PoolInv
  <2>6. BeforeStart'
    BY <1>1, <1>2, <1>3, <2>2, StartKept DEF PoolInv
  <2>7. Limits'
    BY <1>3, LimitsKept DEF PoolInv
  <2>8. Counted'
    <3>1. PICK r : r = Range(unbounded) \cup Range(got)
      OBVIOUS
    <3>2. IsFiniteSet(r) /\ Cardinality(r) \in Nat
      BY <3>1, RangeFinite, FS_Union, FS_CardinalityType DEF PoolInv, Types, DataTyped
    <3>3. r \subseteq AllTasks
      <4>1. \A q \in Seq(AllTasks) : Range(q) \subseteq AllTasks
        BY LenProperties, ElementOfSeq DEF Range
      <4> QED
        BY <3>1, <4>1 DEF PoolInv, Types, DataTyped
    <3>4. Cardinality(r) >= Cardinality(AllTasks)
      <4>1. count_ + Cardinality(r)
              = Cardinality(AllTasks) + (IF op[Collector] = "CountDown" THEN 1 ELSE 0)
            /\ count_ \in Int
        BY <3>1 DEF PoolInv, Counted, Types, DataTyped
      <4> QED
        BY <1>5, <3>2, <4>1, TasksFinite
    <3>5. r = AllTasks
      BY <3>2, <3>3, <3>4, TasksFinite, FS_Subset
    <3>6. Len(got) < Cardinality(AllTasks)
      <4>1. got = <<>>
        BY <1>2 DEF PoolInv, Counted
      <4>2. Len(got) = 0 /\ Cardinality(AllTasks) # 0
        BY <4>1, EmptySeq, TasksFinite, FS_EmptySet, PoolAssumption
      <4> QED
        BY <4>2, TasksFinite
    <3>7. (Range(unbounded) \cup Range(got))' = AllTasks /\ Len(got)' = Len(got)
          /\ Range(got)' = Range(got)
      BY <1>3, <3>1, <3>5 DEF Range
    <3>8. op'[Collector] = op[Collector] /\ count_' = count_
      BY <1>1, <1>3, <2>2, ThreadFacts
    <3>9. count_ + Cardinality(AllTasks)
            = Cardinality(AllTasks) + (IF op[Collector] = "CountDown" THEN 1 ELSE 0)
      BY <3>1, <3>5 DEF PoolInv, Counted
    <3>10. (count_ + Cardinality(Range(unbounded) \cup Range(got))
              = Cardinality(AllTasks) + (IF op[Collector] = "CountDown" THEN 1 ELSE 0))'
      <4>1. Cardinality((Range(unbounded) \cup Range(got))') = Cardinality(AllTasks)
        BY <3>7
      <4> QED
        BY <3>8, <3>9, <4>1
    <3>11. (Cardinality(Range(got)) = Len(got))'
      BY <1>3 DEF PoolInv, Counted, Range
    <3>12. waits'["unbounded.not_empty"] = {}
      BY <1>5 DEF PoolInv, Counted
    <3> QED
      BY <2>2, <3>6, <3>7, <3>10, <3>11, <3>12 DEF Counted
  <2> QED
    BY <2>2, <2>3, <2>5, <2>6, <2>7, <2>8 DEF PoolInv, Types
<1> QED
  BY <1>4, <1>5 DEF WaitForLatch, LatchWait
-----------------------------------------------------------------------------
(* Steps that leave the tasks where they are. *)

(* Start sets the workers going. *)
LEMMA StartKeeps ==
    ASSUME PoolInv, NEW n \in {{}, Workers}, Start(n)
    PROVE  PoolInv'
<1>1. /\ op[Main] = "start" /\ running_' = TRUE /\ threads_' = n
      /\ op' = [t \in Threads |-> CASE t \in n -> "loop" [] t \in Producers -> "next"
                                    [] OTHER -> op[t]]
      /\ UNCHANGED <<item, holder_, waits, bounded, unbounded, count_, max_queue_size_,
                     queue_, todo, refused, ran, got>>
  BY DEF Start
<1>2. refused = {} /\ \A t \in Threads : t # Main /\ t # Collector => op[t] = "idle"
  BY <1>1 DEF PoolInv, BeforeStart
<1>3. n \subseteq Workers /\ n \subseteq Threads
  BY ThreadFacts
<1>4. /\ op'[Main] = "next" /\ op'[Other] = "next" /\ op'[Collector] = op[Collector]
      /\ \A w \in Workers : op'[w] = "loop" \/ op'[w] = op[w]
  BY <1>1, <1>3, ThreadFacts DEF Producers
<1>5. \A t \in Threads : op'[t] = op[t] \/ (op[t] \in {"start", "idle"} /\ op'[t] \in {"next", "loop"})
  BY <1>1, <1>2, <1>4, ThreadFacts
<1>6. OpsTyped'
  <2>1. DOMAIN op' = Threads
    BY <1>1
  <2>2. ASSUME NEW t \in Threads PROVE op'[t] \in PlacesOf(t)
    <3>1. op[t] \in PlacesOf(t)
      BY DEF PoolInv, Types, OpsTyped
    <3> QED
      BY <1>4, <3>1, ThreadFacts, PlaceFacts
  <2> QED
    BY <2>1, <2>2 DEF OpsTyped, PlacesOf
<1>7. MonitorTyped'
  BY <1>1 DEF PoolInv, Types, MonitorTyped
<1>8. HoldersRight'
  <2>1. ASSUME NEW m \in Mutexes, NEW u \in Threads, holder_'[m] = u
        PROVE  op'[u] \in Operations /\ MutexOf(op'[u]) = m /\ ~Waiting(u)'
    <3>1. op[u] \in Operations /\ MutexOf(op[u]) = m /\ ~Waiting(u)
      BY <1>1, <2>1 DEF PoolInv, HoldersRight
    <3>2. op'[u] = op[u]
      BY <1>5, <3>1 DEF Operations
    <3> QED
      BY <1>1, <3>1, <3>2 DEF Waiting
  <2> QED
    BY <2>1 DEF HoldersRight, MutexOf
<1>9. BeforeStart'
  BY <1>4 DEF BeforeStart
<1>10. \A u \in Threads : op'[u] = op[u] \/ (op[u] \notin Hands /\ op'[u] \notin Hands)
  BY <1>5 DEF Hands
<1>11. /\ op'[Main] \in Early => op[Main] \in Early
       /\ op'[Main] = "unbounded.Take" => op[Main] = "unbounded.Take"
  BY <1>1, <1>4 DEF Early
<1>12. running_' \in BOOLEAN /\ threads_' \subseteq Workers
  BY <1>1, <1>3
<1> QED
  BY <1>1, <1>2, <1>4, <1>6, <1>7, <1>8, <1>9, <1>10, <1>11, <1>12, QuietKeeps

(* A thread that goes on without a task in its hands. *)
LEMMA GoOnKeeps ==
    ASSUME PoolInv, OpsTyped', MonitorTyped', HoldersRight',
           NEW t \in Threads \ {Collector}, op[t] \notin Hands \cup {"idle"},
           op'[t] \notin Hands \cup {"start", "unbounded.Take"},
           \A u \in Threads : u # t => op'[u] = op[u],
           t = Main /\ op'[t] \in Early => op[t] \in Early, NoNewWaits,
           UNCHANGED <<item, todo, refused, ran, got, bounded, unbounded, count_,
                       max_queue_size_, queue_, threads_>>,
           running_' = running_ \/ running_' = FALSE
    PROVE  PoolInv'
<1>1. BeforeStart'
  BY StartKept DEF PoolInv
<1>2. \A u \in Threads : op'[u] = op[u] \/ (op[u] \notin Hands /\ op'[u] \notin Hands)
  OBVIOUS
<1>3. op'[Collector] = op[Collector]
  BY ThreadFacts
<1>4. /\ op'[Main] \in Early => op[Main] \in Early
      /\ op'[Main] = "unbounded.Take" => op[Main] = "unbounded.Take"
  BY ThreadFacts
<1>5. waits'["unbounded.not_empty"] \subseteq waits["unbounded.not_empty"]
  BY DEF NoNewWaits, Conditions
<1>6. running_' \in BOOLEAN /\ (running_' => running_)
  <2>1. running_ \in BOOLEAN
    BY DEF PoolInv, Types, DataTyped
  <2>2. CASE running_' = running_
    BY <2>1, <2>2
  <2>3. CASE running_' = FALSE
    BY <2>3
  <2> QED
    BY <2>2, <2>3
<1>7. threads_' \subseteq Workers
  BY DEF PoolInv, Types, DataTyped
<1> QED
  BY <1>1, <1>2, <1>3, <1>4, <1>5, <1>6, <1>7, QuietKeeps

(* The steps outside of the monitors. *)
LEMMA OutsideKeeps ==
    ASSUME PoolInv,
           \/ \E w \in Workers : TestRunning(w)
           \/ EndRunning \/ Join
    PROVE  PoolInv'
<1>1. PICK t \in Threads \ {Collector}, n \in {"Take", "ended", "Wait", "Stop", "done"} :
          /\ op[t] \in {"loop", "next", "joining"} /\ n \in PlacesOf(t)
          /\ op' = [op EXCEPT ![t] = n] /\ (n = "Wait" => op[t] = "next")
          /\ UNCHANGED <<item, holder_, waits, bounded, unbounded, count_, max_queue_size_,
                         running_, threads_, queue_, todo, refused, ran, got>>
  <2>1. ASSUME NEW w \in Workers, TestRunning(w)
        PROVE  \E n \in {"Take", "ended"} :
                  /\ op[w] \in {"loop", "next", "joining"} /\ n \in PlacesOf(w)
                  /\ op' = [op EXCEPT ![w] = n]
    BY <2>1, PlaceFacts DEF TestRunning
  <2>2. CASE EndRunning
    BY <2>2, ThreadFacts, PlaceFacts DEF EndRunning, poolVars
  <2>3. CASE Join
    BY <2>3, ThreadFacts, PlaceFacts DEF Join, poolVars
  <2>4. ASSUME NEW w \in Workers, TestRunning(w)
        PROVE  w \in Threads \ {Collector} /\
               UNCHANGED <<item, holder_, waits, bounded, unbounded, count_, max_queue_size_,
                           running_, threads_, queue_, todo, refused, ran, got>>
    BY <2>4, ThreadFacts DEF TestRunning, poolVars
  <2> QED
    BY <2>1, <2>2, <2>3, <2>4
<1>2. op[t] \notin Operations
  BY <1>1 DEF Operations
<1>3. /\ OpsTyped' /\ MonitorTyped' /\ HoldersRight'
      /\ op'[t] = n /\ \A u \in Threads : u # t => op'[u] = op[u]
  BY <1>1, <1>2, OutsideFacts DEF PoolInv, Types
<1>4. op[t] \notin Hands \cup {"idle"} /\ op'[t] \notin Hands \cup {"start", "unbounded.Take"}
  BY <1>1, <1>3 DEF Hands
<1>5. NoNewWaits
  BY <1>1 DEF NoNewWaits
<1>6. op'[t] \in Early => op[t] \in Early
  BY <1>1, <1>3 DEF Early
<1> QED
  BY <1>1, <1>3, <1>4, <1>5, <1>6, GoOnKeeps

(* Stop wakes everybody and moves no task. *)
LEMMA StopKeeps ==
    ASSUME PoolInv, Stop
    PROVE  PoolInv'
<1>1. Main \in Threads \ {Collector} /\ "joining" \in PlacesOf(Main)
  BY ThreadFacts, PlaceFacts
<1>2. In(Main, "Stop") /\ op[Main] = "Stop" /\ "Stop" \in Operations
  BY DEF Stop, In, Operations
<1>3. /\ running_' = FALSE /\ Unlock(Main, "joining")
      /\ waits' = [waits EXCEPT !["pool.not_empty"] = {}, !["pool.not_full"] = {}]
      /\ UNCHANGED <<item, bounded, unbounded, count_, max_queue_size_, threads_, queue_,
                     todo, refused, ran, got>>
  BY DEF Stop
<1>4. waits' \in [Conditions -> SUBSET Threads] /\ NoNewWaits
  BY <1>3 DEF PoolInv, Types, MonitorTyped, NoNewWaits
<1>5. /\ OpsTyped' /\ MonitorTyped' /\ HoldersRight' /\ op'[Main] = "joining"
      /\ \A u \in Threads : u # Main => op'[u] = op[u]
  BY <1>1, <1>2, <1>3, <1>4, UnlockFacts DEF PoolInv, Types
<1>6. /\ op[Main] \notin Hands \cup {"idle"} /\ op'[Main] \notin Early
      /\ op'[Main] \notin Hands \cup {"start", "unbounded.Take"}
  BY <1>2, <1>5 DEF Hands, Early
<1> QED
  BY <1>1, <1>3, <1>4, <1>5, <1>6, GoOnKeeps

(* Taking a mutex and waking up without a Notify move no task. *)
LEMMA MonitorKeeps ==
    ASSUME PoolInv, \/ \E t \in Threads : Enter(t) \/ WakesUp(t)
                    \/ UNCHANGED vars
    PROVE  PoolInv'
<1>1. UNCHANGED <<op, item, todo, refused, ran, got, bounded, unbounded, count_,
                  max_queue_size_, queue_, running_, threads_>>
  BY DEF Enter, WakesUp, Lock, SpuriousWakeup, poolVars, vars, monitorVars
<1>2. OpsTyped' /\ BeforeStart'
  BY <1>1 DEF PoolInv, Types, OpsTyped, PlacesOf, BeforeStart
<1>3. MonitorTyped' /\ HoldersRight' /\ NoNewWaits
  <2>1. ASSUME NEW t \in Threads, Enter(t) PROVE MonitorTyped' /\ HoldersRight' /\ NoNewWaits
    <3>1. MonitorTyped' /\ HoldersRight'
      BY <2>1, LockFacts DEF PoolInv, Types, Enter
    <3>2. NoNewWaits
      BY <2>1 DEF Enter, Lock, NoNewWaits
    <3> QED
      BY <3>1, <3>2
  <2>2. ASSUME NoNewWaits, UNCHANGED holder_, waits' \in [Conditions -> SUBSET Threads]
        PROVE  MonitorTyped' /\ HoldersRight' /\ NoNewWaits
    <3>1. MonitorTyped'
      BY <2>2 DEF PoolInv, Types, MonitorTyped
    <3>2. ASSUME NEW m \in Mutexes, NEW u \in Threads, holder_'[m] = u
          PROVE  op'[u] \in Operations /\ MutexOf(op'[u]) = m /\ ~Waiting(u)'
      <4>1. op[u] \in Operations /\ MutexOf(op[u]) = m /\ ~Waiting(u)
        BY <2>2, <3>2 DEF PoolInv, HoldersRight
      <4>2. ~Waiting(u)'
        BY <2>2, <4>1 DEF Waiting, NoNewWaits
      <4> QED
        BY <1>1, <4>1, <4>2
    <3>3. HoldersRight'
      BY <3>2 DEF HoldersRight, MutexOf
    <3> QED
      BY <2>2, <3>1, <3>3
  <2>3. ASSUME NEW t \in Threads, WakesUp(t)
        PROVE  NoNewWaits /\ UNCHANGED holder_ /\ waits' \in [Conditions -> SUBSET Threads]
    BY <2>3 DEF WakesUp, SpuriousWakeup, NoNewWaits, PoolInv, Types, MonitorTyped
  <2>4. ASSUME UNCHANGED vars
        PROVE  NoNewWaits /\ UNCHANGED holder_ /\ waits' \in [Conditions -> SUBSET Threads]
    BY <2>4 DEF vars, monitorVars, NoNewWaits, PoolInv, Types, MonitorTyped
  <2> QED
    BY <2>1, <2>2, <2>3, <2>4
<1>4. waits'["unbounded.not_empty"] \subseteq waits["unbounded.not_empty"]
  BY <1>3 DEF NoNewWaits, Conditions
<1>5. running_' \in BOOLEAN /\ threads_' \subseteq Workers
  BY <1>1 DEF PoolInv, Types, DataTyped
<1> QED
  BY <1>1, <1>2, <1>3, <1>4, <1>5, QuietKeeps

(* Every step keeps the invariant. *)
LEMMA StepKeeps == PoolInv /\ [Next]_vars => PoolInv'
<1> SUFFICES ASSUME PoolInv, [Next]_vars PROVE PoolInv'
  OBVIOUS
<1>1. CASE UNCHANGED vars
  BY <1>1, MonitorKeeps
<1>2. ASSUME NEW t \in Threads, Step(t) PROVE PoolInv'
  <2>1. CASE t \in Producers /\ (CallRun(t) \/ Run(t))
    BY <2>1, CallRunKeeps, RunKeeps
  <2>2. CASE t \in Workers /\ (TestRunning(t) \/ Take(t))
    BY <2>2, OutsideKeeps, TakeKeeps
  <2>3. CASE t \in Workers \cup Producers /\ PutResult(t)
    BY <2>3, PutResultKeeps
  <2>4. CASE Collect
    BY <2>4, CollectTakeKeeps, CollectPutKeeps, CountDownKeeps DEF Collect
  <2>5. CASE \E n \in {{}, Workers} : Start(n)
    BY <2>5, StartKeeps
  <2>6. CASE EndRunning \/ Join
    BY <2>6, OutsideKeeps
  <2>7. CASE WaitForLatch \/ TakeResult \/ Stop
    BY <2>7, WaitForLatchKeeps, TakeResultKeeps, StopKeeps
  <2> QED
    BY <1>2, <2>1, <2>2, <2>3, <2>4, <2>5, <2>6, <2>7 DEF Step
<1>3. ASSUME NEW t \in Threads, Enter(t) \/ WakesUp(t) PROVE PoolInv'
  BY <1>3, MonitorKeeps
<1> QED
  BY <1>1, <1>2, <1>3 DEF Next

-----------------------------------------------------------------------------
(* The empty sequence holds no task. *)
LEMMA EmptyFacts == /\ << >> \in Seq(AllTasks) /\ Len(<< >>) = 0 /\ Range(<< >>) = {}
                    /\ IsInjective(<< >>) /\ Cardinality({}) = 0
<1>1. << >> \in Seq(AllTasks) /\ Len(<< >>) = 0
  BY EmptySeq
<1>2. DOMAIN << >> = {}
  OBVIOUS
<1> QED
  BY <1>1, <1>2, FS_EmptySet DEF Range, IsInjective

(* The invariant holds before Start: every task is still to be given. *)
LEMMA InitHolds == Init => PoolInv
<1> SUFFICES ASSUME Init PROVE PoolInv
  OBVIOUS
<1>1. /\ op[Main] = "start" /\ op[Collector] = "bounded.Take" /\ op[Other] = "idle"
      /\ \A w \in Workers : op[w] = "idle"
      /\ DOMAIN op = Threads
  BY ThreadFacts DEF Init
<1>2. OpsTyped
  BY <1>1, ThreadFacts, PlaceFacts DEF OpsTyped
<1>3. MonitorTyped
  BY DEF Init, MonitorTyped
<1>4. DataTyped
  <2>1. Tasks \in [Producers -> Seq(AllTasks)] /\ QueueSizes \subseteq Nat
    BY PoolAssumption
  <2>2. item \in [Threads -> AllTasks \cup {NoTask}]
    BY DEF Init
  <2>3. /\ queue_ = << >> /\ bounded = << >> /\ unbounded = << >> /\ ran = << >>
        /\ got = << >>
    BY DEF Init
  <2>4. /\ queue_ \in Seq(AllTasks) /\ bounded \in Seq(AllTasks)
        /\ unbounded \in Seq(AllTasks) /\ ran \in Seq(AllTasks) /\ got \in Seq(AllTasks)
    BY <2>3, EmptyFacts, Zenon
  <2>5. count_ = Cardinality(AllTasks)
    BY DEF Init
  <2>6. count_ \in Int
    BY <2>5, TasksFinite
  <2>7. running_ \in BOOLEAN /\ threads_ \subseteq Workers /\ refused \subseteq AllTasks
    BY DEF Init
  <2>8. todo \in [Producers -> Seq(AllTasks)] /\ max_queue_size_ \in Nat
    BY <2>1, Zenon DEF Init
  <2> QED
    BY <2>2, <2>4, <2>6, <2>7, <2>8, Zenon DEF DataTyped
<1>5. BeforeStart
  BY <1>1, ThreadFacts DEF Init, BeforeStart
<1>6. HoldersRight
  BY ThreadFacts DEF Init, HoldersRight
<1>7. Limits
  <2>1. refused = {} /\ bounded = << >> /\ queue_ = << >> /\ max_queue_size_ \in Nat
    BY PoolAssumption DEF Init
  <2>2. Len(bounded) = 0 /\ Len(queue_) = 0
    BY <2>1, EmptyFacts
  <2> QED
    BY <2>1, <2>2, CapacityAssumption DEF Limits
<1>8. OnePlace
  <2>1. /\ todo = Tasks /\ queue_ = << >> /\ bounded = << >> /\ unbounded = << >>
        /\ got = << >> /\ refused = {} /\ ran = << >>
    BY DEF Init
  <2>2. \A t \in Threads : op[t] \notin Hands
    BY <1>1, ThreadFacts DEF Hands
  <2>3. PICK P : P = Spots
    OBVIOUS
  <2>4. /\ \A k \in Kinds, t \in Holders : k # "todo" \/ t \notin Producers => P[k][t] = {}
        /\ P["todo"][Main] = Range(Tasks[Main]) /\ P["todo"][Other] = Range(Tasks[Other])
    <3>1. ASSUME NEW k \in Kinds, NEW t \in Holders, k # "todo" \/ t \notin Producers
          PROVE  P[k][t] = {}
      <4>1. CASE k = "todo"
        BY <2>3, <3>1, <4>1, SpotsAre DEF SpotValues
      <4>2. CASE k = "given"
        BY <2>2, <2>3, <4>2, SpotsAre, KindFacts DEF SpotValues, Hands
      <4>3. CASE k = "result"
        BY <2>2, <2>3, <4>3, SpotsAre, KindFacts DEF SpotValues, Hands
      <4>4. CASE k \in Shared /\ t = Nobody
        BY <2>1, <2>3, <4>4, SpotsAre, EmptyFacts DEF SpotValues, Shared
      <4>5. CASE k \in Shared /\ t \in Threads
        BY <2>3, <4>5, SpotsAre DEF SpotValues
      <4> QED
        BY <4>1, <4>2, <4>3, <4>4, <4>5, KindFacts
    <3>2. P["todo"][Main] = Range(Tasks[Main]) /\ P["todo"][Other] = Range(Tasks[Other])
      BY <2>1, <2>3, SpotsAre DEF SpotValues, Producers
    <3> QED
      BY <3>1, <3>2
  <2>5. Partition(P)
    <3>1. AllTasks = Range(Tasks[Main]) \cup Range(Tasks[Other])
      BY DEF AllTasks, Producers
    <3>2. "todo" \in Kinds /\ Main \in Holders /\ Other \in Holders
      BY KindFacts DEF Producers
    <3>3. AllTasks = UNION {P[k][t] : k \in Kinds, t \in Holders}
      <4>1. AllTasks \subseteq UNION {P[k][t] : k \in Kinds, t \in Holders}
        BY <2>4, <3>1, <3>2
      <4>2. ASSUME NEW k \in Kinds, NEW t \in Holders PROVE P[k][t] \subseteq AllTasks
        BY <2>4, <3>1 DEF Producers
      <4>3. UNION {P[k][t] : k \in Kinds, t \in Holders} \subseteq AllTasks
        BY <4>2
      <4> QED
        BY <4>1, <4>3
    <3>4. ASSUME NEW k \in Kinds, NEW l \in Kinds, NEW t \in Holders, NEW u \in Holders,
                 k # l \/ t # u
          PROVE  P[k][t] \cap P[l][u] = {}
      <4>1. CASE k = "todo" /\ l = "todo" /\ t \in Producers /\ u \in Producers
        <5>1. Range(Tasks[Main]) \cap Range(Tasks[Other]) = {}
          BY PoolAssumption
        <5> QED
          BY <2>4, <3>4, <4>1, <5>1 DEF Producers
      <4>2. CASE k # "todo" \/ t \notin Producers
        BY <2>4, <4>2
      <4>3. CASE l # "todo" \/ u \notin Producers
        BY <2>4, <4>3
      <4> QED
        BY <4>1, <4>2, <4>3
    <3> QED
      BY <3>3, <3>4 DEF Partition
  <2>6. DoneTasks(P) = {}
    <3>1. ASSUME NEW k \in Done, NEW t \in Holders PROVE P[k][t] = {}
      BY <2>4 DEF Done, Kinds
    <3> QED
      BY <3>1 DEF DoneTasks
  <2>7. \A p \in Producers : IsInjective(todo[p])
    BY <2>1, PoolAssumption
  <2> QED
    BY <2>1, <2>3, <2>5, <2>6, <2>7, EmptyFacts DEF OnePlace
<1>9. Counted
  <2>1. /\ unbounded = << >> /\ got = << >> /\ count_ = Cardinality(AllTasks)
        /\ waits["unbounded.not_empty"] = {}
    BY DEF Init, Conditions
  <2>2. Range(unbounded) \cup Range(got) = {} /\ Cardinality(Range(got)) = Len(got)
    BY <2>1, EmptyFacts
  <2>3. count_ + Cardinality(Range(unbounded) \cup Range(got)) = Cardinality(AllTasks) + 0
    BY <2>1, <2>2, EmptyFacts, TasksFinite
  <2> QED
    BY <1>1, <2>1, <2>2, <2>3 DEF Counted
<1> QED
  BY <1>2, <1>3, <1>4, <1>5, <1>6, <1>7, <1>8, <1>9 DEF PoolInv, Types

-----------------------------------------------------------------------------
(* Six sets in a tuple are disjoint if no element is in two of them. *)
LEMMA SixSets ==
    ASSUME NEW A, NEW B, NEW C, NEW D, NEW E, NEW F,
           A \cap B = {}, A \cap C = {}, A \cap D = {}, A \cap E = {}, A \cap F = {},
           B \cap C = {}, B \cap D = {}, B \cap E = {}, B \cap F = {}, C \cap D = {},
           C \cap E = {}, C \cap F = {}, D \cap E = {}, D \cap F = {}, E \cap F = {}
    PROVE  LET s == <<A, B, C, D, E, F>> IN
           /\ UNION Range(s) = A \cup B \cup C \cup D \cup E \cup F
           /\ \A i, j \in DOMAIN s : i # j => s[i] \cap s[j] = {}
<1> DEFINE s == <<A, B, C, D, E, F>>
<1>1. /\ DOMAIN s = {1, 2, 3, 4, 5, 6} /\ s[1] = A /\ s[2] = B /\ s[3] = C /\ s[4] = D
      /\ s[5] = E /\ s[6] = F
  OBVIOUS
<1> HIDE DEF s
<1>2. Range(s) = {A, B, C, D, E, F}
  BY <1>1 DEF Range
<1>3. UNION {A, B, C, D, E, F} = A \cup B \cup C \cup D \cup E \cup F
  OBVIOUS
<1>4. \A i, j \in DOMAIN s : i # j => s[i] \cap s[j] = {}
  BY <1>1
<1> QED
  BY <1>2, <1>3, <1>4 DEF s

(* No task given to Run is lost, run twice or both run and refused; the     *)
(* queues keep their limits, and no thread waits with a mutex, for any      *)
(* number of workers and tasks and any limit of the queue.                  *)
THEOREM TasksAreAccounted == Spec => []TasksAccounted
<1>1. PoolInv => TasksAccounted
  <2> SUFFICES ASSUME PoolInv PROVE TasksAccounted
    OBVIOUS
  <2>1. TypeOK
    BY DEF PoolInv, Types, MonitorTyped, DataTyped, TypeOK
  <2>2. PICK A, B, C, D, E, F :
            /\ A = Range(todo[Main]) /\ B = Range(todo[Other])
            /\ C = {item[p] : p \in {q \in Producers : op[q] = "Run"}}
            /\ D = Range(queue_) /\ E = Range(ran) /\ F = refused
    OBVIOUS
  <2>3. PICK P : P = Spots
    OBVIOUS
  <2>4. Partition(P) /\ E = DoneTasks(P)
    BY <2>2, <2>3 DEF PoolInv, OnePlace
  <2>5. /\ "todo" \in Kinds /\ "given" \in Kinds /\ "queue_" \in Kinds /\ "refused" \in Kinds
        /\ Done \subseteq Kinds /\ Main \in Holders /\ Other \in Holders /\ Nobody \in Holders
        /\ Producers \subseteq Holders /\ Main # Other
        /\ "todo" \notin Done /\ "given" \notin Done /\ "queue_" \notin Done
        /\ "refused" \notin Done
    BY KindFacts, ThreadFacts DEF Done, Kinds, Producers
  <2>6. /\ A = P["todo"][Main] /\ B = P["todo"][Other] /\ D = P["queue_"][Nobody]
        /\ F = P["refused"][Nobody]
    BY <2>2, <2>3, SpotsAre DEF SpotValues, Producers
  <2>7. \A x : x \in C <=> \E p \in Producers : x \in P["given"][p]
    <3>1. \A p \in Producers : P["given"][p] = IF op[p] = "Run" THEN {item[p]} ELSE {}
      BY <2>3, SpotsAre, ThreadFacts, KindFacts DEF SpotValues, Producers
    <3>2. ASSUME NEW x \in C PROVE \E p \in Producers : x \in P["given"][p]
      <4>1. PICK p \in Producers : op[p] = "Run" /\ x = item[p]
        BY <2>2, <3>2
      <4> QED
        BY <3>1, <4>1
    <3>3. ASSUME NEW x, NEW p \in Producers, x \in P["given"][p] PROVE x \in C
      <4>1. op[p] = "Run" /\ x = item[p]
        BY <3>1, <3>3
      <4> QED
        BY <2>2, <4>1
    <3> QED
      BY <3>2, <3>3
  <2>8. \A x : x \in E <=> x \in AllTasks /\ \E k \in Done, t \in Holders : x \in P[k][t]
    BY <2>4 DEF DoneTasks
  <2>9. /\ \A x : x \in AllTasks <=> \E k \in Kinds, t \in Holders : x \in P[k][t]
        /\ \A x, k, l, t, u : k \in Kinds /\ l \in Kinds /\ t \in Holders /\ u \in Holders
              /\ x \in P[k][t] /\ x \in P[l][u] => k = l /\ t = u
    BY <2>4 DEF Partition
  <2>10. /\ A \cap B = {} /\ A \cap D = {} /\ A \cap F = {} /\ B \cap D = {}
         /\ B \cap F = {} /\ D \cap F = {}
    BY <2>5, <2>6, <2>9
  <2>11. A \cap C = {} /\ B \cap C = {} /\ C \cap D = {} /\ C \cap F = {}
    BY <2>5, <2>6, <2>7, <2>9
  <2>12. A \cap E = {} /\ B \cap E = {} /\ D \cap E = {} /\ E \cap F = {}
    BY <2>5, <2>6, <2>8, <2>9
  <2>13. C \cap E = {}
    BY <2>5, <2>7, <2>8, <2>9
  <2>14. AllTasks = A \cup B \cup C \cup D \cup E \cup F
    <3>1. ASSUME NEW x \in AllTasks PROVE x \in A \cup B \cup C \cup D \cup E \cup F
      <4>1. PICK k \in Kinds, t \in Holders : x \in P[k][t]
        BY <2>9
      <4>2. CASE k = "todo"
        BY <2>3, <2>6, <4>1, <4>2, SpotsAre DEF SpotValues, Producers
      <4>3. CASE k = "given"
        <5>1. t \in Threads /\ op[t] = "Run"
          BY <2>3, <4>1, <4>3, SpotsAre, KindFacts DEF SpotValues
        <5>2. op[t] \in PlacesOf(t)
          BY <5>1 DEF PoolInv, Types, OpsTyped
        <5>3. t \in Producers
          BY <5>1, <5>2, PlaceFacts, ThreadFacts DEF Producers
        <5> QED
          BY <2>7, <4>1, <4>3, <5>3
      <4>4. CASE k = "queue_" \/ k = "refused"
        BY <2>3, <2>6, <4>1, <4>4, SpotsAre, KindFacts DEF SpotValues, Shared
      <4>5. CASE k \in Done
        BY <2>8, <4>1, <4>5
      <4> QED
        BY <4>2, <4>3, <4>4, <4>5 DEF Kinds, Done
    <3>2. ASSUME NEW x \in A \cup B \cup C \cup D \cup E \cup F PROVE x \in AllTasks
      BY <2>5, <2>6, <2>7, <2>8, <2>9
    <3> QED
      BY <3>1, <3>2
  <2>15. LET s == <<A, B, C, D, E, F>> IN
         /\ UNION Range(s) = A \cup B \cup C \cup D \cup E \cup F
         /\ \A i, j \in DOMAIN s : i # j => s[i] \cap s[j] = {}
    BY <2>10, <2>11, <2>12, <2>13, SixSets
  <2>16. /\ Cardinality(Range(ran)) = Len(ran)
         /\ refused # {} => ~running_
         /\ Len(bounded) <= Capacity
         /\ max_queue_size_ > 0 => Len(queue_) <= max_queue_size_
         /\ \A t \in Threads, m \in Mutexes : holder_[m] = t => ~Waiting(t)
    BY DEF PoolInv, OnePlace, Limits, HoldersRight
  <2>17. LET s == <<A, B, C, D, E, F>> IN
         /\ AllTasks = UNION Range(s)
         /\ \A i, j \in DOMAIN s : i # j => s[i] \cap s[j] = {}
    BY <2>14, <2>15, Zenon
  <2>18. <<A, B, C, D, E, F>>
             = <<Range(todo[Main]), Range(todo[Other]),
                 {item[p] : p \in {q \in Producers : op[q] = "Run"}}, Range(queue_),
                 Range(ran), refused>>
    BY <2>2, Zenon
  <2>19. LET carried == {item[p] : p \in {q \in Producers : op[q] = "Run"}}
             places == <<Range(todo[Main]), Range(todo[Other]), carried, Range(queue_),
                         Range(ran), refused>>
         IN  /\ AllTasks = UNION Range(places)
             /\ \A i, j \in DOMAIN places : i # j => places[i] \cap places[j] = {}
    BY <2>17, <2>18, Zenon
  <2> QED
    BY <2>1, <2>16, <2>19, Zenon DEF TasksAccounted
<1> QED
  BY <1>1, InitHolds, StepKeeps, PTL DEF Spec

(* The latch opens for Main only when every task has been run and every     *)
(* result is there to be taken, for any number of workers and tasks.        *)
THEOREM LatchIsEnough == Spec => []LatchCoversResults
<1>1. PoolInv => LatchCoversResults
  <2> SUFFICES ASSUME PoolInv, op[Main] = "unbounded.Take"
               PROVE  /\ Range(ran) = AllTasks
                      /\ Range(got) \cup Range(unbounded) = AllTasks
                      /\ waits["unbounded.not_empty"] = {}
    BY DEF LatchCoversResults
  <2>1. Range(unbounded) \cup Range(got) = AllTasks /\ waits["unbounded.not_empty"] = {}
    BY DEF PoolInv, Counted
  <2>2. PICK P : P = Spots
    OBVIOUS
  <2>3. P["unbounded"][Nobody] = Range(unbounded) /\ P["got"][Nobody] = Range(got)
    BY <2>2, SpotsAre DEF SpotValues
  <2>4. "unbounded" \in Done /\ "got" \in Done /\ Nobody \in Holders
    BY KindFacts DEF Done
  <2>5. DoneTasks(P) = AllTasks
    BY <2>1, <2>3, <2>4 DEF DoneTasks
  <2>6. Range(ran) = DoneTasks(P)
    BY <2>2 DEF PoolInv, OnePlace
  <2> QED
    BY <2>1, <2>5, <2>6
<1> QED
  BY <1>1, InitHolds, StepKeeps, PTL DEF Spec
=============================================================================
