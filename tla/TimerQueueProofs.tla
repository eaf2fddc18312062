--------------------------- MODULE TimerQueueProofs ---------------------------
(***************************************************************************)
(* Proofs about TimerQueue, for any threads, any addresses and any bounds: *)
(* the two sets of timers agree, the timerfd never oversleeps and a        *)
(* cancelled timer does not come back.                                     *)
(***************************************************************************)
EXTENDS TimerQueue, SequenceTheorems, WellFoundedInduction, TLAPS

Request == [op : {"add", "cancel"}, id : Ids]

(* The timers whose AddTimerInLoop waits in the queue p: they are alive in  *)
(* the heap h, each waits once, in none of the sets of entries `held`, and  *)
(* none of them is in `lost`.                                               *)
WaitsIn(p, h, held, lost) ==
    /\ \A i \in DOMAIN p : p[i].op = "add" =>
         /\ h[p[i].id[1]] # Free /\ h[p[i].id[1]].seq = p[i].id[2]
         /\ \A e \in held : Address(e) # p[i].id[1]
         /\ p[i].id \notin lost
    /\ \A i, j \in DOMAIN p :
         p[i].op = "add" /\ p[j].op = "add" /\ p[i].id[1] = p[j].id[1] => i = j

(* No TimerId is ahead of the counter, so that a new timer's is new. *)
Numbered ==
    /\ \A a \in Addrs : heap[a] # Free => heap[a].seq \in 1 .. s_num_created_
    /\ \A id \in known \cup cancelled : id[2] <= s_num_created_
    /\ \A i \in DOMAIN pending : pending[i].id[2] <= s_num_created_

(* A timer cancelled while its batch runs is remembered until Reset. *)
CancelRemembered ==
    /\ ~calling_expired_timers_ => batch = {}
    /\ \A e \in batch : IdAt(Address(e), heap) \in cancelled \ overtaken =>
                            IdAt(Address(e), heap) \in canceling_timers_

TimerInv ==
    /\ SetsAgree /\ Numbered /\ CancelRemembered /\ CancelIsFinal
    /\ WaitsIn(pending, heap, timers_ \cup batch, cancelled \ overtaken)

-----------------------------------------------------------------------------
(* What Earliest returns. *)
LEMMA EarliestIsLeast ==
    ASSUME NEW S \in SUBSET (Nat \X Addrs), S # {}
    PROVE  /\ Earliest(S) \in Nat
           /\ \A e \in S : Earliest(S) <= Expiration(e)
           /\ \E e \in S : Earliest(S) = Expiration(e)
<1> DEFINE T == {Expiration(e) : e \in S}
<1>1. T \subseteq Nat /\ T # {}
  BY DEF Expiration
<1>2. \E x \in T : \A y \in T : ~ (<<y, x>> \in OpToRel(<, Nat))
  BY <1>1, WFMin, NatLessThanWellFounded
<1>3. \E x \in T : \A y \in T : x <= y
  <2> HIDE DEF T
  <2>1. \A x, y \in Nat : y < x => <<y, x>> \in OpToRel(<, Nat)
    BY DEF OpToRel
  <2>2. PICK x \in T : \A y \in T : ~ (<<y, x>> \in OpToRel(<, Nat))
    BY <1>2
  <2>3. \A y \in T : x \in Nat /\ y \in Nat /\ ~ (y < x)
    BY <1>1, <2>1, <2>2
  <2> QED
    BY <2>3
<1>4. Earliest(S) \in T /\ \A y \in T : Earliest(S) <= y
  <2> HIDE DEF T
  <2>1. Earliest(S) = CHOOSE x \in T : \A y \in T : x <= y
    BY DEF Earliest, Min, T
  <2> QED
    BY <1>3, <2>1
<1> QED
  BY <1>1, <1>4

(* The queue gives up its first request. *)
LEMMA TailWaits ==
    ASSUME NEW p \in Seq(Request), p # << >>, NEW h, NEW held, NEW lost,
           WaitsIn(p, h, held, lost)
    PROVE  /\ WaitsIn(Tail(p), h, held, lost)
           /\ Head(p) \in Request /\ Head(p) = p[1] /\ 1 \in DOMAIN p
           /\ Tail(p) \in Seq(Request)
           /\ \A i \in DOMAIN Tail(p) : /\ i + 1 \in DOMAIN p /\ Tail(p)[i] = p[i + 1]
                                        /\ i \in Nat \ {0}
<1>1. /\ Head(p) \in Request /\ Tail(p) \in Seq(Request) /\ Len(Tail(p)) = Len(p) - 1
      /\ \A i \in 1 .. Len(Tail(p)) : Tail(p)[i] = p[i + 1]
  BY HeadTailProperties
<1>2. Head(p) = p[1] /\ DOMAIN p = 1 .. Len(p) /\ Len(p) \in Nat /\ Len(p) # 0
  BY LenProperties, EmptySeq
<1>3. DOMAIN Tail(p) = 1 .. Len(p) - 1
  BY <1>1, LenProperties
<1>4. \A i \in DOMAIN Tail(p) : /\ i + 1 \in DOMAIN p /\ Tail(p)[i] = p[i + 1]
                                /\ i \in Nat \ {0}
  BY <1>1, <1>2, <1>3
<1>5. WaitsIn(Tail(p), h, held, lost)
  <2> HIDE DEF Request
  <2>1. ASSUME NEW i \in DOMAIN Tail(p), Tail(p)[i].op = "add"
        PROVE  /\ h[Tail(p)[i].id[1]] # Free /\ h[Tail(p)[i].id[1]].seq = Tail(p)[i].id[2]
               /\ \A e \in held : Address(e) # Tail(p)[i].id[1]
               /\ Tail(p)[i].id \notin lost
    BY <1>4, <2>1 DEF WaitsIn
  <2>2. ASSUME NEW i \in DOMAIN Tail(p), NEW j \in DOMAIN Tail(p),
               Tail(p)[i].op = "add", Tail(p)[j].op = "add",
               Tail(p)[i].id[1] = Tail(p)[j].id[1]
        PROVE  i = j
    <3>1. i + 1 = j + 1
      BY <1>4, <2>2 DEF WaitsIn
    <3> QED
      BY <1>4, <3>1
  <2> QED
    BY <2>1, <2>2 DEF WaitsIn
<1> QED
  BY <1>1, <1>2, <1>4, <1>5

(* A request joins the queue; an addition is of a timer that is new in it. *)
LEMMA AppendWaits ==
    ASSUME NEW p \in Seq(Request), NEW r \in Request, NEW h, NEW held, NEW lost,
           WaitsIn(p, h, held, lost),
           r.op = "add" =>
             /\ h[r.id[1]] # Free /\ h[r.id[1]].seq = r.id[2]
             /\ \A e \in held : Address(e) # r.id[1]
             /\ r.id \notin lost
             /\ \A i \in DOMAIN p : p[i].op = "add" => p[i].id[1] # r.id[1]
    PROVE  /\ WaitsIn(Append(p, r), h, held, lost)
           /\ Append(p, r) \in Seq(Request)
           /\ \A i \in DOMAIN Append(p, r) :
                Append(p, r)[i] = r \/ (i \in DOMAIN p /\ Append(p, r)[i] = p[i])
<1> DEFINE q == Append(p, r)
<1>1. /\ q \in Seq(Request) /\ Len(q) = Len(p) + 1 /\ q[Len(p) + 1] = r
      /\ \A i \in 1 .. Len(p) : q[i] = p[i]
  BY AppendProperties
<1>2. DOMAIN p = 1 .. Len(p) /\ Len(p) \in Nat
  BY LenProperties
<1>3. DOMAIN q = 1 .. Len(p) + 1
  BY <1>1, LenProperties
<1> HIDE DEF q, Request
<1>4. \A i \in DOMAIN q : \/ i = Len(p) + 1 /\ q[i] = r
                          \/ i \in DOMAIN p /\ q[i] = p[i]
  BY <1>1, <1>2, <1>3
<1>5. ASSUME NEW i \in DOMAIN q, q[i].op = "add"
      PROVE  /\ h[q[i].id[1]] # Free /\ h[q[i].id[1]].seq = q[i].id[2]
             /\ \A e \in held : Address(e) # q[i].id[1]
             /\ q[i].id \notin lost
  BY <1>4, <1>5 DEF WaitsIn
<1>6. ASSUME NEW i \in DOMAIN q, NEW j \in DOMAIN q, q[i].op = "add", q[j].op = "add",
             q[i].id[1] = q[j].id[1]
      PROVE  i = j
  BY <1>4, <1>6 DEF WaitsIn
<1>7. WaitsIn(q, h, held, lost)
  BY <1>5, <1>6 DEF WaitsIn
<1> QED
  BY <1>1, <1>4, <1>7 DEF q
-----------------------------------------------------------------------------
(* An entry is known by its address: no timer is filed twice. *)
LEMMA OneEntryEach ==
    ASSUME SetsAgree
    PROVE  /\ \A e \in timers_ : e = <<heap[Address(e)].exp, Address(e)>> /\ Address(e) \in Addrs
           /\ \A e \in batch : e = <<heap[Address(e)].exp, Address(e)>> /\ Address(e) \in Addrs
           /\ \A e, f \in timers_ : Address(e) = Address(f) => e = f
           /\ \A e, f \in batch : Address(e) = Address(f) => e = f
<1>1. timers_ \subseteq Nat \X Addrs /\ batch \subseteq Nat \X Addrs
  BY DEF SetsAgree, TypeOK
<1>2. /\ \A e \in timers_ : e = <<heap[Address(e)].exp, Address(e)>> /\ Address(e) \in Addrs
      /\ \A e \in batch : e = <<heap[Address(e)].exp, Address(e)>> /\ Address(e) \in Addrs
  BY <1>1 DEF SetsAgree, BatchIsAlive, Address, Expiration
<1> QED
  BY <1>2

(* ResetTimerfd leaves the timerfd armed. *)
LEMMA ResetArms ==
    ASSUME NEW when \in Nat, now \in Nat, ResetTimerfd(when)
    PROVE  armed' \in Nat /\ readable' = FALSE /\ (armed' <= when \/ armed' <= now + 1)
  BY DEF ResetTimerfd

(* AddTimerInLoop of a timer that is in neither set. *)
LEMMA AddKeeps ==
    ASSUME TimerInv, NEW a \in Addrs, heap' \in [Addrs -> Timers], AddTimerInLoop(a, heap'),
           heap'[a] # Free, \A b \in Addrs \ {a} : heap'[b] = heap[b],
           \A e \in timers_ \cup batch : Address(e) # a,
           IdAt(a, heap') \notin cancelled \ overtaken,
           UNCHANGED <<now, batch>>
    PROVE  /\ timers_' = timers_ \cup {<<heap'[a].exp, a>>}
           /\ timers_' \in SUBSET (Nat \X Addrs) /\ active_timers_' \in SUBSET Ids
           /\ armed' \in Nat \cup {Disarmed} /\ readable' \in BOOLEAN
           /\ BatchIsAlive'
           /\ \A e \in timers_' : heap'[Address(e)] # Free
                                  /\ heap'[Address(e)].exp = Expiration(e)
           /\ active_timers_' = {IdAt(Address(e), heap') : e \in timers_'}
           /\ active_timers_' \cap (cancelled \ overtaken) = {}
<1> DEFINE new == <<heap'[a].exp, a>>
<1>1. /\ timers_' = timers_ \cup {new} /\ active_timers_' = active_timers_ \cup {IdAt(a, heap')}
      /\ IF EarliestChanged(heap'[a].exp) THEN ResetTimerfd(heap'[a].exp) ELSE UNCHANGED fdVars
  BY DEF AddTimerInLoop
<1>2. /\ heap'[a] \in Timers /\ heap'[a].exp \in Nat /\ IdAt(a, heap') \in Ids
  BY DEF Timers, IdAt, Ids
<1>3. /\ SetsAgree /\ CancelIsFinal /\ now \in Nat /\ armed \in Nat \cup {Disarmed}
      /\ readable \in BOOLEAN /\ timers_ \in SUBSET (Nat \X Addrs)
      /\ active_timers_ \in SUBSET Ids /\ BatchIsAlive
  BY DEF TimerInv, SetsAgree, TypeOK
<1>4. armed' \in Nat \cup {Disarmed} /\ readable' \in BOOLEAN
  <2>1. CASE EarliestChanged(heap'[a].exp)
    BY <1>1, <1>2, <1>3, <2>1, ResetArms
  <2>2. CASE ~EarliestChanged(heap'[a].exp)
    BY <1>1, <1>3, <2>2 DEF fdVars
  <2> QED
    BY <2>1, <2>2
<1>5. Address(new) = a /\ Expiration(new) = heap'[a].exp /\ new \in Nat \X Addrs
  BY <1>2 DEF Address, Expiration
<1>6. \A e \in timers_ \cup batch : Address(e) \in Addrs /\ heap'[Address(e)] = heap[Address(e)]
  BY <1>3, OneEntryEach
<1> HIDE DEF new
<1>7. BatchIsAlive'
  BY <1>1, <1>3, <1>5, <1>6 DEF BatchIsAlive
<1>8. \A e \in timers_' : heap'[Address(e)] # Free /\ heap'[Address(e)].exp = Expiration(e)
  BY <1>1, <1>3, <1>5, <1>6 DEF SetsAgree
<1>9. \A e \in timers_ : IdAt(Address(e), heap') = IdAt(Address(e), heap)
  BY <1>6 DEF IdAt
<1>10. active_timers_' = {IdAt(Address(e), heap') : e \in timers_'}
  BY <1>1, <1>3, <1>5, <1>9 DEF SetsAgree
<1>11. active_timers_' \cap (cancelled \ overtaken) = {}
  BY <1>1, <1>3 DEF CancelIsFinal
<1> QED
  BY <1>1, <1>2, <1>3, <1>4, <1>5, <1>7, <1>8, <1>10, <1>11 DEF new

(* CancelInLoop, called by a callback or from the queue. *)
LEMMA CancelKeeps ==
    ASSUME TimerInv, NEW id \in Ids, id[2] <= s_num_created_, CancelInLoop(id),
           UNCHANGED <<now, s_num_created_, handleVars>>
    PROVE  /\ heap' \in [Addrs -> Timers] /\ timers_' \in SUBSET (Nat \X Addrs)
           /\ active_timers_' \in SUBSET Ids /\ canceling_timers_' \in SUBSET Ids
           /\ cancelled' \in SUBSET Ids /\ overtaken' \in SUBSET cancelled'
           /\ BatchIsAlive'
           /\ \A e \in timers_' : heap'[Address(e)] # Free
                                  /\ heap'[Address(e)].exp = Expiration(e)
           /\ active_timers_' = {IdAt(Address(e), heap') : e \in timers_'}
           /\ \A a \in Addrs : heap'[a] # Free => heap'[a].seq \in 1 .. s_num_created_
           /\ \A i \in cancelled' : i[2] <= s_num_created_
           /\ CancelRemembered' /\ CancelIsFinal'
           /\ WaitsIn(pending, heap', timers_' \cup batch', cancelled' \ overtaken')
<1>1. /\ SetsAgree /\ CancelIsFinal /\ BatchIsAlive /\ Numbered /\ CancelRemembered
      /\ heap \in [Addrs -> Timers] /\ timers_ \in SUBSET (Nat \X Addrs)
      /\ active_timers_ \in SUBSET Ids /\ canceling_timers_ \in SUBSET Ids
      /\ cancelled \in SUBSET Ids /\ overtaken \in SUBSET cancelled
      /\ WaitsIn(pending, heap, timers_ \cup batch, cancelled \ overtaken)
      /\ calling_expired_timers_ \in BOOLEAN
  BY DEF TimerInv, SetsAgree, TypeOK
<1>2. /\ now' = now /\ batch' = batch /\ calling_expired_timers_' = calling_expired_timers_
      /\ s_num_created_' = s_num_created_
  BY DEF handleVars
<1>3. /\ cancelled' = cancelled \cup {id}
      /\ overtaken' = IF \E i \in DOMAIN pending : IsAdd(pending[i], id)
                      THEN overtaken \cup {id} ELSE overtaken
  BY DEF CancelInLoop, Remember
<1>4. /\ cancelled' \in SUBSET Ids /\ overtaken' \in SUBSET cancelled'
      /\ \A i \in cancelled' : i[2] <= s_num_created_
      /\ cancelled' \ overtaken' \subseteq (cancelled \ overtaken) \cup {id}
  BY <1>1, <1>3 DEF Numbered
<1>5. \A i \in DOMAIN pending : pending[i].op = "add" /\ pending[i].id = id =>
            id \notin cancelled' \ overtaken'
  BY <1>3 DEF IsAdd
<1>6. CASE id \in active_timers_
  <2>1. PICK e \in timers_ : id = IdAt(Address(e), heap)
    BY <1>1, <1>6 DEF SetsAgree
  <2>2. e = <<heap[id[1]].exp, id[1]>> /\ id[1] = Address(e) /\ id[1] \in Addrs
        /\ id[2] = heap[id[1]].seq
    BY <1>1, <2>1, OneEntryEach DEF IdAt
  <2>3. /\ timers_' = timers_ \ {e} /\ active_timers_' = active_timers_ \ {id}
        /\ heap' = [heap EXCEPT ![id[1]] = Free] /\ canceling_timers_' = canceling_timers_
    BY <1>6, <2>2 DEF CancelInLoop
  <2>4. Free \in Timers
    BY TimerAssumption DEF Free, Timers
  <2>5. /\ heap' \in [Addrs -> Timers] /\ heap'[id[1]] = Free
        /\ \A a \in Addrs \ {id[1]} : heap'[a] = heap[a]
    BY <1>1, <2>2, <2>3, <2>4
  <2>6. \A f \in timers_ \ {e} : Address(f) # id[1] /\ Address(f) \in Addrs
    BY <1>1, <2>2, OneEntryEach
  <2>7. \A f \in batch : Address(f) # id[1] /\ Address(f) \in Addrs
    BY <1>1, <2>2, OneEntryEach DEF BatchIsAlive
  <2>8. BatchIsAlive'
    BY <1>1, <1>2, <2>3, <2>5, <2>7 DEF BatchIsAlive
  <2>9. \A f \in timers_' : heap'[Address(f)] # Free /\ heap'[Address(f)].exp = Expiration(f)
    BY <1>1, <2>3, <2>5, <2>6 DEF SetsAgree
  <2>10. /\ \A f \in timers_ \ {e} : IdAt(Address(f), heap') = IdAt(Address(f), heap)
                                    /\ IdAt(Address(f), heap) # id
         /\ \A f \in batch : IdAt(Address(f), heap') = IdAt(Address(f), heap)
                             /\ IdAt(Address(f), heap) # id
    BY <2>5, <2>6, <2>7 DEF IdAt
  <2>11. active_timers_' = {IdAt(Address(f), heap') : f \in timers_'}
    BY <1>1, <2>1, <2>3, <2>10 DEF SetsAgree
  <2>12. \A a \in Addrs : heap'[a] # Free => heap'[a].seq \in 1 .. s_num_created_
    BY <1>1, <2>5 DEF Numbered
  <2>13. CancelIsFinal'
    BY <1>1, <1>4, <2>3 DEF CancelIsFinal
  <2>14. CancelRemembered'
    <3>1. ~calling_expired_timers_' => batch' = {}
      BY <1>1, <1>2 DEF CancelRemembered
    <3>2. ASSUME NEW f \in batch', IdAt(Address(f), heap') \in cancelled' \ overtaken'
          PROVE  IdAt(Address(f), heap') \in canceling_timers_'
      BY <1>1, <1>2, <1>4, <2>3, <2>10, <3>2 DEF CancelRemembered
    <3> QED
      BY <3>1, <3>2 DEF CancelRemembered
  <2>15. WaitsIn(pending, heap', timers_' \cup batch', cancelled' \ overtaken')
    <3>1. ASSUME NEW i \in DOMAIN pending, pending[i].op = "add"
          PROVE  /\ heap'[pending[i].id[1]] = heap[pending[i].id[1]]
                 /\ pending[i].id \notin cancelled' \ overtaken'
      <4>1. pending[i].id[1] # id[1] /\ pending[i].id \notin cancelled \ overtaken
        BY <1>1, <2>2, <3>1 DEF WaitsIn
      <4>2. heap'[pending[i].id[1]] = heap[pending[i].id[1]]
        BY <2>3, <4>1
      <4> QED
        BY <1>4, <4>1, <4>2
    <3> QED
      BY <1>1, <1>2, <2>3, <3>1 DEF WaitsIn
  <2> QED
    BY <1>1, <1>4, <2>3, <2>5, <2>8, <2>9, <2>11, <2>12, <2>13, <2>14, <2>15
<1>7. CASE id \notin active_timers_
  <2>1. /\ canceling_timers_' = IF calling_expired_timers_
                                THEN canceling_timers_ \cup {id} ELSE canceling_timers_
        /\ timers_' = timers_ /\ active_timers_' = active_timers_ /\ heap' = heap
    BY <1>7 DEF CancelInLoop, setVars
  <2>2. BatchIsAlive'
    BY <1>1, <1>2, <2>1 DEF BatchIsAlive
  <2>3. CancelIsFinal'
    BY <1>1, <1>4, <1>7, <2>1 DEF CancelIsFinal
  <2>4. CancelRemembered'
    <3>1. ~calling_expired_timers_' => batch' = {}
      BY <1>1, <1>2 DEF CancelRemembered
    <3>2. ASSUME NEW f \in batch', IdAt(Address(f), heap') \in cancelled' \ overtaken'
          PROVE  IdAt(Address(f), heap') \in canceling_timers_'
      <4>1. calling_expired_timers_
        BY <1>2, <3>1, <3>2
      <4> QED
        BY <1>1, <1>2, <1>4, <2>1, <3>2, <4>1 DEF CancelRemembered
    <3> QED
      BY <3>1, <3>2 DEF CancelRemembered
  <2>5. WaitsIn(pending, heap', timers_' \cup batch', cancelled' \ overtaken')
    BY <1>1, <1>2, <1>4, <1>5, <2>1 DEF WaitsIn
  <2>6. \A e \in timers_' : heap'[Address(e)] # Free /\ heap'[Address(e)].exp = Expiration(e)
    BY <1>1, <2>1 DEF SetsAgree
  <2>7. active_timers_' = {IdAt(Address(e), heap') : e \in timers_'}
    BY <1>1, <2>1 DEF SetsAgree
  <2>8. \A a \in Addrs : heap'[a] # Free => heap'[a].seq \in 1 .. s_num_created_
    BY <1>1, <2>1 DEF Numbered
  <2>9. canceling_timers_' \in SUBSET Ids
    BY <1>1, <2>1
  <2> QED
    BY <1>1, <1>4, <2>1, <2>2, <2>3, <2>4, <2>5, <2>6, <2>7, <2>8, <2>9
<1> QED
  BY <1>6, <1>7
-----------------------------------------------------------------------------
(* A new timer: the addresses in use, the sets and the queue do not know it. *)
LEMMA NewTimerIsNew ==
    ASSUME TimerInv, NEW a \in Addrs, NEW when \in 1 .. MaxTime, NEW i \in Intervals,
           NewTimer(a, when, i)
    PROVE  /\ heap' \in [Addrs -> Timers] /\ heap'[a] # Free
           /\ \A b \in Addrs \ {a} : heap'[b] = heap[b]
           /\ s_num_created_' \in 0 .. MaxTimers /\ s_num_created_' = s_num_created_ + 1
           /\ IdAt(a, heap') = <<a, s_num_created_'>> /\ IdAt(a, heap') \in Ids
           /\ IdAt(a, heap') \notin cancelled
           /\ \A e \in timers_ \cup batch :
                Address(e) # a /\ Address(e) \in Addrs
                /\ IdAt(Address(e), heap') = IdAt(Address(e), heap)
           /\ \A b \in Addrs : heap'[b] # Free => heap'[b].seq \in 1 .. s_num_created_'
           /\ WaitsIn(pending, heap', timers_ \cup batch, cancelled \ overtaken)
           /\ \A k \in DOMAIN pending : pending[k].op = "add" => pending[k].id[1] # a
<1>1. /\ SetsAgree /\ Numbered /\ BatchIsAlive /\ heap \in [Addrs -> Timers]
      /\ s_num_created_ \in 0 .. MaxTimers
      /\ WaitsIn(pending, heap, timers_ \cup batch, cancelled \ overtaken)
      /\ MaxTimers \in Nat /\ Intervals \subseteq Nat /\ MaxTime \in Nat
  BY TimerAssumption DEF TimerInv, SetsAgree, TypeOK
<1>2. /\ heap[a] = Free /\ s_num_created_ < MaxTimers /\ s_num_created_' = s_num_created_ + 1
      /\ heap' = [heap EXCEPT ![a] = [seq |-> s_num_created_ + 1, exp |-> when,
                                      interval |-> i]]
  BY DEF NewTimer
<1>3. s_num_created_' \in 0 .. MaxTimers
  BY <1>1, <1>2
<1> DEFINE new == [seq |-> s_num_created_ + 1, exp |-> when, interval |-> i]
<1>4. new \in Timers /\ new.seq = s_num_created_' /\ new # Free
  <2>1. new \in Timers
    BY <1>1, <1>2, <1>3 DEF Timers
  <2>2. new.seq # Free.seq
    BY <1>1 DEF Free
  <2> QED
    BY <1>2, <2>1, <2>2
<1> HIDE DEF new
<1>5. /\ heap' = [heap EXCEPT ![a] = new] /\ heap' \in [Addrs -> Timers] /\ heap'[a] = new
      /\ \A b \in Addrs \ {a} : heap'[b] = heap[b]
  BY <1>1, <1>2, <1>4 DEF new
<1>6. IdAt(a, heap') = <<a, s_num_created_'>> /\ IdAt(a, heap') \in Ids
  BY <1>3, <1>4, <1>5 DEF IdAt, Ids
<1>7. IdAt(a, heap') \notin cancelled
  BY <1>1, <1>2, <1>6 DEF Numbered
<1>8. \A e \in timers_ \cup batch :
         Address(e) # a /\ Address(e) \in Addrs
         /\ IdAt(Address(e), heap') = IdAt(Address(e), heap)
  <2>1. \A e \in timers_ \cup batch : Address(e) # a /\ Address(e) \in Addrs
    BY <1>1, <1>2, OneEntryEach DEF SetsAgree, BatchIsAlive
  <2> QED
    BY <1>5, <2>1 DEF IdAt
<1>9. \A b \in Addrs : heap'[b] # Free => heap'[b].seq \in 1 .. s_num_created_'
  <2> SUFFICES ASSUME NEW b \in Addrs, heap'[b] # Free
               PROVE  heap'[b].seq \in 1 .. s_num_created_'
    OBVIOUS
  <2>1. CASE b = a
    BY <1>1, <1>2, <1>4, <1>5, <2>1
  <2>2. CASE b # a
    <3>1. heap[b].seq \in 1 .. s_num_created_
      BY <1>1, <1>5, <2>2 DEF Numbered
    <3> QED
      BY <1>1, <1>2, <1>5, <2>2, <3>1
  <2> QED
    BY <2>1, <2>2
<1>10. \A k \in DOMAIN pending : pending[k].op = "add" => pending[k].id[1] # a
  BY <1>1, <1>2 DEF WaitsIn
<1>11. WaitsIn(pending, heap', timers_ \cup batch, cancelled \ overtaken)
  <2>1. \A k \in DOMAIN pending : pending[k].op = "add" =>
                heap'[pending[k].id[1]] = heap[pending[k].id[1]]
    BY <1>5, <1>10
  <2> QED
    BY <1>1, <2>1 DEF WaitsIn
<1> QED
  BY <1>2, <1>3, <1>4, <1>5, <1>6, <1>7, <1>8, <1>9, <1>10, <1>11

LEMMA AddTimerHereStep ==
    ASSUME TimerInv, NEW a \in Addrs, NEW when \in 1 .. MaxTime, NEW i \in Intervals,
           AddTimerHere(a, when, i)
    PROVE  TimerInv'
<1>1. /\ NewTimer(a, when, i) /\ AddTimerInLoop(a, heap')
      /\ known' = known \cup {IdAt(a, heap')}
      /\ UNCHANGED <<now, calling_expired_timers_, expired, batch, handle_now, pending, tpc,
                     canceling_timers_, cancelled, overtaken>>
  BY DEF AddTimerHere, handleVars, cancelVars
<1>2. /\ heap' \in [Addrs -> Timers] /\ heap'[a] # Free
      /\ \A b \in Addrs \ {a} : heap'[b] = heap[b]
      /\ s_num_created_' \in 0 .. MaxTimers /\ s_num_created_' = s_num_created_ + 1
      /\ IdAt(a, heap') = <<a, s_num_created_'>> /\ IdAt(a, heap') \in Ids
      /\ IdAt(a, heap') \notin cancelled
      /\ \A e \in timers_ \cup batch : Address(e) # a
                /\ IdAt(Address(e), heap') = IdAt(Address(e), heap)
      /\ \A b \in Addrs : heap'[b] # Free => heap'[b].seq \in 1 .. s_num_created_'
      /\ WaitsIn(pending, heap', timers_ \cup batch, cancelled \ overtaken)
      /\ \A k \in DOMAIN pending : pending[k].op = "add" => pending[k].id[1] # a
  BY <1>1, NewTimerIsNew
<1>3. /\ timers_' = timers_ \cup {<<heap'[a].exp, a>>}
      /\ timers_' \in SUBSET (Nat \X Addrs) /\ active_timers_' \in SUBSET Ids
      /\ armed' \in Nat \cup {Disarmed} /\ readable' \in BOOLEAN
      /\ BatchIsAlive'
      /\ \A e \in timers_' : heap'[Address(e)] # Free /\ heap'[Address(e)].exp = Expiration(e)
      /\ active_timers_' = {IdAt(Address(e), heap') : e \in timers_'}
      /\ active_timers_' \cap (cancelled \ overtaken) = {}
  BY <1>1, <1>2, AddKeeps
<1>4. TypeOK'
  BY <1>1, <1>2, <1>3 DEF TimerInv, SetsAgree, TypeOK
<1>5. SetsAgree'
  BY <1>3, <1>4 DEF SetsAgree
<1>6. Numbered'
  <2>1. /\ \A id \in known \cup cancelled : id[2] <= s_num_created_ /\ id[2] \in Nat
        /\ s_num_created_ \in Nat
        /\ \A k \in DOMAIN pending : pending[k].id[2] <= s_num_created_
                                     /\ pending[k].id[2] \in Nat
    <3>1. known \subseteq Ids /\ cancelled \subseteq Ids /\ pending \in Seq(Request)
          /\ s_num_created_ \in Nat
      BY TimerAssumption DEF TimerInv, SetsAgree, TypeOK, Request
    <3>2. \A k \in DOMAIN pending : pending[k].id \in Ids
      <4>1. \A k \in DOMAIN pending : pending[k] \in Request
        <5> HIDE DEF Request
        <5> QED
          BY <3>1, ElementOfSeq, LenProperties
      <4> QED
        BY <4>1 DEF Request
    <3> QED
      BY <3>1, <3>2, TimerAssumption DEF Ids, TimerInv, Numbered
  <2>2. IdAt(a, heap')[2] <= s_num_created_'
    BY <1>2, <2>1
  <2> QED
    BY <1>1, <1>2, <2>1, <2>2 DEF Numbered
<1>7. CancelRemembered'
  BY <1>1, <1>2 DEF TimerInv, CancelRemembered
<1>8. CancelIsFinal'
  BY <1>1, <1>3 DEF CancelIsFinal
<1>9. WaitsIn(pending, heap', timers_' \cup batch, cancelled \ overtaken)
  <2>1. Address(<<heap'[a].exp, a>>) = a
    BY DEF Address
  <2> QED
    BY <1>2, <1>3, <2>1 DEF WaitsIn
<1> QED
  BY <1>1, <1>5, <1>6, <1>7, <1>8, <1>9 DEF TimerInv

LEMMA CancelHereStep ==
    ASSUME TimerInv, NEW id \in known, CancelHere(id)
    PROVE  TimerInv'
<1>1. /\ id \in Ids /\ id[2] <= s_num_created_
      /\ CancelInLoop(id)
      /\ UNCHANGED <<now, s_num_created_, armed, readable, calling_expired_timers_, expired,
                     batch, handle_now, pending, tpc, known>>
      /\ UNCHANGED handleVars
  BY DEF CancelHere, TimerInv, Numbered, SetsAgree, TypeOK, fdVars, handleVars, userVars
<1>2. /\ heap' \in [Addrs -> Timers] /\ timers_' \in SUBSET (Nat \X Addrs)
      /\ active_timers_' \in SUBSET Ids /\ canceling_timers_' \in SUBSET Ids
      /\ cancelled' \in SUBSET Ids /\ overtaken' \in SUBSET cancelled'
      /\ BatchIsAlive'
      /\ \A e \in timers_' : heap'[Address(e)] # Free /\ heap'[Address(e)].exp = Expiration(e)
      /\ active_timers_' = {IdAt(Address(e), heap') : e \in timers_'}
      /\ \A a \in Addrs : heap'[a] # Free => heap'[a].seq \in 1 .. s_num_created_
      /\ \A i \in cancelled' : i[2] <= s_num_created_
      /\ CancelRemembered' /\ CancelIsFinal'
      /\ WaitsIn(pending, heap', timers_' \cup batch', cancelled' \ overtaken')
  BY <1>1, CancelKeeps
<1>3. TypeOK'
  BY <1>1, <1>2 DEF TimerInv, SetsAgree, TypeOK
<1>4. SetsAgree'
  BY <1>2, <1>3 DEF SetsAgree
<1>5. Numbered'
  BY <1>1, <1>2 DEF TimerInv, Numbered
<1> QED
  BY <1>1, <1>2, <1>4, <1>5 DEF TimerInv

LEMMA RunPendingStep ==
    ASSUME TimerInv, RunPending
    PROVE  TimerInv'
<1>1. /\ ~calling_expired_timers_ /\ pending # << >> /\ pending' = Tail(pending)
      /\ UNCHANGED <<now, s_num_created_, calling_expired_timers_, expired, batch, handle_now,
                     tpc, known>>
      /\ UNCHANGED handleVars
      /\ pending \in Seq(Request)
      /\ WaitsIn(pending, heap, timers_ \cup batch, cancelled \ overtaken)
  BY DEF RunPending, handleVars, userVars, TimerInv, SetsAgree, TypeOK, Request
<1>2. /\ Head(pending) \in Request /\ Head(pending) = pending[1] /\ 1 \in DOMAIN pending
      /\ pending' \in Seq(Request)
      /\ \A i \in DOMAIN pending' : /\ i + 1 \in DOMAIN pending /\ pending'[i] = pending[i + 1]
                                    /\ i \in Nat \ {0}
  <2> HIDE DEF Request
  <2> QED
    BY <1>1, TailWaits
<1> DEFINE f == Head(pending)
<1>3. CASE f.op = "add" /\ AddTimerInLoop(f.id[1], heap) /\ UNCHANGED <<heap, cancelVars>>
  <2> DEFINE a == f.id[1]
  <2>1. /\ a \in Addrs /\ heap' = heap /\ AddTimerInLoop(a, heap')
        /\ UNCHANGED <<canceling_timers_, cancelled, overtaken>>
        /\ heap' \in [Addrs -> Timers]
    <3>1. f.id \in Ids
      BY <1>2 DEF Request
    <3>2. a \in Addrs
      BY <3>1 DEF Ids
    <3>3. heap' = heap /\ UNCHANGED <<canceling_timers_, cancelled, overtaken>>
      BY <1>3 DEF cancelVars
    <3>4. AddTimerInLoop(a, heap')
      BY <1>3, <3>3 DEF AddTimerInLoop
    <3>5. heap \in [Addrs -> Timers]
      BY DEF TimerInv, SetsAgree, TypeOK
    <3> QED
      BY <3>2, <3>3, <3>4, <3>5
  <2>2. /\ heap[a] # Free /\ heap[a].seq = f.id[2]
        /\ \A e \in timers_ \cup batch : Address(e) # a
        /\ f.id \notin cancelled \ overtaken
    BY <1>1, <1>2, <1>3 DEF WaitsIn
  <2>3. IdAt(a, heap') = f.id
    <3>1. f.id \in Addrs \X (0 .. MaxTimers)
      BY <1>2 DEF Request, Ids
    <3> QED
      BY <2>1, <2>2, <3>1 DEF IdAt
  <2>4. /\ timers_' = timers_ \cup {<<heap'[a].exp, a>>}
        /\ timers_' \in SUBSET (Nat \X Addrs) /\ active_timers_' \in SUBSET Ids
        /\ armed' \in Nat \cup {Disarmed} /\ readable' \in BOOLEAN
        /\ BatchIsAlive'
        /\ \A e \in timers_' : heap'[Address(e)] # Free /\ heap'[Address(e)].exp = Expiration(e)
        /\ active_timers_' = {IdAt(Address(e), heap') : e \in timers_'}
        /\ active_timers_' \cap (cancelled \ overtaken) = {}
    <3>1. /\ heap'[a] # Free /\ \A b \in Addrs \ {a} : heap'[b] = heap[b]
          /\ IdAt(a, heap') \notin cancelled \ overtaken /\ UNCHANGED <<now, batch>>
      BY <1>1, <2>1, <2>2, <2>3
    <3> HIDE DEF a, f
    <3> QED
      BY <2>1, <2>2, <3>1, AddKeeps
  <2>5. TypeOK'
    BY <1>1, <1>2, <2>1, <2>4 DEF TimerInv, SetsAgree, TypeOK, Request
  <2>6. SetsAgree'
    BY <2>4, <2>5 DEF SetsAgree
  <2>7. Numbered'
    BY <1>1, <1>2, <2>1 DEF TimerInv, Numbered
  <2>8. CancelRemembered' /\ CancelIsFinal'
    BY <1>1, <2>1, <2>4 DEF TimerInv, CancelRemembered, CancelIsFinal
  <2>9. WaitsIn(pending', heap, timers_ \cup batch, cancelled \ overtaken)
    <3> HIDE DEF Request
    <3> QED
      BY <1>1, TailWaits
  <2>10. \A i \in DOMAIN pending' : pending'[i].op = "add" => pending'[i].id[1] # a
    <3> SUFFICES ASSUME NEW i \in DOMAIN pending', pending'[i].op = "add",
                        pending'[i].id[1] = a
                 PROVE  FALSE
      OBVIOUS
    <3>1. i + 1 = 1
      BY <1>1, <1>2, <1>3 DEF WaitsIn
    <3> QED
      BY <1>2, <3>1
  <2>11. WaitsIn(pending', heap', timers_' \cup batch', cancelled' \ overtaken')
    <3>1. Address(<<heap'[a].exp, a>>) = a
      BY DEF Address
    <3> HIDE DEF a, f
    <3>2. /\ heap' = heap /\ cancelled' \ overtaken' = cancelled \ overtaken
          /\ \A e \in timers_' \cup batch' : e \in timers_ \cup batch \/ Address(e) = a
      BY <1>1, <2>1, <2>4, <3>1
    <3> QED
      BY <2>9, <2>10, <3>2 DEF WaitsIn
  <2> QED
    BY <2>6, <2>7, <2>8, <2>11 DEF TimerInv
<1>4. CASE f.op = "cancel" /\ CancelInLoop(f.id) /\ UNCHANGED fdVars
  <2> DEFINE id == f.id
  <2>1. /\ id \in Ids /\ id[2] <= s_num_created_ /\ UNCHANGED <<armed, readable>>
        /\ CancelInLoop(id)
    BY <1>2, <1>4 DEF Request, TimerInv, Numbered, fdVars
  <2> HIDE DEF id
  <2>2. /\ heap' \in [Addrs -> Timers] /\ timers_' \in SUBSET (Nat \X Addrs)
        /\ active_timers_' \in SUBSET Ids /\ canceling_timers_' \in SUBSET Ids
        /\ cancelled' \in SUBSET Ids /\ overtaken' \in SUBSET cancelled'
        /\ BatchIsAlive'
        /\ \A e \in timers_' : heap'[Address(e)] # Free /\ heap'[Address(e)].exp = Expiration(e)
        /\ active_timers_' = {IdAt(Address(e), heap') : e \in timers_'}
        /\ \A a \in Addrs : heap'[a] # Free => heap'[a].seq \in 1 .. s_num_created_
        /\ \A i \in cancelled' : i[2] <= s_num_created_
        /\ CancelRemembered' /\ CancelIsFinal'
        /\ WaitsIn(pending, heap', timers_' \cup batch', cancelled' \ overtaken')
    BY <1>1, <2>1, CancelKeeps
  <2>3. TypeOK'
    BY <1>1, <1>2, <2>1, <2>2 DEF TimerInv, SetsAgree, TypeOK, Request
  <2>4. SetsAgree'
    BY <2>2, <2>3 DEF SetsAgree
  <2>5. Numbered'
    BY <1>1, <1>2, <2>2 DEF TimerInv, Numbered
  <2>6. WaitsIn(pending', heap', timers_' \cup batch', cancelled' \ overtaken')
    <3> HIDE DEF Request
    <3> QED
      BY <1>1, <2>2, TailWaits
  <2> QED
    BY <2>2, <2>4, <2>5, <2>6 DEF TimerInv
<1> QED
  BY <1>3, <1>4 DEF RunPending
LEMMA HandleReadStep ==
    ASSUME TimerInv, HandleRead
    PROVE  TimerInv'
<1>1. /\ readable' = FALSE /\ handle_now' = now /\ expired' = Due /\ batch' = Due
      /\ timers_' = timers_ \ Due
      /\ active_timers_' = active_timers_ \ {IdAt(Address(e), heap) : e \in Due}
      /\ calling_expired_timers_' = TRUE /\ canceling_timers_' = {}
      /\ UNCHANGED <<now, heap, s_num_created_, armed, pending, tpc, known, cancelled, overtaken>>
  BY DEF HandleRead, heapVars, userVars
<1>2. Due \subseteq timers_ /\ \A e \in Due : Expiration(e) <= now
  BY DEF Due
<1>3. SetsAgree /\ CancelIsFinal
      /\ WaitsIn(pending, heap, timers_ \cup batch, cancelled \ overtaken)
  BY DEF TimerInv
<1>4. TypeOK'
  BY <1>1, <1>2, <1>3 DEF SetsAgree, TypeOK
<1>5. BatchIsAlive'
  BY <1>1, <1>2, <1>3, OneEntryEach DEF SetsAgree, BatchIsAlive
<1>6. \A e \in timers_' : heap'[Address(e)] # Free /\ heap'[Address(e)].exp = Expiration(e)
  BY <1>1, <1>3 DEF SetsAgree
<1>7. active_timers_' = {IdAt(Address(e), heap') : e \in timers_'}
  <2>1. \A e, f \in timers_ : IdAt(Address(e), heap) = IdAt(Address(f), heap) => e = f
    BY <1>3, OneEntryEach DEF IdAt
  <2> QED
    BY <1>1, <1>2, <1>3, <2>1 DEF SetsAgree
<1>8. CancelRemembered'
  <2>1. \A e \in Due : IdAt(Address(e), heap) \in active_timers_
    BY <1>2, <1>3 DEF SetsAgree
  <2> QED
    BY <1>1, <1>3, <2>1 DEF CancelRemembered, CancelIsFinal
<1>9. CancelIsFinal' /\ Numbered'
  BY <1>1, <1>3 DEF CancelIsFinal, Numbered, TimerInv
<1>10. WaitsIn(pending', heap', timers_' \cup batch', cancelled' \ overtaken')
  <2>1. timers_' \cup batch' \subseteq timers_ \cup batch
    BY <1>1, <1>2
  <2> QED
    BY <1>1, <1>3, <2>1 DEF WaitsIn
<1> QED
  BY <1>4, <1>5, <1>6, <1>7, <1>8, <1>9, <1>10 DEF TimerInv, SetsAgree

LEMMA ResetStep ==
    ASSUME TimerInv, Reset
    PROVE  TimerInv' /\ calling_expired_timers_ /\ now' = now
           /\ (timers_' # {} => /\ armed' \in Nat /\ readable' = FALSE
                                /\ armed' <= Earliest(timers_') \/ armed' <= now + 1)
<1> DEFINE again == {Address(e) : e \in Restarted}
           gone == {Address(e) : e \in batch \ Restarted}
           next == [a \in Addrs |->
                        IF a \in again
                          THEN [heap[a] EXCEPT !.exp = handle_now + heap[a].interval]
                          ELSE IF a \in gone THEN Free ELSE heap[a]]
           added == {<<next[a].exp, a>> : a \in again}
<1>1. /\ calling_expired_timers_ /\ heap' = next
      /\ timers_' = timers_ \cup added
      /\ active_timers_' = active_timers_ \cup {IdAt(a, next) : a \in again}
      /\ IF timers_' # {} THEN ResetTimerfd(Earliest(timers_')) ELSE UNCHANGED fdVars
      /\ calling_expired_timers_' = FALSE /\ batch' = {} /\ handle_now' = 0
      /\ UNCHANGED <<now, s_num_created_, expired, pending, tpc, known, canceling_timers_,
                     cancelled, overtaken>>
      /\ expired = {}
  BY DEF Reset, userVars, cancelVars
<1>2. /\ SetsAgree /\ CancelIsFinal /\ BatchIsAlive /\ Numbered /\ CancelRemembered /\ TypeOK
      /\ WaitsIn(pending, heap, timers_ \cup batch, cancelled \ overtaken)
      /\ heap \in [Addrs -> Timers] /\ handle_now \in Nat /\ now \in Nat
      /\ timers_ \subseteq Nat \X Addrs /\ active_timers_ \subseteq Ids
      /\ s_num_created_ \in 0 .. MaxTimers
  BY DEF TimerInv, SetsAgree, TypeOK
<1>3. Restarted \subseteq batch
  BY DEF Restarted
<1>4. /\ \A a \in again : /\ a \in Addrs /\ a \notin gone /\ heap[a] # Free
                          /\ IdAt(a, heap) \notin canceling_timers_
                          /\ IdAt(a, heap) \notin cancelled \ overtaken
                          /\ \A e \in timers_ : Address(e) # a
      /\ \A a \in gone : a \in Addrs /\ \A e \in timers_ : Address(e) # a
  BY <1>2, <1>3, OneEntryEach DEF Restarted, BatchIsAlive, CancelRemembered
<1>5. \A a \in Addrs : heap[a] \in Timers /\ heap[a].seq \in 0 .. MaxTimers
                       /\ heap[a].exp \in Nat /\ heap[a].interval \in Nat
  BY <1>2 DEF Timers
<1> HIDE DEF again, gone
<1>6. \A a \in again : /\ next[a] = [heap[a] EXCEPT !.exp = handle_now + heap[a].interval]
                       /\ next[a] \in Timers /\ next[a].seq = heap[a].seq
                       /\ next[a].exp \in Nat
  <2> SUFFICES ASSUME NEW a \in again
               PROVE  /\ next[a] = [heap[a] EXCEPT !.exp = handle_now + heap[a].interval]
                      /\ next[a] \in Timers /\ next[a].seq = heap[a].seq
                      /\ next[a].exp \in Nat
    OBVIOUS
  <2>1. a \in Addrs /\ next[a] = [heap[a] EXCEPT !.exp = handle_now + heap[a].interval]
    BY <1>4
  <2>2. handle_now + heap[a].interval \in Nat
    BY <1>2, <1>5, <2>1
  <2> HIDE DEF next
  <2> QED
    BY <1>5, <2>1, <2>2 DEF Timers
<1>7. /\ \A a \in gone : next[a] = Free
      /\ \A a \in Addrs : a \notin again /\ a \notin gone => next[a] = heap[a]
      /\ DOMAIN next = Addrs
  BY <1>4
<1>8. Free \in Timers
  BY TimerAssumption DEF Free, Timers
<1>9. next \in [Addrs -> Timers]
  <2>1. \A a \in Addrs : next[a] \in Timers
    BY <1>2, <1>6, <1>7, <1>8
  <2> QED
    BY <2>1
<1> HIDE DEF next
<1>10. \A a \in again : next[a] # Free /\ next[a].seq \in 1 .. s_num_created_
  <2> SUFFICES ASSUME NEW a \in again
               PROVE  next[a] # Free /\ next[a].seq \in 1 .. s_num_created_
    OBVIOUS
  <2>1. next[a].seq \in 1 .. s_num_created_
    BY <1>2, <1>4, <1>6 DEF Numbered
  <2>2. Free.seq = 0
    BY DEF Free
  <2> QED
    BY <1>2, <2>1, <2>2
<1>11. /\ \A e \in added : /\ Address(e) \in again /\ e \in Nat \X Addrs
                           /\ Expiration(e) = next[Address(e)].exp
       /\ \A a \in again : <<next[a].exp, a>> \in added /\ Address(<<next[a].exp, a>>) = a
  <2>1. \A a \in again : /\ <<next[a].exp, a>> \in Nat \X Addrs
                         /\ Address(<<next[a].exp, a>>) = a
                         /\ Expiration(<<next[a].exp, a>>) = next[a].exp
    BY <1>4, <1>6 DEF Address, Expiration
  <2>2. \A e \in added : \E a \in again : e = <<next[a].exp, a>>
    OBVIOUS
  <2> QED
    BY <2>1, <2>2
<1> HIDE DEF added
<1>12. \A e \in timers_ : /\ next[Address(e)] = heap[Address(e)] /\ Address(e) \in Addrs
                          /\ IdAt(Address(e), next) = IdAt(Address(e), heap)
  BY <1>2, <1>4, <1>7, OneEntryEach DEF IdAt
<1>13. \A a \in again : IdAt(a, next) = IdAt(a, heap) /\ IdAt(a, next) \in Ids
  BY <1>4, <1>5, <1>6 DEF IdAt, Ids
<1>14. timers_' \subseteq Nat \X Addrs /\ active_timers_' \subseteq Ids
  BY <1>1, <1>2, <1>11, <1>13
<1>15. timers_' # {} => /\ armed' \in Nat /\ readable' = FALSE
                        /\ armed' <= Earliest(timers_') \/ armed' <= now + 1
  <2> SUFFICES ASSUME timers_' # {}
               PROVE  /\ armed' \in Nat /\ readable' = FALSE
                      /\ armed' <= Earliest(timers_') \/ armed' <= now + 1
    OBVIOUS
  <2>1. Earliest(timers_') \in Nat
    BY <1>14, EarliestIsLeast
  <2>2. ResetTimerfd(Earliest(timers_'))
    BY <1>1
  <2> QED
    BY <1>2, <2>1, <2>2, ResetArms
<1>16. armed' \in Nat \cup {Disarmed} /\ readable' \in BOOLEAN
  <2>1. CASE timers_' = {}
    BY <1>1, <1>2, <2>1 DEF fdVars, TypeOK
  <2> QED
    BY <1>15, <2>1
<1>17. TypeOK'
  BY <1>1, <1>2, <1>9, <1>14, <1>16 DEF TypeOK
<1>18. BatchIsAlive'
  BY <1>1 DEF BatchIsAlive
<1>19. \A e \in timers_' : heap'[Address(e)] # Free /\ heap'[Address(e)].exp = Expiration(e)
  BY <1>1, <1>2, <1>10, <1>11, <1>12 DEF SetsAgree
<1>20. active_timers_' = {IdAt(Address(e), heap') : e \in timers_'}
  <2>1. {IdAt(a, next) : a \in again} = {IdAt(Address(e), next) : e \in added}
    BY <1>11
  <2>2. active_timers_ = {IdAt(Address(e), next) : e \in timers_}
    BY <1>2, <1>12 DEF SetsAgree
  <2> QED
    BY <1>1, <2>1, <2>2
<1>21. CancelIsFinal'
  BY <1>1, <1>2, <1>4, <1>13 DEF CancelIsFinal
<1>22. CancelRemembered'
  BY <1>1 DEF CancelRemembered
<1>23. Numbered'
  <2>1. \A a \in Addrs : next[a] # Free => next[a].seq \in 1 .. s_num_created_
    BY <1>2, <1>7, <1>10 DEF Numbered
  <2> QED
    BY <1>1, <1>2, <2>1 DEF Numbered
<1>24. WaitsIn(pending', heap', timers_' \cup batch', cancelled' \ overtaken')
  <2>1. ASSUME NEW i \in DOMAIN pending, pending[i].op = "add"
        PROVE  /\ next[pending[i].id[1]] = heap[pending[i].id[1]]
               /\ \A e \in timers_ \cup added : Address(e) # pending[i].id[1]
    <3>1. pending[i].id \in Ids
      <4>1. pending[i] \in Request
        <5>1. pending \in Seq(Request)
          BY <1>2 DEF TypeOK, Request
        <5> HIDE DEF Request
        <5> QED
          BY <5>1, ElementOfSeq, LenProperties
      <4> QED
        BY <4>1 DEF Request
    <3>2. pending[i].id[1] \in Addrs
      BY <3>1 DEF Ids
    <3>3. \A e \in timers_ \cup batch : Address(e) # pending[i].id[1]
      BY <1>2, <2>1 DEF WaitsIn
    <3>4. pending[i].id[1] \notin again /\ pending[i].id[1] \notin gone
      BY <1>3, <3>3 DEF again, gone
    <3> QED
      BY <1>7, <1>11, <3>2, <3>3, <3>4
  <2> QED
    BY <1>1, <1>2, <2>1 DEF WaitsIn
<1> QED
  BY <1>1, <1>15, <1>17, <1>18, <1>19, <1>20, <1>21, <1>22, <1>23, <1>24 DEF TimerInv, SetsAgree

LEMMA OtherThreadStep ==
    ASSUME TimerInv, NEW t \in Threads, OtherThread(t)
    PROVE  TimerInv' /\ UNCHANGED <<now, setVars, fdVars, calling_expired_timers_>>
<1>1. /\ SetsAgree /\ TypeOK /\ BatchIsAlive /\ Numbered /\ CancelRemembered /\ CancelIsFinal
      /\ WaitsIn(pending, heap, timers_ \cup batch, cancelled \ overtaken)
      /\ pending \in Seq(Request) /\ s_num_created_ \in Nat
      /\ known \subseteq Ids /\ cancelled \subseteq Ids
  BY TimerAssumption DEF TimerInv, SetsAgree, TypeOK, Request
<1>2. /\ \A k \in DOMAIN pending : pending[k].id \in Ids
  <2>1. \A k \in DOMAIN pending : pending[k] \in Request
    <3> HIDE DEF Request
    <3> QED
      BY <1>1, ElementOfSeq, LenProperties
  <2> QED
    BY <2>1 DEF Request
<1>3. /\ \A id \in Ids : id[2] \in Nat
      /\ \A id \in known \cup cancelled : id[2] <= s_num_created_
      /\ \A k \in DOMAIN pending : pending[k].id[2] <= s_num_created_
  BY <1>1, TimerAssumption DEF Ids, Numbered
<1>4. CASE \E a \in Addrs, when \in 1 .. MaxTime, i \in Intervals : AddTimer(t, a, when, i)
  <2>1. PICK a \in Addrs, when \in 1 .. MaxTime, i \in Intervals : AddTimer(t, a, when, i)
    BY <1>4
  <2> DEFINE id == IdAt(a, heap')
             r == [op |-> "add", id |-> id]
  <2>2. /\ NewTimer(a, when, i) /\ pending' = Append(pending, r)
        /\ tpc' = [tpc EXCEPT ![t] = id]
        /\ UNCHANGED <<now, timers_, active_timers_, armed, readable, calling_expired_timers_,
                       expired, batch, handle_now, known, canceling_timers_, cancelled, overtaken>>
    BY <2>1 DEF AddTimer, setVars, fdVars, handleVars, cancelVars
  <2>3. /\ heap' \in [Addrs -> Timers] /\ heap'[a] # Free
        /\ \A b \in Addrs \ {a} : heap'[b] = heap[b]
        /\ s_num_created_' \in 0 .. MaxTimers /\ s_num_created_' = s_num_created_ + 1
        /\ id = <<a, s_num_created_'>> /\ id \in Ids
        /\ id \notin cancelled
        /\ \A e \in timers_ \cup batch : Address(e) # a /\ Address(e) \in Addrs
                  /\ IdAt(Address(e), heap') = IdAt(Address(e), heap)
        /\ \A b \in Addrs : heap'[b] # Free => heap'[b].seq \in 1 .. s_num_created_'
        /\ WaitsIn(pending, heap', timers_ \cup batch, cancelled \ overtaken)
        /\ \A k \in DOMAIN pending : pending[k].op = "add" => pending[k].id[1] # a
    BY <2>2, NewTimerIsNew
  <2>4. r \in Request /\ r.op = "add" /\ r.id = id /\ id[1] = a /\ heap'[a].seq = id[2]
    BY <2>3 DEF Request, IdAt
  <2> HIDE DEF r, id
  <2>5. /\ WaitsIn(pending', heap', timers_ \cup batch, cancelled \ overtaken)
        /\ pending' \in Seq(Request)
        /\ \A k \in DOMAIN pending' :
              pending'[k] = r \/ (k \in DOMAIN pending /\ pending'[k] = pending[k])
    <3> HIDE DEF Request
    <3>1. /\ heap'[r.id[1]] # Free /\ heap'[r.id[1]].seq = r.id[2]
          /\ \A e \in timers_ \cup batch : Address(e) # r.id[1]
          /\ r.id \notin cancelled \ overtaken
          /\ \A k \in DOMAIN pending : pending[k].op = "add" => pending[k].id[1] # r.id[1]
      BY <2>3, <2>4
    <3> QED
      BY <1>1, <2>2, <2>3, <2>4, <3>1, AppendWaits
  <2>6. TypeOK'
    <3>1. tpc' \in [Threads -> Ids \cup {Idle}]
      BY <1>1, <2>2, <2>3 DEF TypeOK
    <3> QED
      BY <1>1, <2>2, <2>3, <2>5, <3>1 DEF TypeOK, Request
  <2>7. BatchIsAlive'
    BY <1>1, <2>2, <2>3 DEF BatchIsAlive
  <2>8. /\ \A e \in timers_' : heap'[Address(e)] # Free
                               /\ heap'[Address(e)].exp = Expiration(e)
        /\ active_timers_' = {IdAt(Address(e), heap') : e \in timers_'}
    BY <1>1, <2>2, <2>3 DEF SetsAgree
  <2>9. Numbered'
    <3>1. s_num_created_ <= s_num_created_' /\ id[2] <= s_num_created_'
      BY <1>1, <2>3
    <3>2. \A k \in DOMAIN pending' : pending'[k].id[2] <= s_num_created_'
      BY <1>1, <1>2, <1>3, <2>3, <2>4, <2>5, <3>1
    <3>3. \A j \in known' \cup cancelled' : j[2] <= s_num_created_'
      BY <1>1, <1>3, <2>2, <2>3, <3>1
    <3> QED
      BY <2>3, <3>2, <3>3 DEF Numbered
  <2>10. CancelRemembered' /\ CancelIsFinal'
    BY <1>1, <2>2, <2>3 DEF CancelRemembered, CancelIsFinal
  <2> QED
    BY <2>2, <2>5, <2>6, <2>7, <2>8, <2>9, <2>10 DEF TimerInv, SetsAgree, setVars, fdVars
<1>5. CASE AddTimerReturns(t)
  <2>1. /\ tpc[t] # Idle /\ known' = known \cup {IdAt(tpc[t][1], heap)}
        /\ tpc' = [tpc EXCEPT ![t] = Idle]
        /\ UNCHANGED <<now, heap, s_num_created_, timers_, active_timers_, armed, readable,
                       calling_expired_timers_, expired, batch, handle_now, pending,
                       canceling_timers_, cancelled, overtaken>>
    BY <1>5 DEF AddTimerReturns, heapVars, setVars, fdVars, handleVars, cancelVars
  <2>2. tpc[t] \in Ids /\ tpc[t][1] \in Addrs
    BY <1>1, <2>1 DEF TypeOK, Ids
  <2>3. IdAt(tpc[t][1], heap) \in Ids /\ IdAt(tpc[t][1], heap)[2] <= s_num_created_
    <3> DEFINE a == tpc[t][1]
    <3>1. heap[a] \in Timers /\ (heap[a] # Free => heap[a].seq \in 1 .. s_num_created_)
      BY <1>1, <2>2 DEF TypeOK, Numbered
    <3>2. heap[a].seq \in 0 .. MaxTimers /\ heap[a].seq <= s_num_created_
      BY <1>1, <3>1 DEF Timers, Free
    <3> QED
      BY <2>2, <3>2 DEF IdAt, Ids
  <2>4. TypeOK'
    BY <1>1, <2>1, <2>3 DEF TypeOK
  <2>5. SetsAgree' /\ CancelRemembered' /\ CancelIsFinal'
    BY <1>1, <2>1, <2>4 DEF SetsAgree, BatchIsAlive, CancelRemembered, CancelIsFinal
  <2>6. Numbered'
    BY <1>1, <2>1, <2>3 DEF Numbered
  <2> QED
    BY <1>1, <2>1, <2>5, <2>6 DEF TimerInv, setVars, fdVars
<1>6. CASE \E id \in known : Cancel(t, id)
  <2>1. PICK id \in known : Cancel(t, id)
    BY <1>6
  <2> DEFINE r == [op |-> "cancel", id |-> id]
  <2>2. /\ pending' = Append(pending, r)
        /\ UNCHANGED <<now, heap, s_num_created_, timers_, active_timers_, armed, readable,
                       calling_expired_timers_, expired, batch, handle_now, tpc, known,
                       canceling_timers_, cancelled, overtaken>>
    BY <2>1 DEF Cancel, heapVars, setVars, fdVars, handleVars, userVars, cancelVars
  <2>3. r \in Request /\ r.op = "cancel" /\ r.op # "add" /\ r.id = id
    BY <1>1 DEF Request
  <2> HIDE DEF r
  <2>4. /\ WaitsIn(pending', heap, timers_ \cup batch, cancelled \ overtaken)
        /\ pending' \in Seq(Request)
        /\ \A k \in DOMAIN pending' :
              pending'[k] = r \/ (k \in DOMAIN pending /\ pending'[k] = pending[k])
    <3> HIDE DEF Request
    <3> QED
      BY <1>1, <2>2, <2>3, AppendWaits
  <2>5. TypeOK'
    BY <1>1, <2>2, <2>4 DEF TypeOK, Request
  <2>6. SetsAgree' /\ CancelRemembered' /\ CancelIsFinal'
    BY <1>1, <2>2, <2>5 DEF SetsAgree, BatchIsAlive, CancelRemembered, CancelIsFinal
  <2>7. Numbered'
    BY <1>1, <1>3, <2>2, <2>3, <2>4 DEF Numbered
  <2> QED
    BY <2>2, <2>4, <2>6, <2>7 DEF TimerInv, setVars, fdVars
<1> QED
  BY <1>4, <1>5, <1>6 DEF OtherThread

-----------------------------------------------------------------------------
LEMMA TimerInvInit == Init => TimerInv
<1> SUFFICES ASSUME Init PROVE TimerInv
  OBVIOUS
<1>1. Free \in Timers
  BY TimerAssumption DEF Free, Timers
<1>2. TypeOK
  <2>1. pending \in Seq([op : {"add", "cancel"}, id : Ids])
    BY DEF Init
  <2> QED
    <3>1. heap \in [Addrs -> Timers] /\ tpc \in [Threads -> Ids \cup {Idle}]
      BY <1>1 DEF Init
    <3>2. /\ now \in Nat /\ handle_now \in Nat /\ s_num_created_ \in 0 .. MaxTimers
          /\ armed \in Nat \cup {Disarmed}
      BY TimerAssumption DEF Init
    <3>3. /\ timers_ = {} /\ active_timers_ = {} /\ canceling_timers_ = {} /\ batch = {}
          /\ expired = {} /\ known = {} /\ cancelled = {} /\ overtaken = {}
          /\ calling_expired_timers_ \in BOOLEAN /\ readable \in BOOLEAN
      BY DEF Init
    <3> QED
      BY <2>1, <3>1, <3>2, <3>3 DEF TypeOK
<1>3. SetsAgree
  BY <1>2 DEF Init, SetsAgree, BatchIsAlive
<1>4. DOMAIN pending = {}
  BY DEF Init
<1>5. Numbered /\ CancelRemembered /\ CancelIsFinal
  BY <1>4 DEF Init, Numbered, CancelRemembered, CancelIsFinal
<1>6. WaitsIn(pending, heap, timers_ \cup batch, cancelled \ overtaken)
  BY <1>4 DEF WaitsIn
<1> QED
  BY <1>3, <1>5, <1>6 DEF TimerInv

(* The steps that change neither the heap, the sets, the batch nor the queue. *)
LEMMA QuietStep ==
    ASSUME TimerInv,
           UNCHANGED <<heap, s_num_created_, timers_, active_timers_, canceling_timers_,
                       calling_expired_timers_, batch, handle_now, pending, tpc, known,
                       cancelled, overtaken>>,
           now' \in Nat, now <= now', expired' \subseteq expired,
           armed' \in Nat \cup {Disarmed}, readable' \in BOOLEAN
    PROVE  TimerInv'
<1>1. SetsAgree /\ TypeOK /\ BatchIsAlive
  BY DEF TimerInv, SetsAgree
<1>2. TypeOK'
  BY <1>1 DEF TypeOK
<1>3. BatchIsAlive'
  <2>1. \A e \in batch : Expiration(e) \in Nat /\ now \in Nat
    BY <1>1 DEF TypeOK, Expiration
  <2> QED
    BY <1>1, <2>1 DEF BatchIsAlive
<1>4. SetsAgree'
  BY <1>1, <1>2, <1>3 DEF SetsAgree
<1>5. Numbered' /\ CancelRemembered' /\ CancelIsFinal'
  BY DEF TimerInv, Numbered, CancelRemembered, CancelIsFinal
<1> QED
  BY <1>4, <1>5 DEF TimerInv

LEMMA TimerInvStep == TimerInv /\ [Next]_vars => TimerInv'
<1> SUFFICES ASSUME TimerInv, [Next]_vars PROVE TimerInv'
  OBVIOUS
<1>0. now \in Nat /\ armed \in Nat \cup {Disarmed} /\ readable \in BOOLEAN
  BY DEF TimerInv, SetsAgree, TypeOK
<1>1. CASE Tick
  BY <1>0, <1>1, QuietStep
  DEF Tick, heapVars, setVars, fdVars, handleVars, userVars, cancelVars
<1>2. CASE TimerfdFires
  BY <1>0, <1>2, QuietStep
  DEF TimerfdFires, heapVars, setVars, handleVars, userVars, cancelVars
<1>3. ASSUME NEW e \in expired, RunExpired(e) PROVE TimerInv'
  BY <1>0, <1>3, QuietStep
  DEF RunExpired, heapVars, setVars, fdVars, userVars, cancelVars
<1>4. CASE UNCHANGED vars
  BY <1>0, <1>4, QuietStep
  DEF vars, heapVars, setVars, fdVars, handleVars, userVars, cancelVars
<1>5. CASE LoopThread
  BY <1>3, <1>5, AddTimerHereStep, CancelHereStep, RunPendingStep, HandleReadStep, ResetStep
  DEF LoopThread
<1>6. CASE \E t \in Threads : OtherThread(t)
  BY <1>6, OtherThreadStep
<1> QED
  BY <1>1, <1>2, <1>4, <1>5, <1>6 DEF Next

LEMMA TimerInvAlways == Spec => []TimerInv
  BY TimerInvInit, TimerInvStep, PTL DEF Spec

(* SetsAgree holds for any threads, addresses and bounds: no pointer in the *)
(* two sets or in HandleRead's vector dangles, whatever is added and        *)
(* cancelled from wherever.                                                 *)
THEOREM TimerSetsAgree == Spec => []SetsAgree
<1>1. TimerInv => SetsAgree
  BY DEF TimerInv
<1> QED
  BY <1>1, TimerInvAlways, PTL

(* CancelIsFinal holds for any threads, addresses and bounds: a timer       *)
(* cancelled after it was added is not restarted by Reset, nor mistaken for *)
(* a later timer at its address.                                            *)
THEOREM CancelledStaysOut == Spec => []CancelIsFinal
<1>1. TimerInv => CancelIsFinal
  BY DEF TimerInv
<1> QED
  BY <1>1, TimerInvAlways, PTL

(* An addition in the loop keeps the timerfd early enough. *)
LEMMA AddCovers ==
    ASSUME now \in Nat, timers_ \subseteq Nat \X Addrs, NEW a \in Addrs, NEW h,
           armed \in Nat \cup {Disarmed}, h[a].exp \in Nat, AddTimerInLoop(a, h), now' = now,
           TimerfdCoversEarliest,
           ~calling_expired_timers_
    PROVE  \/ readable'
           \/ armed' # Disarmed /\ (armed' <= Earliest(timers_') \/ armed' <= now' + 1)
<1> DEFINE new == <<h[a].exp, a>>
<1>1. timers_' = timers_ \cup {new} /\ new \in timers_' /\ timers_' \subseteq Nat \X Addrs
  BY DEF AddTimerInLoop
<1>2. Expiration(new) = h[a].exp
  BY DEF Expiration
<1> HIDE DEF new
<1>3. /\ Earliest(timers_') \in Nat
      /\ \A e \in timers_' : Earliest(timers_') <= Expiration(e)
      /\ \E e \in timers_' : Earliest(timers_') = Expiration(e)
  BY <1>1, EarliestIsLeast
<1>4. timers_ # {} => /\ Earliest(timers_) \in Nat
                      /\ \A e \in timers_ : Earliest(timers_) <= Expiration(e)
  BY EarliestIsLeast
<1>5. CASE EarliestChanged(h[a].exp)
  <2>1. armed' \in Nat /\ (armed' <= h[a].exp \/ armed' <= now + 1)
    BY <1>5, ResetArms DEF AddTimerInLoop
  <2>2. h[a].exp <= Earliest(timers_')
    <3>1. \A e \in timers_' : Expiration(e) \in Nat /\ h[a].exp <= Expiration(e)
      BY <1>1, <1>2, <1>4, <1>5 DEF EarliestChanged, Expiration
    <3> QED
      BY <1>3, <3>1
  <2> QED
    BY <1>3, <2>1, <2>2 DEF Disarmed
<1>6. CASE ~EarliestChanged(h[a].exp)
  <2>1. timers_ # {} /\ Earliest(timers_) <= h[a].exp /\ UNCHANGED <<armed, readable>>
    BY <1>4, <1>6 DEF EarliestChanged, AddTimerInLoop, fdVars
  <2>2. Earliest(timers_) <= Earliest(timers_')
    <3>1. \A e \in timers_' : Earliest(timers_) <= Expiration(e)
      BY <1>1, <1>2, <1>4, <2>1
    <3> QED
      BY <1>3, <3>1
  <2>3. \/ readable
        \/ armed # Disarmed /\ (armed <= Earliest(timers_) \/ armed <= now + 1)
    BY <2>1 DEF TimerfdCoversEarliest
  <2>4. CASE armed <= Earliest(timers_)
    BY <1>3, <1>4, <2>1, <2>2, <2>3, <2>4
  <2> QED
    BY <2>1, <2>3, <2>4
<1> QED
  BY <1>5, <1>6

(* The steps that leave the timerfd alone: timers may go and time pass. *)
LEMMA SameTimerfdCovers ==
    ASSUME TimerfdCoversEarliest, now \in Nat, now' \in Nat, now <= now',
           armed \in Nat \cup {Disarmed}, UNCHANGED fdVars,
           timers_ \subseteq Nat \X Addrs, timers_' \subseteq timers_,
           calling_expired_timers_' = calling_expired_timers_
    PROVE  TimerfdCoversEarliest'
<1> SUFFICES ASSUME timers_' # {}, ~calling_expired_timers_
             PROVE  \/ readable'
                    \/ armed' # Disarmed /\ (armed' <= Earliest(timers_') \/ armed' <= now' + 1)
  BY DEF TimerfdCoversEarliest
<1>1. /\ Earliest(timers_) \in Nat
      /\ \A e \in timers_ : Earliest(timers_) <= Expiration(e)
  BY EarliestIsLeast
<1>2. /\ Earliest(timers_') \in Nat
      /\ \E e \in timers_' : Earliest(timers_') = Expiration(e)
  BY EarliestIsLeast
<1>3. Earliest(timers_) <= Earliest(timers_')
  BY <1>1, <1>2
<1>4. \/ readable
      \/ armed # Disarmed /\ (armed <= Earliest(timers_) \/ armed <= now + 1)
  BY DEF TimerfdCoversEarliest
<1>5. armed' = armed /\ readable' = readable
  BY DEF fdVars
<1>6. CASE readable
  BY <1>5, <1>6
<1>7. CASE armed # Disarmed /\ (armed <= Earliest(timers_) \/ armed <= now + 1)
  <2>1. armed' \in Nat /\ armed' # Disarmed
    BY <1>5, <1>7
  <2>2. armed' <= Earliest(timers_') \/ armed' <= now' + 1
    <3>1. \A x, y, z \in Nat : x <= y /\ y <= z => x <= z
      OBVIOUS
    <3>2. CASE armed <= Earliest(timers_)
      BY <1>1, <1>2, <1>3, <1>5, <2>1, <3>1, <3>2
    <3>3. CASE armed <= now + 1
      <4>1. \A m, n, x \in Nat : m <= n /\ x <= m + 1 => x <= n + 1
        OBVIOUS
      <4>2. armed' <= now + 1
        BY <1>5, <3>3
      <4>3. armed' <= now' + 1
        BY <2>1, <4>1, <4>2
      <4> QED
        BY <4>3
    <3> QED
      BY <1>7, <3>2, <3>3
  <2> QED
    BY <2>1, <2>2
<1> QED
  BY <1>4, <1>6, <1>7

LEMMA CoversStep ==
    TimerInv /\ TimerInv' /\ TimerfdCoversEarliest /\ [Next]_vars => TimerfdCoversEarliest'
<1> SUFFICES ASSUME TimerInv, TimerInv', TimerfdCoversEarliest, [Next]_vars
             PROVE  TimerfdCoversEarliest'
  OBVIOUS
<1>1. /\ now \in Nat /\ armed \in Nat \cup {Disarmed} /\ timers_ \subseteq Nat \X Addrs
      /\ now' \in Nat /\ heap \in [Addrs -> Timers] /\ heap' \in [Addrs -> Timers]
      /\ \A a \in Addrs : heap[a].exp \in Nat /\ heap'[a].exp \in Nat
      /\ calling_expired_timers_ \in BOOLEAN
  BY DEF TimerInv, SetsAgree, TypeOK, Timers
<1>2. CASE Tick
  BY <1>1, <1>2, SameTimerfdCovers DEF Tick, setVars, handleVars
<1>3. CASE TimerfdFires
  BY <1>3 DEF TimerfdFires, TimerfdCoversEarliest
<1>4. ASSUME NEW a \in Addrs, NEW when \in 1 .. MaxTime, NEW i \in Intervals,
             AddTimerHere(a, when, i)
      PROVE  TimerfdCoversEarliest'
  <2>1. CASE calling_expired_timers_
    BY <1>4, <2>1 DEF AddTimerHere, handleVars, TimerfdCoversEarliest
  <2>2. CASE ~calling_expired_timers_
    <3>1. AddTimerInLoop(a, heap') /\ now' = now
      BY <1>4 DEF AddTimerHere
    <3> QED
      BY <1>1, <2>2, <3>1, AddCovers DEF TimerfdCoversEarliest
  <2> QED
    BY <2>1, <2>2
<1>5. ASSUME NEW id, CancelInLoop(id), UNCHANGED <<now, fdVars, handleVars>>
      PROVE  TimerfdCoversEarliest'
  <2>1. timers_' \subseteq timers_
    BY <1>5 DEF CancelInLoop, setVars
  <2> QED
    BY <1>1, <1>5, <2>1, SameTimerfdCovers DEF handleVars
<1>6. CASE RunPending
  <2>1. UNCHANGED <<now, handleVars>> /\ ~calling_expired_timers_ /\ pending # <<>>
    BY <1>6 DEF RunPending
  <2>2. CASE Head(pending).op = "add" /\ AddTimerInLoop(Head(pending).id[1], heap)
    <3>1. Head(pending).id[1] \in Addrs
      <4>1. pending \in Seq(Request)
        BY DEF TimerInv, SetsAgree, TypeOK, Request
      <4>2. Head(pending) \in Request
        <5> HIDE DEF Request
        <5> QED
          BY <2>1, <4>1, HeadTailProperties
      <4> QED
        BY <4>2 DEF Request, Ids
    <3> DEFINE a == Head(pending).id[1]
    <3> HIDE DEF a
    <3>2. a \in Addrs /\ AddTimerInLoop(a, heap)
      BY <2>2, <3>1 DEF a
    <3> QED
      BY <1>1, <2>1, <3>2, AddCovers DEF TimerfdCoversEarliest
  <2>3. CASE CancelInLoop(Head(pending).id) /\ UNCHANGED fdVars
    BY <1>5, <2>1, <2>3
  <2> QED
    BY <1>6, <2>2, <2>3 DEF RunPending
<1>7. CASE HandleRead
  BY <1>7 DEF HandleRead, TimerfdCoversEarliest
<1>8. ASSUME NEW e \in expired, RunExpired(e) PROVE TimerfdCoversEarliest'
  BY <1>1, <1>8, SameTimerfdCovers DEF RunExpired, setVars
<1>9. CASE Reset
  <2>1. /\ now' = now
        /\ timers_' # {} => /\ armed' \in Nat
                            /\ armed' <= Earliest(timers_') \/ armed' <= now + 1
    BY <1>9, ResetStep
  <2> QED
    BY <2>1 DEF TimerfdCoversEarliest, Disarmed
<1>10. ASSUME NEW t \in Threads, OtherThread(t) PROVE TimerfdCoversEarliest'
  <2>1. UNCHANGED <<now, setVars, fdVars, calling_expired_timers_>>
    BY <1>10, OtherThreadStep
  <2> QED
    BY <1>1, <2>1, SameTimerfdCovers DEF setVars
<1>11. CASE UNCHANGED vars
  BY <1>1, <1>11, SameTimerfdCovers DEF vars, setVars, handleVars
<1>12. CASE LoopThread
  BY <1>4, <1>5, <1>6, <1>7, <1>8, <1>9, <1>12 DEF LoopThread, CancelHere
<1> QED
  BY <1>2, <1>3, <1>10, <1>11, <1>12 DEF Next

(* TimerfdCoversEarliest holds for any threads, addresses and bounds: the   *)
(* timerfd is armed in time after every AddTimerInLoop and every Reset,     *)
(* even though EarliestChanged compares with the set alone and a            *)
(* cancellation never touches the timerfd.                                  *)
THEOREM TimerfdNeverOversleeps == Spec => []TimerfdCoversEarliest
<1>1. Init => TimerfdCoversEarliest
  BY DEF Init, TimerfdCoversEarliest
<1> QED
  BY <1>1, TimerInvAlways, CoversStep, PTL DEF Spec
=============================================================================
