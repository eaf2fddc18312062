------------------------ MODULE TcpConnectionProofs ------------------------
(***************************************************************************)
(* What TcpConnection promises of its output path and of its life, proved  *)
(* for any threads, operations, sizes, marks and bounds.                   *)
(***************************************************************************)
EXTENDS TcpConnection, SequenceTheorems, TLAPS

FunctorOps == {"SendInLoop", "ShutdownInLoop", "ForceCloseInLoop", "StartReadInLoop",
               "StopReadInLoop", "ConnectionEstablished", "ConnectionDestroyed",
               "AddTimerInLoop", "WriteComplete", "HighWaterMark"}
Functors == [op : FunctorOps, msg : Seq(Units)]
OpsIn(q) == {q[i].op : i \in DOMAIN q}

(* The types of what the operations pass on to each other. *)
QueueOK ==
    /\ pending \in Seq(Functors)
    /\ tpc \in [Threads -> [op : Ops \cup {"idle"}, stage : {"idle", "tested", "stored"}]]

(* The types of the rest of the state. *)
ScalarsOK ==
    /\ state_ \in {"kconnecting", "kconnected", "kdisconnecting", "kdisconnected"}
    /\ state_ = "kconnecting" <=> ups = 0
    /\ reading_ \in BOOLEAN /\ added_to_loop_ \in BOOLEAN
    /\ events \in SUBSET {"read", "write"}
    /\ timer \in BOOLEAN /\ peer_closed \in BOOLEAN
    /\ server \in {"has", "removed", "dead"}
    /\ messages \in 0 .. MaxMessages
    /\ ups \in Nat /\ closes \in Nat /\ destroyed \in BOOLEAN

(* The output path. *)
OutInv ==
    /\ output_buffer_ \in Seq(Units) /\ wire \in Seq(Units) /\ reported \in Nat
    /\ downs \in Nat /\ write_shut \in BOOLEAN
    /\ StreamInOrder /\ OutputFlushed

(* Until ConnectionEstablished has run, it is the first functor and nobody  *)
(* has touched the connection; it runs once.                                *)
EstablishedOnce ==
    IF ups = 0
      THEN /\ pending # <<>> /\ Head(pending).op = "ConnectionEstablished"
           /\ OpsIn(Tail(pending)) \subseteq {"ConnectionDestroyed"}
           /\ events = {} /\ downs = 0 /\ closes = 0 /\ ~destroyed
           /\ \A t \in Threads : tpc[t] = Idle
      ELSE ups = 1 /\ "ConnectionEstablished" \notin OpsIn(pending)

(* ConnectionDestroyed is the server's to queue, after a close unless the   *)
(* server dies.                                                             *)
DestroyedByServer ==
    /\ server = "has" => ~destroyed /\ "ConnectionDestroyed" \notin OpsIn(pending)
    /\ server = "removed" => closes > 0

(* What a late call of another thread would spoil. *)
ClosedOnce ==
    ~revived =>
        /\ downs = (IF state_ = "kdisconnected" THEN 1 ELSE 0) /\ closes <= downs
        /\ state_ = "kdisconnected" => events = {}
        /\ destroyed /\ ~unannounced => state_ = "kdisconnected" /\ ~added_to_loop_
        /\ unannounced => server = "dead"
        /\ aborted # "none" => /\ aborted = "Channel::Remove" /\ server = "dead"
                               /\ state_ = "kdisconnecting"

ConnInv ==
    /\ ScalarsOK /\ QueueOK /\ OutInv
    /\ revived \in BOOLEAN /\ unannounced \in BOOLEAN
    /\ EstablishedOnce /\ DestroyedByServer /\ ClosedOnce

-----------------------------------------------------------------------------
(* Facts about sequences. *)

(* A message cut in two. *)
LEMMA CutInTwo ==
    ASSUME NEW S, NEW s \in Seq(S), NEW n \in 0 .. Len(s)
    PROVE  /\ SubSeq(s, 1, n) \in Seq(S) /\ Len(SubSeq(s, 1, n)) = n
           /\ SubSeq(s, n + 1, Len(s)) \in Seq(S)
           /\ SubSeq(s, n + 1, Len(s)) = <<>> <=> n = Len(s)
           /\ SubSeq(s, 1, n) \o SubSeq(s, n + 1, Len(s)) = s
<1>1. Len(s) \in Nat /\ \A i \in 1 .. Len(s) : s[i] \in S
  BY LenProperties, ElementOfSeq
<1>2. \A i \in 1 .. n : s[i] \in S
  BY <1>1
<1>3. \A i \in n + 1 .. Len(s) : s[i] \in S
  BY <1>1
<1>4. SubSeq(s, 1, n) \in Seq(S) /\ Len(SubSeq(s, 1, n)) = n
  BY <1>1, <1>2, SubSeqProperties
<1>5. /\ SubSeq(s, n + 1, Len(s)) \in Seq(S)
      /\ Len(SubSeq(s, n + 1, Len(s))) = IF n + 1 <= Len(s) THEN Len(s) - (n + 1) + 1 ELSE 0
  BY <1>1, <1>3, SubSeqProperties
<1>6. SubSeq(s, n + 1, Len(s)) = <<>> <=> n = Len(s)
  <2>1. CASE n = Len(s)
    BY <1>1, <2>1, SubSeqEmpty
  <2>2. CASE n # Len(s)
    <3>1. Len(SubSeq(s, n + 1, Len(s))) # 0
      BY <1>1, <1>5, <2>2
    <3> QED
      BY <2>2, <3>1, EmptySeq
  <2> QED
    BY <2>1, <2>2
<1>7. SubSeq(s, 1, n) \o SubSeq(s, n + 1, Len(s)) = SubSeq(s, 1, Len(s))
  <2>1. 1 \in 1 .. Len(s) + 1 /\ n \in 1 - 1 .. Len(s) /\ Len(s) \in n .. Len(s)
    BY <1>1
  <2> QED
    BY <2>1, ConcatAdjacentSubSeq
<1>8. SubSeq(s, 1, Len(s)) = s
  BY SubSeqFull
<1> QED
  BY <1>4, <1>5, <1>6, <1>7, <1>8

LEMMA OpsInTail ==
    ASSUME NEW S, NEW q \in Seq(S), q # <<>>
    PROVE  /\ Tail(q) \in Seq(S) /\ Head(q) \in S
           /\ OpsIn(Tail(q)) \subseteq OpsIn(q) /\ Head(q).op \in OpsIn(q)
<1>1. /\ Head(q) \in S /\ Tail(q) \in Seq(S) /\ Len(Tail(q)) = Len(q) - 1
      /\ \A i \in 1 .. Len(Tail(q)) : Tail(q)[i] = q[i + 1]
  BY HeadTailProperties
<1>2. Len(q) \in Nat \ {0} /\ DOMAIN q = 1 .. Len(q) /\ DOMAIN Tail(q) = 1 .. Len(Tail(q))
  BY <1>1, EmptySeq, LenProperties
<1>3. Head(q) = q[1]
  OBVIOUS
<1>4. \A i \in DOMAIN Tail(q) : i + 1 \in DOMAIN q /\ Tail(q)[i].op = q[i + 1].op
  BY <1>1, <1>2
<1>5. 1 \in DOMAIN q
  BY <1>2
<1> QED
  BY <1>1, <1>3, <1>4, <1>5 DEF OpsIn

LEMMA OpsInConcat ==
    ASSUME NEW S, NEW q \in Seq(S), NEW r \in Seq(S)
    PROVE  q \o r \in Seq(S) /\ OpsIn(q \o r) \subseteq OpsIn(q) \cup OpsIn(r)
<1>1. /\ q \o r \in Seq(S) /\ Len(q \o r) = Len(q) + Len(r)
      /\ \A i \in 1 .. Len(q) + Len(r) :
            (q \o r)[i] = IF i <= Len(q) THEN q[i] ELSE r[i - Len(q)]
  BY ConcatProperties
<1>2. /\ Len(q) \in Nat /\ Len(r) \in Nat
      /\ DOMAIN q = 1 .. Len(q) /\ DOMAIN r = 1 .. Len(r)
      /\ DOMAIN (q \o r) = 1 .. Len(q) + Len(r)
  BY <1>1, LenProperties
<1>3. ASSUME NEW i \in DOMAIN (q \o r)
      PROVE  (q \o r)[i].op \in OpsIn(q) \cup OpsIn(r)
  <2>1. CASE i <= Len(q)
    <3>1. i \in DOMAIN q /\ (q \o r)[i].op = q[i].op
      BY <1>1, <1>2, <1>3, <2>1
    <3> QED
      BY <3>1 DEF OpsIn
  <2>2. CASE ~(i <= Len(q))
    <3>1. i - Len(q) \in DOMAIN r /\ (q \o r)[i].op = r[i - Len(q)].op
      BY <1>1, <1>2, <1>3, <2>2
    <3> QED
      BY <3>1 DEF OpsIn
  <2> QED
    BY <2>1, <2>2
<1> QED
  BY <1>1, <1>3 DEF OpsIn

LEMMA OpsInAppend ==
    ASSUME NEW S, NEW q \in Seq(S), NEW f \in S
    PROVE  /\ Append(q, f) \in Seq(S) /\ OpsIn(Append(q, f)) \subseteq OpsIn(q) \cup {f.op}
           /\ q # <<>> => /\ Append(q, f) # <<>> /\ Head(Append(q, f)) = Head(q)
                          /\ Tail(Append(q, f)) = Append(Tail(q), f)
<1>1. /\ Append(q, f) \in Seq(S) /\ Len(Append(q, f)) = Len(q) + 1
      /\ \A i \in 1 .. Len(q) : Append(q, f)[i] = q[i]
      /\ Append(q, f)[Len(q) + 1] = f
  BY AppendProperties
<1>2. /\ Len(q) \in Nat /\ DOMAIN q = 1 .. Len(q)
      /\ DOMAIN Append(q, f) = 1 .. Len(q) + 1
  BY <1>1, LenProperties
<1>3. \A i \in DOMAIN Append(q, f) : Append(q, f)[i].op \in OpsIn(q) \cup {f.op}
  BY <1>1, <1>2 DEF OpsIn
<1>4. ASSUME q # <<>>
      PROVE  /\ Append(q, f) # <<>> /\ Head(Append(q, f)) = Head(q)
             /\ Tail(Append(q, f)) = Append(Tail(q), f)
  <2>1. Append(q, f) # <<>>
    BY <1>1, <1>2, EmptySeq
  <2>2. Head(Append(q, f)) = Head(q)
    BY <1>1, <1>2, <1>4, EmptySeq
  <2>3. /\ Tail(q) \in Seq(S) /\ Len(Tail(q)) = Len(q) - 1
        /\ \A i \in 1 .. Len(q) - 1 : Tail(q)[i] = q[i + 1]
    BY <1>4, HeadTailProperties
  <2>4. /\ Tail(Append(q, f)) \in Seq(S) /\ Len(Tail(Append(q, f))) = Len(q)
        /\ \A i \in 1 .. Len(q) : Tail(Append(q, f))[i] = Append(q, f)[i + 1]
    BY <1>1, <1>2, <2>1, HeadTailProperties
  <2>5. /\ Append(Tail(q), f) \in Seq(S) /\ Len(Append(Tail(q), f)) = Len(q)
        /\ \A i \in 1 .. Len(q) - 1 : Append(Tail(q), f)[i] = Tail(q)[i]
        /\ Append(Tail(q), f)[Len(q)] = f
    BY <1>2, <2>3, AppendProperties
  <2>6. \A i \in 1 .. Len(q) : Tail(Append(q, f))[i] = Append(Tail(q), f)[i]
    <3>1. ASSUME NEW i \in 1 .. Len(q), i # Len(q)
          PROVE  Tail(Append(q, f))[i] = Append(Tail(q), f)[i]
      <4>1. i \in 1 .. Len(q) - 1 /\ i + 1 \in 1 .. Len(q)
        <5>1. \A k \in Nat : \A j \in 1 .. k : j # k => j \in 1 .. k - 1 /\ j + 1 \in 1 .. k
          OBVIOUS
        <5> QED
          BY <1>2, <3>1, <5>1
      <4>2. Tail(Append(q, f))[i] = q[i + 1]
        BY <1>1, <2>4, <4>1
      <4>3. Append(Tail(q), f)[i] = q[i + 1]
        BY <2>3, <2>5, <4>1
      <4> QED
        BY <4>2, <4>3
    <3>2. Len(q) \in 1 .. Len(q) => Tail(Append(q, f))[Len(q)] = Append(Tail(q), f)[Len(q)]
      BY <1>1, <2>4, <2>5
    <3> QED
      BY <3>1, <3>2
  <2>7. Tail(Append(q, f)) = Append(Tail(q), f)
    BY <2>4, <2>5, <2>6, SeqEqual
  <2> QED
    BY <2>1, <2>2, <2>7
<1> QED
  BY <1>1, <1>3, <1>4 DEF OpsIn

-----------------------------------------------------------------------------
(* The output path. *)

(* The steps that move no data. *)
LEMMA OutSame ==
    ASSUME OutInv, UNCHANGED outVars, downs' \in Nat, write_shut' \in BOOLEAN,
           downs' = 0 => /\ downs = 0 /\ IsWriting' = IsWriting
                         /\ write_shut' => write_shut \/ ~IsWriting
    PROVE  OutInv'
<1>1. /\ output_buffer_' = output_buffer_ /\ wire' = wire
      /\ accepted' = accepted /\ reported' = reported
  BY DEF outVars
<1>2. StreamInOrder' /\ FlushIsReported'
  BY <1>1 DEF OutInv, OutputFlushed, StreamInOrder, FlushIsReported
<1>3. FlushBeforeShutdown' /\ BufferedIffWriting'
  BY <1>1 DEF OutInv, OutputFlushed, FlushBeforeShutdown, BufferedIffWriting
<1> QED
  BY <1>1, <1>2, <1>3 DEF OutInv, OutputFlushed

(* SendInLoop, whether it writes directly or fills the buffer. *)
LEMMA OutSend ==
    ASSUME OutInv, NEW msg \in Seq(Units), NEW queue, SendInLoop(msg, queue)
    PROVE  OutInv'
<1> USE DEF Fault
<1>1. /\ output_buffer_ \in Seq(Units) /\ wire \in Seq(Units) /\ accepted \in Seq(Units)
      /\ accepted = wire \o output_buffer_ /\ downs \in Nat /\ write_shut \in BOOLEAN
      /\ FlushBeforeShutdown /\ BufferedIffWriting /\ FlushIsReported
  BY ConcatProperties DEF OutInv, StreamInOrder, OutputFlushed
<1>2. CASE state_ = "kdisconnected"
  <2>1. Quiet
    BY <1>2 DEF SendInLoop
  <2> QED
    BY <1>1, <2>1, OutSame DEF Quiet, channelVars, kernelVars, callbackVars, IsWriting
<1>3. CASE state_ # "kdisconnected"
  <2>1. PICK r \in IF WritesDirectly THEN WriteResults(Len(msg)) ELSE {0} :
            LET n == IF r = Fault THEN 0 ELSE r
                rest == IF r = Fault THEN <<>> ELSE SubSeq(msg, n + 1, Len(msg))
            IN /\ wire' = wire \o SubSeq(msg, 1, n)
               /\ output_buffer_' = output_buffer_ \o rest
               /\ accepted' = accepted \o SubSeq(msg, 1, n) \o rest
               /\ events' = IF rest # <<>> THEN events \cup {"write"} ELSE events
               /\ reported' = IF WritesDirectly /\ n = Len(msg) THEN Len(wire') ELSE reported
    BY <1>3 DEF SendInLoop
  <2>2. UNCHANGED <<downs, write_shut>>
    BY <1>3 DEF SendInLoop, callbackVars, kernelVars
  <2> DEFINE n == IF r = Fault THEN 0 ELSE r
             rest == IF r = Fault THEN <<>> ELSE SubSeq(msg, n + 1, Len(msg))
             out == SubSeq(msg, 1, n)
  <2>3. Len(msg) \in Nat
    BY LenProperties
  <2>4. n \in 0 .. Len(msg)
    BY <2>1, <2>3 DEF WriteResults
  <2>5. out \in Seq(Units) /\ rest \in Seq(Units)
    BY <2>4, CutInTwo, EmptySeq
  <2>6. r # Fault => (rest = <<>> <=> n = Len(msg))
    BY <2>4, CutInTwo
  <2>7. ~WritesDirectly => r # Fault /\ n = 0 /\ out = <<>> /\ rest = msg
    BY <2>1, SubSeqEmpty, SubSeqFull
  <2>8. write_shut /\ WritesDirectly => r = Fault /\ rest = <<>>
    BY <2>1 DEF WriteResults
  <2>9. r = Fault => n = 0 /\ out = <<>> /\ rest = <<>>
    BY SubSeqEmpty
  <2>10. /\ wire' = wire \o out /\ output_buffer_' = output_buffer_ \o rest
         /\ accepted' = accepted \o out \o rest
         /\ events' = IF rest # <<>> THEN events \cup {"write"} ELSE events
         /\ reported' = IF WritesDirectly /\ n = Len(msg) THEN Len(wire') ELSE reported
    BY <2>1
  <2> HIDE DEF n, rest, out
  <2>11. /\ wire' \in Seq(Units) /\ output_buffer_' \in Seq(Units)
         /\ Len(wire') \in Nat /\ reported' \in Nat
    <3>1. wire' \in Seq(Units) /\ output_buffer_' \in Seq(Units)
      BY <1>1, <2>5, <2>10, ConcatProperties
    <3>2. Len(wire') \in Nat
      BY <3>1, LenProperties
    <3> QED
      BY <2>10, <3>1, <3>2 DEF OutInv
  <2>12. output_buffer_' = <<>> <=> output_buffer_ = <<>> /\ rest = <<>>
    BY <1>1, <2>5, <2>10, ConcatEqualIffEmpty
  <2>13. StreamInOrder'
    <3>1. CASE WritesDirectly
      <4>1. output_buffer_' = rest /\ accepted = wire
        BY <1>1, <2>5, <2>10, <3>1, ConcatEmptySeq DEF WritesDirectly
      <4> QED
        BY <2>10, <4>1 DEF StreamInOrder
    <3>2. CASE ~WritesDirectly
      <4>1. wire' = wire /\ accepted' = accepted \o rest
        BY <1>1, <2>7, <2>10, <3>2, ConcatEmptySeq
      <4>2. (wire \o output_buffer_) \o rest = wire \o (output_buffer_ \o rest)
        BY <1>1, <2>5, ConcatAssociative
      <4> QED
        BY <1>1, <2>10, <4>1, <4>2 DEF StreamInOrder
    <3> QED
      BY <3>1, <3>2
  <2>14. FlushIsReported'
    <3> SUFFICES ASSUME output_buffer_' = <<>> PROVE reported' = Len(wire')
      BY DEF FlushIsReported
    <3>1. output_buffer_ = <<>> /\ rest = <<>> /\ reported = Len(wire)
      BY <1>1, <2>12 DEF FlushIsReported
    <3>2. CASE WritesDirectly /\ n = Len(msg)
      BY <2>10, <3>2
    <3>3. CASE WritesDirectly /\ n # Len(msg)
      <4>1. r = Fault
        BY <2>6, <3>1, <3>3
      <4> QED
        BY <1>1, <2>9, <2>10, <3>1, <3>3, <4>1, ConcatEmptySeq
    <3>4. CASE ~WritesDirectly
      BY <1>1, <2>7, <2>10, <3>1, <3>4, ConcatEmptySeq
    <3> QED
      BY <3>2, <3>3, <3>4
  <2>15. BufferedIffWriting'
    <3> SUFFICES ASSUME downs = 0
                 PROVE  "write" \in events' <=> output_buffer_' # <<>>
      BY <2>2 DEF BufferedIffWriting, IsWriting
    <3>1. "write" \in events <=> output_buffer_ # <<>>
      BY <1>1 DEF BufferedIffWriting, IsWriting
    <3> QED
      BY <2>10, <2>12, <3>1
  <2>16. FlushBeforeShutdown'
    <3> SUFFICES ASSUME downs = 0, write_shut PROVE output_buffer_' = <<>>
      BY <2>2 DEF FlushBeforeShutdown
    <3>1. output_buffer_ = <<>> /\ WritesDirectly
      BY <1>1 DEF FlushBeforeShutdown, BufferedIffWriting, WritesDirectly
    <3> QED
      BY <2>8, <2>12, <3>1
  <2> QED
    BY <1>1, <2>2, <2>11, <2>13, <2>14, <2>15, <2>16 DEF OutInv, OutputFlushed
<1> QED
  BY <1>2, <1>3

(* HandleWrite, whether it empties the buffer or not. *)
LEMMA OutHandleWrite ==
    ASSUME OutInv, HandleWrite
    PROVE  OutInv'
<1> USE DEF Fault
<1>1. /\ output_buffer_ \in Seq(Units) /\ wire \in Seq(Units)
      /\ accepted = wire \o output_buffer_ /\ downs \in Nat /\ write_shut \in BOOLEAN
      /\ FlushBeforeShutdown /\ BufferedIffWriting /\ FlushIsReported
  BY DEF OutInv, StreamInOrder, OutputFlushed
<1>2. PICK n \in WriteResults(Len(output_buffer_)) \ {Fault, 0} :
        /\ wire' = wire \o SubSeq(output_buffer_, 1, n)
        /\ output_buffer_' = SubSeq(output_buffer_, n + 1, Len(output_buffer_))
        /\ IF output_buffer_' = <<>>
             THEN Flushed
             ELSE UNCHANGED <<events, reported, pending, write_shut>>
  BY DEF HandleWrite
<1>3. UNCHANGED <<accepted, downs>> /\ "write" \in events
  BY DEF HandleWrite, callbackVars, IsWriting
<1>4. n \in 0 .. Len(output_buffer_) /\ ~write_shut
  BY <1>2 DEF WriteResults
<1> DEFINE out == SubSeq(output_buffer_, 1, n)
           rest == SubSeq(output_buffer_, n + 1, Len(output_buffer_))
<1>5. out \in Seq(Units) /\ rest \in Seq(Units) /\ out \o rest = output_buffer_
  BY <1>1, <1>4, CutInTwo
<1>6. wire' = wire \o out /\ output_buffer_' = rest
  BY <1>2
<1> HIDE DEF out, rest
<1>7. /\ wire' \in Seq(Units) /\ output_buffer_' \in Seq(Units)
      /\ Len(wire') \in Nat /\ reported \in Nat
  <2>1. wire' \in Seq(Units) /\ output_buffer_' \in Seq(Units)
    BY <1>1, <1>5, <1>6, ConcatProperties
  <2> QED
    BY <2>1, LenProperties DEF OutInv
<1>8. StreamInOrder'
  <2>1. wire \in Seq(Units) /\ out \in Seq(Units) /\ rest \in Seq(Units)
    BY <1>1, <1>5
  <2>2. (wire \o out) \o rest = wire \o (out \o rest)
    BY <2>1, ConcatAssociative
  <2> QED
    BY <1>1, <1>3, <1>5, <1>6, <2>2 DEF StreamInOrder
<1>9. CASE output_buffer_' = <<>>
  <2>1. events' = events \ {"write"} /\ reported' = Len(wire') /\ write_shut' \in BOOLEAN
    BY <1>1, <1>2, <1>9 DEF Flushed
  <2> QED
    BY <1>1, <1>3, <1>7, <1>8, <1>9, <2>1
    DEF OutInv, OutputFlushed, FlushBeforeShutdown, BufferedIffWriting, FlushIsReported,
        IsWriting
<1>10. CASE output_buffer_' # <<>>
  <2>1. UNCHANGED <<events, reported, write_shut>>
    BY <1>2, <1>10
  <2> QED
    BY <1>1, <1>3, <1>4, <1>7, <1>8, <1>10, <2>1
    DEF OutInv, OutputFlushed, FlushBeforeShutdown, BufferedIffWriting, FlushIsReported,
        IsWriting
<1> QED
  BY <1>9, <1>10

-----------------------------------------------------------------------------
(* The life of the connection. *)

LEMMA FunctorIsOne ==
    ASSUME NEW op \in FunctorOps
    PROVE  Functor(op) \in Functors /\ Functor(op).op = op
<1>1. <<>> \in Seq(Units)
  BY EmptySeq
<1> QED
  BY <1>1 DEF Functor, Functors

(* The steps that leave the callbacks, the server and the assertions alone. *)
LEMMA PlainStep ==
    ASSUME ConnInv, aborted = "none", History,
           ScalarsOK', OutInv', QueueOK',
           UNCHANGED <<ups, downs, closes, destroyed, server, aborted>>,
           \/ UNCHANGED <<pending, events, tpc>>
           \/ /\ ups # 0
              /\ OpsIn(pending') \subseteq OpsIn(pending) \cup
                    (FunctorOps \ {"ConnectionEstablished", "ConnectionDestroyed"}),
           \/ state_' = state_
           \/ state_' # "kdisconnected" /\ (state_ # "kdisconnected" \/ tpc' # tpc)
    PROVE  ConnInv'
<1>1. EstablishedOnce'
  BY DEF ConnInv, EstablishedOnce
<1>2. DestroyedByServer'
  BY DEF ConnInv, DestroyedByServer
<1>3. /\ revived' \in BOOLEAN /\ (~revived' => ~revived /\ ~Revives)
      /\ unannounced' = unannounced /\ unannounced' \in BOOLEAN
  BY DEF ConnInv, History, GoesUnannounced
<1>4. ClosedOnce'
  <2> SUFFICES ASSUME ~revived' PROVE ClosedOnce'
    BY DEF ClosedOnce
  <2>1. /\ downs = (IF state_ = "kdisconnected" THEN 1 ELSE 0) /\ closes <= downs
        /\ state_ = "kdisconnected" => events = {}
        /\ destroyed /\ ~unannounced => state_ = "kdisconnected" /\ ~added_to_loop_
        /\ unannounced => server = "dead"
        /\ added_to_loop_ \in BOOLEAN /\ added_to_loop_' \in BOOLEAN
    BY <1>3 DEF ConnInv, ClosedOnce, ScalarsOK
  <2>2. state_ = "kdisconnected" => /\ state_' = state_ /\ events' = {}
                                    /\ added_to_loop_' => added_to_loop_
    BY <1>3, <2>1 DEF Revives
  <2>3. state_' = "kdisconnected" <=> state_ = "kdisconnected"
    BY <2>2
  <2> QED
    BY <1>3, <2>1, <2>2, <2>3 DEF ClosedOnce
<1> QED
  BY <1>1, <1>2, <1>3, <1>4 DEF ConnInv

(* What an operation of the loop's thread starts from, with the rest of the *)
(* queue.                                                                   *)
Running(queue) ==
    /\ ConnInv /\ aborted = "none" /\ ups # 0
    /\ queue \in Seq(Functors) /\ OpsIn(queue) \subseteq OpsIn(pending)
    /\ tpc' = tpc /\ messages' \in 0 .. MaxMessages
    /\ History

LEMMA SendStep ==
    ASSUME NEW queue, Running(queue), NEW msg \in Seq(Units), SendInLoop(msg, queue)
    PROVE  ConnInv'
<1>1. OutInv'
  BY OutSend DEF Running, ConnInv
<1>2. /\ UNCHANGED <<state_, reading_, ups, downs, closes, destroyed, server, aborted, timer,
                     write_shut, peer_closed>>
      /\ pending' \in Seq(Functors)
      /\ OpsIn(pending') \subseteq OpsIn(queue) \cup {"WriteComplete", "HighWaterMark"}
      /\ events' \in SUBSET {"read", "write"} /\ added_to_loop_' \in BOOLEAN
  <2>1. CASE state_ = "kdisconnected"
    <3>1. pending' = queue /\ Quiet
      BY <2>1 DEF SendInLoop
    <3> QED
      BY <3>1 DEF Quiet, Running, ConnInv, ScalarsOK, stateVars, channelVars, kernelVars,
                  callbackVars
  <2>2. CASE state_ # "kdisconnected"
    <3>1. PICK r : LET n == IF r = Fault THEN 0 ELSE r
                       rest == IF r = Fault THEN <<>> ELSE SubSeq(msg, n + 1, Len(msg))
                       done == WritesDirectly /\ n = Len(msg)
                       crossed == /\ rest # <<>> /\ Len(output_buffer_) < high_water_mark_
                                  /\ Len(output_buffer_) + Len(rest) >= high_water_mark_
                   IN /\ events' = IF rest # <<>> THEN events \cup {"write"} ELSE events
                      /\ pending' = queue
                            \o (IF done THEN <<Functor("WriteComplete")>> ELSE <<>>)
                            \o (IF crossed THEN <<Functor("HighWaterMark")>> ELSE <<>>)
      BY <2>2 DEF SendInLoop
    <3>2. /\ added_to_loop_' = (added_to_loop_ \/ events' # events)
          /\ UNCHANGED <<stateVars, kernelVars, callbackVars, timer, server, aborted>>
      BY <2>2 DEF SendInLoop
    <3>3. \E a \in {<<>>, <<Functor("WriteComplete")>>},
             b \in {<<>>, <<Functor("HighWaterMark")>>} : pending' = (queue \o a) \o b
      BY <3>1
    <3>4. PICK a \in {<<>>, <<Functor("WriteComplete")>>},
               b \in {<<>>, <<Functor("HighWaterMark")>>} : pending' = (queue \o a) \o b
      BY <3>3
    <3>5. /\ a \in Seq(Functors) /\ b \in Seq(Functors)
          /\ OpsIn(a) \subseteq {"WriteComplete"} /\ OpsIn(b) \subseteq {"HighWaterMark"}
      <4>1. <<>> \in Seq(Functors) /\ OpsIn(<<>>) = {}
        BY EmptySeq DEF OpsIn
      <4>2. ASSUME NEW op \in {"WriteComplete", "HighWaterMark"}
            PROVE  <<Functor(op)>> \in Seq(Functors) /\ OpsIn(<<Functor(op)>>) = {op}
        <5>1. Functor(op) \in Functors /\ Functor(op).op = op
          BY FunctorIsOne DEF FunctorOps
        <5> HIDE DEF Functors, Functor
        <5>2. <<Functor(op)>> \in Seq(Functors)
          BY <5>1
        <5>3. DOMAIN <<Functor(op)>> = {1} /\ <<Functor(op)>>[1] = Functor(op)
          OBVIOUS
        <5> QED
          BY <5>1, <5>2, <5>3 DEF OpsIn
      <4> QED
        BY <3>4, <4>1, <4>2
    <3>6. queue \o a \in Seq(Functors) /\ OpsIn(queue \o a) \subseteq OpsIn(queue) \cup OpsIn(a)
      BY <3>5, OpsInConcat DEF Running
    <3>7. pending' \in Seq(Functors) /\ OpsIn(pending') \subseteq OpsIn(queue \o a) \cup OpsIn(b)
      BY <3>4, <3>5, <3>6, OpsInConcat
    <3>8. events' \in SUBSET {"read", "write"}
      BY <3>1 DEF Running, ConnInv, ScalarsOK
    <3>9. added_to_loop_' \in BOOLEAN
      BY <3>2
    <3> QED
      BY <3>2, <3>5, <3>6, <3>7, <3>8, <3>9
      DEF stateVars, kernelVars, callbackVars
  <2> QED
    BY <2>1, <2>2
<1>3. ScalarsOK'
  BY <1>2 DEF Running, ConnInv, ScalarsOK
<1>4. QueueOK'
  BY <1>2 DEF Running, ConnInv, QueueOK
<1>5. OpsIn(pending') \subseteq OpsIn(pending) \cup
            (FunctorOps \ {"ConnectionEstablished", "ConnectionDestroyed"})
  BY <1>2 DEF Running, FunctorOps
<1> QED
  BY <1>1, <1>2, <1>3, <1>4, <1>5, PlainStep DEF Running

(* The operations that only turn reading on or off, set the timer, or do    *)
(* nothing.                                                                 *)
LEMMA ReadStep ==
    ASSUME NEW queue, Running(queue),
           \/ StartReadInLoop(queue) \/ StopReadInLoop(queue)
           \/ AddTimerInLoop(queue)
           \/ pending' = queue /\ Quiet
    PROVE  ConnInv'
<1>1. /\ UNCHANGED <<state_, outVars, write_shut, peer_closed, ups, downs, closes, destroyed,
                     server, aborted>>
      /\ timer' \in BOOLEAN
      /\ pending' = queue
      /\ events' \in SUBSET {"read", "write"} /\ ("write" \in events' <=> "write" \in events)
      /\ reading_' \in BOOLEAN /\ added_to_loop_' \in BOOLEAN
  BY DEF Running, ConnInv, ScalarsOK, StartReadInLoop, StopReadInLoop, AddTimerInLoop,
         Quiet, stateVars, channelVars, kernelVars, callbackVars
<1>2. OutInv'
  BY <1>1, OutSame DEF Running, ConnInv, OutInv, IsWriting
<1>3. ScalarsOK' /\ QueueOK'
  BY <1>1 DEF Running, ConnInv, ScalarsOK, QueueOK
<1> QED
  BY <1>1, <1>2, <1>3, PlainStep DEF Running

LEMMA ShutdownStep ==
    ASSUME NEW queue, Running(queue), ShutdownInLoop(queue)
    PROVE  ConnInv'
<1>1. /\ UNCHANGED <<stateVars, channelVars, outVars, peer_closed, ups, downs, closes,
                     destroyed, timer, server, aborted>>
      /\ pending' = queue
      /\ write_shut' \in BOOLEAN /\ (write_shut' => write_shut \/ ~IsWriting)
  BY DEF ShutdownInLoop, callbackVars
<1>2. OutInv'
  BY <1>1, OutSame DEF Running, ConnInv, OutInv, IsWriting, channelVars
<1>3. ScalarsOK' /\ QueueOK'
  BY <1>1 DEF Running, ConnInv, ScalarsOK, QueueOK, stateVars, channelVars
<1> QED
  BY <1>1, <1>2, <1>3, PlainStep DEF Running, stateVars

(* A failed assertion leaves everything else as it was. *)
LEMMA AbortStep ==
    ASSUME NEW queue, Running(queue), NEW where, Abort(where), pending' = queue,
           ~revived => /\ where = "Channel::Remove" /\ server = "dead"
                       /\ state_ = "kdisconnecting"
    PROVE  ConnInv'
<1>1. UNCHANGED <<stateVars, channelVars, outVars, kernelVars, callbackVars, timer, tpc,
                  server, messages>> /\ aborted' = where
  BY DEF Abort
<1>2. OutInv'
  BY <1>1, OutSame DEF Running, ConnInv, OutInv, IsWriting, channelVars, kernelVars,
                       callbackVars
<1>3. ScalarsOK' /\ QueueOK'
  BY <1>1 DEF Running, ConnInv, ScalarsOK, QueueOK, stateVars, channelVars, kernelVars,
              callbackVars
<1>4. /\ revived' \in BOOLEAN /\ (~revived' => ~revived)
      /\ unannounced' = unannounced /\ unannounced' \in BOOLEAN
  BY <1>1 DEF Running, ConnInv, History, GoesUnannounced, callbackVars
<1>5. EstablishedOnce' /\ DestroyedByServer'
  BY <1>1 DEF Running, ConnInv, EstablishedOnce, DestroyedByServer, callbackVars
<1>6. ClosedOnce'
  BY <1>1, <1>4 DEF Running, ConnInv, ClosedOnce, stateVars, channelVars, callbackVars
<1> QED
  BY <1>2, <1>3, <1>4, <1>5, <1>6 DEF ConnInv

(* HandleClose, from an event or from ForceCloseInLoop. *)
LEMMA CloseStep ==
    ASSUME NEW queue, Running(queue), HandleClose(queue),
           events # {} \/ state_ \in {"kconnected", "kdisconnecting"}
    PROVE  ConnInv'
<1>1. CASE state_ \in {"kconnected", "kdisconnecting"}
  <2>1. /\ pending' = queue /\ state_' = "kdisconnected" /\ events' = {}
        /\ downs' = downs + 1 /\ closes' = closes + 1 /\ added_to_loop_' = TRUE
        /\ UNCHANGED <<reading_, outVars, kernelVars, ups, destroyed, timer,
                       server, aborted>>
    BY <1>1 DEF HandleClose, DisableAll
  <2>2. downs' \in Nat /\ downs' # 0 /\ closes' \in Nat /\ closes' > 0
    BY <2>1 DEF Running, ConnInv, OutInv, ScalarsOK
  <2>3. OutInv'
    BY <2>1, <2>2, OutSame DEF Running, ConnInv, OutInv, kernelVars
  <2>4. ScalarsOK' /\ QueueOK'
    BY <2>1, <2>2 DEF Running, ConnInv, ScalarsOK, QueueOK, kernelVars
  <2>5. EstablishedOnce' /\ DestroyedByServer'
    BY <2>1, <2>2 DEF Running, ConnInv, EstablishedOnce, DestroyedByServer
  <2>6. /\ revived' \in BOOLEAN /\ (~revived' => ~revived)
        /\ unannounced' = unannounced /\ unannounced' \in BOOLEAN
    BY <2>1 DEF Running, ConnInv, History, GoesUnannounced
  <2>7. ClosedOnce'
    <3> SUFFICES ASSUME ~revived' PROVE ClosedOnce'
      BY DEF ClosedOnce
    <3>1. downs = 0 /\ closes <= downs /\ closes \in Nat
      BY <1>1, <2>6 DEF Running, ConnInv, ClosedOnce, ScalarsOK
    <3>2. (destroyed => unannounced) /\ (unannounced => server = "dead")
      BY <1>1, <2>6 DEF Running, ConnInv, ClosedOnce
    <3> QED
      BY <2>1, <2>6, <3>1, <3>2 DEF ClosedOnce, Running
  <2> QED
    BY <2>3, <2>4, <2>5, <2>6, <2>7 DEF ConnInv
<1>2. CASE state_ \notin {"kconnected", "kdisconnecting"}
  <2>1. Abort("HandleClose") /\ pending' = queue
    BY <1>2 DEF HandleClose
  <2>2. revived
    BY <1>2 DEF Running, ConnInv, ScalarsOK, ClosedOnce
  <2> QED
    BY <2>1, <2>2, AbortStep
<1> QED
  BY <1>1, <1>2

LEMMA DestroyedStep ==
    ASSUME NEW queue, Running(queue), ConnectionDestroyed(queue),
           "ConnectionDestroyed" \in OpsIn(pending)
    PROVE  ConnInv'
<1>1. server \in {"removed", "dead"}
  BY DEF Running, ConnInv, ScalarsOK, DestroyedByServer
<1>2. /\ revived' \in BOOLEAN /\ (~revived' => ~revived) /\ unannounced' \in BOOLEAN
      /\ unannounced' = (unannounced \/ GoesUnannounced)
  BY DEF Running, ConnInv, History
<1>3. ~revived /\ server = "removed" => state_ = "kdisconnected" /\ events = {}
  BY DEF Running, ConnInv, ScalarsOK, DestroyedByServer, ClosedOnce
<1>4. CASE StillUp \/ events = {}
  <2>1. /\ pending' = queue
        /\ state_' = IF StillUp THEN "kdisconnected" ELSE state_
        /\ events' = {} /\ added_to_loop_' = FALSE
        /\ downs' = IF StillUp THEN downs + 1 ELSE downs
        /\ destroyed' = TRUE
        /\ UNCHANGED <<reading_, outVars, kernelVars, ups, closes, timer, server, aborted>>
    BY <1>4 DEF ConnectionDestroyed
  <2>2. downs' \in Nat /\ (downs' = 0 => downs = 0 /\ events = {})
    BY <1>4, <2>1 DEF Running, ConnInv, OutInv
  <2>3. OutInv'
    BY <2>1, <2>2, OutSame DEF Running, ConnInv, OutInv, kernelVars, IsWriting
  <2>4. ScalarsOK' /\ QueueOK'
    BY <2>1, <2>2 DEF Running, ConnInv, ScalarsOK, QueueOK, kernelVars
  <2>5. EstablishedOnce' /\ DestroyedByServer'
    BY <1>1, <2>1 DEF Running, ConnInv, EstablishedOnce, DestroyedByServer
  <2>6. ClosedOnce'
    <3> SUFFICES ASSUME ~revived' PROVE ClosedOnce'
      BY DEF ClosedOnce
    <3>1. /\ downs = (IF state_ = "kdisconnected" THEN 1 ELSE 0) /\ closes <= downs
          /\ closes \in Nat /\ aborted = "none"
          /\ destroyed /\ ~unannounced => state_ = "kdisconnected" /\ ~added_to_loop_
          /\ unannounced => server = "dead"
          /\ state_ \in {"kconnected", "kdisconnecting", "kdisconnected"}
      BY <1>2 DEF Running, ConnInv, ClosedOnce, ScalarsOK
    <3>2. /\ downs' = (IF state_' = "kdisconnected" THEN 1 ELSE 0) /\ closes <= downs'
          /\ events' = {} /\ added_to_loop_' = FALSE /\ aborted' = "none"
          /\ UNCHANGED <<server, closes>>
      BY <2>1, <3>1 DEF StillUp
    <3>3. unannounced' => server = "dead"
      BY <1>1, <1>2, <1>3, <3>1 DEF GoesUnannounced
    <3>4. ~unannounced' => state_' = "kdisconnected"
      BY <1>2, <2>1, <3>1 DEF GoesUnannounced, StillUp
    <3> QED
      BY <3>2, <3>3, <3>4 DEF ClosedOnce
  <2> QED
    BY <1>2, <2>3, <2>4, <2>5, <2>6 DEF ConnInv
<1>5. CASE ~(StillUp \/ events = {})
  <2>1. Abort("Channel::Remove") /\ pending' = queue
    BY <1>5 DEF ConnectionDestroyed
  <2>2. ~revived => server = "dead" /\ state_ = "kdisconnecting"
    BY <1>1, <1>3, <1>5 DEF Running, ConnInv, ClosedOnce, ScalarsOK, StillUp
  <2> QED
    BY <2>1, <2>2, AbortStep
<1> QED
  BY <1>4, <1>5

LEMMA MessageIsUnits ==
    ASSUME NEW m \in 1 .. MaxMessages, NEW n \in Sizes
    PROVE  Message(m, n) \in Seq(Units)
<1>1. n \in Nat /\ \A k \in 1 .. n : <<m, k>> \in Units
  BY ConnectionAssumption DEF Units
<1>2. \A e \in [1 .. n -> Units] : e \in Seq(Units)
  BY <1>1
<1> QED
  BY <1>1, <1>2 DEF Message

(* The queue gets one functor more, of another operation. *)
LEMMA QueuesOne ==
    ASSUME ConnInv, NEW f \in Functors,
           f.op \notin {"ConnectionEstablished", "ConnectionDestroyed"}
    PROVE  /\ Append(pending, f) \in Seq(Functors)
           /\ OpsIn(Append(pending, f)) \subseteq OpsIn(pending) \cup
                    (FunctorOps \ {"ConnectionEstablished", "ConnectionDestroyed"})
<1>1. f.op \in FunctorOps
  BY DEF Functors
<1>2. pending \in Seq(Functors)
  BY DEF ConnInv, QueueOK
<1> HIDE DEF Functors
<1>3. Append(pending, f) \in Seq(Functors) /\ OpsIn(Append(pending, f)) \subseteq OpsIn(pending) \cup {f.op}
  BY <1>2, OpsInAppend
<1> QED
  BY <1>1, <1>3

LEMMA RunFunctorStep ==
    ASSUME ConnInv, aborted = "none", RunFunctor, History
    PROVE  ConnInv'
<1> DEFINE f == Head(pending)
           rest == Tail(pending)
<1>1. /\ pending # <<>> /\ pending \in Seq(Functors) /\ UNCHANGED <<tpc, messages>>
      /\ messages \in 0 .. MaxMessages
  BY DEF RunFunctor, ConnInv, QueueOK, ScalarsOK
<1>2. /\ f \in Functors /\ rest \in Seq(Functors)
      /\ OpsIn(rest) \subseteq OpsIn(pending) /\ f.op \in OpsIn(pending)
  <2> HIDE DEF Functors
  <2> QED
    BY <1>1, OpsInTail
<1>3. f.msg \in Seq(Units)
  BY <1>2 DEF Functors
<1>4. \/ f.op = "SendInLoop" /\ SendInLoop(f.msg, rest)
      \/ f.op = "ShutdownInLoop" /\ ShutdownInLoop(rest)
      \/ f.op = "ForceCloseInLoop" /\ ForceCloseInLoop(rest)
      \/ f.op = "StartReadInLoop" /\ StartReadInLoop(rest)
      \/ f.op = "StopReadInLoop" /\ StopReadInLoop(rest)
      \/ f.op = "ConnectionEstablished" /\ ConnectionEstablished(rest)
      \/ f.op = "ConnectionDestroyed" /\ ConnectionDestroyed(rest)
      \/ f.op = "AddTimerInLoop" /\ AddTimerInLoop(rest)
      \/ f.op \in {"WriteComplete", "HighWaterMark"} /\ pending' = rest /\ Quiet
  BY DEF RunFunctor
<1> HIDE DEF f, rest
<1>5. CASE ups # 0
  <2>1. Running(rest)
    BY <1>1, <1>2, <1>5 DEF Running
  <2>2. f.op # "ConnectionEstablished"
    BY <1>2, <1>5 DEF ConnInv, EstablishedOnce
  <2>3. CASE SendInLoop(f.msg, rest)
    BY <1>3, <2>1, <2>3, SendStep
  <2>4. CASE ShutdownInLoop(rest)
    BY <2>1, <2>4, ShutdownStep
  <2>5. CASE ForceCloseInLoop(rest)
    BY <2>1, <2>5, CloseStep, ReadStep DEF ForceCloseInLoop
  <2>6. CASE StartReadInLoop(rest) \/ StopReadInLoop(rest) \/ (pending' = rest /\ Quiet)
    BY <2>1, <2>6, ReadStep
  <2>7. CASE f.op = "ConnectionDestroyed" /\ ConnectionDestroyed(rest)
    BY <1>2, <2>1, <2>7, DestroyedStep
  <2>8. CASE AddTimerInLoop(rest)
    BY <2>1, <2>8, ReadStep
  <2> QED
    BY <1>4, <2>2, <2>3, <2>4, <2>5, <2>6, <2>7, <2>8
<1>6. CASE ups = 0
  <2>1. /\ f.op = "ConnectionEstablished" /\ OpsIn(rest) \subseteq {"ConnectionDestroyed"}
        /\ events = {} /\ downs = 0 /\ closes = 0 /\ ~destroyed /\ state_ = "kconnecting"
    BY <1>6 DEF ConnInv, EstablishedOnce, ScalarsOK, f, rest
  <2>2. /\ pending' = rest /\ state_' = "kconnected" /\ events' = {"read"}
        /\ added_to_loop_' = TRUE /\ ups' = 1
        /\ UNCHANGED <<reading_, outVars, kernelVars, downs, closes, destroyed, timer, server,
                       aborted>>
    BY <1>4, <1>6, <2>1 DEF ConnectionEstablished
  <2>3. OutInv'
    BY <2>1, <2>2, OutSame DEF ConnInv, OutInv, IsWriting, kernelVars
  <2>4. ScalarsOK' /\ QueueOK'
    BY <1>1, <1>2, <2>2 DEF ConnInv, ScalarsOK, QueueOK, kernelVars
  <2>5. EstablishedOnce' /\ DestroyedByServer'
    BY <1>2, <2>1, <2>2 DEF ConnInv, EstablishedOnce, DestroyedByServer
  <2>6. /\ revived' \in BOOLEAN /\ (~revived' => ~revived)
        /\ unannounced' = unannounced /\ unannounced' \in BOOLEAN
    BY <2>2 DEF ConnInv, History, GoesUnannounced
  <2>7. ClosedOnce'
    BY <2>1, <2>2, <2>6 DEF ConnInv, ClosedOnce
  <2> QED
    BY <2>3, <2>4, <2>5, <2>6, <2>7 DEF ConnInv
<1> QED
  BY <1>5, <1>6

LEMMA HandleReadStep ==
    ASSUME ConnInv, aborted = "none", HandleRead, History
    PROVE  ConnInv'
<1>1. events # {} /\ HandleClose(pending) /\ UNCHANGED <<tpc, messages>>
  BY DEF HandleRead
<1>2. ups # 0
  BY <1>1 DEF ConnInv, EstablishedOnce
<1>3. Running(pending)
  BY <1>1, <1>2 DEF Running, ConnInv, QueueOK, ScalarsOK
<1> QED
  BY <1>1, <1>3, CloseStep

LEMMA HandleWriteStep ==
    ASSUME ConnInv, aborted = "none", HandleWrite, History
    PROVE  ConnInv'
<1>1. OutInv'
  BY OutHandleWrite DEF ConnInv
<1>2. /\ UNCHANGED <<stateVars, added_to_loop_, accepted, peer_closed, callbackVars, timer,
                     tpc, server, aborted, messages>>
      /\ IsWriting
      /\ \/ Flushed
         \/ UNCHANGED <<events, reported, pending, write_shut>>
  BY DEF HandleWrite
<1>3. ups # 0
  BY <1>2 DEF ConnInv, EstablishedOnce, IsWriting
<1>4. /\ pending' \in Seq(Functors)
      /\ OpsIn(pending') \subseteq OpsIn(pending) \cup
            (FunctorOps \ {"ConnectionEstablished", "ConnectionDestroyed"})
      /\ events' \in SUBSET {"read", "write"}
  <2>1. CASE Flushed
    <3>1. Functor("WriteComplete") \in Functors /\ Functor("WriteComplete").op = "WriteComplete"
      BY FunctorIsOne DEF FunctorOps
    <3>2. pending' = Append(pending, Functor("WriteComplete")) /\ events' \subseteq events
      BY <2>1 DEF Flushed
    <3> QED
      BY <3>1, <3>2, QueuesOne DEF ConnInv, ScalarsOK
  <2>2. CASE UNCHANGED <<events, reported, pending, write_shut>>
    BY <2>2 DEF ConnInv, QueueOK, ScalarsOK
  <2> QED
    BY <1>2, <2>1, <2>2
<1>5. ScalarsOK' /\ QueueOK'
  BY <1>2, <1>4 DEF ConnInv, ScalarsOK, QueueOK, stateVars, callbackVars
<1> QED
  BY <1>1, <1>2, <1>3, <1>4, <1>5, PlainStep DEF stateVars, callbackVars

(* A step that stores kdisconnecting over a state that is up, or is another *)
(* thread's, and may queue the operation's second half.                     *)
LEMMA UserStep ==
    ASSUME ConnInv, aborted = "none", History,
           UNCHANGED <<reading_, channelVars, outVars, callbackVars, server, aborted>>,
           timer' \in BOOLEAN, peer_closed' \in BOOLEAN, messages' \in 0 .. MaxMessages,
           write_shut' \in BOOLEAN, write_shut' => write_shut \/ ~IsWriting, QueueOK',
           \/ UNCHANGED <<pending, tpc>>
           \/ /\ ups # 0
              /\ \/ pending' = pending
                 \/ \E f \in Functors :
                        /\ f.op \notin {"ConnectionEstablished", "ConnectionDestroyed"}
                        /\ pending' = Append(pending, f),
           \/ state_' = state_
           \/ /\ state_' = "kdisconnecting" /\ ups # 0
              /\ state_ # "kdisconnected" \/ tpc' # tpc
    PROVE  ConnInv'
<1>1. OutInv'
  BY OutSame DEF ConnInv, OutInv, IsWriting, channelVars, callbackVars
<1>2. ScalarsOK'
  BY DEF ConnInv, ScalarsOK, channelVars, callbackVars
<1>3. /\ UNCHANGED <<ups, downs, closes, destroyed, server, aborted, events>>
      /\ \/ state_' = state_
         \/ state_' # "kdisconnected" /\ (state_ # "kdisconnected" \/ tpc' # tpc)
  BY DEF channelVars, callbackVars
<1>4. \/ UNCHANGED <<pending, events, tpc>>
      \/ /\ ups # 0
         /\ OpsIn(pending') \subseteq OpsIn(pending) \cup
                    (FunctorOps \ {"ConnectionEstablished", "ConnectionDestroyed"})
  BY <1>3, QueuesOne
<1> QED
  BY <1>1, <1>2, <1>3, <1>4, PlainStep

LEMMA DelayedForceCloseStep ==
    ASSUME ConnInv, aborted = "none", DelayedForceClose, History
    PROVE  ConnInv'
<1> DEFINE f == Functor("ForceCloseInLoop")
<1>1. f \in Functors /\ f.op = "ForceCloseInLoop"
  BY FunctorIsOne DEF FunctorOps
<1> HIDE DEF f
<1>2. /\ UNCHANGED <<reading_, channelVars, outVars, kernelVars, callbackVars, tpc, server,
                     aborted, messages>>
      /\ timer' = FALSE
      /\ \/ /\ state_ \in {"kconnected", "kdisconnecting"} /\ state_' = "kdisconnecting"
            /\ pending' = Append(pending, f)
         \/ UNCHANGED <<state_, pending>>
  BY DEF DelayedForceClose, f
<1>3. QueueOK'
  BY <1>1, <1>2, QueuesOne DEF ConnInv, QueueOK
<1>4. UNCHANGED <<write_shut, peer_closed>> /\ messages' \in 0 .. MaxMessages
      /\ peer_closed' \in BOOLEAN /\ write_shut' \in BOOLEAN
  BY <1>2 DEF ConnInv, ScalarsOK, OutInv, kernelVars
<1>5. state_ \in {"kconnected", "kdisconnecting"} => ups # 0
  BY DEF ConnInv, ScalarsOK
<1> QED
  BY <1>1, <1>2, <1>3, <1>4, <1>5, UserStep

LEMMA CallHereStep ==
    ASSUME ConnInv, aborted = "none", NEW op, CallHere(op), History
    PROVE  ConnInv'
<1>1. ups # 0 /\ state_ # "kdisconnected" /\ tpc' = tpc
  BY DEF CallHere, ConnInv, ScalarsOK
<1>2. pending \in Seq(Functors) /\ messages \in 0 .. MaxMessages
  BY DEF ConnInv, QueueOK, ScalarsOK
<1>3. messages' \in 0 .. MaxMessages => Running(pending)
  BY <1>1, <1>2 DEF Running
<1>4. CASE messages < MaxMessages /\ messages' = messages + 1
           /\ \E n \in Sizes : SendInLoop(Message(messages', n), pending)
  <2>1. messages' \in 1 .. MaxMessages /\ messages' \in 0 .. MaxMessages
    BY <1>2, <1>4, ConnectionAssumption
  <2>2. PICK n \in Sizes : SendInLoop(Message(messages', n), pending)
    BY <1>4
  <2>3. Message(messages', n) \in Seq(Units)
    BY <2>1, MessageIsUnits
  <2> QED
    BY <1>3, <2>1, <2>2, <2>3, SendStep
<1>5. CASE /\ state_' = "kdisconnecting"
           /\ write_shut' = (write_shut \/ ~IsWriting)
           /\ UNCHANGED <<reading_, channelVars, outVars, peer_closed, callbackVars,
                          pending, timer, server, aborted, messages>>
  BY <1>1, <1>2, <1>5, UserStep DEF ConnInv, ScalarsOK, QueueOK
<1>6. CASE ForceCloseHere(pending) /\ UNCHANGED messages
  <2>1. CASE state_ \in {"kconnected", "kdisconnecting"}
    <3> DEFINE f == Functor("ForceCloseInLoop")
    <3>1. f \in Functors /\ f.op = "ForceCloseInLoop"
      BY FunctorIsOne DEF FunctorOps
    <3> HIDE DEF f
    <3>2. /\ state_' = "kdisconnecting" /\ pending' = Append(pending, f)
          /\ UNCHANGED <<reading_, channelVars, outVars, kernelVars, callbackVars, timer,
                         server, aborted>>
      BY <1>6, <2>1 DEF ForceCloseHere, f
    <3>3. QueueOK'
      BY <1>1, <3>1, <3>2, QueuesOne DEF ConnInv, QueueOK
    <3>4. UNCHANGED <<write_shut, peer_closed>> /\ messages' \in 0 .. MaxMessages
          /\ peer_closed' \in BOOLEAN /\ write_shut' \in BOOLEAN /\ timer' \in BOOLEAN
      BY <1>6, <3>2 DEF ConnInv, ScalarsOK, OutInv, kernelVars
    <3> QED
      BY <1>1, <3>1, <3>2, <3>3, <3>4, UserStep
  <2>2. CASE state_ \notin {"kconnected", "kdisconnecting"}
    BY <1>2, <1>3, <1>6, <2>2, ReadStep DEF ForceCloseHere
  <2> QED
    BY <2>1, <2>2
<1>7. CASE /\ state_' = "kdisconnecting" /\ timer' = TRUE
           /\ UNCHANGED <<reading_, channelVars, outVars, kernelVars, callbackVars,
                          pending, server, aborted, messages>>
  BY <1>1, <1>2, <1>7, UserStep DEF ConnInv, ScalarsOK, QueueOK, OutInv, kernelVars
<1>8. CASE (StartReadInLoop(pending) \/ StopReadInLoop(pending)) /\ UNCHANGED messages
  BY <1>2, <1>3, <1>8, ReadStep
<1> QED
  BY <1>4, <1>5, <1>6, <1>7, <1>8 DEF CallHere

LEMMA OtherThreadStep ==
    ASSUME ConnInv, aborted = "none", History, NEW t \in Threads,
           (\E op \in RemoteOps : Call(t, op)) \/ StoreState(t) \/ QueueCall(t)
    PROVE  ConnInv'
<1> DEFINE Calls == [op : Ops \cup {"idle"}, stage : {"idle", "tested", "stored"}]
<1>1. /\ pending \in Seq(Functors) /\ tpc \in [Threads -> Calls]
      /\ messages \in 0 .. MaxMessages /\ timer \in BOOLEAN /\ peer_closed \in BOOLEAN
      /\ write_shut \in BOOLEAN /\ Idle \in Calls
  BY DEF ConnInv, QueueOK, ScalarsOK, OutInv, Idle
<1>2. tpc[t] # Idle => ups # 0
  BY DEF ConnInv, EstablishedOnce
<1>3. ASSUME NEW op \in RemoteOps, Call(t, op) PROVE ConnInv'
  <2>1. [op |-> op, stage |-> "tested"] \in Calls
    BY ConnectionAssumption
  <2>2. /\ tpc' = [tpc EXCEPT ![t] = [op |-> op, stage |-> "tested"]] /\ ups > 0
        /\ UNCHANGED <<stateVars, channelVars, outVars, kernelVars, callbackVars, pending,
                       timer, server, aborted, messages>>
    BY <1>3 DEF Call
  <2> HIDE DEF Calls
  <2>3. tpc' \in [Threads -> Calls]
    BY <1>1, <2>1, <2>2
  <2>4. QueueOK'
    BY <1>1, <2>2, <2>3 DEF QueueOK, Calls
  <2>5. ups # 0
    BY <2>2 DEF ConnInv, ScalarsOK
  <2> QED
    BY <1>1, <2>2, <2>4, <2>5, UserStep DEF stateVars, kernelVars
<1>4. CASE StoreState(t)
  <2>1. /\ tpc[t].op \in StoringOps /\ tpc[t].stage = "tested"
        /\ state_' = "kdisconnecting"
        /\ tpc' = [tpc EXCEPT ![t].stage = "stored"]
        /\ UNCHANGED <<reading_, channelVars, outVars, kernelVars, callbackVars, pending,
                       timer, server, aborted, messages>>
    BY <1>4 DEF StoreState
  <2>2. tpc[t] # Idle
    BY <2>1 DEF Idle, StoringOps
  <2>3. tpc'[t].stage = "stored" /\ tpc' \in [Threads -> Calls]
    BY <1>1, <2>1
  <2>4. tpc' # tpc
    BY <2>1, <2>3
  <2>5. QueueOK'
    BY <1>1, <2>1, <2>3 DEF QueueOK
  <2> HIDE DEF Calls
  <2> QED
    BY <1>1, <1>2, <2>1, <2>2, <2>4, <2>5, UserStep DEF kernelVars
<1>5. CASE QueueCall(t)
  <2>1. /\ tpc' = [tpc EXCEPT ![t] = Idle]
        /\ UNCHANGED <<stateVars, channelVars, outVars, kernelVars, callbackVars, timer,
                       server, aborted>>
    BY <1>5 DEF QueueCall
  <2>2. tpc' \in [Threads -> Calls]
    BY <1>1, <2>1
  <2>3. /\ messages' \in 0 .. MaxMessages /\ tpc[t] # Idle
        /\ \E f \in Functors : /\ f.op \notin {"ConnectionEstablished", "ConnectionDestroyed"}
                               /\ pending' = Append(pending, f)
    <3>1. CASE /\ tpc[t].op = "Send" /\ messages < MaxMessages /\ messages' = messages + 1
               /\ \E n \in Sizes : pending' = Append(pending,
                        [op |-> "SendInLoop", msg |-> Message(messages', n)])
      <4>1. messages' \in 1 .. MaxMessages /\ messages' \in 0 .. MaxMessages
        BY <1>1, <3>1, ConnectionAssumption
      <4>2. PICK n \in Sizes : pending' = Append(pending,
                        [op |-> "SendInLoop", msg |-> Message(messages', n)])
        BY <3>1
      <4>3. Message(messages', n) \in Seq(Units)
        BY <4>1, MessageIsUnits
      <4>4. [op |-> "SendInLoop", msg |-> Message(messages', n)] \in Functors
        BY <4>3 DEF Functors, FunctorOps
      <4>5. tpc[t] # Idle
        BY <3>1 DEF Idle
      <4> QED
        BY <4>1, <4>2, <4>4, <4>5
    <3>2. CASE \E op \in {"ShutdownInLoop", "ForceCloseInLoop", "AddTimerInLoop",
                          "StartReadInLoop", "StopReadInLoop"} : pending' = Append(pending, Functor(op))
               /\ tpc[t].op # "idle" /\ UNCHANGED messages
      <4>1. PICK op \in {"ShutdownInLoop", "ForceCloseInLoop", "AddTimerInLoop",
                         "StartReadInLoop", "StopReadInLoop"} : pending' = Append(pending, Functor(op))
               /\ tpc[t].op # "idle" /\ UNCHANGED messages
        BY <3>2
      <4>2. Functor(op) \in Functors /\ Functor(op).op = op
        BY FunctorIsOne DEF FunctorOps
      <4>3. tpc[t] # Idle
        BY <4>1 DEF Idle
      <4> QED
        BY <1>1, <4>1, <4>2, <4>3
    <3>3. /\ "idle" \notin DOMAIN SecondHalf
          /\ \A op \in DOMAIN SecondHalf :
                SecondHalf[op] \in {"ShutdownInLoop", "ForceCloseInLoop", "AddTimerInLoop",
                                    "StartReadInLoop", "StopReadInLoop"}
      BY DEF SecondHalf
    <3> QED
      BY <1>5, <3>1, <3>2, <3>3 DEF QueueCall
  <2>4. pending' \in Seq(Functors)
    BY <2>3, QueuesOne
  <2>5. QueueOK'
    BY <2>2, <2>4 DEF QueueOK
  <2> HIDE DEF Calls
  <2> QED
    BY <1>1, <1>2, <2>1, <2>3, <2>5, UserStep DEF stateVars, kernelVars
<1> QED
  BY <1>3, <1>4, <1>5

(* The server queues ConnectionDestroyed. *)
LEMMA ServerStep ==
    ASSUME ConnInv, aborted = "none", History,
           RemoveConnection \/ ServerDies
    PROVE  ConnInv'
<1> DEFINE f == Functor("ConnectionDestroyed")
<1>1. f \in Functors /\ f.op = "ConnectionDestroyed"
  BY FunctorIsOne DEF FunctorOps
<1> HIDE DEF f
<1>2. /\ UNCHANGED <<stateVars, channelVars, outVars, kernelVars, callbackVars, timer, tpc,
                     aborted, messages>>
      /\ pending' = Append(pending, f) /\ server = "has"
      /\ \/ server' = "removed" /\ closes > 0
         \/ server' = "dead"
  BY DEF RemoveConnection, ServerDies, f
<1>3. /\ pending' \in Seq(Functors) /\ OpsIn(pending') \subseteq OpsIn(pending) \cup {f.op}
      /\ pending # <<>> => /\ pending' # <<>> /\ Head(pending') = Head(pending)
                           /\ Tail(pending') = Append(Tail(pending), f)
  <2>1. pending \in Seq(Functors)
    BY DEF ConnInv, QueueOK
  <2> HIDE DEF Functors
  <2> QED
    BY <1>1, <1>2, <2>1, OpsInAppend
<1>4. OutInv'
  BY <1>2, OutSame DEF ConnInv, OutInv, IsWriting, channelVars, kernelVars, callbackVars
<1>5. ScalarsOK' /\ QueueOK'
  BY <1>2, <1>3 DEF ConnInv, ScalarsOK, QueueOK, stateVars, channelVars, kernelVars,
                    callbackVars
<1>6. EstablishedOnce'
  <2>1. UNCHANGED <<ups, events, downs, closes, destroyed, tpc>>
    BY <1>2 DEF channelVars, callbackVars
  <2>2. CASE ups = 0
    <3>1. pending # <<>> /\ OpsIn(Tail(pending)) \subseteq {"ConnectionDestroyed"}
      BY <2>2 DEF ConnInv, EstablishedOnce
    <3>2. OpsIn(Tail(pending')) \subseteq {"ConnectionDestroyed"}
      <4>1. pending \in Seq(Functors)
        BY DEF ConnInv, QueueOK
      <4> HIDE DEF Functors
      <4>2. Tail(pending) \in Seq(Functors)
        BY <3>1, <4>1, OpsInTail
      <4>3. OpsIn(Append(Tail(pending), f)) \subseteq OpsIn(Tail(pending)) \cup {f.op}
        BY <1>1, <4>2, OpsInAppend
      <4> QED
        BY <1>1, <1>3, <3>1, <4>3
    <3> QED
      BY <1>3, <2>1, <2>2, <3>1, <3>2 DEF ConnInv, EstablishedOnce
  <2>3. CASE ups # 0
    BY <1>1, <1>3, <2>1, <2>3 DEF ConnInv, EstablishedOnce
  <2> QED
    BY <2>2, <2>3
<1>7. DestroyedByServer'
  BY <1>2 DEF DestroyedByServer, callbackVars
<1>8. /\ revived' \in BOOLEAN /\ (~revived' => ~revived)
      /\ unannounced' = unannounced /\ unannounced' \in BOOLEAN
  BY <1>2 DEF ConnInv, History, GoesUnannounced, callbackVars
<1>9. ClosedOnce'
  <2>1. ~destroyed
    BY <1>2 DEF ConnInv, DestroyedByServer
  <2> QED
    BY <1>2, <1>8, <2>1 DEF ConnInv, ClosedOnce, stateVars, channelVars, callbackVars
<1> QED
  BY <1>4, <1>5, <1>6, <1>7, <1>8, <1>9 DEF ConnInv

LEMMA RemoveAgainStep ==
    ASSUME ConnInv, aborted = "none", History, RemoveAgain
    PROVE  ConnInv'
<1>1. closes > 1 /\ pending' = pending /\ Abort("erase")
  BY DEF RemoveAgain
<1>2. revived
  BY <1>1 DEF ConnInv, ClosedOnce, ScalarsOK
<1>3. ups # 0
  BY <1>1 DEF ConnInv, EstablishedOnce
<1>4. Running(pending)
  BY <1>1, <1>3 DEF Running, Abort, ConnInv, QueueOK, ScalarsOK
<1> QED
  BY <1>1, <1>2, <1>4, AbortStep

LEMMA ConnInvStep == ConnInv /\ [Next]_vars => ConnInv'
<1> SUFFICES ASSUME ConnInv, [Next]_vars PROVE ConnInv'
  OBVIOUS
<1>1. CASE UNCHANGED vars
  <2>1. UNCHANGED <<state_, reading_, events, added_to_loop_, output_buffer_, wire, accepted,
                    reported, write_shut, peer_closed, ups, downs, closes, destroyed, pending,
                    timer, tpc, server, aborted, messages, revived, unannounced>>
    BY <1>1 DEF vars, stateVars, channelVars, outVars, kernelVars, callbackVars
  <2>2. OutInv'
    BY <2>1, OutSame DEF ConnInv, OutInv, IsWriting, outVars
  <2> QED
    BY <2>1, <2>2 DEF ConnInv, ScalarsOK, QueueOK, EstablishedOnce, DestroyedByServer,
                      ClosedOnce
<1>2. CASE Next
  <2>1. aborted = "none" /\ History
    BY <1>2 DEF Next
  <2>2. CASE LoopNext
    BY <2>1, <2>2, RunFunctorStep, HandleReadStep, HandleWriteStep DEF LoopNext
  <2>3. CASE DelayedForceClose
    BY <2>1, <2>3, DelayedForceCloseStep
  <2>4. CASE \E op \in LocalOps : CallHere(op)
    BY <2>1, <2>4, CallHereStep
  <2>5. CASE \E t \in Threads : \/ \E op \in RemoteOps : Call(t, op)
                                \/ StoreState(t) \/ QueueCall(t)
    BY <2>1, <2>5, OtherThreadStep
  <2>6. CASE PeerCloses
    BY <2>1, <2>6, UserStep
    DEF PeerCloses, ConnInv, ScalarsOK, QueueOK, OutInv, stateVars
  <2>7. CASE RemoveConnection \/ ServerDies
    BY <2>1, <2>7, ServerStep
  <2>8. CASE RemoveAgain
    BY <2>1, <2>8, RemoveAgainStep
  <2> QED
    BY <1>2, <2>2, <2>3, <2>4, <2>5, <2>6, <2>7, <2>8 DEF Next
<1> QED
  BY <1>1, <1>2

LEMMA ConnInvInit == Init => ConnInv
<1> SUFFICES ASSUME Init PROVE ConnInv
  OBVIOUS
<1> DEFINE f == Functor("ConnectionEstablished")
<1>1. f \in Functors /\ f.op = "ConnectionEstablished"
  BY FunctorIsOne DEF FunctorOps
<1> HIDE DEF f
<1>2. pending = <<f>>
  BY DEF Init, f
<1>3. ScalarsOK
  <2>1. MaxMessages \in Nat
    BY ConnectionAssumption
  <2>2. /\ reading_ \in BOOLEAN /\ added_to_loop_ \in BOOLEAN /\ timer \in BOOLEAN
        /\ peer_closed \in BOOLEAN /\ destroyed \in BOOLEAN
    BY Zenon DEF Init
  <2>3. /\ state_ = "kconnecting" /\ events = {} /\ server = "has" /\ messages = 0
        /\ ups = 0 /\ closes = 0
    BY DEF Init
  <2>4. messages \in 0 .. MaxMessages /\ ups \in Nat /\ closes \in Nat
    BY <2>1, <2>3
  <2> QED
    BY <2>2, <2>3, <2>4, Zenon DEF ScalarsOK
<1>4. QueueOK
  <2>1. pending \in Seq(Functors)
    <3> HIDE DEF Functors
    <3> QED
      BY <1>1, <1>2
  <2> QED
    BY <2>1 DEF Init, QueueOK, Idle
<1>5. OutInv
  <2>1. <<>> \in Seq(Units) /\ Len(<<>>) = 0 /\ <<>> \o <<>> = <<>>
    BY EmptySeq, ConcatEmptySeq
  <2> QED
    BY <2>1 DEF Init, OutInv, StreamInOrder, OutputFlushed, FlushBeforeShutdown,
                BufferedIffWriting, FlushIsReported, IsWriting
<1>6. EstablishedOnce
  <2>1. pending # <<>> /\ Head(pending) = f /\ Tail(pending) = <<>>
    BY <1>2
  <2>2. OpsIn(<<>>) = {}
    BY DEF OpsIn
  <2> QED
    BY <1>1, <2>1, <2>2 DEF Init, EstablishedOnce
<1>7. DestroyedByServer
  <2>1. OpsIn(pending) = {f.op}
    BY <1>2 DEF OpsIn
  <2> QED
    BY <1>1, <2>1 DEF Init, DestroyedByServer
<1>8. revived \in BOOLEAN /\ unannounced \in BOOLEAN /\ ClosedOnce
  <2>1. /\ state_ = "kconnecting" /\ downs = 0 /\ closes = 0 /\ ~destroyed
        /\ aborted = "none" /\ revived \in BOOLEAN
        /\ ~unannounced /\ unannounced \in BOOLEAN
    BY Zenon DEF Init
  <2>2. closes <= downs /\ downs = (IF state_ = "kdisconnected" THEN 1 ELSE 0)
    BY <2>1
  <2> QED
    BY <2>1, <2>2 DEF ClosedOnce
<1> QED
  BY <1>3, <1>4, <1>5, <1>6, <1>7, <1>8 DEF ConnInv

LEMMA ConnInvAlways == Spec => []ConnInv
  BY ConnInvInit, ConnInvStep, PTL DEF Spec

-----------------------------------------------------------------------------
(* StreamInOrder holds for any threads, sizes and bounds: what SendInLoop   *)
(* took is the socket's stream followed by the buffer, through every mix of *)
(* direct, partial and failed writes.                                       *)
THEOREM StreamStaysInOrder == Spec => []StreamInOrder
<1>1. ConnInv => StreamInOrder
  BY DEF ConnInv, OutInv
<1> QED
  BY <1>1, ConnInvAlways, PTL

(* OutputFlushed holds for any threads, sizes and bounds: no Shutdown cuts  *)
(* buffered data off, the channel asks for POLLOUT exactly while there is   *)
(* some, and every flush is reported.                                       *)
THEOREM OutputIsFlushed == Spec => []OutputFlushed
<1>1. ConnInv => OutputFlushed
  BY DEF ConnInv, OutInv
<1> QED
  BY <1>1, ConnInvAlways, PTL

(* UpThenDownOnce, with TypeOK, holds for any threads, operations and       *)
(* bounds: a late StoreState, StartRead or StopRead of another thread, and  *)
(* a server that dies while the connection is kdisconnecting, are all that  *)
(* can spoil the close protocol.                                            *)
THEOREM LivesOnce == Spec => []UpThenDownOnce
<1>1. ConnInv => UpThenDownOnce
  <2> SUFFICES ASSUME ConnInv PROVE UpThenDownOnce
    OBVIOUS
  <2>1. TypeOK
    <3>1. accepted \in Seq(Units)
      BY ConcatProperties DEF ConnInv, OutInv, StreamInOrder
    <3>2. \A g \in Range(pending) : g.msg \in Seq(Units)
      <4>1. \A i \in DOMAIN pending : pending[i] \in Functors
        <5>1. pending \in Seq(Functors)
          BY DEF ConnInv, QueueOK
        <5> HIDE DEF Functors
        <5> QED
          BY <5>1, ElementOfSeq, LenProperties
      <4> QED
        BY <4>1 DEF Range, Functors
    <3>3. \A t \in Threads : tpc[t].stage \in {"idle", "tested", "stored"}
      BY DEF ConnInv, QueueOK
    <3> QED
      BY <3>1, <3>2, <3>3 DEF ConnInv, ScalarsOK, OutInv, TypeOK
  <2>2. ASSUME ~revived
        PROVE  /\ ups <= 1 /\ downs <= ups /\ closes <= downs
               /\ destroyed /\ ~unannounced =>
                     downs = 1 /\ state_ = "kdisconnected" /\ events = {} /\ ~added_to_loop_
               /\ unannounced => server = "dead"
               /\ aborted \in {"none", "Channel::Remove"}
               /\ aborted = "Channel::Remove" => server = "dead" /\ state_ = "kdisconnecting"
    <3>1. ups <= 1 /\ (ups # 0 => ups = 1)
      BY DEF ConnInv, EstablishedOnce
    <3>2. downs <= ups
      BY <2>2, <3>1 DEF ConnInv, ClosedOnce, EstablishedOnce
    <3>3. destroyed /\ ~unannounced => downs = 1 /\ state_ = "kdisconnected"
      BY <2>2 DEF ConnInv, ClosedOnce, ScalarsOK
    <3> QED
      BY <2>2, <3>1, <3>2, <3>3 DEF ConnInv, ClosedOnce
  <2> QED
    BY <2>1, <2>2 DEF UpThenDownOnce
<1> QED
  BY <1>1, ConnInvAlways, PTL
=============================================================================
