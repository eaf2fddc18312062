---------------------------- MODULE BufferProofs ----------------------------
(***************************************************************************)
(* Proofs about Buffer, for any sizes and any set of bytes.                *)
(***************************************************************************)
EXTENDS Buffer, SequenceTheorems, TLAPS

(* the Buffer objects with their indices in order *)
IsBuffer(b) ==
    /\ b = Object(b.buf, b.r, b.w)
    /\ b.buf \in Seq(Bytes) /\ b.r \in Nat /\ b.w \in Nat
    /\ b.r <= b.w /\ b.w <= Len(b.buf) /\ kcheap_prepend <= Len(b.buf)

(* A function from 1 .. n is a sequence of length n. *)
LEMMA FunctionIsSeq ==
    ASSUME NEW S, NEW n \in Nat, NEW f \in [1 .. n -> S]
    PROVE  f \in Seq(S) /\ Len(f) = n
<1>1. f \in Seq(S)
  BY SeqDef
<1>2. DOMAIN f = 1 .. Len(f) /\ Len(f) \in Nat /\ DOMAIN f = 1 .. n
  BY <1>1, LenProperties
<1> QED
  BY <1>1, <1>2

(* Copying inside a vector, or resizing it, leaves a vector of bytes. *)
LEMMA CopyType ==
    ASSUME NEW buf \in Seq(Bytes), NEW at \in Int, NEW data \in Seq(Bytes)
    PROVE  Copy(buf, at, data) \in Seq(Bytes)
           /\ Len(Copy(buf, at, data)) = Len(buf)
<1>1. /\ Len(buf) \in Nat /\ \A i \in 1 .. Len(buf) : buf[i] \in Bytes
      /\ Len(data) \in Nat /\ \A i \in 1 .. Len(data) : data[i] \in Bytes
  BY LenProperties
<1>2. Copy(buf, at, data) \in [1 .. Len(buf) -> Bytes]
  BY <1>1 DEF Copy
<1> QED
  BY <1>1, <1>2, FunctionIsSeq

(* The readable bytes are a sequence of bytes. *)
LEMMA ReadableType ==
    ASSUME NEW b, IsBuffer(b)
    PROVE  Readable(b) \in Seq(Bytes) /\ Len(Readable(b)) = ReadableBytes(b)
<1>1. \A i \in 1 .. Len(b.buf) : b.buf[i] \in Bytes
  BY LenProperties DEF IsBuffer
<1>2. b.w - b.r \in Nat /\ Len(b.buf) \in Nat
  BY LenProperties DEF IsBuffer
<1>3. Readable(b) \in [1 .. b.w - b.r -> Bytes]
  BY <1>1, <1>2 DEF Readable, IsBuffer
<1> QED
  BY <1>2, <1>3, FunctionIsSeq DEF ReadableBytes

(* A vector that is not made shorter. *)
LEMMA ResizeType ==
    ASSUME NEW buf \in Seq(Bytes), NEW n \in Nat
    PROVE  Resize(buf, n) \in Seq(Bytes) /\ Len(Resize(buf, n)) = n
<1>1. Len(buf) \in Nat /\ \A i \in 1 .. Len(buf) : buf[i] \in Bytes
  BY LenProperties
<1>2. Resize(buf, n) \in [1 .. n -> Bytes]
  BY <1>1, BufferAssumption DEF Resize
<1> QED
  BY <1>2, FunctionIsSeq

(* EnsureWritableBytes keeps the indices in order, makes the room it is     *)
(* asked for, and moves bytes only backwards.                               *)
LEMMA RoomLemma ==
    ASSUME NEW b, IsBuffer(b), NEW len \in Nat
    PROVE  LET e == EnsureWritableBytes(b, len) IN
           /\ IsBuffer(e)
           /\ WritableBytes(e) >= len
           /\ ReadableBytes(e) = ReadableBytes(b)
           /\ WritableBytes(b) < len /\ ~MustGrow(b, len) => kcheap_prepend < b.r
<1> SUFFICES ASSUME NEW e, e = EnsureWritableBytes(b, len)
             PROVE  /\ IsBuffer(e)
                    /\ WritableBytes(e) >= len
                    /\ ReadableBytes(e) = ReadableBytes(b)
                    /\ WritableBytes(b) < len /\ ~MustGrow(b, len)
                            => kcheap_prepend < b.r
  OBVIOUS
<1> USE BufferAssumption
<1>1. Len(b.buf) \in Nat
  BY LenProperties DEF IsBuffer
<1>2. WritableBytes(b) < len /\ ~MustGrow(b, len) => kcheap_prepend < b.r
  BY <1>1 DEF IsBuffer, WritableBytes, PrependableBytes, MustGrow
<1>3. CASE WritableBytes(b) >= len
  BY <1>1, <1>2, <1>3 DEF IsBuffer, EnsureWritableBytes, WritableBytes
<1>4. CASE WritableBytes(b) < len /\ MustGrow(b, len)
  <2>1. e = Object(Resize(b.buf, b.w + len), b.r, b.w)
    BY <1>1, <1>4 DEF EnsureWritableBytes, MakeSpace, WritableBytes, IsBuffer
  <2>2. /\ Resize(b.buf, b.w + len) \in Seq(Bytes)
        /\ Len(Resize(b.buf, b.w + len)) = b.w + len
    <3>1. b.buf \in Seq(Bytes) /\ b.w + len \in Nat
      BY DEF IsBuffer
    <3> QED
      BY <3>1, ResizeType
  <2>3. e.buf = Resize(b.buf, b.w + len) /\ e.r = b.r /\ e.w = b.w
    BY <2>1 DEF Object
  <2> QED
    BY <1>1, <1>2, <1>4, <2>1, <2>2, <2>3 DEF IsBuffer, WritableBytes, ReadableBytes
<1>5. CASE WritableBytes(b) < len /\ ~MustGrow(b, len)
  <2> DEFINE c == Copy(b.buf, kcheap_prepend, Readable(b))
  <2>1. e = Object(c, kcheap_prepend, kcheap_prepend + ReadableBytes(b))
    BY <1>1, <1>5 DEF EnsureWritableBytes, MakeSpace, WritableBytes, IsBuffer
  <2>2. c \in Seq(Bytes) /\ Len(c) = Len(b.buf)
    BY ReadableType, CopyType DEF IsBuffer
  <2> HIDE DEF c
  <2>3. e.buf = c /\ e.r = kcheap_prepend /\ e.w = kcheap_prepend + ReadableBytes(b)
    BY <2>1 DEF Object
  <2>4. e = Object(e.buf, e.r, e.w)
    BY <2>1, <2>3
  <2>5. /\ ReadableBytes(b) \in Nat
        /\ kcheap_prepend + ReadableBytes(b) + len <= Len(b.buf)
    BY <1>1, <1>5 DEF IsBuffer, MustGrow, PrependableBytes, WritableBytes, ReadableBytes
  <2>6. /\ e.r <= e.w /\ e.r \in Nat /\ e.w \in Nat
        /\ e.w + len <= Len(e.buf) /\ Len(e.buf) \in Nat
        /\ e.w - e.r = ReadableBytes(b)
    BY <1>1, <2>2, <2>3, <2>5
  <2>7. IsBuffer(e)
    BY <2>2, <2>3, <2>4, <2>6 DEF IsBuffer
  <2> QED
    BY <1>2, <2>6, <2>7 DEF WritableBytes, ReadableBytes
<1> QED
  BY <1>1, <1>3, <1>4, <1>5 DEF WritableBytes, IsBuffer

(* The bound of GrowthIsBounded. *)
Limit == kcheap_prepend +
    (IF kinitial_size > 2 * MaxContent THEN kinitial_size ELSE 2 * MaxContent)

Bounded(b) == IsBuffer(b) /\ Len(b.buf) <= Limit

(* The limit is a natural number, and a new Buffer is within it. *)
LEMMA LimitType == Limit \in Nat /\ kcheap_prepend + kinitial_size <= Limit
                   /\ kcheap_prepend + 2 * MaxContent <= Limit
  BY BufferAssumption DEF Limit

(* Making room for a request within MaxContent keeps the vector bounded:    *)
(* it grows only if the bytes in front of the data are too few.             *)
LEMMA RoomBounded ==
    ASSUME NEW b, Bounded(b), NEW len \in Nat,
           ReadableBytes(b) + len <= MaxContent
    PROVE  Bounded(EnsureWritableBytes(b, len))
<1> USE BufferAssumption, LimitType
<1>1. IsBuffer(b) /\ IsBuffer(EnsureWritableBytes(b, len)) /\ Len(b.buf) \in Nat
  BY RoomLemma, LenProperties DEF Bounded, IsBuffer
<1>2. CASE WritableBytes(b) < len /\ MustGrow(b, len)
  <2>1. EnsureWritableBytes(b, len) = Object(Resize(b.buf, b.w + len), b.r, b.w)
    BY <1>1, <1>2 DEF EnsureWritableBytes, MakeSpace, WritableBytes, IsBuffer
  <2>2. EnsureWritableBytes(b, len).buf = Resize(b.buf, b.w + len)
    BY <2>1 DEF Object
  <2>3. b.buf \in Seq(Bytes) /\ b.w + len \in Nat
    BY <1>1 DEF IsBuffer
  <2>4. Len(Resize(b.buf, b.w + len)) = b.w + len
    BY <2>3, ResizeType
  <2>5. b.w + len <= kcheap_prepend + 2 * MaxContent
    BY <1>1, <1>2 DEF IsBuffer, MustGrow, WritableBytes, PrependableBytes, ReadableBytes
  <2>6. b.w + len <= Limit
    BY <2>3, <2>5
  <2> QED
    BY <1>1, <2>2, <2>4, <2>6 DEF Bounded
<1>3. CASE WritableBytes(b) < len /\ ~MustGrow(b, len)
  <2> DEFINE c == Copy(b.buf, kcheap_prepend, Readable(b))
  <2>1. EnsureWritableBytes(b, len)
            = Object(c, kcheap_prepend, kcheap_prepend + ReadableBytes(b))
    BY <1>1, <1>3 DEF EnsureWritableBytes, MakeSpace, WritableBytes, IsBuffer
  <2>2. Len(c) = Len(b.buf)
    BY <1>1, ReadableType, CopyType DEF IsBuffer
  <2> HIDE DEF c
  <2>3. EnsureWritableBytes(b, len).buf = c
    BY <2>1 DEF Object
  <2> QED
    BY <1>1, <2>2, <2>3 DEF Bounded
<1>4. CASE WritableBytes(b) >= len
  BY <1>1, <1>4 DEF EnsureWritableBytes, WritableBytes, IsBuffer
<1> QED
  BY <1>1, <1>2, <1>3, <1>4 DEF WritableBytes, IsBuffer

(* Writing behind the writer index or in front of the reader index.         *)
LEMMA WriteBounded ==
    ASSUME NEW b, Bounded(b), NEW data \in Seq(Bytes), NEW at \in Int,
           NEW r \in Nat, NEW w \in Nat, r <= w, w <= Len(b.buf)
    PROVE  Bounded(Object(Copy(b.buf, at, data), r, w))
<1> DEFINE c == Copy(b.buf, at, data)
<1>1. c \in Seq(Bytes) /\ Len(c) = Len(b.buf)
  BY CopyType DEF Bounded, IsBuffer
<1> HIDE DEF c
<1>2. /\ Object(c, r, w).buf = c /\ Object(c, r, w).r = r /\ Object(c, r, w).w = w
  BY DEF Object
<1>3. Bounded(Object(c, r, w))
  BY <1>1, <1>2 DEF Bounded, IsBuffer
<1> QED
  BY <1>3 DEF c

(* Append, with the room it makes, keeps the vector within the limit. *)
LEMMA AppendBounded ==
    ASSUME NEW b, Bounded(b), NEW data \in Seq(Bytes),
           ReadableBytes(b) + Len(data) <= MaxContent
    PROVE  Bounded(AppendTo(b, data))
<1>1. Len(data) \in Nat
  BY LenProperties
<1>2. PICK e : e = EnsureWritableBytes(b, Len(data))
  OBVIOUS
<1>3. Bounded(e)
  BY <1>1, <1>2, RoomBounded
<1>4. WritableBytes(e) >= Len(data)
  BY <1>1, <1>2, RoomLemma DEF Bounded
<1>5. e.r \in Nat /\ e.w \in Nat /\ e.r <= e.w /\ Len(e.buf) \in Nat
  BY <1>3, LenProperties DEF Bounded, IsBuffer
<1>6. e.w + Len(data) \in Nat /\ e.r <= e.w + Len(data) /\ e.w + Len(data) <= Len(e.buf)
  BY <1>1, <1>4, <1>5 DEF WritableBytes
<1>7. Bounded(Object(Copy(e.buf, e.w, data), e.r, e.w + Len(data)))
  BY <1>3, <1>5, <1>6, WriteBounded
<1> QED
  BY <1>2, <1>7 DEF AppendTo

(* What the operations leave is bounded, so the three properties follow.    *)
LEMMA DataIsSeq ==
    ASSUME NEW n \in Nat, NEW data \in Data(n)
    PROVE  data \in Seq(Bytes) /\ Len(data) \in Nat
<1>1. PICK k \in 0 .. n : data \in [1 .. k -> Bytes]
  BY DEF Data
<1> QED
  BY <1>1, FunctionIsSeq

(* A new Buffer is within the limit. *)
LEMMA NewIsBounded ==
    Bounded(NewBuffer) /\ ReadableBytes(NewBuffer) = 0 /\ NewBuffer.w = kcheap_prepend
<1> DEFINE v == [i \in 1 .. kcheap_prepend + kinitial_size |-> Zero]
<1> USE BufferAssumption, LimitType
<1>1. v \in [1 .. kcheap_prepend + kinitial_size -> Bytes]
      /\ kcheap_prepend + kinitial_size \in Nat
  OBVIOUS
<1>2. v \in Seq(Bytes) /\ Len(v) = kcheap_prepend + kinitial_size
  BY <1>1, FunctionIsSeq
<1> HIDE DEF v
<1>3. NewBuffer = Object(v, kcheap_prepend, kcheap_prepend)
  BY DEF NewBuffer, v
<1>4. NewBuffer.buf = v /\ NewBuffer.r = kcheap_prepend /\ NewBuffer.w = kcheap_prepend
  BY <1>3 DEF Object
<1> QED
  BY <1>2, <1>3, <1>4 DEF Bounded, IsBuffer, ReadableBytes

(* A state that holds a bounded Buffer is bounded. *)
LEMMA BecomeBounded ==
    ASSUME NEW b, Bounded(b), Become(b)
    PROVE  Bounded(Self)'
<1>1. b.buf = buffer_' /\ b.r = reader_index_' /\ b.w = writer_index_'
  BY DEF Become
<1>2. Self' = Object(buffer_', reader_index_', writer_index_')
  BY DEF Self
<1>3. b = Self'
  BY <1>1, <1>2 DEF Bounded, IsBuffer
<1> QED
  BY <1>3 DEF Bounded, IsBuffer, Limit, Object

(* The constructor leaves a bounded Buffer. *)
LEMMA InitBounded == Init => Bounded(Self)
<1> SUFFICES ASSUME Init PROVE Bounded(Self)
  OBVIOUS
<1>1. Self = NewBuffer
  BY NewIsBounded DEF Init, Self, Bounded, IsBuffer, Object
<1> QED
  BY <1>1, NewIsBounded

(* the shape of Self in a bounded state *)
LEMMA SelfFacts ==
    ASSUME Bounded(Self)
    PROVE  /\ buffer_ \in Seq(Bytes) /\ Len(buffer_) \in Nat
           /\ reader_index_ \in Nat /\ writer_index_ \in Nat
           /\ reader_index_ <= writer_index_ /\ writer_index_ <= Len(buffer_)
           /\ kcheap_prepend <= Len(buffer_) /\ Len(buffer_) <= Limit
           /\ ReadableBytes(Self) = writer_index_ - reader_index_
           /\ WritableBytes(Self) = Len(buffer_) - writer_index_
           /\ PrependableBytes(Self) = reader_index_
           /\ Self.buf = buffer_
<1>1. Self.buf = buffer_ /\ Self.r = reader_index_ /\ Self.w = writer_index_
  BY DEF Self, Object
<1> QED
  BY <1>1, LenProperties
  DEF Bounded, IsBuffer, ReadableBytes, WritableBytes, PrependableBytes

(* Every operation leaves a bounded Buffer: the induction step of all three *)
(* theorems.                                                                *)
LEMMA StepBounded == Bounded(Self) /\ [Next]_vars => Bounded(Self)'
<1> SUFFICES ASSUME Bounded(Self), [Next]_vars
             PROVE  Bounded(Self)'
  OBVIOUS
<1> USE BufferAssumption, LimitType
<1>0. /\ buffer_ \in Seq(Bytes) /\ Len(buffer_) \in Nat
      /\ reader_index_ \in Nat /\ writer_index_ \in Nat
      /\ reader_index_ <= writer_index_ /\ writer_index_ <= Len(buffer_)
      /\ kcheap_prepend <= Len(buffer_) /\ Len(buffer_) <= Limit
      /\ ReadableBytes(Self) = writer_index_ - reader_index_
      /\ WritableBytes(Self) = Len(buffer_) - writer_index_
      /\ PrependableBytes(Self) = reader_index_
      /\ Self.buf = buffer_
  BY SelfFacts
(* an object on the same vector with other indices in order *)
<1>00. ASSUME NEW r \in Nat, NEW w \in Nat, r <= w, w <= Len(buffer_)
       PROVE  Bounded(Object(buffer_, r, w))
  BY <1>0, <1>00 DEF Bounded, IsBuffer, Object
<1>1. ASSUME NEW data \in Data(MaxLen), DoAppend(data)
      PROVE  Bounded(Self)'
  <2>1. data \in Seq(Bytes)
    BY DataIsSeq
  <2> QED
    BY <1>1, <2>1, AppendBounded, BecomeBounded DEF DoAppend
(* data written behind the writer index, where there is room for it *)
<1>2. ASSUME NEW data \in Seq(Bytes), Len(data) <= WritableBytes(Self)
      PROVE  Bounded(Object(Copy(buffer_, writer_index_, data), reader_index_,
                            writer_index_ + Len(data)))
  <2>1. /\ writer_index_ + Len(data) \in Nat
        /\ reader_index_ <= writer_index_ + Len(data)
        /\ writer_index_ + Len(data) <= Len(Self.buf)
    BY <1>0, <1>2, LenProperties
  <2> QED
    BY <1>0, <2>1, WriteBounded
<1>3. ASSUME NEW data \in Data(MaxLen), WriteDirectly(data)
      PROVE  Bounded(Self)'
  BY <1>2, <1>3, DataIsSeq, BecomeBounded DEF WriteDirectly
<1>4. ASSUME NEW data \in Data(MaxLen), Prepend(data)
      PROVE  Bounded(Self)'
  <2>1. data \in Seq(Bytes) /\ Len(data) \in Nat
    BY DataIsSeq
  <2>2. reader_index_ - Len(data) \in Nat /\ reader_index_ - Len(data) <= writer_index_
    BY <1>0, <1>4, <2>1 DEF Prepend
  <2>3. Bounded(Object(Copy(Self.buf, reader_index_ - Len(data), data),
                       reader_index_ - Len(data), writer_index_))
    BY <1>0, <2>1, <2>2, WriteBounded
  <2> QED
    BY <1>0, <1>4, <2>3, BecomeBounded DEF Prepend
<1>5. ASSUME NEW data \in Data(MaxLen), ReadFd(data)
      PROVE  Bounded(Self)'
  <2>1. data \in Seq(Bytes) /\ Len(data) \in Nat
    BY DataIsSeq
  <2> DEFINE wr == WritableBytes(Self)
  <2>2. CASE Len(data) <= wr
    BY <1>2, <1>5, <2>1, <2>2, BecomeBounded DEF ReadFd
  <2>3. CASE ~(Len(data) <= wr)
    <3> DEFINE d1 == SubSeq(data, 1, wr)
               d2 == SubSeq(data, wr + 1, Len(data))
               b == Object(Copy(buffer_, writer_index_, d1), reader_index_, Len(buffer_))
    <3>1. wr \in Nat /\ wr < Len(data)
      BY <1>0, <2>1, <2>3
    <3> HIDE DEF wr
    <3>2. d1 \in Seq(Bytes) /\ Len(d1) = wr
      BY <2>1, <3>1, SubSeqProperties
    <3>3. d2 \in Seq(Bytes) /\ Len(d2) = Len(data) - wr
      BY <2>1, <3>1, SubSeqProperties
    <3> HIDE DEF d1, d2
    <3>4. /\ writer_index_ \in Int /\ Len(buffer_) <= Len(Self.buf)
          /\ reader_index_ <= Len(buffer_)
      BY <1>0
    <3>5. Bounded(Object(Copy(Self.buf, writer_index_, d1), reader_index_, Len(buffer_)))
      BY <1>0, <3>2, <3>4, WriteBounded
    <3>6. Bounded(b) /\ ReadableBytes(b) = Len(buffer_) - reader_index_
      BY <1>0, <3>5 DEF ReadableBytes, Object
    <3> HIDE DEF b
    <3>7. ReadableBytes(b) + Len(d2) = ReadableBytes(Self) + Len(data)
      BY <1>0, <2>1, <3>3, <3>6 DEF wr
    <3>8. ReadableBytes(Self) + Len(data) <= MaxContent /\ Become(AppendTo(b, d2))
      BY <1>5, <2>3 DEF ReadFd, wr, b, d1, d2
    <3> QED
      BY <3>3, <3>6, <3>7, <3>8, AppendBounded, BecomeBounded
  <2> QED
    BY <2>2, <2>3
<1>6. ASSUME NEW len \in 0 .. MaxContent, DoEnsureWritableBytes(len)
      PROVE  Bounded(Self)'
  BY <1>6, RoomBounded, BecomeBounded DEF DoEnsureWritableBytes
<1>7. ASSUME NEW len \in 0 .. MaxContent, unwrite(len)
      PROVE  Bounded(Self)'
  BY <1>0, <1>00, <1>7, BecomeBounded DEF unwrite
<1>8. ASSUME NEW len \in 0 .. MaxContent, DoRetrieve(len)
      PROVE  Bounded(Self)'
  <2>1. Bounded(RetrieveAll(Self))
    BY <1>0, <1>00 DEF RetrieveAll
  <2>2. CASE len < ReadableBytes(Self)
    <3>1. reader_index_ + len \in Nat /\ reader_index_ + len <= writer_index_
      BY <1>0, <2>2
    <3>2. Bounded(Object(buffer_, reader_index_ + len, writer_index_))
      BY <1>0, <1>00, <3>1
    <3>3. Become(Object(buffer_, reader_index_ + len, writer_index_))
      BY <1>8, <2>2 DEF DoRetrieve, Retrieve, Self, Object
    <3> QED
      BY <3>2, <3>3, BecomeBounded
  <2>3. CASE ~(len < ReadableBytes(Self))
    BY <1>8, <2>1, <2>3, BecomeBounded DEF DoRetrieve, Retrieve
  <2> QED
    BY <2>2, <2>3
<1>9. ASSUME NEW len \in 0 .. MaxContent, Shrink(len)
      PROVE  Bounded(Self)'
  <2> DEFINE n == ReadableBytes(Self) + len
             e == EnsureWritableBytes(NewBuffer, n)
  <2>1. n \in Nat /\ n <= MaxContent
    BY <1>0, <1>9 DEF Shrink
  <2>2. ReadableBytes(NewBuffer) + n <= MaxContent
    BY <2>1, NewIsBounded
  <2>3. Bounded(e) /\ ReadableBytes(e) = 0
    BY <2>1, <2>2, NewIsBounded, RoomBounded, RoomLemma DEF Bounded
  <2>4. Readable(Self) \in Seq(Bytes) /\ Len(Readable(Self)) = ReadableBytes(Self)
    BY ReadableType DEF Bounded
  <2>5. ReadableBytes(e) + Len(Readable(Self)) <= MaxContent
    BY <1>0, <2>1, <2>3, <2>4
  <2> QED
    BY <1>9, <2>3, <2>4, <2>5, AppendBounded, BecomeBounded DEF Shrink
<1>10. CASE UNCHANGED vars
  BY <1>10 DEF vars, Self, Object, Bounded, IsBuffer, Limit
<1> QED
  BY <1>1, <1>3, <1>4, <1>5, <1>6, <1>7, <1>8, <1>9, <1>10 DEF Next

-----------------------------------------------------------------------------
(* What the operations do to the bytes. *)

(* Copy writes the data at its place and leaves the rest as it was. *)
LEMMA CopyEntries ==
    ASSUME NEW buf \in Seq(Bytes), NEW at \in Nat, NEW data \in Seq(Bytes),
           at + Len(data) <= Len(buf)
    PROVE  /\ \A k \in 1 .. Len(data) : Copy(buf, at, data)[at + k] = data[k]
           /\ \A i \in 1 .. Len(buf) : i <= at \/ at + Len(data) < i =>
                    Copy(buf, at, data)[i] = buf[i]
<1>1. Len(buf) \in Nat /\ Len(data) \in Nat
  BY LenProperties
<1>2. ASSUME NEW k \in 1 .. Len(data) PROVE Copy(buf, at, data)[at + k] = data[k]
  <2>1. /\ at + k \in 1 .. Len(buf) /\ at < at + k /\ at + k <= at + Len(data)
        /\ at + k - at = k
    BY <1>1
  <2> QED
    BY <2>1 DEF Copy
<1>3. ASSUME NEW i \in 1 .. Len(buf), i <= at \/ at + Len(data) < i
      PROVE  Copy(buf, at, data)[i] = buf[i]
  <2>1. ~(at < i /\ i <= at + Len(data))
    BY <1>1, <1>3
  <2> QED
    BY <2>1 DEF Copy
<1> QED
  BY <1>2, <1>3

(* The readable bytes of two Buffers, byte by byte. *)
LEMMA ReadableEntries ==
    ASSUME NEW b, IsBuffer(b)
    PROVE  /\ ReadableBytes(b) \in Nat
           /\ \A i \in 1 .. ReadableBytes(b) :
                    b.r + i \in 1 .. b.w /\ Readable(b)[i] = b.buf[b.r + i]
<1>1. b.r \in Nat /\ b.w \in Nat /\ b.r <= b.w
  BY DEF IsBuffer
<1> QED
  BY <1>1 DEF Readable, ReadableBytes

LEMMA SameReadable ==
    ASSUME NEW b, IsBuffer(b), NEW e, IsBuffer(e), ReadableBytes(e) = ReadableBytes(b),
           \A i \in 1 .. ReadableBytes(b) : e.buf[e.r + i] = b.buf[b.r + i]
    PROVE  Readable(e) = Readable(b)
<1>1. /\ Readable(b) \in Seq(Bytes) /\ Len(Readable(b)) = ReadableBytes(b)
      /\ Readable(e) \in Seq(Bytes) /\ Len(Readable(e)) = ReadableBytes(b)
  BY ReadableType
<1>2. \A i \in 1 .. ReadableBytes(b) : Readable(e)[i] = Readable(b)[i]
  BY ReadableEntries
<1> QED
  BY <1>1, <1>2, SeqEqual

(* The byte of the vector behind n = w - r readable ones. *)
LEMMA BehindIndex ==
    ASSUME NEW r \in Nat, NEW w \in Nat, NEW m \in Nat, r <= w,
           NEW i \in Int, w - r < i, i <= (w - r) + m
    PROVE  i - (w - r) \in 1 .. m /\ r + i = w + (i - (w - r))
OBVIOUS

(* The byte of the vector at one of n = w - r readable ones. *)
LEMMA InsideIndex ==
    ASSUME NEW r \in Nat, NEW w \in Nat, NEW m \in Nat, r <= w, w <= m,
           NEW i \in Int, 1 <= i, i <= w - r
    PROVE  r + i \in 1 .. m /\ r + i <= w
OBVIOUS

(* Data written behind the writer index is appended. *)
LEMMA WriteBehind ==
    ASSUME NEW b, IsBuffer(b), NEW data \in Seq(Bytes), NEW e, IsBuffer(e),
           b.w + Len(data) <= Len(b.buf),
           e.buf = Copy(b.buf, b.w, data), e.r = b.r, e.w = b.w + Len(data)
    PROVE  Readable(e) = Readable(b) \o data
<1>1. /\ b.r \in Nat /\ b.w \in Nat /\ b.r <= b.w /\ b.buf \in Seq(Bytes)
      /\ Len(data) \in Nat /\ Len(b.buf) \in Nat /\ b.w <= Len(b.buf)
  BY LenProperties DEF IsBuffer
<1>2. /\ \A k \in 1 .. Len(data) : e.buf[b.w + k] = data[k]
      /\ \A i \in 1 .. Len(b.buf) : i <= b.w => e.buf[i] = b.buf[i]
  BY <1>1, CopyEntries
<1>3. /\ Readable(b) \in Seq(Bytes) /\ Len(Readable(b)) = ReadableBytes(b)
      /\ Readable(e) \in Seq(Bytes) /\ Len(Readable(e)) = ReadableBytes(e)
  BY ReadableType
<1>4. ReadableBytes(e) = ReadableBytes(b) + Len(data) /\ ReadableBytes(b) = b.w - b.r
      /\ ReadableBytes(b) \in Nat
  BY <1>1 DEF ReadableBytes
<1>5. /\ Readable(b) \o data \in Seq(Bytes)
      /\ Len(Readable(b) \o data) = ReadableBytes(b) + Len(data)
      /\ \A i \in 1 .. ReadableBytes(b) + Len(data) :
            (Readable(b) \o data)[i] = IF i <= ReadableBytes(b) THEN Readable(b)[i]
                                       ELSE data[i - ReadableBytes(b)]
  <2>1. PICK q \in Seq(Bytes) : q = Readable(b)
    BY <1>3
  <2>2. PICK n : n = ReadableBytes(b) /\ n = Len(q)
    BY <1>3, <2>1
  <2>3. /\ q \o data \in Seq(Bytes) /\ Len(q \o data) = n + Len(data)
        /\ \A i \in 1 .. n + Len(data) : (q \o data)[i] = IF i <= n THEN q[i] ELSE data[i - n]
    BY <2>2, ConcatProperties
  <2> QED
    BY <2>1, <2>2, <2>3, Zenon
<1>6. ASSUME NEW i \in 1 .. ReadableBytes(e) PROVE Readable(e)[i] = (Readable(b) \o data)[i]
  <2>1. Readable(e)[i] = e.buf[b.r + i] /\ i \in 1 .. ReadableBytes(b) + Len(data)
    BY <1>4, ReadableEntries
  <2>2. CASE i <= ReadableBytes(b)
    <3>1. b.r + i \in 1 .. Len(b.buf) /\ b.r + i <= b.w /\ i \in 1 .. ReadableBytes(b)
      <4>1. PICK n \in Nat : n = ReadableBytes(b)
        BY <1>4
      <4>2. i \in Int /\ 1 <= i /\ i <= n
        BY <1>1, <2>1, <2>2, <4>1
      <4>3. i <= b.w - b.r /\ i \in 1 .. n
        BY <1>4, <4>1, <4>2
      <4>4. b.r + i \in 1 .. Len(b.buf) /\ b.r + i <= b.w
        BY <1>1, <4>2, <4>3, InsideIndex
      <4> QED
        BY <4>1, <4>3, <4>4, Zenon
    <3>2. e.buf[b.r + i] = b.buf[b.r + i]
      BY <1>2, <3>1
    <3> QED
      BY <1>5, <2>1, <2>2, <3>1, <3>2, ReadableEntries
  <2>3. CASE ~(i <= ReadableBytes(b))
    <3>1. /\ i - ReadableBytes(b) \in 1 .. Len(data)
          /\ b.r + i = b.w + (i - ReadableBytes(b))
      <4>1. i \in Int /\ b.w - b.r < i /\ i <= (b.w - b.r) + Len(data)
        BY <1>1, <1>4, <2>1, <2>3
      <4>2. i - (b.w - b.r) \in 1 .. Len(data) /\ b.r + i = b.w + (i - (b.w - b.r))
        BY <1>1, <4>1, BehindIndex
      <4> QED
        BY <1>4, <4>2, Zenon
    <3>2. e.buf[b.r + i] = data[i - ReadableBytes(b)]
      BY <1>2, <3>1
    <3> QED
      BY <1>5, <2>1, <2>3, <3>2
  <2> QED
    BY <2>2, <2>3
<1> QED
  BY <1>3, <1>4, <1>5, <1>6, SeqEqual

(* The byte of the vector behind m bytes written in front of n at r. *)
LEMMA FrontIndex ==
    ASSUME NEW r \in Nat, NEW w \in Nat, NEW m \in Nat, NEW size \in Nat, r <= w, w <= size,
           m <= r, NEW i \in Int, m < i, i <= m + (w - r)
    PROVE  /\ i - m \in 1 .. w - r /\ (r - m) + i = r + (i - m) /\ r < (r - m) + i
           /\ (r - m) + i \in 1 .. size
OBVIOUS

(* Data written in front of the reader index is prepended. *)
LEMMA WriteInFront ==
    ASSUME NEW b, IsBuffer(b), NEW data \in Seq(Bytes), NEW e, IsBuffer(e), Len(data) <= b.r,
           e.buf = Copy(b.buf, b.r - Len(data), data), e.r = b.r - Len(data), e.w = b.w
    PROVE  Readable(e) = data \o Readable(b)
<1>1. /\ b.r \in Nat /\ b.w \in Nat /\ b.r <= b.w /\ b.buf \in Seq(Bytes)
      /\ Len(data) \in Nat /\ Len(b.buf) \in Nat /\ b.w <= Len(b.buf)
  BY LenProperties DEF IsBuffer
<1>2. b.r - Len(data) \in Nat /\ b.r - Len(data) + Len(data) = b.r
  BY <1>1
<1>3. /\ \A k \in 1 .. Len(data) : e.buf[e.r + k] = data[k]
      /\ \A i \in 1 .. Len(b.buf) : b.r < i => e.buf[i] = b.buf[i]
  <2>1. PICK at \in Nat : at = b.r - Len(data)
    BY <1>2
  <2>2. at + Len(data) = b.r /\ at + Len(data) <= Len(b.buf)
    BY <1>1, <1>2, <2>1
  <2>3. /\ \A k \in 1 .. Len(data) : Copy(b.buf, at, data)[at + k] = data[k]
        /\ \A i \in 1 .. Len(b.buf) : i <= at \/ at + Len(data) < i =>
                Copy(b.buf, at, data)[i] = b.buf[i]
    BY <1>1, <2>2, CopyEntries
  <2>4. e.buf = Copy(b.buf, at, data) /\ e.r = at
    BY <2>1
  <2> QED
    BY <2>2, <2>3, <2>4, Zenon
<1>4. /\ Readable(b) \in Seq(Bytes) /\ Len(Readable(b)) = ReadableBytes(b)
      /\ Readable(e) \in Seq(Bytes) /\ Len(Readable(e)) = ReadableBytes(e)
  BY ReadableType
<1>5. ReadableBytes(e) = Len(data) + ReadableBytes(b) /\ ReadableBytes(b) = b.w - b.r
      /\ ReadableBytes(b) \in Nat
  BY <1>1 DEF ReadableBytes
<1>6. /\ data \o Readable(b) \in Seq(Bytes)
      /\ Len(data \o Readable(b)) = Len(data) + ReadableBytes(b)
      /\ \A i \in 1 .. Len(data) + ReadableBytes(b) :
            (data \o Readable(b))[i] = IF i <= Len(data) THEN data[i]
                                       ELSE Readable(b)[i - Len(data)]
  <2>1. PICK q \in Seq(Bytes) : q = Readable(b)
    BY <1>4
  <2>2. PICK n : n = ReadableBytes(b) /\ n = Len(q)
    BY <1>4, <2>1
  <2>3. /\ data \o q \in Seq(Bytes) /\ Len(data \o q) = Len(data) + n
        /\ \A i \in 1 .. Len(data) + n :
              (data \o q)[i] = IF i <= Len(data) THEN data[i] ELSE q[i - Len(data)]
    BY <2>2, ConcatProperties
  <2> QED
    BY <2>1, <2>2, <2>3, Zenon
<1>7. ASSUME NEW i \in 1 .. ReadableBytes(e) PROVE Readable(e)[i] = (data \o Readable(b))[i]
  <2>1. Readable(e)[i] = e.buf[e.r + i] /\ i \in 1 .. Len(data) + ReadableBytes(b)
    BY <1>5, ReadableEntries
  <2>2. CASE i <= Len(data)
    BY <1>1, <1>3, <1>6, <2>1, <2>2
  <2>3. CASE ~(i <= Len(data))
    <3>1. /\ i - Len(data) \in 1 .. ReadableBytes(b) /\ e.r + i = b.r + (i - Len(data))
          /\ b.r < e.r + i /\ e.r + i \in 1 .. Len(b.buf)
      <4>1. i \in Int /\ Len(data) < i /\ i <= Len(data) + (b.w - b.r)
        BY <1>1, <1>5, <2>1, <2>3
      <4>2. /\ i - Len(data) \in 1 .. b.w - b.r
            /\ (b.r - Len(data)) + i = b.r + (i - Len(data)) /\ b.r < (b.r - Len(data)) + i
            /\ (b.r - Len(data)) + i \in 1 .. Len(b.buf)
        BY <1>1, <4>1, FrontIndex
      <4> QED
        BY <1>5, <4>2, Zenon
    <3>2. e.buf[e.r + i] = b.buf[b.r + (i - Len(data))]
      BY <1>3, <3>1
    <3>3. Readable(b)[i - Len(data)] = b.buf[b.r + (i - Len(data))]
      BY <3>1, ReadableEntries
    <3> QED
      BY <1>6, <2>1, <2>3, <3>2, <3>3
  <2> QED
    BY <2>2, <2>3
<1> QED
  BY <1>4, <1>5, <1>6, <1>7, SeqEqual

(* Growing the vector, or moving the bytes back in it, keeps them. *)
LEMMA RoomKeeps ==
    ASSUME NEW b, IsBuffer(b), NEW len \in Nat
    PROVE  Readable(EnsureWritableBytes(b, len)) = Readable(b)
<1>1. PICK e : e = EnsureWritableBytes(b, len)
  OBVIOUS
<1>2. IsBuffer(e) /\ ReadableBytes(e) = ReadableBytes(b)
  BY <1>1, RoomLemma
<1>3. /\ b.r \in Nat /\ b.w \in Nat /\ b.r <= b.w /\ b.buf \in Seq(Bytes)
      /\ Len(b.buf) \in Nat /\ b.w <= Len(b.buf) /\ kcheap_prepend <= Len(b.buf)
  BY LenProperties DEF IsBuffer
<1>4. CASE ~(WritableBytes(b) < len)
  BY <1>1, <1>4 DEF EnsureWritableBytes
<1>5. CASE WritableBytes(b) < len /\ MustGrow(b, len)
  <2>1. e.buf = Resize(b.buf, b.w + len) /\ e.r = b.r
    BY <1>1, <1>5 DEF EnsureWritableBytes, MakeSpace, Object
  <2>2. ASSUME NEW i \in 1 .. ReadableBytes(b) PROVE e.buf[e.r + i] = b.buf[b.r + i]
    <3>1. b.r + i \in 1 .. b.w
      BY ReadableEntries
    <3>2. b.r + i \in 1 .. b.w + len /\ b.r + i <= Len(b.buf)
      BY <1>3, <3>1
    <3> QED
      BY <2>1, <3>2 DEF Resize
  <2> QED
    BY <1>1, <1>2, <2>2, SameReadable
<1>6. CASE WritableBytes(b) < len /\ ~MustGrow(b, len)
  <2>1. e.buf = Copy(b.buf, kcheap_prepend, Readable(b)) /\ e.r = kcheap_prepend
    BY <1>1, <1>6 DEF EnsureWritableBytes, MakeSpace, Object
  <2>2. Readable(b) \in Seq(Bytes) /\ Len(Readable(b)) = ReadableBytes(b)
    BY ReadableType
  <2>3. kcheap_prepend \in Nat /\ kcheap_prepend + ReadableBytes(b) <= Len(b.buf)
    BY <1>3, <1>6, BufferAssumption
       DEF MustGrow, WritableBytes, PrependableBytes, ReadableBytes
  <2>4. \A i \in 1 .. ReadableBytes(b) : e.buf[e.r + i] = Readable(b)[i]
    <3>1. PICK q \in Seq(Bytes) : q = Readable(b)
      BY <2>2
    <3>2. kcheap_prepend + Len(q) <= Len(b.buf) /\ Len(q) = ReadableBytes(b)
      BY <2>2, <2>3, <3>1
    <3>3. \A k \in 1 .. Len(q) : Copy(b.buf, kcheap_prepend, q)[kcheap_prepend + k] = q[k]
      BY <1>3, <2>3, <3>2, CopyEntries
    <3> QED
      BY <2>1, <3>1, <3>2, <3>3, Zenon
  <2> QED
    BY <1>1, <1>2, <2>4, SameReadable, ReadableEntries
<1> QED
  BY <1>4, <1>5, <1>6

LEMMA AppendExact ==
    ASSUME NEW b, IsBuffer(b), NEW data \in Seq(Bytes), IsBuffer(AppendTo(b, data))
    PROVE  Readable(AppendTo(b, data)) = Readable(b) \o data
<1>1. Len(data) \in Nat
  BY LenProperties
<1>2. PICK e : e = EnsureWritableBytes(b, Len(data))
  OBVIOUS
<1>3. IsBuffer(e) /\ WritableBytes(e) >= Len(data) /\ Readable(e) = Readable(b)
  BY <1>1, <1>2, RoomLemma, RoomKeeps
<1>4. e.w + Len(data) <= Len(e.buf)
  <2>1. e.w \in Nat /\ Len(e.buf) \in Nat
    BY <1>3, LenProperties DEF IsBuffer
  <2> QED
    BY <1>1, <1>3, <2>1 DEF WritableBytes
<1>5. AppendTo(b, data) = Object(Copy(e.buf, e.w, data), e.r, e.w + Len(data))
  BY <1>2 DEF AppendTo
<1>6. PICK a : a = AppendTo(b, data)
  OBVIOUS
<1>7. a.buf = Copy(e.buf, e.w, data) /\ a.r = e.r /\ a.w = e.w + Len(data) /\ IsBuffer(a)
  BY <1>5, <1>6 DEF Object
<1>8. Readable(a) = Readable(e) \o data
  BY <1>3, <1>4, <1>7, WriteBehind
<1> QED
  BY <1>3, <1>6, <1>8

(* Taking len bytes off the front, or off the end. *)
LEMMA DropFront ==
    ASSUME NEW b, IsBuffer(b), NEW e, IsBuffer(e), NEW len \in Nat, len <= ReadableBytes(b),
           e.buf = b.buf, e.r = b.r + len, e.w = b.w
    PROVE  Readable(e) = SubSeq(Readable(b), len + 1, Len(Readable(b)))
<1>1. /\ b.r \in Nat /\ b.w \in Nat /\ b.r <= b.w
      /\ ReadableBytes(b) = b.w - b.r /\ ReadableBytes(e) = b.w - (b.r + len)
  BY DEF IsBuffer, ReadableBytes
<1>2. PICK q \in Seq(Bytes) : q = Readable(b) /\ Len(q) = ReadableBytes(b)
  BY ReadableType
<1>3. Readable(e) \in Seq(Bytes) /\ Len(Readable(e)) = ReadableBytes(e)
  BY ReadableType
<1>4. PICK n \in Nat : n = ReadableBytes(b)
  BY <1>1
<1>5. ReadableBytes(e) = n - len /\ len <= n /\ Len(q) = n
  BY <1>1, <1>2, <1>4
<1>6. \A i \in len + 1 .. n : q[i] \in Bytes
  BY <1>5, ElementOfSeq
<1>7. /\ SubSeq(q, len + 1, n) \in Seq(Bytes) /\ Len(SubSeq(q, len + 1, n)) = n - len
      /\ \A i \in 1 .. n - len : SubSeq(q, len + 1, n)[i] = q[len + i]
  <2>1. /\ SubSeq(q, len + 1, n) \in Seq(Bytes)
        /\ Len(SubSeq(q, len + 1, n)) = IF len + 1 <= n THEN n - (len + 1) + 1 ELSE 0
        /\ \A i \in 1 .. n - (len + 1) + 1 : SubSeq(q, len + 1, n)[i] = q[(len + 1) + i - 1]
    BY <1>6, SubSeqProperties
  <2> QED
    BY <1>5, <2>1
<1>8. ASSUME NEW i \in 1 .. n - len PROVE Readable(e)[i] = q[len + i]
  <2>1. len + i \in 1 .. n /\ b.r + len + i = b.r + (len + i)
    BY <1>1, <1>5
  <2>2. Readable(e)[i] = e.buf[e.r + i] /\ q[len + i] = b.buf[b.r + (len + i)]
    BY <1>2, <1>4, <1>5, <2>1, ReadableEntries
  <2> QED
    BY <2>1, <2>2
<1>9. Readable(e) = SubSeq(q, len + 1, n)
  BY <1>3, <1>5, <1>7, <1>8, SeqEqual
<1> QED
  BY <1>2, <1>4, <1>9

LEMMA DropEnd ==
    ASSUME NEW b, IsBuffer(b), NEW e, IsBuffer(e), NEW len \in Nat, len <= ReadableBytes(b),
           e.buf = b.buf, e.r = b.r, e.w = b.w - len
    PROVE  Readable(e) = SubSeq(Readable(b), 1, Len(Readable(b)) - len)
<1>1. /\ b.r \in Nat /\ b.w \in Nat /\ b.r <= b.w
      /\ ReadableBytes(b) = b.w - b.r /\ ReadableBytes(e) = (b.w - len) - b.r
  BY DEF IsBuffer, ReadableBytes
<1>2. PICK q \in Seq(Bytes) : q = Readable(b) /\ Len(q) = ReadableBytes(b)
  BY ReadableType
<1>3. Readable(e) \in Seq(Bytes) /\ Len(Readable(e)) = ReadableBytes(e)
  BY ReadableType
<1>4. PICK n \in Nat : n = ReadableBytes(b) - len
  BY <1>1
<1>5. ReadableBytes(e) = n /\ n <= Len(q) /\ Len(q) \in Nat
  BY <1>1, <1>2, <1>4
<1>6. \A i \in 1 .. n : q[i] \in Bytes
  BY <1>5, ElementOfSeq
<1>7. /\ SubSeq(q, 1, n) \in Seq(Bytes) /\ Len(SubSeq(q, 1, n)) = n
      /\ \A i \in 1 .. n : SubSeq(q, 1, n)[i] = q[i]
  <2>1. /\ SubSeq(q, 1, n) \in Seq(Bytes)
        /\ Len(SubSeq(q, 1, n)) = IF 1 <= n THEN n - 1 + 1 ELSE 0
        /\ \A i \in 1 .. n - 1 + 1 : SubSeq(q, 1, n)[i] = q[1 + i - 1]
    BY <1>6, SubSeqProperties
  <2> QED
    BY <2>1
<1>8. ASSUME NEW i \in 1 .. n PROVE Readable(e)[i] = q[i]
  <2>1. i \in 1 .. ReadableBytes(b) /\ i \in 1 .. ReadableBytes(e)
    BY <1>2, <1>5
  <2> QED
    BY <1>2, <2>1, ReadableEntries
<1>9. Readable(e) = SubSeq(q, 1, n)
  BY <1>3, <1>5, <1>7, <1>8, SeqEqual
<1> QED
  BY <1>2, <1>4, <1>9

(* A Buffer whose indices are equal shows nothing. *)
LEMMA NothingReadable ==
    ASSUME NEW b, IsBuffer(b), ReadableBytes(b) = 0
    PROVE  Readable(b) = << >>
BY ReadableType, EmptySeq

(* What a step leaves in the Buffer is what can be read of it. *)
LEMMA BecomeReadable ==
    ASSUME NEW b, b = Object(b.buf, b.r, b.w), Become(b), Bounded(Self)'
    PROVE  IsBuffer(b) /\ Readable(Self)' = Readable(b)
<1>1. b.buf = buffer_' /\ b.r = reader_index_' /\ b.w = writer_index_'
  BY DEF Become
<1>2. Self' = Object(buffer_', reader_index_', writer_index_')
  BY DEF Self
<1>3. b = Self'
  BY <1>1, <1>2
<1>4. Readable(Self)' = Readable(b)
  BY <1>3 DEF Readable
<1>5. IsBuffer(b)
  BY <1>3 DEF Bounded, IsBuffer, Object
<1> QED
  BY <1>4, <1>5

(* The same for an object made of its parts. *)
LEMMA BecomeObject ==
    ASSUME NEW buf, NEW r, NEW w, Become(Object(buf, r, w)), Bounded(Self)'
    PROVE  \E e : /\ IsBuffer(e) /\ Readable(Self)' = Readable(e)
                  /\ e.buf = buf /\ e.r = r /\ e.w = w
<1>1. PICK e : e = Object(buf, r, w)
  OBVIOUS
<1>2. e.buf = buf /\ e.r = r /\ e.w = w /\ e = Object(e.buf, e.r, e.w) /\ Become(e)
  BY <1>1 DEF Object
<1> QED
  BY <1>2, BecomeReadable

(* Append makes an object. *)
LEMMA AppendObject ==
    ASSUME NEW b, NEW data
    PROVE  \E a : a = AppendTo(b, data) /\ a = Object(a.buf, a.r, a.w)
<1>1. PICK buf, r, w : AppendTo(b, data) = Object(buf, r, w)
  BY Zenon DEF AppendTo
<1>2. Object(buf, r, w) = Object(Object(buf, r, w).buf, Object(buf, r, w).r, Object(buf, r, w).w)
  BY DEF Object
<1> QED
  BY <1>1, <1>2, Zenon

(* Data behind the writer index, where there is room for it. *)
LEMMA BehindWriter ==
    ASSUME Bounded(Self), NEW data \in Seq(Bytes), Len(data) <= WritableBytes(Self), NEW e,
           IsBuffer(e), e.buf = Copy(buffer_, writer_index_, data), e.r = reader_index_,
           e.w = writer_index_ + Len(data)
    PROVE  Readable(e) = Readable(Self) \o data
<1>1. Self.buf = buffer_ /\ Self.r = reader_index_ /\ Self.w = writer_index_ /\ IsBuffer(Self)
  BY DEF Self, Object, Bounded
<1>2. writer_index_ + Len(data) <= Len(buffer_)
  BY SelfFacts, LenProperties
<1> QED
  BY <1>1, <1>2, WriteBehind

(* readv into the writable part and extrabuf appends the data as a whole. *)
LEMMA ReadFdExact ==
    ASSUME Bounded(Self), Bounded(Self)', NEW data \in Data(MaxLen), ReadFd(data)
    PROVE  Readable(Self)' = Readable(Self) \o data
<1> USE BufferAssumption
<1>1. data \in Seq(Bytes) /\ Len(data) \in Nat
  BY DataIsSeq
<1>2. CASE Len(data) <= WritableBytes(Self)
  <2>1. Become(Object(Copy(buffer_, writer_index_, data), reader_index_,
                      writer_index_ + Len(data)))
    BY <1>2 DEF ReadFd
  <2>2. PICK e : /\ IsBuffer(e) /\ Readable(Self)' = Readable(e)
                 /\ e.buf = Copy(buffer_, writer_index_, data) /\ e.r = reader_index_
                 /\ e.w = writer_index_ + Len(data)
    BY <2>1, BecomeObject
  <2> QED
    BY <1>1, <1>2, <2>2, BehindWriter
<1>3. CASE ~(Len(data) <= WritableBytes(Self))
  <2>0. PICK wr : wr = WritableBytes(Self)
    OBVIOUS
  <2>1. wr \in Nat /\ wr < Len(data) /\ writer_index_ + wr = Len(buffer_)
        /\ wr <= WritableBytes(Self) /\ Len(buffer_) \in Nat /\ reader_index_ <= Len(buffer_)
    BY <1>1, <1>3, <2>0, SelfFacts
  <2>2. PICK d1 \in Seq(Bytes), d2 \in Seq(Bytes) :
            /\ d1 = SubSeq(data, 1, wr) /\ d2 = SubSeq(data, wr + 1, Len(data))
            /\ Len(d1) = wr
    <3>1. /\ SubSeq(data, 1, wr) \in Seq(Bytes) /\ Len(SubSeq(data, 1, wr)) = wr
      BY <1>1, <2>1, SubSeqProperties
    <3>2. SubSeq(data, wr + 1, Len(data)) \in Seq(Bytes)
      BY <1>1, <2>1, SubSeqProperties
    <3> QED
      BY <3>1, <3>2
  <2>3. d1 \o d2 = data
    <3>1. 1 \in 1 .. Len(data) + 1 /\ wr \in 1 - 1 .. Len(data) /\ Len(data) \in wr .. Len(data)
      BY <1>1, <2>1
    <3>2. d1 \o d2 = SubSeq(data, 1, Len(data))
      BY <1>1, <2>2, <3>1, ConcatAdjacentSubSeq
    <3> QED
      BY <1>1, <3>2, SubSeqFull
  <2>4. PICK b : b = Object(Copy(buffer_, writer_index_, d1), reader_index_, Len(buffer_))
    OBVIOUS
  <2>5. /\ b.buf = Copy(buffer_, writer_index_, d1) /\ b.r = reader_index_
        /\ b.w = writer_index_ + Len(d1)
    BY <2>1, <2>2, <2>4 DEF Object
  <2>6. IsBuffer(b)
    <3>1. buffer_ = Self.buf /\ writer_index_ \in Int /\ reader_index_ \in Nat
      BY SelfFacts
    <3>2. Bounded(Object(Copy(Self.buf, writer_index_, d1), reader_index_, Len(buffer_)))
      BY <2>1, <3>1, WriteBounded
    <3> QED
      BY <2>4, <3>1, <3>2 DEF Bounded
  <2>7. Readable(b) = Readable(Self) \o d1
    BY <2>1, <2>2, <2>5, <2>6, BehindWriter
  <2>8. Become(AppendTo(b, d2))
    BY <1>3, <2>0, <2>2, <2>4 DEF ReadFd
  <2>9. PICK a : a = AppendTo(b, d2) /\ a = Object(a.buf, a.r, a.w)
    BY AppendObject
  <2>10. IsBuffer(a) /\ Readable(Self)' = Readable(a)
    BY <2>8, <2>9, BecomeReadable
  <2>11. Readable(a) = Readable(b) \o d2
    BY <2>6, <2>9, <2>10, AppendExact
  <2>12. PICK q \in Seq(Bytes) : q = Readable(Self)
    BY ReadableType DEF Bounded
  <2>13. (q \o d1) \o d2 = q \o (d1 \o d2)
    BY ConcatAssociative
  <2> QED
    BY <2>3, <2>7, <2>10, <2>11, <2>12, <2>13
<1> QED
  BY <1>2, <1>3

(* Shrink copies the bytes into a new Buffer. *)
LEMMA ShrinkExact ==
    ASSUME Bounded(Self), Bounded(Self)', NEW len \in Nat, Shrink(len)
    PROVE  Readable(Self)' = Readable(Self)
<1>1. PICK n \in Nat : n = ReadableBytes(Self) + len
  BY SelfFacts
<1>2. PICK e : e = EnsureWritableBytes(NewBuffer, n)
  OBVIOUS
<1>3. IsBuffer(e) /\ Readable(e) = << >>
  BY <1>2, NewIsBounded, RoomLemma, NothingReadable DEF Bounded
<1>4. PICK q \in Seq(Bytes) : q = Readable(Self)
  BY ReadableType DEF Bounded
<1>5. PICK a : a = AppendTo(e, q) /\ a = Object(a.buf, a.r, a.w)
  BY AppendObject
<1>6. Become(a)
  BY <1>1, <1>2, <1>4, <1>5 DEF Shrink
<1>7. IsBuffer(a) /\ Readable(Self)' = Readable(a)
  BY <1>5, <1>6, BecomeReadable
<1>8. Readable(a) = << >> \o q
  BY <1>3, <1>5, <1>7, AppendExact
<1> QED
  BY <1>4, <1>7, <1>8, ConcatEmptySeq

(* Retrieve takes bytes off the front; the last ones leave nothing. *)
LEMMA RetrieveExact ==
    ASSUME Bounded(Self), Bounded(Self)', NEW len \in Nat, DoRetrieve(len)
    PROVE  Readable(Self)' = SubSeq(Readable(Self), len + 1, Len(Readable(Self)))
<1>0. /\ Self.buf = buffer_ /\ Self.r = reader_index_ /\ Self.w = writer_index_
      /\ IsBuffer(Self) /\ len <= ReadableBytes(Self) /\ ReadableBytes(Self) \in Nat
  BY SelfFacts DEF Self, Object, Bounded, DoRetrieve
<1>1. CASE len < ReadableBytes(Self)
  <2>1. Become(Object(buffer_, reader_index_ + len, writer_index_))
    BY <1>0, <1>1 DEF DoRetrieve, Retrieve
  <2>2. PICK e : /\ IsBuffer(e) /\ Readable(Self)' = Readable(e)
                 /\ e.buf = buffer_ /\ e.r = reader_index_ + len /\ e.w = writer_index_
    BY <2>1, BecomeObject
  <2> QED
    BY <1>0, <2>2, DropFront
<1>2. CASE ~(len < ReadableBytes(Self))
  <2>1. Become(Object(buffer_, kcheap_prepend, kcheap_prepend))
    BY <1>0, <1>2 DEF DoRetrieve, Retrieve, RetrieveAll
  <2>2. PICK e : /\ IsBuffer(e) /\ Readable(Self)' = Readable(e)
                 /\ e.r = kcheap_prepend /\ e.w = kcheap_prepend
    BY <2>1, BecomeObject
  <2>3. ReadableBytes(e) = 0
    BY <2>2, BufferAssumption DEF ReadableBytes
  <2>4. Readable(Self)' = << >>
    BY <2>2, <2>3, NothingReadable
  <2>5. PICK n : n = Len(Readable(Self)) /\ n = ReadableBytes(Self)
    BY <1>0, ReadableType
  <2>6. n \in Int /\ len + 1 \in Int /\ n < len + 1
    BY <1>0, <1>2, <2>5
  <2>7. SubSeq(Readable(Self), len + 1, n) = << >>
    BY <2>6, SubSeqEmpty
  <2> QED
    BY <2>4, <2>5, <2>7
<1> QED
  BY <1>1, <1>2

(* Each operation changes the readable bytes as its name says. *)
LEMMA StepExact ==
    ASSUME Bounded(Self), Bounded(Self)'
    PROVE  LET before == Readable(Self)
               after == Readable(Self)'
           IN  /\ \A data \in Data(MaxLen) :
                    /\ DoAppend(data) \/ WriteDirectly(data) \/ ReadFd(data)
                           => after = before \o data
                    /\ Prepend(data) => after = data \o before
               /\ \A len \in 0 .. MaxContent :
                    /\ DoRetrieve(len) => after = SubSeq(before, len + 1, Len(before))
                    /\ unwrite(len) => after = SubSeq(before, 1, Len(before) - len)
                    /\ DoEnsureWritableBytes(len) \/ Shrink(len) => after = before
<1> USE BufferAssumption
<1>0. /\ Self.buf = buffer_ /\ Self.r = reader_index_ /\ Self.w = writer_index_
      /\ IsBuffer(Self)
  BY DEF Self, Object, Bounded
<1>1. ASSUME NEW data \in Data(MaxLen), DoAppend(data)
      PROVE  Readable(Self)' = Readable(Self) \o data
  <2>1. data \in Seq(Bytes)
    BY DataIsSeq
  <2>2. PICK a : a = AppendTo(Self, data) /\ a = Object(a.buf, a.r, a.w)
    BY AppendObject
  <2>3. IsBuffer(a) /\ Readable(Self)' = Readable(a)
    BY <1>1, <2>2, BecomeReadable DEF DoAppend
  <2> QED
    BY <1>0, <2>1, <2>2, <2>3, AppendExact
<1>2. ASSUME NEW data \in Data(MaxLen), WriteDirectly(data)
      PROVE  Readable(Self)' = Readable(Self) \o data
  <2>1. data \in Seq(Bytes) /\ Len(data) <= WritableBytes(Self)
    BY <1>2, DataIsSeq DEF WriteDirectly
  <2>2. PICK e : /\ IsBuffer(e) /\ Readable(Self)' = Readable(e)
                 /\ e.buf = Copy(buffer_, writer_index_, data) /\ e.r = reader_index_
                 /\ e.w = writer_index_ + Len(data)
    BY <1>2, BecomeObject DEF WriteDirectly
  <2> QED
    BY <2>1, <2>2, BehindWriter
<1>3. ASSUME NEW data \in Data(MaxLen), Prepend(data)
      PROVE  Readable(Self)' = data \o Readable(Self)
  <2>1. data \in Seq(Bytes) /\ Len(data) <= reader_index_
    BY <1>3, DataIsSeq, SelfFacts DEF Prepend
  <2>2. PICK e : /\ IsBuffer(e) /\ Readable(Self)' = Readable(e)
                 /\ e.buf = Copy(buffer_, reader_index_ - Len(data), data)
                 /\ e.r = reader_index_ - Len(data) /\ e.w = writer_index_
    BY <1>3, BecomeObject DEF Prepend
  <2> QED
    BY <1>0, <2>1, <2>2, WriteInFront
<1>4. ASSUME NEW len \in 0 .. MaxContent, unwrite(len)
      PROVE  Readable(Self)' = SubSeq(Readable(Self), 1, Len(Readable(Self)) - len)
  <2>1. PICK e : /\ IsBuffer(e) /\ Readable(Self)' = Readable(e)
                 /\ e.buf = buffer_ /\ e.r = reader_index_ /\ e.w = writer_index_ - len
    BY <1>4, BecomeObject DEF unwrite
  <2>2. len \in Nat /\ len <= ReadableBytes(Self)
    BY <1>4 DEF unwrite
  <2> QED
    BY <1>0, <2>1, <2>2, DropEnd
<1>5. ASSUME NEW len \in 0 .. MaxContent, DoEnsureWritableBytes(len)
      PROVE  Readable(Self)' = Readable(Self)
  <2>1. PICK e : e = EnsureWritableBytes(Self, len)
    OBVIOUS
  <2>2. e = Object(e.buf, e.r, e.w) /\ Readable(e) = Readable(Self)
    BY <1>0, <2>1, RoomLemma, RoomKeeps DEF IsBuffer
  <2> QED
    BY <1>5, <2>1, <2>2, BecomeReadable DEF DoEnsureWritableBytes
<1>6. \A len \in 0 .. MaxContent : len \in Nat
  OBVIOUS
<1> QED
  BY <1>1, <1>2, <1>3, <1>4, <1>5, <1>6, ReadFdExact, RetrieveExact, ShrinkExact

(* Every operation leaves the indices of the Buffer in order, within its    *)
(* vector.                                                                  *)
THEOREM TypeCorrect == Spec => []TypeOK
<1>1. Bounded(Self) => TypeOK
  BY SelfFacts DEF TypeOK
<1> QED
  BY <1>1, InitBounded, StepBounded, PTL DEF Spec

(* The assertions of EnsureWritableBytes and MakeSpace hold for every       *)
(* length: there is room after it, and bytes are only moved back.           *)
THEOREM RoomCanBeMade == Spec => []RoomIsMade
<1>1. Bounded(Self) => RoomIsMade
  <2> SUFFICES ASSUME Bounded(Self), NEW len \in 0 .. MaxContent
               PROVE  /\ WritableBytes(Self) < len /\ ~MustGrow(Self, len)
                             => kcheap_prepend < reader_index_
                      /\ WritableBytes(EnsureWritableBytes(Self, len)) >= len
    BY DEF RoomIsMade
  <2>1. IsBuffer(Self) /\ len \in Nat /\ Self.r = reader_index_
    BY BufferAssumption DEF Bounded, Self, Object
  <2> QED
    BY <2>1, RoomLemma
<1> QED
  BY <1>1, InitBounded, StepBounded, PTL DEF Spec

(* The vector never gets longer than twice the longest request needs: space *)
(* in front of the data is used first.                                      *)
THEOREM VectorIsBounded == Spec => []GrowthIsBounded
<1>1. Bounded(Self) => GrowthIsBounded
  BY SelfFacts DEF GrowthIsBounded, Limit
<1> QED
  BY <1>1, InitBounded, StepBounded, PTL DEF Spec

(* Seen from outside a Buffer is a queue of bytes: whatever an operation    *)
(* does to the vector and its indices, the bytes that can be read after it  *)
(* are exactly those its name promises.                                     *)
THEOREM OperationsAreExact == Spec => OperationsExact
<1>1. Bounded(Self) /\ [Next]_vars =>
        [ LET before == Readable(Self)
              after == Readable(Self)'
          IN  /\ \A data \in Data(MaxLen) :
                   /\ DoAppend(data) \/ WriteDirectly(data) \/ ReadFd(data)
                          => after = before \o data
                   /\ Prepend(data) => after = data \o before
              /\ \A len \in 0 .. MaxContent :
                   /\ DoRetrieve(len) => after = SubSeq(before, len + 1, Len(before))
                   /\ unwrite(len) => after = SubSeq(before, 1, Len(before) - len)
                   /\ DoEnsureWritableBytes(len) \/ Shrink(len) => after = before
        ]_vars
  BY StepBounded, StepExact
<1> QED
  BY <1>1, InitBounded, StepBounded, PTL DEF Spec, OperationsExact
=============================================================================
