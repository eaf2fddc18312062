------------------------------- MODULE Buffer -------------------------------
(***************************************************************************)
(* dwater/net/buffer.h and buffer.cc: a vector of bytes with a reader and  *)
(* a writer index.  Room is made for an append by growing the vector or by *)
(* moving the readable bytes back to kcheap_prepend.  Byte i of the vector,*)
(* counted from 0 in the code, is buffer_[i + 1] here.                     *)
(***************************************************************************)
EXTENDS Integers, Sequences

CONSTANTS
    Bytes,              \* the values a byte can have
    Zero,               \* the byte a resize fills with
    kcheap_prepend,
    kinitial_size,
    ExtraSize,          \* sizeof(extrabuf), the second buffer of ReadFd
    MaxLen,             \* bound: the longest data appended or prepended
    MaxContent          \* bound: no append or prepend beyond this

ASSUME BufferAssumption ==
    /\ Zero \in Bytes
    /\ kcheap_prepend \in Nat /\ kinitial_size \in Nat /\ ExtraSize \in Nat
    /\ MaxLen \in Nat /\ MaxContent \in Nat

VARIABLES buffer_, reader_index_, writer_index_

vars == <<buffer_, reader_index_, writer_index_>>

(* A Buffer object as a value, so that operations that call others compose *)
Object(buf, r, w) == [buf |-> buf, r |-> r, w |-> w]
Self == Object(buffer_, reader_index_, writer_index_)
Become(b) ==
    buffer_' = b.buf /\ reader_index_' = b.r /\ writer_index_' = b.w

(* data of up to n bytes *)
Data(n) == UNION {[1 .. k -> Bytes] : k \in 0 .. n}

ReadableBytes(b) == b.w - b.r
WritableBytes(b) == Len(b.buf) - b.w
PrependableBytes(b) == b.r

(* what Peek() and ReadableBytes() show of it *)
Readable(b) == [i \in 1 .. b.w - b.r |-> b.buf[b.r + i]]

(* std::copy of data to the byte at index `at` *)
Copy(buf, at, data) ==
    [i \in 1 .. Len(buf) |->
        IF at < i /\ i <= at + Len(data) THEN data[i - at] ELSE buf[i]]

Resize(buf, n) ==
    [i \in 1 .. n |-> IF i <= Len(buf) THEN buf[i] ELSE Zero]

NewBuffer ==
    Object([i \in 1 .. kcheap_prepend + kinitial_size |-> Zero],
           kcheap_prepend, kcheap_prepend)

(* mutant: kcheap_prepend is not kept free *)
MustGrowTight(b, len) == WritableBytes(b) + PrependableBytes(b) < len

(* mutant: the bytes are never moved back *)
MustGrowAlways(b, len) == TRUE

MustGrow(b, len) ==
    WritableBytes(b) + PrependableBytes(b) < len + kcheap_prepend

(* mutant: the bytes are moved to the start of the vector *)
MakeSpaceAtStart(b, len) ==
    IF MustGrow(b, len)
      THEN Object(Resize(b.buf, b.w + len), b.r, b.w)
      ELSE Object(Copy(b.buf, 0, Readable(b)),
                  kcheap_prepend, kcheap_prepend + ReadableBytes(b))

MakeSpace(b, len) ==
    IF MustGrow(b, len)
      THEN Object(Resize(b.buf, b.w + len), b.r, b.w)
      ELSE Object(Copy(b.buf, kcheap_prepend, Readable(b)),
                  kcheap_prepend, kcheap_prepend + ReadableBytes(b))

EnsureWritableBytes(b, len) ==
    IF WritableBytes(b) < len THEN MakeSpace(b, len) ELSE b

AppendTo(b, data) ==
    LET e == EnsureWritableBytes(b, Len(data))
    IN  Object(Copy(e.buf, e.w, data), e.r, e.w + Len(data))

RetrieveAll(b) == Object(b.buf, kcheap_prepend, kcheap_prepend)

Retrieve(b, len) ==
    IF len < ReadableBytes(b) THEN Object(b.buf, b.r + len, b.w) ELSE RetrieveAll(b)

-----------------------------------------------------------------------------
Init ==
    /\ buffer_ = NewBuffer.buf
    /\ reader_index_ = NewBuffer.r /\ writer_index_ = NewBuffer.w

DoAppend(data) ==
    /\ ReadableBytes(Self) + Len(data) <= MaxContent
    /\ Become(AppendTo(Self, data))

(* EnsureWritableBytes called by a user, who then writes behind BeginWrite() *)
(* and reports it with hasWritten                                           *)
DoEnsureWritableBytes(len) ==
    /\ ReadableBytes(Self) + len <= MaxContent
    /\ Become(EnsureWritableBytes(Self, len))

WriteDirectly(data) ==
    /\ Len(data) <= WritableBytes(Self)
    /\ ReadableBytes(Self) + Len(data) <= MaxContent
    /\ Become(Object(Copy(buffer_, writer_index_, data), reader_index_,
                     writer_index_ + Len(data)))

unwrite(len) ==
    /\ len <= ReadableBytes(Self)
    /\ Become(Object(buffer_, reader_index_, writer_index_ - len))

DoRetrieve(len) ==
    /\ len <= ReadableBytes(Self)
    /\ Become(Retrieve(Self, len))

Prepend(data) ==
    /\ Len(data) <= PrependableBytes(Self)
    /\ ReadableBytes(Self) + Len(data) <= MaxContent
    /\ Become(Object(Copy(buffer_, reader_index_ - Len(data), data),
                     reader_index_ - Len(data), writer_index_))

Shrink(reserve) ==
    /\ ReadableBytes(Self) + reserve <= MaxContent
    /\ Become(AppendTo(EnsureWritableBytes(NewBuffer, ReadableBytes(Self) + reserve),
                       Readable(Self)))

(* readv into the writable part and, only if that is shorter than extrabuf, *)
(* into extrabuf, whose part is then appended                               *)
ReadFd(data) ==
    LET writable == WritableBytes(Self) IN
    /\ ReadableBytes(Self) + Len(data) <= MaxContent
    /\ Len(data) <= IF writable < ExtraSize THEN writable + ExtraSize ELSE writable
    /\ IF Len(data) <= writable
         THEN Become(Object(Copy(buffer_, writer_index_, data), reader_index_,
                            writer_index_ + Len(data)))
         ELSE Become(AppendTo(
                Object(Copy(buffer_, writer_index_, SubSeq(data, 1, writable)),
                       reader_index_, Len(buffer_)),
                SubSeq(data, writable + 1, Len(data))))

Next ==
    \/ \E data \in Data(MaxLen) :
            DoAppend(data) \/ WriteDirectly(data) \/ Prepend(data) \/ ReadFd(data)
    \/ \E len \in 0 .. MaxContent :
            DoEnsureWritableBytes(len) \/ unwrite(len) \/ DoRetrieve(len) \/ Shrink(len)

Spec == Init /\ [][Next]_vars

-----------------------------------------------------------------------------
(* The vector holds bytes, and the indices are in order within it, whatever *)
(* the operations: every read and write is inside the vector.               *)
TypeOK ==
    /\ buffer_ \in Seq(Bytes)
    /\ reader_index_ \in Nat /\ writer_index_ \in Nat
    /\ reader_index_ <= writer_index_ /\ writer_index_ <= Len(buffer_)
    /\ kcheap_prepend <= Len(buffer_)

(* The assertions of EnsureWritableBytes and MakeSpace, for any length that *)
(* could be asked for next: the bytes are moved only if that moves them     *)
(* back, and there is enough room afterwards.                               *)
RoomIsMade ==
    \A len \in 0 .. MaxContent :
        /\ WritableBytes(Self) < len /\ ~MustGrow(Self, len)
              => kcheap_prepend < reader_index_
        /\ WritableBytes(EnsureWritableBytes(Self, len)) >= len

(* Space in front of the data is used before the vector grows, so that it   *)
(* never gets longer than twice the longest request needs.                  *)
GrowthIsBounded ==
    Len(buffer_) <= kcheap_prepend +
        (IF kinitial_size > 2 * MaxContent THEN kinitial_size ELSE 2 * MaxContent)

(* Seen from outside, a Buffer is a queue of bytes: appending (in the       *)
(* buffer, behind BeginWrite() or from a file descriptor) adds the data at  *)
(* the end, prepending in front, retrieving and unwriting take bytes off    *)
(* the two ends, and growing, moving and shrinking leave them as they are.  *)
OperationsExact ==
    [][ LET before == Readable(Self)
            after == Readable(Self)'
        IN  /\ \A data \in Data(MaxLen) :
                 /\ DoAppend(data) \/ WriteDirectly(data) \/ ReadFd(data)
                        => after = before \o data
                 /\ Prepend(data) => after = data \o before
            /\ \A len \in 0 .. MaxContent :
                 /\ DoRetrieve(len) => after = SubSeq(before, len + 1, Len(before))
                 /\ unwrite(len) => after = SubSeq(before, 1, Len(before) - len)
                 /\ DoEnsureWritableBytes(len) \/ Shrink(len) => after = before
      ]_vars
=============================================================================
