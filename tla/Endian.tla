------------------------------- MODULE Endian -------------------------------
(***************************************************************************)
(* dwater/net/endian.h and the integers of buffer.h: AppendInt and         *)
(* PrependInt write a signed integer of `width` bytes in network order,    *)
(* PeekInt and ReadInt take it back.  Byte strings stand for the readable  *)
(* part of a Buffer (see Buffer).                                          *)
(***************************************************************************)
EXTENDS Integers, Sequences

(* the bytes of x in two's complement, the most significant first; with     *)
(* more bytes than x needs the first ones repeat its sign                   *)
HostToNetwork(x, width) ==
    LET Rest[k \in 0 .. width] == IF k = 0 THEN x ELSE Rest[k - 1] \div 256
    IN  [i \in 1 .. width |-> Rest[width - i] % 256]

(* the signed integer these bytes stand for *)
NetworkToHost(bytes) ==
    LET Value[k \in 1 .. Len(bytes)] ==
            IF k = 1 THEN (IF bytes[1] < 128 THEN bytes[1] ELSE bytes[1] - 256)
            ELSE Value[k - 1] * 256 + bytes[k]
    IN  Value[Len(bytes)]

AppendInt(content, x, width) == content \o HostToNetwork(x, width)

PrependInt(content, x, width) == HostToNetwork(x, width) \o content

PeekInt(content, width) == NetworkToHost(SubSeq(content, 1, width))

ReadInt(content, width) ==
    [result |-> PeekInt(content, width),
     content |-> SubSeq(content, width + 1, Len(content))]
=============================================================================
