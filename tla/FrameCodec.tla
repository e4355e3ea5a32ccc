----------------------------- MODULE FrameCodec -----------------------------
(***************************************************************************)
(* The bytes of a WebSocket frame: as the client makes them (RFC 6455      *)
(* Section 5.2, to which the code refers), as ReadWebsocket() takes them   *)
(* apart, and the length that sendSocketMessage() puts before a message.   *)
(* A byte is a number; bytes are a sequence.                               *)
(***************************************************************************)
EXTENDS Integers, Sequences

CONSTANT ByteXor(_, _)  \* the operator ^ of the language, on bytes

Byte == 0..255

ASSUME XorAssumption ==
    \A a, b \in Byte : ByteXor(a, b) \in Byte /\ ByteXor(ByteXor(a, b), b) = a

(* The four bytes of a length, the lowest last. *)
Byte1(n) == n % 256
Byte2(n) == (n \div 256) % 256
Byte3(n) == (n \div 65536) % 256
Byte4(n) == (n \div 16777216) % 256

Number(b4, b3, b2, b1) == 16777216 * b4 + 65536 * b3 + 256 * b2 + b1

-----------------------------------------------------------------------------
(* The client.  A length stands in the second byte, or in the two or eight *)
(* that follow it: "form" counts these.  A frame without a key is not      *)
(* masked.                                                                 *)

Frame == [op : 0..15, fin : BOOLEAN, ext : 0..7, form : {0, 2, 8},
          key : [1..4 -> Byte] \cup {<<>>}, payload : Seq(Byte)]

(* Of the eight bytes the code reads four, for lengths below 2^32.         *)
Fits(n, form) == \/ form = 0 /\ n < 126
                 \/ form = 2 /\ n < 65536
                 \/ form = 8 /\ n \div 65536 < 65536

(* The bytes of a length that fits. *)
RfcLengthBytes(n, form) ==
    CASE form = 0 -> <<n>>
      [] form = 2 -> <<126, Byte2(n), Byte1(n)>>
      [] form = 8 -> <<127, 0, 0, 0, 0, Byte4(n), Byte3(n), Byte2(n), Byte1(n)>>

RfcLength(bytes) ==
    IF bytes[1] < 126 THEN bytes[1]
    ELSE IF bytes[1] = 126 THEN 256 * bytes[2] + bytes[3]
    ELSE Number(bytes[6], bytes[7], bytes[8], bytes[9])

FirstByte(f) == (IF f.fin THEN 128 ELSE 0) + 16 * f.ext + f.op

MaskedPayload(f) ==
    [i \in 1..Len(f.payload) |-> ByteXor(f.payload[i], f.key[1 + ((i - 1) % 4)])]

Encoded(f) ==
    LET length == RfcLengthBytes(Len(f.payload), f.form)
    IN <<FirstByte(f)>> \o
       (IF f.key = <<>> THEN length \o f.payload
        ELSE [length EXCEPT ![1] = @ + 128] \o f.key \o MaskedPayload(f))

-----------------------------------------------------------------------------
(* The server, reading. *)

(* data[i]: past the end of a QByteArray it is zero. *)
At(data, i) == IF i < Len(data) THEN data[i + 1] ELSE 0

(* Mutant: the first byte is taken as it is. *)
WholeOpCode(data) == At(data, 0)

OpCode(data)    == At(data, 0) % 16
Finished(data)  == At(data, 0) >= 128
Extension(data) == (At(data, 0) \div 16) % 8
Masked(data)    == At(data, 1) >= 128

(* The highest of the bytes that are added here is shifted into the sign   *)
(* of an int and taken back into an unsigned one.                          *)
PayloadLength(data) ==
    LET plen == At(data, 1) % 128
    IN IF plen = 126 THEN 256 * At(data, 2) + At(data, 3)
       ELSE IF plen = 127
       THEN Number(At(data, 6), At(data, 7), At(data, 8), At(data, 9))
       ELSE plen

Offset(data) ==
    LET plen == At(data, 1) % 128
    IN IF plen = 126 THEN 2 ELSE IF plen = 127 THEN 8 ELSE 0

Payload(data) ==
    [i \in 1..PayloadLength(data) |->
       ByteXor(At(data, Offset(data) + 5 + i), At(data, Offset(data) + 2 + ((i - 1) % 4)))]

-----------------------------------------------------------------------------
(* The server, writing: the first byte of the length of a message of n     *)
(* bytes, and those that follow.  It masks nothing.                        *)

(* Mutant: a length of 126 is written as it is. *)
OffByOneLengthBytes(n) ==
    IF n <= 126 THEN <<n>>
    ELSE IF n < 65536 THEN <<126, Byte2(n), Byte1(n)>>
    ELSE <<127, 0, 0, 0, 0, Byte4(n), Byte3(n), Byte2(n), Byte1(n)>>

LengthBytes(n) ==
    IF n < 126 THEN <<n>>
    ELSE IF n < 65536 THEN <<126, Byte2(n), Byte1(n)>>
    ELSE <<127, 0, 0, 0, 0, Byte4(n), Byte3(n), Byte2(n), Byte1(n)>>
=============================================================================
