------------------------ MODULE WebSocketFrames_proof ------------------------
(***************************************************************************)
(* Proofs about WebSocketFrames, for every ByteXor, all scripts of the     *)
(* client, all messages of the application and any number of sends: the    *)
(* bytes of a frame and of a length; what a read takes; the types; what is *)
(* delivered to the application; and what the client receives.             *)
(***************************************************************************)
EXTENDS WebSocketFrames, SequenceTheorems, WellFoundedInduction, TLAPS

(* The lengths that fit in 32 bits, and those a QByteArray can have. *)
Lengths    == {n \in Nat : n < 4294967296}
IntLengths == {n \in Nat : n < 2147483648}

LEMMA ByteRange == \A b : b \in Byte <=> b \in Int /\ 0 <= b /\ b < 256
  BY SMT DEF Byte

(* A number below 2^32 is the sum of its bytes. *)
LEMMA BytesOfLength ==
    ASSUME NEW n \in Lengths
    PROVE  /\ Byte1(n) \in Byte /\ Byte2(n) \in Byte
           /\ Byte3(n) \in Byte /\ Byte4(n) \in Byte
           /\ n = Number(Byte4(n), Byte3(n), Byte2(n), Byte1(n))
           /\ n < 65536 => n = 256 * Byte2(n) + Byte1(n)
  BY SMTT(60) DEF Byte1, Byte2, Byte3, Byte4, Byte, Lengths, Number

-----------------------------------------------------------------------------
(* The bytes that sendSocketMessage() writes for a length are bytes, and a *)
(* client that follows the RFC reads that length from them: at the limits  *)
(* 126 and 65536 too, and for every length a QByteArray can have.          *)
THEOREM WrittenLengthIsRead ==
    \A n \in IntLengths :
        LengthBytes(n) \in Seq(Byte) /\ RfcLength(LengthBytes(n)) = n
<1> SUFFICES ASSUME NEW n \in IntLengths
             PROVE  LengthBytes(n) \in Seq(Byte) /\ RfcLength(LengthBytes(n)) = n
  OBVIOUS
<1>0. n \in Lengths /\ n \in Int /\ 0 <= n
  BY SMT DEF IntLengths, Lengths
<1>b. 0 \in Byte /\ 126 \in Byte /\ 127 \in Byte
  BY SMT, ByteRange
<1>1. CASE n < 126
  <2>1. n \in Byte /\ LengthBytes(n) = <<n>>
    BY SMT, <1>0, <1>1, ByteRange DEF LengthBytes
  <2> QED  BY SMT, <2>1, <1>1 DEF RfcLength
<1>2. CASE n >= 126 /\ n < 65536
  <2>1. LengthBytes(n) = <<126, Byte2(n), Byte1(n)>>
    BY SMT, <1>0, <1>2 DEF LengthBytes
  <2>2. Byte1(n) \in Byte /\ Byte2(n) \in Byte /\ n = 256 * Byte2(n) + Byte1(n)
    BY SMT, <1>0, <1>2, BytesOfLength
  <2> QED  BY SMT, <2>1, <2>2, <1>b DEF RfcLength
<1>3. CASE n >= 65536
  <2>1. LengthBytes(n) = <<127, 0, 0, 0, 0, Byte4(n), Byte3(n), Byte2(n), Byte1(n)>>
    BY SMT, <1>0, <1>3 DEF LengthBytes
  <2>2. /\ Byte1(n) \in Byte /\ Byte2(n) \in Byte /\ Byte3(n) \in Byte /\ Byte4(n) \in Byte
        /\ n = Number(Byte4(n), Byte3(n), Byte2(n), Byte1(n))
    BY SMT, <1>0, <1>3, BytesOfLength
  <2> QED  BY SMT, <2>1, <2>2, <1>b DEF RfcLength
<1> QED  BY SMT, <1>0, <1>1, <1>2, <1>3

-----------------------------------------------------------------------------
(* A function on an initial segment of the numbers is a sequence.          *)
LEMMA FunctionIsSeq ==
    ASSUME NEW n \in Nat, NEW s \in [1..n -> Byte]
    PROVE  s \in Seq(Byte) /\ Len(s) = n
  OBVIOUS

LEMMA ThreeBytes ==
    ASSUME NEW a \in Byte, NEW b \in Byte, NEW c \in Byte, NEW s, s = <<a, b, c>>
    PROVE  s \in Seq(Byte) /\ Len(s) = 3 /\ s[1] = a /\ s[2] = b /\ s[3] = c
  OBVIOUS

LEMMA NineBytes ==
    ASSUME NEW a \in Byte, NEW z \in Byte, NEW b4 \in Byte, NEW b3 \in Byte,
           NEW b2 \in Byte, NEW b1 \in Byte, NEW s, s = <<a, z, z, z, z, b4, b3, b2, b1>>
    PROVE  /\ s \in Seq(Byte) /\ Len(s) = 9
           /\ s[1] = a /\ s[6] = b4 /\ s[7] = b3 /\ s[8] = b2 /\ s[9] = b1
  OBVIOUS

(* d is the bytes of s with those of t behind them. *)
Joined(d, s, t) ==
    /\ Len(s) \in Nat /\ Len(t) \in Nat /\ Len(d) = Len(s) + Len(t)
    /\ \A i \in 1..Len(s) : d[i] = s[i]
    /\ \A i \in 1..Len(t) : d[Len(s) + i] = t[i]

LEMMA ConcatJoins ==
    ASSUME NEW s \in Seq(Byte), NEW t \in Seq(Byte), NEW d, d = s \o t
    PROVE  d \in Seq(Byte) /\ Joined(d, s, t)
<1>1. /\ s \o t \in Seq(Byte) /\ Len(s \o t) = Len(s) + Len(t)
      /\ \A i \in 1..Len(s) + Len(t) :
           (s \o t)[i] = IF i <= Len(s) THEN s[i] ELSE t[i - Len(s)]
  BY ConcatProperties
<1>2. Len(s) \in Nat /\ Len(t) \in Nat
  OBVIOUS
<1>3. ASSUME NEW i \in 1..Len(s)  PROVE  d[i] = s[i]
  BY SMT, <1>1, <1>2
<1>4. ASSUME NEW i \in 1..Len(t)  PROVE  d[Len(s) + i] = t[i]
  <2>1. Len(s) + i \in 1..Len(s) + Len(t) /\ ~ Len(s) + i <= Len(s)
        /\ (Len(s) + i) - Len(s) = i
    BY SMT, <1>2
  <2>2. (s \o t)[Len(s) + i] = t[(Len(s) + i) - Len(s)]
    BY <1>1, <2>1
  <2> QED  BY <2>1, <2>2
<1> QED  BY <1>1, <1>2, <1>3, <1>4 DEF Joined

(* Where the parts of a frame stand in the bytes that were read.           *)
Stand(data, first, length, key, body, form) ==
    /\ At(data, 0) = first[1]
    /\ \A i \in 1..(form + 1) : At(data, i) = length[i]
    /\ \A i \in 1..4 : At(data, form + 1 + i) = key[i]
    /\ \A i \in 1..Len(body) : At(data, form + 5 + i) = body[i]

LEMMA PartsStand ==
    ASSUME NEW first, NEW length, NEW key, NEW body, NEW rest,
           NEW head, NEW tail, NEW frame, NEW data,
           Joined(head, length, key), Joined(tail, head, body),
           Joined(frame, first, tail), Joined(data, frame, rest),
           NEW form \in Nat, Len(first) = 1, Len(length) = form + 1, Len(key) = 4
    PROVE  Stand(data, first, length, key, body, form)
<1>1. /\ Len(body) \in Nat /\ Len(rest) \in Nat
      /\ Len(head) = form + 5 /\ Len(tail) = form + 5 + Len(body)
      /\ Len(frame) = form + 6 + Len(body)
      /\ Len(data) = form + 6 + Len(body) + Len(rest)
  BY SMT DEF Joined
<1>2. ASSUME NEW i \in 1..Len(frame)  PROVE  At(data, i - 1) = frame[i]
  <2>1. data[i] = frame[i]
    BY DEF Joined
  <2>2. i - 1 < Len(data) /\ (i - 1) + 1 = i
    BY SMT, <1>1
  <2> QED  BY <2>1, <2>2 DEF At
<1>3. ASSUME NEW i \in 1..Len(tail)  PROVE  At(data, i) = tail[i]
  <2>1. frame[1 + i] = tail[i]
    BY DEF Joined
  <2>2. 1 + i \in 1..Len(frame) /\ (1 + i) - 1 = i
    BY SMT, <1>1
  <2> QED  BY <1>2, <2>1, <2>2
<1>4. ASSUME NEW i \in 1..Len(head)  PROVE  At(data, i) = head[i]
  <2>1. tail[i] = head[i]
    BY DEF Joined
  <2>2. i \in 1..Len(tail)
    BY SMT, <1>1
  <2> QED  BY <1>3, <2>1, <2>2
<1>5. At(data, 0) = first[1]
  <2>1. frame[1] = first[1]
    <3>1. 1 \in 1..Len(first)
      BY SMT
    <3> QED  BY <3>1 DEF Joined
  <2>2. 1 \in 1..Len(frame) /\ 1 - 1 = 0
    BY SMT, <1>1
  <2> QED  BY <1>2, <2>1, <2>2
<1>6. ASSUME NEW i \in 1..(form + 1)  PROVE  At(data, i) = length[i]
  <2>1. head[i] = length[i]
    BY DEF Joined
  <2>2. i \in 1..Len(head)
    BY SMT, <1>1
  <2> QED  BY <1>4, <2>1, <2>2
<1>7. ASSUME NEW i \in 1..4  PROVE  At(data, form + 1 + i) = key[i]
  <2>1. head[form + 1 + i] = key[i]
    BY DEF Joined
  <2>2. form + 1 + i \in 1..Len(head)
    BY SMT, <1>1
  <2> QED  BY <1>4, <2>1, <2>2
<1>8. ASSUME NEW i \in 1..Len(body)  PROVE  At(data, form + 5 + i) = body[i]
  <2>1. tail[form + 5 + i] = body[i]
    BY <1>1 DEF Joined
  <2>2. form + 5 + i \in 1..Len(tail)
    BY SMT, <1>1
  <2> QED  BY <1>3, <2>1, <2>2
<1> QED  BY <1>5, <1>6, <1>7, <1>8 DEF Stand

(* The masked length of a frame, and how it is read.                       *)
MaskedLength(n, form) == [RfcLengthBytes(n, form) EXCEPT ![1] = @ + 128]

Forms == {0, 2, 8}

Says(length, n, form) ==
    /\ length \in Seq(Byte) /\ Len(length) = form + 1
    /\ form = 0 => n < 126 /\ length[1] = 128 + n
    /\ form = 2 => length[1] = 254 /\ n = 256 * length[2] + length[3]
    /\ form = 8 => /\ length[1] = 255
                   /\ n = Number(length[6], length[7], length[8], length[9])

LEMMA MaskedLengthSays ==
    ASSUME NEW n \in Lengths, NEW form \in Forms, Fits(n, form)
    PROVE  Says(MaskedLength(n, form), n, form)
<1> DEFINE length == MaskedLength(n, form)
<1>0. n \in Int /\ 0 <= n
  BY SMT DEF Lengths
<1>1. CASE form = 0
  <2>1. n < 126
    BY <1>1 DEF Fits
  <2>2. length = <<n + 128>>
    BY SMT, <1>0, <1>1 DEF MaskedLength, RfcLengthBytes
  <2>3. n + 128 \in Byte /\ n + 128 = 128 + n
    BY SMT, <1>0, <2>1, ByteRange
  <2> HIDE DEF length
  <2>4. length \in Seq(Byte) /\ Len(length) = 1 /\ length[1] = n + 128
    BY <2>2, <2>3
  <2>5. Says(length, n, form)
    BY <1>1, <2>1, <2>3, <2>4 DEF Says
  <2> QED  BY <2>5 DEF length
<1>2. CASE form = 2
  <2>1. n = 256 * Byte2(n) + Byte1(n) /\ Byte2(n) \in Byte /\ Byte1(n) \in Byte
    BY SMT, <1>0, <1>2, BytesOfLength DEF Fits
  <2>2. length = <<254, Byte2(n), Byte1(n)>>
    BY SMT, <1>2 DEF MaskedLength, RfcLengthBytes
  <2>3. 254 \in Byte
    BY SMT, ByteRange
  <2> HIDE DEF length
  <2>4. /\ length \in Seq(Byte) /\ Len(length) = 3
        /\ length[1] = 254 /\ length[2] = Byte2(n) /\ length[3] = Byte1(n)
    BY <2>1, <2>2, <2>3, ThreeBytes
  <2>5. Says(length, n, form)
    BY <1>2, <2>1, <2>4 DEF Says
  <2> QED  BY <2>5 DEF length
<1>3. CASE form = 8
  <2>1. /\ n = Number(Byte4(n), Byte3(n), Byte2(n), Byte1(n))
        /\ Byte1(n) \in Byte /\ Byte2(n) \in Byte /\ Byte3(n) \in Byte /\ Byte4(n) \in Byte
    BY BytesOfLength
  <2>2. length = <<255, 0, 0, 0, 0, Byte4(n), Byte3(n), Byte2(n), Byte1(n)>>
    BY SMT, <1>3 DEF MaskedLength, RfcLengthBytes
  <2>3. 255 \in Byte /\ 0 \in Byte
    BY SMT, ByteRange
  <2> HIDE DEF length
  <2>4. /\ length \in Seq(Byte) /\ Len(length) = 9 /\ length[1] = 255
        /\ length[6] = Byte4(n) /\ length[7] = Byte3(n)
        /\ length[8] = Byte2(n) /\ length[9] = Byte1(n)
    BY <2>1, <2>2, <2>3, NineBytes
  <2>5. Says(length, n, form)
    BY <1>3, <2>1, <2>4 DEF Says
  <2> QED  BY <2>5 DEF length
<1> QED  BY <1>1, <1>2, <1>3 DEF Forms

Ops  == 0..15
Exts == 0..7
Fins == {0, 128}

Packed(fin, ext, op) == fin + 16 * ext + op

Splits(b, fin, ext, op) ==
    /\ b \in Int /\ 0 <= b /\ b < 256
    /\ b % 16 = op
    /\ b >= 128 <=> fin = 128
    /\ (b \div 16) % 8 = ext

LEMMA FirstByteSplits ==
    ASSUME NEW op \in Ops, NEW ext \in Exts, NEW fin \in Fins
    PROVE  Splits(Packed(fin, ext, op), fin, ext, op)
  BY SMT DEF Splits, Packed, Ops, Exts, Fins

LEMMA FirstByteIs ==
    ASSUME NEW f \in Frame
    PROVE  /\ FirstByte(f) \in Byte
           /\ FirstByte(f) % 16 = f.op
           /\ FirstByte(f) >= 128 <=> f.fin
           /\ (FirstByte(f) \div 16) % 8 = f.ext
<1> DEFINE fin == IF f.fin THEN 128 ELSE 0
<1>1. f.op \in Ops /\ f.ext \in Exts
  BY DEF Frame, Ops, Exts
<1>2. fin \in Fins /\ (fin = 128 <=> f.fin)
  BY DEF Frame, Fins
<1>3. FirstByte(f) = Packed(fin, f.ext, f.op)
  BY DEF FirstByte, Packed
<1> HIDE DEF fin
<1>4. Splits(FirstByte(f), fin, f.ext, f.op)
  BY <1>1, <1>2, <1>3, FirstByteSplits
<1> QED  BY <1>2, <1>4, ByteRange DEF Splits

(* A frame with a key is its first byte, its length, the key and the       *)
(* masked payload; rest stands for what came with it.                      *)
LEMMA FrameLayout ==
    ASSUME NEW f \in Frame, f.key # <<>>, Len(f.payload) \in Lengths,
           Fits(Len(f.payload), f.form), NEW rest \in Seq(Byte),
           NEW data, data = Encoded(f) \o rest
    PROVE  /\ At(data, 0) = FirstByte(f)
           /\ \A i \in 1..(f.form + 1) :
                At(data, i) = MaskedLength(Len(f.payload), f.form)[i]
           /\ \A i \in 1..4 : At(data, f.form + 1 + i) = f.key[i]
           /\ \A i \in 1..Len(f.payload) :
                At(data, f.form + 5 + i) = ByteXor(f.payload[i], f.key[1 + ((i - 1) % 4)])
<1> DEFINE n == Len(f.payload)
           length == MaskedLength(n, f.form)
           body == MaskedPayload(f)
<1>1. /\ f.payload \in Seq(Byte) /\ f.form \in {0, 2, 8} /\ f.key \in [1..4 -> Byte]
      /\ n \in Nat
  BY DEF Frame
<1>2. length \in Seq(Byte) /\ Len(length) = f.form + 1
  <2>1. f.form \in Forms
    BY <1>1 DEF Forms
  <2>2. Says(length, n, f.form)
    BY <2>1, MaskedLengthSays
  <2> HIDE DEF n, length
  <2> QED  BY <2>2 DEF Says
<1>3. f.key \in Seq(Byte) /\ Len(f.key) = 4
  BY <1>1, FunctionIsSeq
<1>4. body \in Seq(Byte) /\ Len(body) = n
      /\ \A i \in 1..n : body[i] = ByteXor(f.payload[i], f.key[1 + ((i - 1) % 4)])
  <2>1. \A i \in 1..n : ByteXor(f.payload[i], f.key[1 + ((i - 1) % 4)]) \in Byte
    <3> TAKE i \in 1..n
    <3>1. f.payload[i] \in Byte
      BY <1>1, ElementOfSeq
    <3>2. 1 + ((i - 1) % 4) \in 1..4
      BY SMT, <1>1
    <3> QED  BY <1>1, <3>1, <3>2, XorAssumption
  <2>2. body = [i \in 1..n |-> ByteXor(f.payload[i], f.key[1 + ((i - 1) % 4)])]
    BY DEF MaskedPayload
  <2>3. body \in [1..n -> Byte]
    BY <2>1, <2>2
  <2> HIDE DEF n, body
  <2> QED  BY <1>1, <2>2, <2>3, FunctionIsSeq
<1> DEFINE first == <<FirstByte(f)>>
<1>5. first \in Seq(Byte) /\ Len(first) = 1 /\ first[1] = FirstByte(f)
  BY SMT, FirstByteIs
<1>6. data = (first \o ((length \o f.key) \o body)) \o rest
  BY DEF Encoded, MaskedLength
<1> HIDE DEF n, length, body, first
<1> DEFINE head  == length \o f.key
           tail  == head \o body
           frame == first \o tail
<1>7. head \in Seq(Byte) /\ Joined(head, length, f.key)
  BY <1>2, <1>3, ConcatJoins
<1> HIDE DEF head
<1>8. tail \in Seq(Byte) /\ Joined(tail, head, body)
  BY <1>4, <1>7, ConcatJoins
<1> HIDE DEF tail
<1>9. frame \in Seq(Byte) /\ Joined(frame, first, tail)
  BY <1>5, <1>8, ConcatJoins
<1>10. data = frame \o rest
  BY <1>6 DEF frame, tail, head
<1> HIDE DEF frame
<1>11. Joined(data, frame, rest)
  BY <1>9, <1>10, ConcatJoins
<1>12. f.form \in Nat
  BY <1>1
<1>13. Stand(data, first, length, f.key, body, f.form)
  BY <1>2, <1>3, <1>5, <1>7, <1>8, <1>9, <1>11, <1>12, PartsStand
<1> QED  BY <1>4, <1>5, <1>13 DEF Stand, n, length

LEMMA ShortLength ==
    ASSUME NEW n \in Nat, n < 126
    PROVE  (128 + n) % 128 = n /\ 128 + n >= 128
  BY SMT

(* ReadWebsocket() takes from the bytes of a frame with a key the kind,    *)
(* the final bit, the extension bits and the payload that the client gave  *)
(* it, for every payload below 4 GB, every form of its length and every    *)
(* key, and whatever bytes came with it in the same read.                  *)
THEOREM FrameIsRead ==
    ASSUME NEW f \in Frame, f.key # <<>>, Len(f.payload) \in Lengths,
           Fits(Len(f.payload), f.form), NEW rest \in Seq(Byte),
           NEW data, data = Encoded(f) \o rest
    PROVE  /\ OpCode(data) = f.op
           /\ Finished(data) <=> f.fin
           /\ Extension(data) = f.ext
           /\ Masked(data)
           /\ Payload(data) = f.payload
<1> DEFINE n == Len(f.payload)
           length == MaskedLength(n, f.form)
<1>1. /\ f.payload \in Seq(Byte) /\ f.form \in {0, 2, 8} /\ f.key \in [1..4 -> Byte]
      /\ n \in Nat
  BY DEF Frame
<1>2. /\ Len(length) = f.form + 1
      /\ f.form = 0 => n < 126 /\ length[1] = 128 + n
      /\ f.form = 2 => length[1] = 254 /\ n = 256 * length[2] + length[3]
      /\ f.form = 8 => /\ length[1] = 255
                       /\ n = Number(length[6], length[7], length[8], length[9])
  <2>1. f.form \in Forms
    BY <1>1 DEF Forms
  <2>2. Says(length, n, f.form)
    BY <2>1, MaskedLengthSays
  <2> HIDE DEF n, length
  <2> QED  BY <2>2 DEF Says
<1>3. /\ At(data, 0) = FirstByte(f)
      /\ \A i \in 1..(f.form + 1) : At(data, i) = length[i]
      /\ \A i \in 1..4 : At(data, f.form + 1 + i) = f.key[i]
      /\ \A i \in 1..n :
           At(data, f.form + 5 + i) = ByteXor(f.payload[i], f.key[1 + ((i - 1) % 4)])
  BY FrameLayout
<1> HIDE DEF n, length
<1>4. OpCode(data) = f.op /\ (Finished(data) <=> f.fin) /\ Extension(data) = f.ext
  BY <1>3, FirstByteIs DEF OpCode, Finished, Extension
<1>5. Masked(data) /\ PayloadLength(data) = n /\ Offset(data) = f.form
  <2>1. CASE f.form = 0
    <3>1. At(data, 1) = 128 + n /\ n < 126
      BY SMT, <1>2, <1>3, <2>1
    <3>2. At(data, 1) % 128 = n /\ At(data, 1) >= 128
      BY <1>1, <3>1, ShortLength
    <3>3. n # 126 /\ n # 127
      BY SMT, <1>1, <3>1
    <3> QED  BY <2>1, <3>2, <3>3 DEF Masked, PayloadLength, Offset
  <2>2. CASE f.form = 2
    <3>1. At(data, 1) = 254 /\ n = 256 * At(data, 2) + At(data, 3)
      BY SMT, <1>2, <1>3, <2>2
    <3> QED  BY SMT, <2>2, <3>1 DEF Masked, PayloadLength, Offset
  <2>3. CASE f.form = 8
    <3>1. /\ At(data, 1) = 255
          /\ n = Number(At(data, 6), At(data, 7), At(data, 8), At(data, 9))
      BY SMT, <1>2, <1>3, <2>3
    <3> QED  BY SMT, <2>3, <3>1 DEF Masked, PayloadLength, Offset
  <2> QED  BY <1>1, <2>1, <2>2, <2>3
<1>6. ASSUME NEW i \in 1..n
      PROVE  ByteXor(At(data, Offset(data) + 5 + i), At(data, Offset(data) + 2 + ((i - 1) % 4)))
               = f.payload[i]
  <2> DEFINE k == 1 + ((i - 1) % 4)
  <2>1. k \in 1..4 /\ f.form + 2 + ((i - 1) % 4) = f.form + 1 + k
    BY SMT, <1>1
  <2>2. At(data, Offset(data) + 5 + i) = ByteXor(f.payload[i], f.key[k])
    BY <1>3, <1>5
  <2>3. At(data, Offset(data) + 2 + ((i - 1) % 4)) = f.key[k]
    BY <1>3, <1>5, <2>1
  <2>4. f.payload[i] \in Byte /\ f.key[k] \in Byte
    <3> HIDE DEF k
    <3>1. i \in 1..Len(f.payload)
      BY DEF n
    <3> QED  BY <1>1, <2>1, <3>1, ElementOfSeq
  <2> QED  BY <2>2, <2>3, <2>4, XorAssumption
<1>7. Payload(data) = [i \in 1..n |-> f.payload[i]]
  BY <1>5, <1>6 DEF Payload
<1>8. f.payload = [i \in 1..n |-> f.payload[i]]
  BY SMT, <1>1 DEF n
<1> QED  BY <1>4, <1>5, <1>7, <1>8

-----------------------------------------------------------------------------
(* Induction, and sequences that are put together.                          *)

(* Induction over the numbers, for a set of them. *)
LEMMA NatSetInduction ==
    ASSUME NEW T, 0 \in T, \A n \in Nat : n \in T => n + 1 \in T
    PROVE  Nat \subseteq T
<1> DEFINE R == OpToRel(<, Nat)
           Rest == {n \in Nat : n \notin T}
<1>1. IsWellFoundedOn(R, Nat)
  BY NatLessThanWellFounded
<1>2. SUFFICES ASSUME Rest # {}  PROVE FALSE
  OBVIOUS
<1>3. Rest \subseteq Nat
  OBVIOUS
<1> HIDE DEF Rest, R
<1>4. PICK x \in Rest : \A y \in Rest : ~ (<<y, x>> \in R)
  BY <1>1, <1>2, <1>3, WFMin
<1>5. x \in Nat /\ x # 0 /\ x \notin T
  BY <1>4 DEF Rest
<1>6. x - 1 \in Nat /\ (x - 1) + 1 = x /\ x - 1 < x
  BY <1>5
<1>7. x - 1 \notin Rest
  BY <1>4, <1>5, <1>6 DEF R, OpToRel
<1>8. x - 1 \in T
  BY <1>6, <1>7 DEF Rest
<1> QED  BY <1>5, <1>6, <1>8

(* A set of numbers with a bound has a greatest member.                    *)
LEMMA MaxIs ==
    ASSUME NEW n \in Nat, NEW A, A \subseteq 0..n, A # {}
    PROVE  Max(A) \in A /\ \A a \in A : a <= Max(A)
<1> DEFINE T == {m \in Nat : \A B : B \subseteq 0..m /\ B # {} =>
                                      \E x \in B : \A y \in B : x >= y}
<1>1. 0 \in T
  <2>1. ASSUME NEW B, B \subseteq 0..0, B # {}
        PROVE  \E x \in B : \A y \in B : x >= y
    <3> HIDE DEF T
    <3>1. \A y \in B : y = 0
      BY <2>1
    <3>2. PICK x \in B : TRUE
      BY <2>1
    <3>3. \A y \in B : x >= y
      BY <3>1
    <3> QED  BY <3>2, <3>3
  <2> QED  BY <2>1
<1>2. ASSUME NEW m \in Nat, m \in T  PROVE m + 1 \in T
  <2> SUFFICES ASSUME NEW B, B \subseteq 0..(m + 1), B # {}
               PROVE  \E x \in B : \A y \in B : x >= y
    OBVIOUS
  <2>1. CASE m + 1 \in B
    <3>1. \A y \in B : m + 1 >= y
      OBVIOUS
    <3> QED  BY <2>1, <3>1
  <2>2. CASE m + 1 \notin B
    <3>1. B \subseteq 0..m
      BY <2>2
    <3> QED  BY <1>2, <3>1
  <2> QED  BY <2>1, <2>2
<1> HIDE DEF T
<1>3. n \in T
  BY <1>1, <1>2, NatSetInduction
<1>4. \E x \in A : \A y \in A : x >= y
  BY <1>3 DEF T
<1>5. Max(A) \in A /\ \A y \in A : Max(A) >= y
  BY <1>4 DEF Max
<1> QED  BY <1>5

-----------------------------------------------------------------------------
(* What FlattenSeq() has put together after i of n sequences.              *)
Flattens(flat, s, n) ==
    flat = [i \in 1..n |-> IF i = 1 THEN s[i] ELSE flat[i - 1] \o s[i]]

LEMMA FlattensExists == \A s : \A n \in Nat : \E flat : Flattens(flat, s, n)
<1> TAKE s
<1> DEFINE T == {n \in Nat : \E flat : Flattens(flat, s, n)}
<1>1. 0 \in T
  <2> DEFINE flat == [i \in 1..0 |-> <<>>]
  <2>1. flat = [i \in 1..0 |-> IF i = 1 THEN s[i] ELSE flat[i - 1] \o s[i]]
    OBVIOUS
  <2> HIDE DEF flat
  <2> QED  BY <2>1 DEF Flattens
<1>2. ASSUME NEW n \in Nat, n \in T  PROVE n + 1 \in T
  <2>1. PICK old : Flattens(old, s, n)
    BY <1>2
  <2> DEFINE last == IF n + 1 = 1 THEN s[n + 1] ELSE old[n] \o s[n + 1]
             flat == [i \in 1..(n + 1) |-> IF i = n + 1 THEN last ELSE old[i]]
  <2>2. \A i \in 1..n : flat[i] = old[i]
    OBVIOUS
  <2>3. flat[n + 1] = last /\ (n + 1) - 1 = n
    OBVIOUS
  <2>4. ASSUME NEW i \in 1..(n + 1)
        PROVE  flat[i] = IF i = 1 THEN s[i] ELSE flat[i - 1] \o s[i]
    <3>1. CASE i = n + 1
      <4>1. n + 1 # 1 => flat[n] = old[n]
        BY <2>2
      <4> HIDE DEF flat
      <4> QED  BY <3>1, <2>3, <4>1
    <3>2. CASE i # n + 1
      <4>1. i \in 1..n /\ (i # 1 => i - 1 \in 1..n)
        BY <3>2
      <4>2. old[i] = IF i = 1 THEN s[i] ELSE old[i - 1] \o s[i]
        BY <2>1, <4>1 DEF Flattens
      <4>3. flat[i] = old[i] /\ (i # 1 => flat[i - 1] = old[i - 1])
        BY <2>2, <4>1
      <4> HIDE DEF flat
      <4> QED  BY <4>2, <4>3
    <3> QED  BY <3>1, <3>2
  <2>5. flat = [i \in 1..(n + 1) |-> flat[i]]
    OBVIOUS
  <2> HIDE DEF flat
  <2>6. Flattens(flat, s, n + 1)
    BY <2>4, <2>5 DEF Flattens
  <2> QED  BY <2>6
<1> HIDE DEF T
<1>3. Nat \subseteq T
  BY <1>1, <1>2, NatSetInduction
<1> QED  BY <1>3 DEF T

LEMMA FlattenSeqFlattens ==
    ASSUME NEW n \in Nat \ {0}, NEW s, Len(s) = n
    PROVE  \E flat : Flattens(flat, s, n) /\ FlattenSeq(s) = flat[n]
<1> DEFINE flat == CHOOSE g : g = [i \in 1..n |-> IF i = 1 THEN s[i] ELSE g[i - 1] \o s[i]]
<1>1. FlattenSeq(s) = flat[n]
  BY DEF FlattenSeq
<1>2. \E g : g = [i \in 1..n |-> IF i = 1 THEN s[i] ELSE g[i - 1] \o s[i]]
  <2>1. PICK g : Flattens(g, s, n)
    BY FlattensExists
  <2> HIDE DEF flat
  <2> QED  BY <2>1 DEF Flattens
<1>3. flat = [i \in 1..n |-> IF i = 1 THEN s[i] ELSE flat[i - 1] \o s[i]]
  BY <1>2
<1> HIDE DEF flat
<1> QED  BY <1>1, <1>3 DEF Flattens

LEMMA FlattensAgree ==
    \A n, m \in Nat : \A s, t, f, g :
      /\ n <= m
      /\ \A i \in 1..n : s[i] = t[i]
      /\ Flattens(f, s, n) /\ Flattens(g, t, m)
      => \A i \in 1..n : f[i] = g[i]
<1> SUFFICES ASSUME NEW n \in Nat, NEW m \in Nat, NEW s, NEW t, NEW f, NEW g,
                    n <= m, \A i \in 1..n : s[i] = t[i],
                    Flattens(f, s, n), Flattens(g, t, m)
             PROVE  \A i \in 1..n : f[i] = g[i]
  OBVIOUS
<1> DEFINE T == {i \in Nat : i \in 1..n => f[i] = g[i]}
<1>1. 0 \in T
  OBVIOUS
<1>2. ASSUME NEW i \in Nat, i \in T  PROVE i + 1 \in T
  <2> SUFFICES ASSUME i + 1 \in 1..n  PROVE f[i + 1] = g[i + 1]
    OBVIOUS
  <2>1. i + 1 \in 1..m /\ (i + 1) - 1 = i
    OBVIOUS
  <2>2. f[i + 1] = IF i + 1 = 1 THEN s[i + 1] ELSE f[i] \o s[i + 1]
    BY <2>1 DEF Flattens
  <2>3. g[i + 1] = IF i + 1 = 1 THEN t[i + 1] ELSE g[i] \o t[i + 1]
    BY <2>1 DEF Flattens
  <2>4. i + 1 # 1 => f[i] = g[i]
    BY <1>2
  <2>5. s[i + 1] = t[i + 1]
    OBVIOUS
  <2> HIDE DEF T
  <2> QED  BY <2>2, <2>3, <2>4, <2>5
<1> HIDE DEF T
<1>3. Nat \subseteq T
  BY <1>1, <1>2, NatSetInduction
<1> QED  BY <1>3 DEF T

LEMMA BytesProperties ==
    /\ <<>> \in Bytes /\ Len(<<>>) = 0
    /\ \A s \in Bytes : Len(s) \in Nat /\ s \o <<>> = s /\ <<>> \o s = s
    /\ \A s, t \in Bytes : s \o t \in Bytes /\ Len(s \o t) = Len(s) + Len(t)
    /\ \A s, t, u \in Bytes : (s \o t) \o u = s \o (t \o u)
<1> USE DEF Bytes
<1>1. <<>> \in Bytes /\ Len(<<>>) = 0
  OBVIOUS
<1>2. \A s \in Bytes : Len(s) \in Nat /\ s \o <<>> = s /\ <<>> \o s = s
  BY ConcatEmptySeq
<1>3. \A s, t \in Bytes : s \o t \in Bytes /\ Len(s \o t) = Len(s) + Len(t)
  BY ConcatProperties
<1>4. ASSUME NEW s \in Bytes, NEW t \in Bytes, NEW u \in Bytes
      PROVE  (s \o t) \o u = s \o (t \o u)
  BY ConcatAssociative
<1> HIDE DEF Bytes
<1> QED  BY <1>1, <1>2, <1>3, <1>4

(* The first n of some sequences of bytes, put together.                   *)
Together(s, n) == FlattenSeq([i \in 1..n |-> s[i]])

LEMMA SeqOfFirst ==
    ASSUME NEW s, NEW n \in Nat
    PROVE  Len([i \in 1..n |-> s[i]]) = n
  OBVIOUS

LEMMA TogetherNone ==
    ASSUME NEW s
    PROVE  Together(s, 0) = <<>>
<1> DEFINE e == [i \in 1..0 |-> s[i]]
<1>1. e = <<>>
  OBVIOUS
<1>2. Len(e) = 0
  BY <1>1
<1> QED  BY <1>1, <1>2 DEF Together, FlattenSeq

LEMMA TogetherNext ==
    ASSUME NEW n \in Nat, NEW s, \A i \in 1..(n + 1) : s[i] \in Bytes
    PROVE  Together(s, n + 1) = Together(s, n) \o s[n + 1]
<1> DEFINE a == [i \in 1..n |-> s[i]]
           b == [i \in 1..(n + 1) |-> s[i]]
<1>1. Len(a) = n /\ Len(b) = n + 1 /\ b[n + 1] = s[n + 1] /\ \A i \in 1..n : a[i] = b[i]
  BY SeqOfFirst
<1>2. Together(s, n) = FlattenSeq(a) /\ Together(s, n + 1) = FlattenSeq(b)
  BY DEF Together
<1> HIDE DEF a, b
<1>3. PICK g : Flattens(g, b, n + 1) /\ FlattenSeq(b) = g[n + 1]
  BY <1>1, FlattenSeqFlattens
<1>4. g[n + 1] = IF n + 1 = 1 THEN b[n + 1] ELSE g[n] \o b[n + 1]
  <2>1. n + 1 \in 1..(n + 1) /\ (n + 1) - 1 = n
    OBVIOUS
  <2> QED  BY <1>3, <2>1 DEF Flattens
<1>5. CASE n = 0
  <2>1. Together(s, n) = <<>>
    BY <1>5, TogetherNone
  <2>2. s[n + 1] \in Bytes
    OBVIOUS
  <2>3. Together(s, n + 1) = s[n + 1]
    BY <1>1, <1>2, <1>3, <1>4, <1>5
  <2> QED  BY <2>1, <2>2, <2>3, BytesProperties
<1>6. CASE n # 0
  <2>1. PICK f : Flattens(f, a, n) /\ FlattenSeq(a) = f[n]
    BY <1>1, <1>6, FlattenSeqFlattens
  <2>2. f[n] = g[n]
    <3>1. n \in 1..n /\ n + 1 \in Nat /\ n <= n + 1
      BY <1>6
    <3>2. \A i \in 1..n : f[i] = g[i]
      BY <1>1, <1>3, <2>1, <3>1, FlattensAgree
    <3> QED  BY <3>1, <3>2
  <2>3. n + 1 # 1
    BY <1>6
  <2> QED  BY <1>1, <1>2, <1>3, <1>4, <2>1, <2>2, <2>3
<1> QED  BY <1>5, <1>6

LEMMA TogetherIsBytes ==
    ASSUME NEW n \in Nat, NEW s, \A i \in 1..n : s[i] \in Bytes
    PROVE  \A i \in 0..n : Together(s, i) \in Bytes
<1> DEFINE T == {i \in Nat : i <= n => Together(s, i) \in Bytes}
<1>1. 0 \in T
  BY TogetherNone, BytesProperties
<1>2. ASSUME NEW i \in Nat, i \in T  PROVE i + 1 \in T
  <2> SUFFICES ASSUME i + 1 <= n  PROVE Together(s, i + 1) \in Bytes
    OBVIOUS
  <2>1. Together(s, i) \in Bytes
    BY <1>2
  <2>2. \A k \in 1..(i + 1) : s[k] \in Bytes
    OBVIOUS
  <2>3. s[i + 1] \in Bytes
    OBVIOUS
  <2> HIDE DEF T
  <2>4. Together(s, i + 1) = Together(s, i) \o s[i + 1]
    BY <2>2, TogetherNext
  <2> QED  BY <2>1, <2>3, <2>4, BytesProperties
<1> HIDE DEF T
<1>3. Nat \subseteq T
  BY <1>1, <1>2, NatSetInduction
<1> QED  BY <1>3 DEF T

(* What comes first is found at the front, whatever follows.               *)
LEMMA TogetherPrefix ==
    ASSUME NEW n \in Nat, NEW s, \A i \in 1..n : s[i] \in Bytes, NEW k \in 0..n
    PROVE  \E rest \in Bytes : Together(s, n) = Together(s, k) \o rest
<1> DEFINE T == {i \in Nat : k + i <= n =>
                   \E rest \in Bytes : Together(s, k + i) = Together(s, k) \o rest}
<1>0. Together(s, k) \in Bytes
  BY TogetherIsBytes
<1>1. 0 \in T
  <2>1. k + 0 = k
    OBVIOUS
  <2>2. Together(s, k) = Together(s, k) \o <<>> /\ <<>> \in Bytes
    BY <1>0, BytesProperties
  <2> QED  BY <2>1, <2>2
<1>2. ASSUME NEW i \in Nat, i \in T  PROVE i + 1 \in T
  <2> SUFFICES ASSUME k + (i + 1) <= n
               PROVE  \E rest \in Bytes : Together(s, k + (i + 1)) = Together(s, k) \o rest
    OBVIOUS
  <2>1. PICK rest \in Bytes : Together(s, k + i) = Together(s, k) \o rest
    BY <1>2
  <2>2. k + (i + 1) = (k + i) + 1 /\ k + i \in Nat /\ (k + i) + 1 \in 1..n
    OBVIOUS
  <2>3. Together(s, (k + i) + 1) = Together(s, k + i) \o s[(k + i) + 1]
    <3>1. \A j \in 1..((k + i) + 1) : s[j] \in Bytes
      BY <2>2
    <3> HIDE DEF T
    <3> QED  BY <2>2, <3>1, TogetherNext
  <2>4. s[(k + i) + 1] \in Bytes
    BY <2>2
  <2> HIDE DEF T
  <2>5. Together(s, (k + i) + 1) = Together(s, k) \o (rest \o s[(k + i) + 1])
    <3>1. (Together(s, k) \o rest) \o s[(k + i) + 1]
            = Together(s, k) \o (rest \o s[(k + i) + 1])
      BY <1>0, <2>4, BytesProperties
    <3> QED  BY <2>1, <2>3, <3>1
  <2>6. rest \o s[(k + i) + 1] \in Bytes
    BY <2>4, BytesProperties
  <2> QED  BY <2>2, <2>5, <2>6
<1> HIDE DEF T
<1>3. n - k \in T
  BY <1>1, <1>2, NatSetInduction
<1>4. k + (n - k) = n
  OBVIOUS
<1> QED  BY <1>3, <1>4 DEF T

-----------------------------------------------------------------------------
(* The bytes of a frame, and what is read of any bytes.                     *)

(* Every length that fits is one that can be written in 32 bits.           *)
LEMMA FitsIsLength ==
    ASSUME NEW n \in Nat, NEW form, Fits(n, form)
    PROVE  n \in Lengths
  BY SMT DEF Fits, Lengths

LEMMA AtIsByte ==
    ASSUME NEW data \in Bytes, NEW i \in Nat
    PROVE  At(data, i) \in Byte
<1>1. CASE i < Len(data)
  <2>1. Len(data) \in Nat
    BY DEF Bytes
  <2>2. i + 1 \in 1..Len(data)
    BY <1>1, <2>1
  <2>3. data[i + 1] \in Byte
    BY <2>2, ElementOfSeq DEF Bytes
  <2> QED  BY <1>1, <2>3 DEF At
<1>2. CASE ~(i < Len(data))
  BY <1>2, ByteRange DEF At
<1> QED  BY <1>1, <1>2

(* Whatever has arrived, what is read from it has its kind.                *)
LEMMA ReadIsTyped ==
    ASSUME NEW data \in Bytes
    PROVE  OpCode(data) \in 0..15 /\ PayloadLength(data) \in Nat /\ Payload(data) \in Bytes
<1>1. OpCode(data) \in 0..15
  <2>1. At(data, 0) \in Byte
    BY AtIsByte
  <2> HIDE DEF Bytes
  <2> QED  BY <2>1, ByteRange DEF OpCode
<1>2. PayloadLength(data) \in Nat
  <2>1. \A i \in Nat : At(data, i) \in Int /\ 0 <= At(data, i)
    BY AtIsByte, ByteRange
  <2>2. /\ At(data, 1) \in Int /\ 0 <= At(data, 1) /\ At(data, 2) \in Int /\ 0 <= At(data, 2)
        /\ At(data, 3) \in Int /\ 0 <= At(data, 3) /\ At(data, 6) \in Int /\ 0 <= At(data, 6)
        /\ At(data, 7) \in Int /\ 0 <= At(data, 7) /\ At(data, 8) \in Int /\ 0 <= At(data, 8)
        /\ At(data, 9) \in Int /\ 0 <= At(data, 9)
    BY <2>1
  <2> QED  BY <2>2 DEF PayloadLength, Number
<1>3. ASSUME NEW i \in 1..PayloadLength(data)
      PROVE  ByteXor(At(data, Offset(data) + 5 + i), At(data, Offset(data) + 2 + ((i - 1) % 4)))
               \in Byte
  <2>1. Offset(data) \in {0, 2, 8}
    BY DEF Offset
  <2>2. Offset(data) + 5 + i \in Nat /\ Offset(data) + 2 + ((i - 1) % 4) \in Nat
    BY <1>2, <2>1
  <2> QED  BY <2>2, AtIsByte, XorAssumption
<1>4. Payload(data) \in Bytes
  <2> DEFINE n == PayloadLength(data)
             p == [i \in 1..n |-> ByteXor(At(data, Offset(data) + 5 + i),
                                          At(data, Offset(data) + 2 + ((i - 1) % 4)))]
  <2>1. p \in [1..n -> Byte] /\ Payload(data) = p
    BY <1>3 DEF Payload
  <2> HIDE DEF n, p
  <2>2. n \in Nat
    BY <1>2 DEF n
  <2> QED  BY <2>1, <2>2, FunctionIsSeq DEF Bytes
<1> QED  BY <1>1, <1>2, <1>4

(* A length that is not masked. *)
LEMMA PlainLengthSays ==
    ASSUME NEW n \in Lengths, NEW form \in Forms, Fits(n, form)
    PROVE  /\ RfcLengthBytes(n, form) \in Seq(Byte) /\ Len(RfcLengthBytes(n, form)) = form + 1
           /\ RfcLengthBytes(n, form)[1] < 128
<1> DEFINE length == RfcLengthBytes(n, form)
<1>0. n \in Int /\ 0 <= n
  BY SMT DEF Lengths
<1>b. /\ Byte1(n) \in Byte /\ Byte2(n) \in Byte /\ Byte3(n) \in Byte /\ Byte4(n) \in Byte
      /\ 0 \in Byte /\ 126 \in Byte /\ 127 \in Byte
  BY BytesOfLength, ByteRange
<1>1. CASE form = 0
  <2>1. length = <<n>> /\ n \in Byte /\ n < 128
    BY <1>0, <1>1, ByteRange DEF Fits, RfcLengthBytes
  <2> HIDE DEF length
  <2>2. length \in Seq(Byte) /\ Len(length) = form + 1 /\ length[1] < 128
    BY <1>1, <2>1
  <2> QED  BY <2>2 DEF length
<1>2. CASE form = 2
  <2>1. length = <<126, Byte2(n), Byte1(n)>>
    BY <1>2 DEF RfcLengthBytes
  <2> HIDE DEF length
  <2>2. length \in Seq(Byte) /\ Len(length) = 3 /\ length[1] = 126
    BY <1>b, <2>1, ThreeBytes
  <2> QED  BY <1>2, <2>2 DEF length
<1>3. CASE form = 8
  <2>1. length = <<127, 0, 0, 0, 0, Byte4(n), Byte3(n), Byte2(n), Byte1(n)>>
    BY <1>3 DEF RfcLengthBytes
  <2> HIDE DEF length
  <2>2. length \in Seq(Byte) /\ Len(length) = 9 /\ length[1] = 127
    BY <1>b, <2>1, NineBytes
  <2> QED  BY <1>3, <2>2 DEF length
<1> QED  BY <1>1, <1>2, <1>3 DEF Forms

(* The frames of a client. *)
Fitting == {f \in Frame : Fits(Len(f.payload), f.form)}

LEMMA FittingIs ==
    ASSUME NEW f \in Fitting
    PROVE  /\ f \in Frame /\ f.op \in 0..15 /\ f.form \in Forms
           /\ f.payload \in Bytes /\ Len(f.payload) \in Nat /\ Len(f.payload) \in Lengths
           /\ Fits(Len(f.payload), f.form)
           /\ f.key # <<>> => f.key \in [1..4 -> Byte]
<1>1. f \in Frame /\ Fits(Len(f.payload), f.form)
  BY DEF Fitting
<1>2. /\ f.op \in 0..15 /\ f.form \in Forms /\ f.payload \in Seq(Byte)
      /\ f.key \in [1..4 -> Byte] \cup {<<>>}
  BY <1>1 DEF Frame, Forms
<1>3. Len(f.payload) \in Nat
  BY <1>2
<1> QED  BY <1>1, <1>2, <1>3, FitsIsLength DEF Bytes

(* The bytes of a frame: the first, the length with the mark of a key, and *)
(* what stands behind them.                                                *)
LEMMA FrameHead ==
    ASSUME NEW f \in Fitting
    PROVE  \E length, rest \in Bytes :
              /\ Encoded(f) = <<FirstByte(f)>> \o (length \o rest)
              /\ Len(length) >= 1
              /\ length[1] >= 128 <=> f.key # <<>>
<1> DEFINE n == Len(f.payload)
           plain == RfcLengthBytes(n, f.form)
           length == MaskedLength(n, f.form)
<1>1. /\ f \in Frame /\ f.form \in Forms /\ f.payload \in Bytes /\ n \in Lengths
      /\ Fits(n, f.form) /\ (f.key # <<>> => f.key \in [1..4 -> Byte])
  BY FittingIs
<1>2. CASE f.key = <<>>
  <2>1. plain \in Bytes /\ Len(plain) = f.form + 1 /\ plain[1] < 128
    BY <1>1, PlainLengthSays DEF Bytes
  <2>2. Encoded(f) = <<FirstByte(f)>> \o (plain \o f.payload)
    BY <1>2 DEF Encoded
  <2> HIDE DEF plain
  <2>3. plain[1] \in Byte
    <3>1. 1 \in 1..Len(plain)
      BY <1>1, <2>1 DEF Forms
    <3> QED  BY <2>1, <3>1, ElementOfSeq DEF Bytes
  <2>4. Len(plain) >= 1 /\ ~(plain[1] >= 128)
    BY <1>1, <2>1, <2>3, ByteRange DEF Forms
  <2> QED  BY <1>1, <1>2, <2>1, <2>2, <2>4
<1>3. CASE f.key # <<>>
  <2> DEFINE rest == f.key \o MaskedPayload(f)
  <2>1. length \in Bytes /\ Len(length) = f.form + 1 /\ Len(length) >= 1 /\ length[1] >= 128
    <3>1. Says(length, n, f.form)
      BY <1>1, MaskedLengthSays
    <3> HIDE DEF length, n
    <3>2. n \in Int /\ 0 <= n
      BY <1>1 DEF Lengths
    <3> QED  BY <1>1, <3>1, <3>2 DEF Says, Bytes, Forms
  <2>2. f.key \in Bytes
    BY <1>1, <1>3, FunctionIsSeq DEF Bytes
  <2>3. MaskedPayload(f) \in Bytes
    <3>1. \A i \in 1..n : ByteXor(f.payload[i], f.key[1 + ((i - 1) % 4)]) \in Byte
      <4> TAKE i \in 1..n
      <4>1. f.payload[i] \in Byte
        BY <1>1, ElementOfSeq DEF Bytes
      <4>2. 1 + ((i - 1) % 4) \in 1..4
        BY <1>1 DEF Lengths
      <4> QED  BY <1>1, <1>3, <4>1, <4>2, XorAssumption
    <3>2. MaskedPayload(f) \in [1..n -> Byte]
      BY <3>1 DEF MaskedPayload
    <3>3. n \in Nat
      BY <1>1 DEF Lengths
    <3> HIDE DEF n
    <3> QED  BY <3>2, <3>3, FunctionIsSeq DEF Bytes
  <2>4. rest \in Bytes
    BY <2>2, <2>3, BytesProperties
  <2>5. Encoded(f) = <<FirstByte(f)>> \o ((length \o f.key) \o MaskedPayload(f))
    BY <1>3 DEF Encoded, MaskedLength
  <2> HIDE DEF length
  <2>6. (length \o f.key) \o MaskedPayload(f) = length \o rest
    BY <2>1, <2>2, <2>3, BytesProperties
  <2> HIDE DEF rest
  <2> QED  BY <1>3, <2>1, <2>4, <2>5, <2>6
<1> QED  BY <1>2, <1>3

LEMMA OneByte ==
    ASSUME NEW b \in Byte
    PROVE  <<b>> \in Bytes /\ Len(<<b>>) = 1 /\ <<b>>[1] = b
  BY DEF Bytes

LEMMA EncodedIsBytes ==
    ASSUME NEW f \in Fitting
    PROVE  Encoded(f) \in Bytes /\ Len(Encoded(f)) >= 2
<1>1. PICK length \in Bytes, rest \in Bytes :
         /\ Encoded(f) = <<FirstByte(f)>> \o (length \o rest)
         /\ Len(length) >= 1
  BY FrameHead
<1>2. <<FirstByte(f)>> \in Bytes /\ Len(<<FirstByte(f)>>) = 1
  BY FittingIs, FirstByteIs, OneByte
<1> DEFINE first == <<FirstByte(f)>>
<1> HIDE DEF first
<1>3. /\ length \o rest \in Bytes /\ Len(length \o rest) = Len(length) + Len(rest)
      /\ Len(rest) \in Nat /\ Len(length) \in Nat
  BY BytesProperties
<1>4. first \o (length \o rest) \in Bytes
      /\ Len(first \o (length \o rest)) = 1 + Len(length \o rest)
  BY <1>2, <1>3, BytesProperties DEF first
<1> QED  BY <1>1, <1>3, <1>4 DEF first

(* The first two bytes of a frame are read whatever the frame is.          *)
LEMMA FrameHeadIsRead ==
    ASSUME NEW f \in Fitting, NEW rest \in Bytes, NEW data, data = Encoded(f) \o rest
    PROVE  /\ data \in Bytes
           /\ OpCode(data) = f.op /\ Extension(data) = f.ext
           /\ Masked(data) <=> f.key # <<>>
<1>1. PICK length \in Bytes, more \in Bytes :
         /\ Encoded(f) = <<FirstByte(f)>> \o (length \o more)
         /\ Len(length) >= 1
         /\ length[1] >= 128 <=> f.key # <<>>
  BY FrameHead
<1> DEFINE first == <<FirstByte(f)>>
           tail == length \o more
           frame == first \o tail
<1>2. first \in Bytes /\ Len(first) = 1 /\ first[1] = FirstByte(f)
  BY FittingIs, FirstByteIs, OneByte
<1> HIDE DEF first
<1>3. tail \in Bytes /\ Joined(tail, length, more)
  BY ConcatJoins DEF Bytes
<1> HIDE DEF tail
<1>4. frame \in Bytes /\ Joined(frame, first, tail)
  BY <1>2, <1>3, ConcatJoins DEF Bytes
<1>5. Encoded(f) = frame
  BY <1>1 DEF first, tail
<1> HIDE DEF frame
<1>6. data \in Bytes /\ Joined(data, frame, rest)
  BY <1>4, <1>5, ConcatJoins DEF Bytes
<1>7. Len(length) \in Nat /\ Len(tail) >= 1 /\ Len(frame) >= 2 /\ Len(data) >= 2
      /\ Len(tail) \in Nat /\ Len(frame) \in Nat /\ Len(data) \in Nat
  BY <1>1, <1>2, <1>3, <1>4, <1>6 DEF Joined
<1>8. data[1] = FirstByte(f)
  <2>1. data[1] = frame[1]
    BY <1>6, <1>7 DEF Joined
  <2>2. frame[1] = first[1]
    BY <1>2, <1>4 DEF Joined
  <2> QED  BY <1>2, <2>1, <2>2
<1>9. data[2] = length[1]
  <2>1. data[2] = frame[2]
    BY <1>6, <1>7 DEF Joined
  <2>2. frame[1 + 1] = tail[1]
    BY <1>2, <1>4, <1>7 DEF Joined
  <2>3. tail[1] = length[1]
    BY <1>1, <1>3, <1>7 DEF Joined
  <2> QED  BY <2>1, <2>2, <2>3
<1>10. At(data, 0) = FirstByte(f) /\ At(data, 1) = length[1]
  BY <1>7, <1>8, <1>9 DEF At
<1> QED  BY <1>1, <1>6, <1>10, FittingIs, FirstByteIs DEF OpCode, Extension, Masked

-----------------------------------------------------------------------------
(* What lies on the socket, and what one read of it does.                   *)

LEMMA ScriptIs ==
    ASSUME NEW s \in Scripts
    PROVE  Len(s) \in Nat /\ \A i \in 1..Len(s) : s[i] \in Fitting
<1>1. s \in Seq(Fitting)
  BY ScriptsAssumption DEF Fitting
<1> QED  BY <1>1, ElementOfSeq

(* What lies on the socket: the bytes of the frames that were not read, of *)
(* which those of the next one are the first.                              *)
LEMMA NextBytesAre ==
    ASSUME script \in Scripts, taken \in 0..Len(script)
    PROVE  /\ Len(script) - taken \in Nat
           /\ NextBytes(0) = <<>>
           /\ \A k \in 0..(Len(script) - taken) : NextBytes(k) \in Bytes
           /\ \A k \in 0..(Len(script) - taken) :
                \E rest \in Bytes : NextBytes(Len(script) - taken) = NextBytes(k) \o rest
           /\ \A k \in 1..(Len(script) - taken) :
                \E rest \in Bytes : NextBytes(k) = Encoded(script[taken + 1]) \o rest
<1> DEFINE R == Len(script) - taken
           s == [i \in Nat |-> Encoded(script[taken + i])]
<1>1. Len(script) \in Nat /\ taken \in Nat /\ R \in Nat
  BY ScriptIs
<1>2. ASSUME NEW k \in Nat  PROVE NextBytes(k) = Together(s, k)
  <2>1. [i \in 1..k |-> Encoded(script[taken + i])] = [i \in 1..k |-> s[i]]
    OBVIOUS
  <2> QED  BY <2>1 DEF NextBytes, Together
<1>3. ASSUME NEW i \in 1..R  PROVE s[i] = Encoded(script[taken + i]) /\ s[i] \in Bytes
  <2>1. taken + i \in 1..Len(script)
    BY <1>1
  <2>2. script[taken + i] \in Fitting
    BY <2>1, ScriptIs
  <2>3. i \in Nat
    BY <1>1
  <2>4. s[i] = Encoded(script[taken + i])
    BY <2>3
  <2> QED  BY <2>2, <2>4, EncodedIsBytes
<1> HIDE DEF s, R
<1>4. NextBytes(0) = <<>>
  BY <1>2, TogetherNone
<1>5. \A k \in 0..R : NextBytes(k) \in Bytes
  BY <1>1, <1>2, <1>3, TogetherIsBytes
<1>6. ASSUME NEW k \in 0..R
      PROVE  \E rest \in Bytes : NextBytes(R) = NextBytes(k) \o rest
  <2>1. k \in Nat
    BY <1>1
  <2>2. PICK rest \in Bytes : Together(s, R) = Together(s, k) \o rest
    BY <1>1, <1>3, TogetherPrefix
  <2>3. NextBytes(R) = Together(s, R) /\ NextBytes(k) = Together(s, k)
    BY <1>1, <1>2, <2>1
  <2> QED  BY <2>2, <2>3
<1>7. ASSUME NEW k \in 1..R
      PROVE  \E rest \in Bytes : NextBytes(k) = Encoded(script[taken + 1]) \o rest
  <2>1. 1 \in 0..k /\ 1 \in 1..R /\ k \in Nat /\ \A i \in 1..k : s[i] \in Bytes
    BY <1>1, <1>3
  <2>2. PICK rest \in Bytes : Together(s, k) = Together(s, 1) \o rest
    BY <2>1, TogetherPrefix
  <2>3. Together(s, 1) = s[1]
    <3>1. \A i \in 1..(0 + 1) : s[i] \in Bytes
      BY <2>1
    <3>2. Together(s, 0 + 1) = Together(s, 0) \o s[0 + 1]
      BY <3>1, TogetherNext
    <3>3. 0 + 1 = 1 /\ Together(s, 0) = <<>>
      BY TogetherNone
    <3>4. Together(s, 1) = <<>> \o s[1]
      BY <3>2, <3>3
    <3>5. s[1] \in Bytes
      BY <1>3, <2>1
    <3> QED  BY <3>4, <3>5, BytesProperties
  <2>4. s[1] = Encoded(script[taken + 1])
    BY <1>3, <2>1
  <2> QED  BY <1>1, <1>2, <2>1, <2>2, <2>3, <2>4
<1> QED  BY <1>1, <1>4, <1>5, <1>6, <1>7 DEF R

(* The first bytes of some bytes. *)
LEMMA FirstBytes ==
    /\ \A s \in Bytes : \A n \in 1..Len(s) : SubSeq(s, 1, n) \in Bytes
    /\ \A s, t \in Bytes : Len(s) >= 1 => SubSeq(s \o t, 1, Len(s)) = s
    /\ \A s \in Bytes : \A n \in Nat \ {0} : SubSeq(s, n, Len(s)) \in Bytes
<1>1. ASSUME NEW s \in Bytes, NEW n \in 1..Len(s)
      PROVE  SubSeq(s, 1, n) \in Bytes
  <2>1. Len(s) \in Nat
    BY DEF Bytes
  <2>2. \A i \in 1..n : s[i] \in Byte
    BY <2>1, ElementOfSeq DEF Bytes
  <2> QED  BY <2>1, <2>2, SubSeqProperties DEF Bytes
<1>2. ASSUME NEW s \in Bytes, NEW t \in Bytes, Len(s) >= 1
      PROVE  SubSeq(s \o t, 1, Len(s)) = s
  <2>1. Len(s) \in Nat /\ 1 \in 1..Len(s) /\ Len(s) \in 1..Len(s)
    BY <1>2 DEF Bytes
  <2>2. SubSeq(s \o t, 1, Len(s)) = SubSeq(s, 1, Len(s))
    BY <2>1, SubSeqOfConcat1 DEF Bytes
  <2> QED  BY <2>2, SubSeqFull DEF Bytes
<1>3. ASSUME NEW s \in Bytes, NEW n \in Nat \ {0}
      PROVE  SubSeq(s, n, Len(s)) \in Bytes
  <2>1. Len(s) \in Nat
    BY DEF Bytes
  <2>2. \A i \in n..Len(s) : s[i] \in Byte
    BY <2>1, ElementOfSeq DEF Bytes
  <2> QED  BY <2>1, <2>2, SubSeqProperties DEF Bytes
<1> QED  BY <1>1, <1>2, <1>3

(* How far the frames reach that arrived whole. *)
LEMMA WholeFrames ==
    ASSUME script \in Scripts, taken \in 0..Len(script),
           NEW n \in 1..Len(NextBytes(Len(script) - taken)),
           NEW k, k = Max({i \in 0..(Len(script) - taken) : Len(NextBytes(i)) <= n})
    PROVE  /\ k \in 0..(Len(script) - taken)
           /\ Len(NextBytes(k)) = n => k # 0
<1> DEFINE R == Len(script) - taken
           whole == {i \in 0..R : Len(NextBytes(i)) <= n}
<1>1. R \in Nat /\ NextBytes(0) = <<>> /\ NextBytes(R) \in Bytes
  BY NextBytesAre
<1>2. n \in Nat /\ n >= 1
  BY <1>1 DEF Bytes
<1>3. Len(NextBytes(0)) = 0
  BY <1>1, BytesProperties
<1>4. 0 \in whole
  BY <1>1, <1>2, <1>3
<1>5. whole \subseteq 0..R /\ k = Max(whole)
  OBVIOUS
<1> HIDE DEF whole
<1>6. k \in whole
  BY <1>1, <1>4, <1>5, MaxIs
<1> HIDE DEF R
<1>7. k \in 0..R
  BY <1>5, <1>6
<1> QED  BY <1>2, <1>3, <1>7 DEF R

-----------------------------------------------------------------------------
(* The message that is put together when a frame with the kind op and the  *)
(* given payload was read.                                                 *)
Old(op) == IF isControlMessage(op) THEN cntl ELSE app

Joint(op, payload) ==
    [op |-> Begun(op, Old(op)).op, payload |-> Begun(op, Old(op)).payload \o payload]

LEMMA MessageIs ==
    ASSUME NEW m \in Message
    PROVE  m.op \in 0..15 /\ m.payload \in Bytes
  BY DEF Message

LEMMA IsMessage ==
    ASSUME NEW op \in 0..15, NEW payload \in Bytes
    PROVE  [op |-> op, payload |-> payload] \in Message
  BY DEF Message

LEMMA BegunIs ==
    ASSUME app \in Message, cntl \in Message, NEW op \in 0..15
    PROVE  Begun(op, Old(op)) \in Message
  BY BytesProperties, IsMessage DEF Begun, Old

LEMMA JointIs ==
    ASSUME app \in Message, cntl \in Message, NEW op \in 0..15, NEW payload \in Bytes
    PROVE  /\ Joint(op, payload) \in Message
           /\ [Begun(op, Old(op)) EXCEPT !.payload = @ \o payload] = Joint(op, payload)
<1> DEFINE b == Begun(op, Old(op))
<1>1. b \in Message
  BY BegunIs
<1> HIDE DEF b
<1>2. [b EXCEPT !.payload = @ \o payload] = [op |-> b.op, payload |-> b.payload \o payload]
  <2>1. b = [op |-> b.op, payload |-> b.payload]
    BY <1>1 DEF Message
  <2> DEFINE o == b.op
             p == b.payload
  <2> HIDE DEF o, p
  <2>2. b = [op |-> o, payload |-> p]
    BY <2>1 DEF o, p
  <2>3. \A q : [[op |-> o, payload |-> p] EXCEPT !.payload = q] = [op |-> o, payload |-> q]
    OBVIOUS
  <2>4. [b EXCEPT !.payload = b.payload \o payload]
          = [op |-> o, payload |-> b.payload \o payload]
    BY <2>2, <2>3, Zenon
  <2> QED  BY <2>4 DEF o, p
<1>3. b.op \in 0..15 /\ b.payload \o payload \in Bytes
  BY <1>1, MessageIs, BytesProperties
<1> QED  BY <1>2, <1>3, IsMessage DEF Joint, b

(* What a read does, given the kind of the first frame in it, its payload  *)
(* and whether it is final and the frame is one that a server may take.    *)
Answered(msg) ==
    CASE msg.op = Close -> wire \o Packet(Close, msg.payload)
      [] msg.op = Ping  -> wire \o Packet(Pong, msg.payload)
      [] OTHER          -> wire

CloseOf(msg) ==
    [status |-> 256 * msg.payload[1] + msg.payload[2],
     body |-> CString(SubSeq(msg.payload, 3, Len(msg.payload)))]

Takes(op, payload, fin, open) ==
    LET msg == Joint(op, payload)
    IN /\ app' = IF isControlMessage(op) THEN app ELSE msg
       /\ cntl' = IF isControlMessage(op) THEN msg ELSE cntl
       /\ delivered' = IF msg.op \in 1..7 /\ fin
                       THEN Append(delivered, [frame |-> taken + 1, message |-> msg])
                       ELSE delivered
       /\ closing' = IF msg.op = Close /\ Len(msg.payload) >= 2 THEN CloseOf(msg) ELSE closing
       /\ wire' = IF open THEN Answered(msg) ELSE wire
       /\ socket' = IF open /\ msg.op # Close THEN "open" ELSE "closed"

LEMMA DispositionTakes ==
    ASSUME app \in Message, cntl \in Message, NEW data \in Bytes, Disposition(data)
    PROVE  Takes(OpCode(data), Payload(data), Finished(data),
                 Extension(data) = 0 /\ Masked(data))
<1> DEFINE op == OpCode(data)
           old == IF isControlMessage(op) THEN cntl ELSE app
           msg == [Begun(op, old) EXCEPT !.payload = @ \o Payload(data)]
           open == Extension(data) = 0 /\ Masked(data)
<1>1. op \in 0..15 /\ Payload(data) \in Bytes
  BY ReadIsTyped
<1>2. msg = Joint(op, Payload(data))
  <2>1. old = Old(op)
    BY DEF Old
  <2> HIDE DEF op, old
  <2> QED  BY <1>1, <2>1, JointIs
<1>3. /\ app' = IF isControlMessage(op) THEN app ELSE msg
      /\ cntl' = IF isControlMessage(op) THEN msg ELSE cntl
      /\ delivered' = IF msg.op \in 1..7 /\ Finished(data)
                      THEN Append(delivered, [frame |-> taken + 1, message |-> msg])
                      ELSE delivered
      /\ closing' = IF msg.op = Close /\ Len(msg.payload) >= 2
                    THEN [status |-> 256 * msg.payload[1] + msg.payload[2],
                          body |-> CString(SubSeq(msg.payload, 3, Len(msg.payload)))]
                    ELSE closing
      /\ CASE msg.op = Close -> wire' = IF open THEN wire \o Packet(Close, msg.payload) ELSE wire
           [] msg.op = Ping  -> wire' = IF open THEN wire \o Packet(Pong, msg.payload) ELSE wire
           [] OTHER          -> wire' = wire
      /\ socket' = IF open /\ msg.op # Close THEN "open" ELSE "closed"
  BY DEF Disposition
<1> HIDE DEF op, msg, open
<1>4. wire' = IF open THEN Answered(msg) ELSE wire
  BY <1>3 DEF Answered
<1> QED  BY <1>2, <1>3, <1>4 DEF Takes, CloseOf, op, open

-----------------------------------------------------------------------------
(* The types.                                                              *)

(* A set of numbers has a least member.                                    *)
LEMMA MinIs ==
    ASSUME NEW A, A \subseteq Nat, A # {}
    PROVE  Min(A) \in A /\ \A a \in A : Min(A) <= a
<1> DEFINE R == OpToRel(<, Nat)
<1>1. IsWellFoundedOn(R, Nat)
  BY NatLessThanWellFounded
<1> HIDE DEF R
<1>2. PICK x \in A : \A y \in A : ~ (<<y, x>> \in R)
  BY <1>1, WFMin
<1>3. \A y \in A : x <= y
  <2> TAKE y \in A
  <2>1. x \in Nat /\ y \in Nat /\ ~ (<<y, x>> \in R)
    BY <1>2
  <2>2. ~ (y < x)
    BY <2>1 DEF R, OpToRel
  <2> QED  BY <2>1, <2>2
<1>4. \E z \in A : \A y \in A : z <= y
  BY <1>3
<1> QED  BY <1>4 DEF Min

LEMMA CStringIsBytes ==
    ASSUME NEW s \in Bytes
    PROVE  CString(s) \in Bytes
<1> DEFINE zero == SelectInSeq(s, LAMBDA b : b = 0)
           I == {i \in 1..Len(s) : s[i] = 0}
<1>1. zero = IF I # {} THEN Min(I) ELSE 0
  BY DEF SelectInSeq
<1>2. Len(s) \in Nat
  BY DEF Bytes
<1>3. CString(s) = IF zero = 0 THEN s ELSE SubSeq(s, 1, zero - 1)
  BY DEF CString
<1>4. I # {} => Min(I) \in 1..Len(s)
  BY <1>2, MinIs
<1> HIDE DEF zero, I
<1>5. CASE zero = 0
  BY <1>3, <1>5
<1>6. CASE zero # 0 /\ zero \in 1..Len(s)
  <2>0. CString(s) = SubSeq(s, 1, zero - 1)
    BY <1>3, <1>6
  <2>1. CASE zero = 1
    <3>1. SubSeq(s, 1, 0) = <<>>
      BY <1>2, SubSeqEmpty DEF Bytes
    <3>2. zero - 1 = 0
      BY <2>1
    <3>3. CString(s) = <<>>
      BY <2>0, <3>1, <3>2
    <3> QED  BY <3>3, BytesProperties
  <2>2. CASE zero # 1
    <3>1. zero - 1 \in 1..Len(s)
      BY <1>2, <1>6, <2>2
    <3> QED  BY <2>0, <3>1, FirstBytes
  <2> QED  BY <2>1, <2>2
<1> QED  BY <1>1, <1>4, <1>5, <1>6

(* What the server writes are bytes, whatever the length.                  *)
LEMMA PacketIsBytes ==
    ASSUME NEW op \in 0..15, NEW payload \in Bytes
    PROVE  Packet(op, payload) \in Bytes
<1> DEFINE n == Len(payload)
           length == LengthBytes(n)
<1>1. n \in Nat
  BY BytesProperties
<1> HIDE DEF n
<1>2. length \in Bytes
  <2>1. /\ Byte1(n) \in Byte /\ Byte2(n) \in Byte /\ Byte3(n) \in Byte /\ Byte4(n) \in Byte
        /\ 0 \in Byte /\ 126 \in Byte /\ 127 \in Byte
    BY <1>1 DEF Byte1, Byte2, Byte3, Byte4, Byte
  <2>2. CASE n < 126
    BY <1>1, <2>2, ByteRange, OneByte DEF LengthBytes
  <2>3. CASE ~(n < 126) /\ n < 65536
    BY <2>1, <2>3, ThreeBytes DEF LengthBytes, Bytes
  <2>4. CASE ~(n < 126) /\ ~(n < 65536)
    BY <2>1, <2>4, NineBytes DEF LengthBytes, Bytes
  <2> QED  BY <2>2, <2>3, <2>4
<1>3. <<128 + op>> \in Bytes
  <2>1. 128 + op \in Byte
    BY DEF Byte
  <2> QED  BY <2>1, OneByte
<1> HIDE DEF length
<1>4. <<128 + op>> \o length \o payload \in Bytes
  BY <1>2, <1>3, BytesProperties
<1> QED  BY <1>4 DEF Packet, n, length

-----------------------------------------------------------------------------
(* A read, for the proofs about it: what has arrived ends after n bytes,   *)
(* and k frames are whole in it.                                           *)
Remaining == Len(script) - taken

Read(n, k) ==
    /\ n \in 1..Len(NextBytes(Remaining))
    /\ k = Max({i \in 0..Remaining : Len(NextBytes(i)) <= n})
    /\ Disposition(SubSeq(NextBytes(Remaining), 1, n))
    /\ taken' = taken + k
    /\ seen' = IF k > 0 THEN seen \cup {taken + 1} ELSE seen
    /\ inStep' = (Len(NextBytes(k)) = n)
    /\ promised' = IF k > 0 THEN promised \o Answer(script[taken + 1]) ELSE promised
    /\ socket = "open" /\ inStep
    /\ script' = script /\ sends' = sends

LEMMA ReadWebsocketReads == ReadWebsocket => \E n, k : Read(n, k)
<1> SUFFICES ASSUME ReadWebsocket  PROVE \E n, k : Read(n, k)
  OBVIOUS
<1>1. PICK n \in 1..Len(NextBytes(Remaining)) :
         LET k == Max({i \in 0..Remaining : Len(NextBytes(i)) <= n})
         IN /\ Disposition(SubSeq(NextBytes(Remaining), 1, n))
            /\ taken' = taken + k
            /\ seen' = IF k > 0 THEN seen \cup {taken + 1} ELSE seen
            /\ inStep' = (Len(NextBytes(k)) = n)
            /\ promised' = IF k > 0 THEN promised \o Answer(script[taken + 1]) ELSE promised
  BY DEF ReadWebsocket, Remaining
<1>2. socket = "open" /\ inStep /\ script' = script /\ sends' = sends
  BY DEF ReadWebsocket
<1>3. Read(n, Max({i \in 0..Remaining : Len(NextBytes(i)) <= n}))
  BY <1>1, <1>2 DEF Read
<1> QED  BY <1>3

(* A read that ends inside the first frame, or after some frames.          *)
LEMMA ReadIs ==
    ASSUME TypeOK, NEW n, NEW k, Read(n, k)
    PROVE  /\ Remaining \in Nat /\ Remaining >= 1 /\ taken + 1 \in 1..Len(script)
           /\ k \in 0..Remaining
           /\ script[taken + 1] \in Fitting
           /\ SubSeq(NextBytes(Remaining), 1, n) \in Bytes
           /\ \E op \in 0..15, payload \in Bytes, fin \in BOOLEAN, open \in BOOLEAN :
                Takes(op, payload, fin, open)
<1>1. script \in Scripts /\ taken \in 0..Len(script) /\ Len(script) \in Nat
  BY ScriptIs DEF TypeOK
<1>2. Remaining \in Nat /\ NextBytes(Remaining) \in Bytes
  BY <1>1, NextBytesAre DEF Remaining
<1>3. Remaining # 0
  <2> SUFFICES ASSUME Remaining = 0  PROVE FALSE
    OBVIOUS
  <2>1. NextBytes(Remaining) = <<>>
    BY <1>1, NextBytesAre
  <2>2. n \in 1..0
    BY <2>1, BytesProperties DEF Read
  <2> QED  BY <2>2
<1>4. k \in 0..Remaining
  BY <1>1, WholeFrames DEF Read, Remaining
<1>5. taken + 1 \in 1..Len(script)
  BY <1>1, <1>2, <1>3 DEF Remaining
<1>6. SubSeq(NextBytes(Remaining), 1, n) \in Bytes
  BY <1>2, FirstBytes DEF Read
<1> DEFINE data == SubSeq(NextBytes(Remaining), 1, n)
<1>7. Disposition(data) /\ app \in Message /\ cntl \in Message
  BY DEF Read, TypeOK
<1> HIDE DEF data
<1>8. Takes(OpCode(data), Payload(data), Finished(data), Extension(data) = 0 /\ Masked(data))
  BY <1>6, <1>7, DispositionTakes DEF data
<1>9. OpCode(data) \in 0..15 /\ Payload(data) \in Bytes
  BY <1>6, ReadIsTyped DEF data
<1>10. Finished(data) \in BOOLEAN /\ (Extension(data) = 0 /\ Masked(data)) \in BOOLEAN
  BY DEF Finished, Masked
<1>11. \E op \in 0..15, payload \in Bytes, fin \in BOOLEAN, open \in BOOLEAN :
           Takes(op, payload, fin, open)
  <2> DEFINE fin == Finished(data)
             open == Extension(data) = 0 /\ Masked(data)
             op == OpCode(data)
             payload == Payload(data)
  <2>1. op \in 0..15 /\ payload \in Bytes /\ fin \in BOOLEAN /\ open \in BOOLEAN
    BY <1>9, <1>10
  <2>2. Takes(op, payload, fin, open)
    BY <1>8
  <2> HIDE DEF fin, open, op, payload
  <2> QED  BY <2>1, <2>2, Zenon
<1>12. script[taken + 1] \in Fitting
  BY <1>1, <1>5, ScriptIs
<1>13. Remaining >= 1
  BY <1>2, <1>3
<1> QED  BY <1>2, <1>4, <1>5, <1>6, <1>11, <1>12, <1>13 DEF data

LEMMA CloseOfIs ==
    ASSUME NEW msg \in Message, Len(msg.payload) >= 2
    PROVE  CloseOf(msg) \in CloseReason
<1>1. msg.payload \in Bytes /\ Len(msg.payload) \in Nat
  BY MessageIs, BytesProperties
<1>2. msg.payload[1] \in Byte /\ msg.payload[2] \in Byte
  BY <1>1, ElementOfSeq DEF Bytes
<1>3. 256 * msg.payload[1] + msg.payload[2] \in {x \in Nat : x < 65536}
  <2>1. \A a, b \in Byte : 256 * a + b \in {x \in Nat : x < 65536}
    BY DEF Byte
  <2> QED  BY <1>2, <2>1
<1>4. CString(SubSeq(msg.payload, 3, Len(msg.payload))) \in Bytes
  BY <1>1, FirstBytes, CStringIsBytes
<1> DEFINE status == 256 * msg.payload[1] + msg.payload[2]
           body == CString(SubSeq(msg.payload, 3, Len(msg.payload)))
<1>5. CloseOf(msg) = [status |-> status, body |-> body]
  BY DEF CloseOf
<1> HIDE DEF status, body
<1> QED  BY <1>3, <1>4, <1>5 DEF CloseReason, status, body

LEMMA AnswerIs ==
    ASSUME NEW f \in Fitting
    PROVE  Answer(f) \in Seq(Message)
<1>1. f.payload \in Bytes
  BY FittingIs
<1>2. Pong \in 0..15 /\ Close \in 0..15
  BY DEF Pong, Close
<1>3. [op |-> IF f.op = Ping THEN Pong ELSE Close, payload |-> f.payload] \in Message
  BY <1>1, <1>2, IsMessage
<1> DEFINE m == [op |-> IF f.op = Ping THEN Pong ELSE Close, payload |-> f.payload]
<1> HIDE DEF m
<1>4. <<m>> \in Seq(Message) /\ <<>> \in Seq(Message)
  BY <1>3 DEF m
<1> QED  BY <1>4 DEF Answer, m

-----------------------------------------------------------------------------
LEMMA TypeInit == Init => TypeOK
<1> SUFFICES ASSUME Init  PROVE TypeOK
  OBVIOUS
<1>1. script \in Scripts /\ Len(script) \in Nat /\ taken = 0 /\ seen = {}
  BY ScriptIs DEF Init
<1>2. app \in Message /\ cntl \in Message
  BY BytesProperties, IsMessage DEF Init, Close
<1>3. wire \in Bytes /\ wire = <<>> /\ promised = <<>> /\ delivered = <<>>
  BY BytesProperties DEF Init
<1>4. promised \in Seq(Message) /\ delivered \in Seq([frame : 1..Len(script), message : Message])
  BY <1>3
<1>5. taken \in 0..Len(script) /\ seen \subseteq 1..taken
  BY <1>1
<1>6. sends \in 0..MaxSends
  BY MaxSendsAssumption DEF Init
<1>7. inStep \in BOOLEAN /\ socket \in {"open", "closed"} /\ closing = <<>>
  BY DEF Init
<1> QED  BY <1>1, <1>2, <1>3, <1>4, <1>5, <1>6, <1>7 DEF TypeOK

LEMMA TypeRead == ASSUME TypeOK, ReadWebsocket  PROVE TypeOK'
<1>1. PICK n, k : Read(n, k)
  BY ReadWebsocketReads
<1>2. /\ Remaining \in Nat /\ taken + 1 \in 1..Len(script) /\ k \in 0..Remaining
      /\ script[taken + 1] \in Fitting
  BY <1>1, ReadIs
<1>3. PICK op \in 0..15, payload \in Bytes, fin \in BOOLEAN, open \in BOOLEAN :
        Takes(op, payload, fin, open)
  BY <1>1, ReadIs
<1> DEFINE msg == Joint(op, payload)
<1>4. msg \in Message
  BY JointIs DEF TypeOK
<1> HIDE DEF msg
<1>5. script' = script /\ script \in Scripts /\ Len(script) \in Nat /\ sends' = sends
  BY <1>1, ScriptIs DEF Read, TypeOK
<1>6. taken' \in 0..Len(script) /\ seen' \subseteq 1..taken'
  <2>1. taken' = taken + k /\ seen' = IF k > 0 THEN seen \cup {taken + 1} ELSE seen
    BY <1>1 DEF Read
  <2> QED  BY <1>2, <1>5, <2>1 DEF TypeOK, Remaining
<1>7. inStep' \in BOOLEAN
  BY <1>1 DEF Read
<1>8. app' \in Message /\ cntl' \in Message
  BY <1>3, <1>4 DEF Takes, TypeOK, msg
<1>9. delivered' \in Seq([frame : 1..Len(script), message : Message])
  <2>1. [frame |-> taken + 1, message |-> msg] \in [frame : 1..Len(script), message : Message]
    BY <1>2, <1>4
  <2> DEFINE d == [frame |-> taken + 1, message |-> msg]
             D == [frame : 1..Len(script), message : Message]
  <2> HIDE DEF d, D
  <2>2. delivered \in Seq(D)
    BY DEF TypeOK, D
  <2>3. Append(delivered, d) \in Seq(D)
    BY <2>1, <2>2 DEF d, D
  <2>4. delivered' = Append(delivered, d) \/ delivered' = delivered
    BY <1>3 DEF Takes, msg, d
  <2>5. delivered' \in Seq(D)
    BY <2>2, <2>3, <2>4
  <2> QED  BY <2>5 DEF D
<1>10. closing' = <<>> \/ closing' \in CloseReason
  <2>1. closing' = closing \/ (Len(msg.payload) >= 2 /\ closing' = CloseOf(msg))
    BY <1>3 DEF Takes, msg
  <2> QED  BY <1>4, <2>1, CloseOfIs DEF TypeOK
<1>11. wire' \in Bytes
  <2>1. wire' = wire \/ wire' = Answered(msg)
    BY <1>3 DEF Takes, msg
  <2>2. Packet(Close, msg.payload) \in Bytes /\ Packet(Pong, msg.payload) \in Bytes
    BY <1>4, MessageIs, PacketIsBytes DEF Close, Pong
  <2>3. Answered(msg) \in {wire, wire \o Packet(Close, msg.payload),
                           wire \o Packet(Pong, msg.payload)}
    BY DEF Answered
  <2>4. wire \in Bytes
    BY DEF TypeOK
  <2>5. wire \o Packet(Close, msg.payload) \in Bytes /\ wire \o Packet(Pong, msg.payload) \in Bytes
    BY <2>2, <2>4, BytesProperties
  <2> QED  BY <2>1, <2>3, <2>4, <2>5
<1>12. promised' \in Seq(Message)
  <2>1. promised' = promised \/ promised' = promised \o Answer(script[taken + 1])
    BY <1>1 DEF Read
  <2>2. promised \in Seq(Message) /\ Answer(script[taken + 1]) \in Seq(Message)
    BY <1>2, AnswerIs DEF TypeOK
  <2> QED  BY <2>1, <2>2, ConcatProperties
<1>13. socket' \in {"open", "closed"}
  BY <1>3 DEF Takes
<1>14. sends' \in 0..MaxSends
  BY <1>5 DEF TypeOK
<1> QED
  BY <1>5, <1>6, <1>7, <1>8, <1>9, <1>10, <1>11, <1>12, <1>13, <1>14 DEF TypeOK

LEMMA TypeSend ==
    ASSUME TypeOK, NEW op \in 0..15, NEW payload \in Bytes, Send(op, payload)
    PROVE  TypeOK'
<1>1. wire' \in Bytes
  BY PacketIsBytes, BytesProperties DEF TypeOK, Send
<1>2. promised' \in Seq(Message)
  <2> DEFINE m == [op |-> op, payload |-> payload]
  <2>1. m \in Message
    BY IsMessage
  <2>2. promised' = Append(promised, m) /\ promised \in Seq(Message)
    BY DEF Send, TypeOK
  <2> HIDE DEF m
  <2> QED  BY <2>1, <2>2
<1>3. sends' \in 0..MaxSends
  BY MaxSendsAssumption DEF TypeOK, Send
<1> QED  BY <1>1, <1>2, <1>3 DEF TypeOK, Send

(* What the application sends has the kind of a message. *)
LEMMA SendIs ==
    /\ \A m \in AppMessages : m.op \in {1, 2} /\ m.payload \in Bytes /\ Fits(Len(m.payload), 8)
    /\ \A reason \in CloseReasons :
         LET payload == <<reason.status \div 256, reason.status % 256>> \o reason.body
         IN payload \in Bytes /\ Fits(Len(payload), 8)
<1>1. ASSUME NEW m \in AppMessages
      PROVE  m.op \in {1, 2} /\ m.payload \in Bytes /\ Fits(Len(m.payload), 8)
  BY AppMessagesAssumption
<1>2. ASSUME NEW reason \in CloseReasons
      PROVE  LET payload == <<reason.status \div 256, reason.status % 256>> \o reason.body
             IN payload \in Bytes /\ Fits(Len(payload), 8)
  <2>1. /\ reason.status \in {x \in Nat : x < 65536} /\ reason.body \in Bytes
        /\ Fits(Len(reason.body) + 2, 8)
    <3>1. reason \in CloseReason /\ Fits(Len(reason.body) + 2, 8)
      BY CloseReasonsAssumption
    <3> QED  BY <3>1 DEF CloseReason
  <2>2. reason.status \div 256 \in Byte /\ reason.status % 256 \in Byte
    <3>1. \A n \in {x \in Nat : x < 65536} : n \div 256 \in Byte /\ n % 256 \in Byte
      BY DEF Byte
    <3> QED  BY <2>1, <3>1
  <2> DEFINE two == <<reason.status \div 256, reason.status % 256>>
  <2>3. two \in Bytes /\ Len(two) = 2
    BY <2>2 DEF Bytes
  <2> DEFINE body == reason.body
             payload == two \o body
  <2>4. body \in Bytes /\ Fits(Len(body) + 2, 8)
    BY <2>1
  <2> HIDE DEF two, body
  <2>5. payload \in Bytes /\ Len(payload) = 2 + Len(body) /\ Len(body) \in Nat
    BY <2>3, <2>4, BytesProperties
  <2>6. Fits(Len(payload), 8)
    <3>1. Len(payload) = Len(body) + 2
      BY <2>5
    <3> HIDE DEF payload
    <3> QED  BY <2>4, <3>1
  <2> QED  BY <2>5, <2>6 DEF two, body
<1> QED  BY <1>1, <1>2

LEMMA TypeNext == TypeOK /\ [Next]_vars => TypeOK'
<1> SUFFICES ASSUME TypeOK, [Next]_vars  PROVE TypeOK'
  OBVIOUS
<1>1. CASE ReadWebsocket
  BY <1>1, TypeRead
<1>2. ASSUME NEW m \in AppMessages, sendSocketMessage(m)
      PROVE  TypeOK'
  <2>1. m.op \in 0..15 /\ m.payload \in Bytes
    BY SendIs
  <2> QED  BY <1>2, <2>1, TypeSend DEF sendSocketMessage
<1>3. ASSUME NEW reason \in CloseReasons, closeSocketConnection(reason)
      PROVE  TypeOK'
  <2>1. Close \in 0..15
    BY DEF Close
  <2> QED  BY <1>3, <2>1, SendIs, TypeSend DEF closeSocketConnection
<1>4. CASE UNCHANGED vars
  BY <1>4 DEF vars, TypeOK
<1> QED  BY <1>1, <1>2, <1>3, <1>4 DEF Next

(* Every variable holds values of its kind. *)
THEOREM TypeCorrect == Spec => []TypeOK
<1>1. Init => TypeOK
  BY TypeInit
<1>2. TypeOK /\ [Next]_vars => TypeOK'
  BY TypeNext
<1> QED  BY <1>1, <1>2, PTL DEF Spec

-----------------------------------------------------------------------------
(* What the client has sent.                                               *)

(* Only the first n of the sequences count, and empty ones add nothing.    *)
LEMMA TogetherSame ==
    ASSUME NEW n \in Nat, NEW s, NEW t, \A i \in 1..n : s[i] = t[i]
    PROVE  Together(s, n) = Together(t, n)
<1>1. [i \in 1..n |-> s[i]] = [i \in 1..n |-> t[i]]
  OBVIOUS
<1> QED  BY <1>1 DEF Together

LEMMA TogetherEmpty ==
    ASSUME NEW m \in Nat, NEW n \in Nat, m <= n, NEW s, \A i \in 1..n : s[i] \in Bytes,
           \A i \in (m + 1)..n : s[i] = <<>>
    PROVE  Together(s, n) = Together(s, m)
<1> DEFINE T == {i \in Nat : m + i <= n => Together(s, m + i) = Together(s, m)}
<1>1. 0 \in T
  OBVIOUS
<1>2. ASSUME NEW i \in Nat, i \in T  PROVE i + 1 \in T
  <2> SUFFICES ASSUME m + (i + 1) <= n
               PROVE  Together(s, m + (i + 1)) = Together(s, m)
    OBVIOUS
  <2>1. Together(s, m + i) = Together(s, m)
    BY <1>2
  <2> HIDE DEF T
  <2> DEFINE j == m + i
  <2>2. j \in Nat /\ j + 1 = m + (i + 1) /\ j + 1 \in (m + 1)..n /\ j <= n
    OBVIOUS
  <2>3. Together(s, j) = Together(s, m)
    BY <2>1
  <2> HIDE DEF j
  <2>4. \A k \in 1..(j + 1) : s[k] \in Bytes
    BY <2>2
  <2>5. Together(s, j + 1) = Together(s, j) \o s[j + 1]
    BY <2>2, <2>4, TogetherNext
  <2>6. s[j + 1] = <<>>
    BY <2>2
  <2>7. Together(s, j) \in Bytes
    BY <2>2, TogetherIsBytes
  <2>8. Together(s, j) \o <<>> = Together(s, j)
    BY <2>7, BytesProperties
  <2> QED  BY <2>2, <2>3, <2>5, <2>6, <2>8
<1> HIDE DEF T
<1>3. n - m \in T
  BY <1>1, <1>2, NatSetInduction
<1>4. m + (n - m) = n /\ n - m \in Nat
  OBVIOUS
<1> QED  BY <1>3, <1>4 DEF T

-----------------------------------------------------------------------------
(* The fragments of a message, when one more frame is taken. *)

LEMMA FragmentsAre ==
    ASSUME NEW j \in Nat
    PROVE  /\ Fragments(j) \subseteq 1..j
           /\ \A k : k \in Fragments(j) <=>
                /\ k \in 1..j /\ Data(k)
                /\ \A i \in (k + 1)..j : Data(i) => script[i].op = Continuation
  BY DEF Fragments

(* Frames that hold no data change nothing. *)
LEMMA FragmentsStay ==
    ASSUME NEW m \in Nat, NEW n \in Nat, m <= n, \A i \in (m + 1)..n : ~Data(i)
    PROVE  Fragments(n) = Fragments(m)
<1>1. ASSUME NEW k \in Fragments(n)  PROVE k \in Fragments(m)
  <2>1. k \in 1..n /\ Data(k) /\ \A i \in (k + 1)..n : Data(i) => script[i].op = Continuation
    BY <1>1, FragmentsAre
  <2>2. k \in 1..m
    BY <2>1
  <2>3. \A i \in (k + 1)..m : i \in (k + 1)..n
    BY <2>1
  <2> QED  BY <2>1, <2>2, <2>3, FragmentsAre
<1>2. ASSUME NEW k \in Fragments(m)  PROVE k \in Fragments(n)
  <2>1. k \in 1..m /\ Data(k) /\ \A i \in (k + 1)..m : Data(i) => script[i].op = Continuation
    BY <1>2, FragmentsAre
  <2>2. \A i \in (k + 1)..n : Data(i) => i \in (k + 1)..m
    BY <2>1
  <2>3. k \in 1..n
    BY <2>1
  <2> QED  BY <2>1, <2>2, <2>3, FragmentsAre
<1> QED  BY <1>1, <1>2

(* A frame that begins a message is alone. *)
LEMMA FragmentsBegin ==
    ASSUME NEW n \in Nat \ {0}, Data(n), script[n].op # Continuation
    PROVE  Fragments(n) = {n}
<1>1. ASSUME NEW k \in Fragments(n)  PROVE k = n
  <2>1. k \in 1..n /\ \A i \in (k + 1)..n : Data(i) => script[i].op = Continuation
    BY <1>1, FragmentsAre
  <2>2. n \notin (k + 1)..n
    BY <2>1
  <2> QED  BY <2>1, <2>2
<1>2. n \in Fragments(n)
  <2>1. n \in 1..n /\ (n + 1)..n = {}
    OBVIOUS
  <2> QED  BY <2>1, FragmentsAre
<1> QED  BY <1>1, <1>2

(* A continuation comes after the fragments before it. *)
LEMMA FragmentsGoOn ==
    ASSUME NEW n \in Nat, Data(n + 1), script[n + 1].op = Continuation
    PROVE  Fragments(n + 1) = Fragments(n) \cup {n + 1}
<1> DEFINE m == n + 1
<1>0. m \in Nat /\ m = n + 1
  OBVIOUS
<1> HIDE DEF m
<1>1. ASSUME NEW k \in Fragments(m)  PROVE k \in Fragments(n) \cup {m}
  <2>1. k \in 1..m /\ Data(k) /\ \A i \in (k + 1)..m : Data(i) => script[i].op = Continuation
    BY <1>0, <1>1, FragmentsAre
  <2>2. \A i \in (k + 1)..n : i \in (k + 1)..m
    BY <1>0, <2>1
  <2>3. k = m \/ k \in 1..n
    BY <1>0, <2>1
  <2> QED  BY <2>1, <2>2, <2>3, FragmentsAre
<1>2. ASSUME NEW k \in Fragments(n)  PROVE k \in Fragments(m)
  <2>1. k \in 1..n /\ Data(k) /\ \A i \in (k + 1)..n : Data(i) => script[i].op = Continuation
    BY <1>2, FragmentsAre
  <2>2. \A i \in (k + 1)..m : i = m \/ i \in (k + 1)..n
    BY <1>0, <2>1
  <2>3. k \in 1..m
    BY <1>0, <2>1
  <2>4. \A i \in (k + 1)..m : Data(i) => script[i].op = Continuation
    BY <1>0, <2>1, <2>2
  <2> QED  BY <1>0, <2>1, <2>3, <2>4, FragmentsAre
<1>3. m \in Fragments(m)
  <2>1. m \in 1..m /\ (m + 1)..m = {} /\ Data(m)
    BY <1>0
  <2> QED  BY <1>0, <2>1, FragmentsAre
<1> QED  BY <1>0, <1>1, <1>2, <1>3

(* After a data frame, some fragment stands there or later. *)
LEMMA LastFragment ==
    ASSUME NEW n \in Nat, NEW k \in 1..n, Data(k)
    PROVE  \E i \in Fragments(n) : i >= k
<1> DEFINE A == {i \in k..n : Data(i)}
<1>1. A \subseteq 0..n /\ k \in A
  OBVIOUS
<1> HIDE DEF A
<1>2. Max(A) \in A /\ \A a \in A : a <= Max(A)
  BY <1>1, MaxIs
<1> DEFINE m == Max(A)
<1> HIDE DEF m
<1>3. m \in k..n /\ Data(m) /\ \A a \in k..n : Data(a) => a <= m
  BY <1>2 DEF A, m
<1>4. m \in 1..n /\ \A i \in (m + 1)..n : ~Data(i)
  BY <1>3
<1> QED  BY <1>3, <1>4, FragmentsAre

-----------------------------------------------------------------------------
(* What the client sent, when one more frame is taken. *)
Pieces(j) == [k \in 1..Len(script) |-> IF k \in Fragments(j) THEN script[k].payload ELSE <<>>]

LEMMA PiecesAre ==
    ASSUME script \in Scripts, NEW j
    PROVE  \A k \in 1..Len(script) : /\ Pieces(j)[k] \in Bytes
                                     /\ k \in Fragments(j) => Pieces(j)[k] = script[k].payload
                                     /\ k \notin Fragments(j) => Pieces(j)[k] = <<>>
<1> TAKE k \in 1..Len(script)
<1>1. script[k].payload \in Bytes
  BY ScriptIs, FittingIs
<1>2. Pieces(j)[k] = IF k \in Fragments(j) THEN script[k].payload ELSE <<>>
  BY DEF Pieces
<1> QED  BY <1>1, <1>2, BytesProperties

LEMMA SentIs ==
    ASSUME script \in Scripts, NEW j \in 0..Len(script)
    PROVE  Sent(j) = [op |-> script[Min(Fragments(j))].op, payload |-> Together(Pieces(j), j)]
<1>1. \A k \in 1..j : k \in 1..Len(script)
  BY ScriptIs
<1>2. [k \in 1..j |-> IF k \in Fragments(j) THEN script[k].payload ELSE <<>>]
        = [k \in 1..j |-> Pieces(j)[k]]
  BY <1>1 DEF Pieces
<1> QED  BY <1>2 DEF Sent, Together

LEMMA SentStays ==
    ASSUME script \in Scripts, NEW m \in Nat, NEW n \in 0..Len(script), m <= n,
           \A i \in (m + 1)..n : ~Data(i)
    PROVE  Fragments(n) = Fragments(m) /\ Sent(n) = Sent(m)
<1>0. Len(script) \in Nat /\ n \in Nat /\ m \in 0..Len(script)
  BY ScriptIs
<1>1. Fragments(n) = Fragments(m)
  BY <1>0, FragmentsStay
<1>2. Pieces(n) = Pieces(m)
  BY <1>1 DEF Pieces
<1>3. \A i \in 1..n : Pieces(n)[i] \in Bytes
  BY <1>0, PiecesAre
<1>4. \A i \in (m + 1)..n : Pieces(n)[i] = <<>>
  <2> TAKE i \in (m + 1)..n
  <2>1. i \notin Fragments(m) /\ i \in 1..Len(script)
    BY <1>0, FragmentsAre
  <2> QED  BY <1>1, <2>1, PiecesAre
<1>5. Together(Pieces(n), n) = Together(Pieces(m), m)
  BY <1>0, <1>2, <1>3, <1>4, TogetherEmpty
<1> QED  BY <1>0, <1>1, <1>5, SentIs

LEMMA OneMember == \A n \in Nat : Min({n}) = n
  BY MinIs

LEMMA SentBegins ==
    ASSUME script \in Scripts, NEW n \in Nat, n + 1 \in 1..Len(script),
           Data(n + 1), script[n + 1].op # Continuation
    PROVE  /\ Fragments(n + 1) = {n + 1}
           /\ Sent(n + 1) = [op |-> script[n + 1].op, payload |-> script[n + 1].payload]
<1> DEFINE m == n + 1
<1>0. m \in Nat /\ m = n + 1 /\ m # 0 /\ m \in 1..Len(script) /\ m \in 0..Len(script)
      /\ Len(script) \in Nat
  BY ScriptIs
<1> HIDE DEF m
<1>1. Fragments(m) = {m}
  BY <1>0, FragmentsBegin
<1>2. \A i \in 1..m : Pieces(m)[i] \in Bytes
  BY <1>0, PiecesAre
<1>3. Together(Pieces(m), m) = Together(Pieces(m), n) \o Pieces(m)[m]
  BY <1>0, <1>2, TogetherNext
<1>4. Together(Pieces(m), n) = <<>>
  <2>1. \A i \in (0 + 1)..n : Pieces(m)[i] = <<>>
    <3> TAKE i \in (0 + 1)..n
    <3>1. i \in 1..Len(script) /\ i \notin Fragments(m)
      BY <1>0, <1>1
    <3> QED  BY <3>1, PiecesAre
  <2>2. \A i \in 1..n : Pieces(m)[i] \in Bytes
    BY <1>0, <1>2
  <2>3. 0 \in Nat /\ 0 <= n
    OBVIOUS
  <2>4. Together(Pieces(m), n) = Together(Pieces(m), 0)
    BY <2>1, <2>2, <2>3, TogetherEmpty
  <2> QED  BY <2>4, TogetherNone
<1>5. Pieces(m)[m] = script[m].payload /\ Pieces(m)[m] \in Bytes
  BY <1>0, <1>1, PiecesAre
<1>6. Together(Pieces(m), m) = script[m].payload
  BY <1>3, <1>4, <1>5, BytesProperties
<1>7. Min(Fragments(m)) = m
  BY <1>0, <1>1, OneMember
<1>8. Sent(m) = [op |-> script[m].op, payload |-> script[m].payload]
  BY <1>0, <1>6, <1>7, SentIs
<1> QED  BY <1>0, <1>1, <1>8

LEMMA SentGoesOn ==
    ASSUME script \in Scripts, NEW n \in Nat, n + 1 \in 1..Len(script),
           Data(n + 1), script[n + 1].op = Continuation, Fragments(n) # {}
    PROVE  /\ Fragments(n + 1) = Fragments(n) \cup {n + 1}
           /\ Sent(n + 1) = [op |-> Sent(n).op,
                             payload |-> Sent(n).payload \o script[n + 1].payload]
<1> DEFINE m == n + 1
<1>0. m \in Nat /\ m = n + 1 /\ m # 0 /\ m \in 1..Len(script) /\ m \in 0..Len(script)
      /\ Len(script) \in Nat /\ n \in 0..Len(script) /\ n < m
  BY ScriptIs
<1> HIDE DEF m
<1>1. Fragments(m) = Fragments(n) \cup {m}
  BY <1>0, FragmentsGoOn
<1>2. \A i \in 1..m : Pieces(m)[i] \in Bytes
  BY <1>0, PiecesAre
<1>3. Together(Pieces(m), m) = Together(Pieces(m), n) \o Pieces(m)[m]
  BY <1>0, <1>2, TogetherNext
<1>4. \A i \in 1..n : Pieces(m)[i] = Pieces(n)[i]
  <2> TAKE i \in 1..n
  <2>1. i \in 1..Len(script) /\ (i \in Fragments(m) <=> i \in Fragments(n))
    BY <1>0, <1>1
  <2> QED  BY <2>1, PiecesAre
<1>5. Together(Pieces(m), n) = Together(Pieces(n), n)
  BY <1>4, TogetherSame
<1>6. Pieces(m)[m] = script[m].payload
  BY <1>0, <1>1, PiecesAre
<1>7. Min(Fragments(m)) = Min(Fragments(n))
  <2>1. Fragments(n) \subseteq Nat /\ Fragments(m) \subseteq Nat /\ Fragments(m) # {}
    BY <1>0, <1>1, FragmentsAre
  <2>2. Min(Fragments(n)) \in Fragments(n) /\ \A a \in Fragments(n) : Min(Fragments(n)) <= a
    BY <2>1, MinIs
  <2>3. Min(Fragments(m)) \in Fragments(m) /\ \A a \in Fragments(m) : Min(Fragments(m)) <= a
    BY <2>1, MinIs
  <2>4. Min(Fragments(n)) \in 1..n
    BY <2>2, FragmentsAre
  <2>5. Min(Fragments(m)) # m
    BY <1>0, <1>1, <2>2, <2>3, <2>4
  <2>6. Min(Fragments(m)) \in Fragments(n)
    BY <1>1, <2>3, <2>5
  <2>7. Min(Fragments(m)) \in Nat /\ Min(Fragments(n)) \in Nat
    BY <2>1, <2>2, <2>3
  <2>8. Min(Fragments(n)) <= Min(Fragments(m))
    BY <2>2, <2>6
  <2>9. Min(Fragments(m)) <= Min(Fragments(n))
    BY <1>1, <2>2, <2>3
  <2> QED  BY <2>7, <2>8, <2>9
<1>8. Sent(m) = [op |-> script[Min(Fragments(n))].op,
                 payload |-> Together(Pieces(n), n) \o script[m].payload]
  BY <1>0, <1>3, <1>5, <1>6, <1>7, SentIs
<1>9. Sent(n) = [op |-> script[Min(Fragments(n))].op, payload |-> Together(Pieces(n), n)]
  BY <1>0, SentIs
<1>10. Sent(n).op = script[Min(Fragments(n))].op /\ Sent(n).payload = Together(Pieces(n), n)
  BY <1>9
<1> QED  BY <1>0, <1>1, <1>8, <1>10

(* The kind of a message is that of the frame that begins it. *)
LEMMA SentHasKind ==
    ASSUME script \in Scripts, NEW n \in 0..Len(script),
           \E k \in Fragments(n) : script[k].op # Continuation
    PROVE  Sent(n).op \in 1..7 /\ Fragments(n) # {}
<1>0. n \in Nat /\ Len(script) \in Nat
  BY ScriptIs
<1>1. PICK k \in Fragments(n) : script[k].op # Continuation
  OBVIOUS
<1>2. k \in 1..n /\ Data(k)
  BY <1>0, FragmentsAre
<1> DEFINE m == Min(Fragments(n))
<1>3. Fragments(n) \subseteq Nat /\ Fragments(n) # {}
  BY <1>0, FragmentsAre
<1>4. m \in Fragments(n) /\ m <= k
  BY <1>3, MinIs
<1> HIDE DEF m
<1>5. m \in 1..n /\ \A i \in (m + 1)..n : Data(i) => script[i].op = Continuation
  BY <1>0, <1>4, FragmentsAre
<1>6. k \notin (m + 1)..n
  BY <1>1, <1>2, <1>5
<1>7. m = k
  BY <1>2, <1>4, <1>5, <1>6
<1>8. script[k].op \in 0..15
  BY <1>0, <1>2, ScriptIs, FittingIs
<1>9. script[k].op \in 1..7
  <2>1. script[k].op < 8 /\ script[k].op # 0
    BY <1>1, <1>2 DEF Data, Close, Continuation
  <2>2. \A op \in 0..15 : op < 8 /\ op # 0 => op \in 1..7
    OBVIOUS
  <2> QED  BY <1>8, <2>1, <2>2
<1>10. Sent(n).op = script[k].op
  BY <1>7, SentIs DEF m
<1> QED  BY <1>3, <1>9, <1>10

-----------------------------------------------------------------------------
(* What is delivered to the application.                                   *)

(* A read that ends where a frame ends takes the first of its frames as    *)
(* the client sent it, when the server may take that frame at all.         *)
LEMMA ReadInStep ==
    ASSUME TypeOK, NEW n, NEW k, Read(n, k), inStep'
    PROVE  /\ k \in 1..Remaining
           /\ \E payload \in Bytes, fin \in BOOLEAN :
                /\ Takes(script[taken + 1].op, payload, fin, WellFormed(script[taken + 1]))
                /\ WellFormed(script[taken + 1]) =>
                      payload = script[taken + 1].payload /\ (fin <=> script[taken + 1].fin)
<1> DEFINE f == script[taken + 1]
           all == NextBytes(Remaining)
           some == NextBytes(k)
           data == SubSeq(all, 1, n)
<1>1. /\ script \in Scripts /\ taken \in 0..Len(script) /\ Remaining \in Nat /\ Remaining >= 1
      /\ k \in 0..Remaining /\ f \in Fitting /\ data \in Bytes
  BY ReadIs DEF TypeOK
<1>2. n \in 1..Len(all) /\ Len(some) = n /\ Disposition(data)
  BY DEF Read
<1>3. k # 0
  <2>1. k = Max({i \in 0..Remaining : Len(NextBytes(i)) <= n})
    BY DEF Read
  <2> QED  BY <1>1, <1>2, <2>1, WholeFrames DEF Remaining
<1>4. k \in 1..Remaining
  BY <1>1, <1>3
<1>5. some \in Bytes /\ all \in Bytes
  BY <1>1, NextBytesAre DEF Remaining
<1>6. PICK rest \in Bytes : all = some \o rest
  BY <1>1, NextBytesAre DEF Remaining
<1>7. PICK more \in Bytes : some = Encoded(f) \o more
  BY <1>1, <1>4, NextBytesAre DEF Remaining
<1> HIDE DEF all, some
<1>8. data = some
  <2>1. Len(some) >= 1
    BY <1>2, <1>5, BytesProperties
  <2> QED  BY <1>2, <1>5, <1>6, <2>1, FirstBytes
<1> HIDE DEF data, f
<1>9. data = Encoded(f) \o more
  BY <1>7, <1>8
<1>10. OpCode(data) = f.op /\ Extension(data) = f.ext /\ (Masked(data) <=> f.key # <<>>)
  BY <1>1, <1>9, FrameHeadIsRead
<1> DEFINE payload == Payload(data)
           fin == Finished(data)
<1>11. payload \in Bytes /\ fin \in BOOLEAN
  BY <1>1, ReadIsTyped DEF Finished
<1>12. WellFormed(f) => payload = f.payload /\ (fin <=> f.fin)
  <2> SUFFICES ASSUME WellFormed(f)  PROVE payload = f.payload /\ (fin <=> f.fin)
    OBVIOUS
  <2>1. /\ f \in Frame /\ f.key # <<>> /\ Len(f.payload) \in Lengths
        /\ Fits(Len(f.payload), f.form) /\ more \in Seq(Byte)
    BY <1>1, FittingIs DEF WellFormed, Bytes
  <2> QED  BY <1>9, <2>1, FrameIsRead
<1>13. (Extension(data) = 0 /\ Masked(data)) <=> WellFormed(f)
  BY <1>10 DEF WellFormed
<1>14. Takes(OpCode(data), payload, fin, Extension(data) = 0 /\ Masked(data))
  BY <1>1, <1>2, DispositionTakes DEF TypeOK
<1> HIDE DEF payload, fin
<1>15. Takes(f.op, payload, fin, Extension(data) = 0 /\ Masked(data))
  BY <1>10, <1>14
<1>16. Takes(f.op, payload, fin, WellFormed(f))
  <2> DEFINE open == Extension(data) = 0 /\ Masked(data)
             well == WellFormed(f)
  <2>1. Takes(f.op, payload, fin, open) /\ (open <=> well)
    BY <1>13, <1>15
  <2> HIDE DEF open, well
  <2>2. Takes(f.op, payload, fin, well)
    BY <2>1, Zenon DEF Takes
  <2> QED  BY <2>2 DEF well
<1>17. \E p \in Bytes, b \in BOOLEAN : /\ Takes(f.op, p, b, WellFormed(f))
                                       /\ WellFormed(f) => p = f.payload /\ (b <=> f.fin)
  BY <1>11, <1>12, <1>16, Zenon
<1> QED  BY <1>4, <1>17 DEF f

-----------------------------------------------------------------------------
(* The invariant of DeliveredAsSent: while the connection is open, no      *)
(* frame was seen that closes it, and app holds what the client has sent   *)
(* of the message that goes on, when every fragment of it was seen.        *)

NoneCloses == \A j \in seen : WellFormed(script[j]) /\ script[j].op # Close

AppIsSent ==
    Fragments(taken) \subseteq seen /\ (\E k \in Fragments(taken) : script[k].op # Continuation)
      => app = Sent(taken)

EachIsDelivered ==
    \A j \in 1..taken : SeenWhole(j) =>
      \E d \in ToSet(delivered) : d.frame = j /\ d.message = Sent(j)

InOrder ==
    \A i \in DOMAIN delivered :
      /\ delivered[i].frame \in seen /\ Data(delivered[i].frame)
      /\ \A k \in 1..(i - 1) : delivered[k].frame < delivered[i].frame

CloseIsSent ==
    \A j \in seen :
      WellFormed(script[j]) /\ script[j].op = Close /\ Len(script[j].payload) >= 2 =>
        closing = CloseOf(script[j])

DInv ==
    /\ TypeOK
    /\ inStep => /\ socket = "open" => NoneCloses /\ AppIsSent
                 /\ EachIsDelivered /\ InOrder /\ CloseIsSent

LEMMA DInvInit == Init => DInv
<1> SUFFICES ASSUME Init  PROVE DInv
  OBVIOUS
<1>1. TypeOK /\ taken = 0 /\ seen = {} /\ delivered = <<>>
  BY TypeInit DEF Init
<1>2. NoneCloses /\ EachIsDelivered /\ InOrder /\ CloseIsSent
  BY <1>1 DEF NoneCloses, EachIsDelivered, InOrder, CloseIsSent
<1>3. AppIsSent
  <2>1. Fragments(0) = {}
    BY FragmentsAre
  <2> QED  BY <1>1, <2>1 DEF AppIsSent
<1> QED  BY <1>1, <1>2, <1>3 DEF DInv

LEMMA ScriptStays ==
    ASSUME script' = script
    PROVE  /\ \A j : Data(j)' = Data(j)
           /\ \A j : Fragments(j)' = Fragments(j)
           /\ \A j : Sent(j)' = Sent(j)
<1>1. \A j : Data(j)' = Data(j)
  BY DEF Data
<1>2. \A j : Fragments(j)' = Fragments(j)
  BY DEF Fragments, Data
<1>3. \A j : Sent(j)' = Sent(j)
  BY <1>2 DEF Sent
<1> QED  BY <1>1, <1>2, <1>3

(* The message that is put together, by the kind of the frame. *)
LEMMA JointBy ==
    ASSUME NEW payload \in Bytes, TypeOK
    PROVE  /\ \A op : op # Continuation => Joint(op, payload) = [op |-> op, payload |-> payload]
           /\ Joint(Continuation, payload) = [op |-> app.op, payload |-> app.payload \o payload]
<1>1. ASSUME NEW op, op # Continuation
      PROVE  Joint(op, payload) = [op |-> op, payload |-> payload]
  <2>1. Begun(op, Old(op)) = [op |-> op, payload |-> <<>>]
    BY <1>1 DEF Begun
  <2>2. <<>> \o payload = payload
    BY BytesProperties
  <2> QED  BY <2>1, <2>2 DEF Joint
<1>2. Joint(Continuation, payload) = [op |-> app.op, payload |-> app.payload \o payload]
  BY DEF Joint, Begun, Old, isControlMessage, Continuation, Close
<1> QED  BY <1>1, <1>2

-----------------------------------------------------------------------------
(* A read of the frame f = script[t], which shares it with the frames up   *)
(* to taken'.                                                              *)
Reads(t, k, payload, fin) ==
    /\ TypeOK /\ TypeOK' /\ inStep /\ inStep' /\ socket = "open"
    /\ script' = script /\ Len(script) \in Nat
    /\ t = taken + 1 /\ t \in 1..Len(script) /\ t \in Nat /\ k \in 1..Remaining
    /\ taken' = taken + k /\ seen' = seen \cup {t}
    /\ script[t] \in Fitting /\ payload \in Bytes /\ fin \in BOOLEAN
    /\ Takes(script[t].op, payload, fin, WellFormed(script[t]))
    /\ WellFormed(script[t]) => payload = script[t].payload /\ (fin <=> script[t].fin)

(* The message after frame t, when every fragment of it was seen.          *)
LEMMA JointIsSent ==
    ASSUME NEW t, NEW k, NEW payload, NEW fin, Reads(t, k, payload, fin),
           AppIsSent, WellFormed(script[t]), Data(t), Fragments(t) \subseteq seen',
           \E i \in Fragments(t) : script[i].op # Continuation
    PROVE  Joint(script[t].op, payload) = Sent(t) /\ Sent(t).op \in 1..7
<1>1. /\ TypeOK /\ script \in Scripts /\ taken \in Nat /\ t = taken + 1 /\ t \in 1..Len(script)
      /\ taken \in 0..Len(script) /\ t \in 0..Len(script) /\ seen' = seen \cup {t}
      /\ payload = script[t].payload /\ payload \in Bytes /\ Len(script) \in Nat
  BY DEF Reads, TypeOK
<1>2. Sent(t).op \in 1..7
  BY <1>1, SentHasKind
<1>3. CASE script[t].op # Continuation
  <2>1. Sent(t) = [op |-> script[t].op, payload |-> payload]
    BY <1>1, <1>3, SentBegins
  <2> QED  BY <1>1, <1>2, <1>3, <2>1, JointBy
<1>4. CASE script[t].op = Continuation
  <2>1. Fragments(t) = Fragments(taken) \cup {t}
    BY <1>1, <1>4, FragmentsGoOn
  <2>2. Fragments(taken) \subseteq 1..taken
    BY <1>1, FragmentsAre
  <2>3. t \notin Fragments(taken)
    BY <1>1, <2>2
  <2>4. Fragments(taken) \subseteq seen /\ \E i \in Fragments(taken) : script[i].op # Continuation
    BY <1>1, <1>4, <2>1, <2>3
  <2>5. app = Sent(taken)
    BY <2>4 DEF AppIsSent
  <2>6. Sent(t) = [op |-> app.op, payload |-> app.payload \o payload]
    BY <1>1, <1>4, <2>4, <2>5, SentGoesOn
  <2> QED  BY <1>1, <1>2, <1>4, <2>6, JointBy
<1> QED  BY <1>3, <1>4

LEMMA ReadNoneCloses ==
    ASSUME NEW t, NEW k, NEW payload, NEW fin, Reads(t, k, payload, fin),
           NoneCloses, socket' = "open"
    PROVE  NoneCloses' /\ WellFormed(script[t])
<1>1. WellFormed(script[t]) /\ Joint(script[t].op, payload).op # Close
  BY DEF Reads, Takes
<1>2. script[t].op # Close
  <2>1. Joint(Close, payload) = [op |-> Close, payload |-> payload]
    BY JointBy DEF Reads, Close, Continuation
  <2> QED  BY <1>1, <2>1
<1>3. script' = script /\ seen' = seen \cup {t}
  BY DEF Reads
<1> QED  BY <1>1, <1>2, <1>3 DEF NoneCloses, WellFormed

LEMMA ReadAppIsSent ==
    ASSUME NEW t, NEW k, NEW payload, NEW fin, Reads(t, k, payload, fin),
           AppIsSent, WellFormed(script[t])
    PROVE  AppIsSent'
<1> DEFINE last == taken + k
<1>1. /\ TypeOK /\ script \in Scripts /\ script' = script /\ taken \in Nat /\ Len(script) \in Nat
      /\ taken' = last /\ last \in 0..Len(script) /\ t <= last /\ t = taken + 1 /\ last \in Nat
      /\ t \in Nat /\ t \in 0..Len(script) /\ t \in 1..Len(script) /\ taken \in 0..Len(script)
      /\ seen' = seen \cup {t} /\ seen \subseteq 1..taken
  BY DEF Reads, TypeOK, Remaining
<1> HIDE DEF last
<1>2. SUFFICES ASSUME Fragments(last) \subseteq seen \cup {t},
                      \E i \in Fragments(last) : script[i].op # Continuation
               PROVE  app' = Sent(last)
  BY <1>1, ScriptStays DEF AppIsSent
<1>3. \A i \in (t + 1)..last : ~Data(i)
  <2> SUFFICES ASSUME NEW i \in (t + 1)..last, Data(i)  PROVE FALSE
    OBVIOUS
  <2>1. i \in 1..last /\ i > t
    BY <1>1
  <2>2. PICK m \in Fragments(last) : m >= i
    BY <1>1, <2>1, LastFragment
  <2>3. m \in 1..last /\ m > t
    BY <1>1, <2>1, <2>2, FragmentsAre
  <2>4. m \in seen \cup {t}
    BY <1>2
  <2> QED  BY <1>1, <2>3, <2>4
<1>4. Fragments(last) = Fragments(t) /\ Sent(last) = Sent(t)
  BY <1>1, <1>3, SentStays
<1>k. script[t].op \in 0..15
  BY <1>1, ScriptIs, FittingIs
<1>5. CASE Data(t)
  <2>1. Joint(script[t].op, payload) = Sent(t)
    BY <1>1, <1>2, <1>4, <1>5, JointIsSent
  <2>2. app' = Joint(script[t].op, payload)
    <3>1. ~isControlMessage(script[t].op)
      BY <1>k, <1>5 DEF Data, isControlMessage, Close
    <3> QED  BY <3>1 DEF Reads, Takes
  <2> QED  BY <1>4, <2>1, <2>2
<1>6. CASE ~Data(t)
  <2>1. Fragments(t) = Fragments(taken) /\ Sent(t) = Sent(taken)
    <3>1. \A i \in (taken + 1)..t : i = t
      BY <1>1
    <3>2. taken <= t
      BY <1>1
    <3> QED  BY <1>1, <1>6, <3>1, <3>2, SentStays
  <2>2. app' = app
    <3>1. isControlMessage(script[t].op)
      BY <1>k, <1>6 DEF Data, isControlMessage, Close
    <3> QED  BY <3>1 DEF Reads, Takes
  <2>3. t \notin Fragments(taken)
    BY <1>1, FragmentsAre
  <2>4. Fragments(taken) \subseteq seen
    BY <1>2, <1>4, <2>1, <2>3
  <2>5. app = Sent(taken)
    BY <1>2, <1>4, <2>1, <2>4 DEF AppIsSent
  <2> QED  BY <1>4, <2>1, <2>2, <2>5
<1> QED  BY <1>5, <1>6

(* What one read hands on. *)
Entry(t, m) == [frame |-> t, message |-> m]
Entries     == [frame : 1..Len(script), message : Message]

LEMMA DeliveredIs ==
    ASSUME NEW t, NEW k, NEW payload, NEW fin, Reads(t, k, payload, fin)
    PROVE  /\ delivered \in Seq(Entries)
           /\ Joint(script[t].op, payload).op \in 1..7 /\ fin =>
                delivered' = Append(delivered, Entry(t, Joint(script[t].op, payload)))
           /\ ~ (Joint(script[t].op, payload).op \in 1..7 /\ fin) => delivered' = delivered
<1>1. script' = script /\ t = taken + 1 /\ TypeOK /\ TypeOK'
  BY DEF Reads
<1>2. Takes(script[t].op, payload, fin, WellFormed(script[t]))
  BY DEF Reads
<1>3. delivered \in Seq(Entries)
  BY <1>1 DEF TypeOK, Entries
<1> DEFINE m == Joint(script[t].op, payload)
<1>4. delivered' = IF m.op \in 1..7 /\ fin THEN Append(delivered, Entry(t, m)) ELSE delivered
  BY <1>1, <1>2 DEF Takes, Entry
<1> HIDE DEF m
<1> QED  BY <1>3, <1>4 DEF m

LEMMA AppendIs ==
    ASSUME NEW D, NEW s \in Seq(D), NEW d \in D
    PROVE  /\ Len(s) \in Nat /\ DOMAIN s = 1..Len(s)
           /\ DOMAIN Append(s, d) = 1..(Len(s) + 1)
           /\ \A i \in 1..Len(s) : Append(s, d)[i] = s[i]
           /\ Append(s, d)[Len(s) + 1] = d
  OBVIOUS

LEMMA ToSetAppend ==
    ASSUME NEW D, NEW s \in Seq(D), NEW d \in D
    PROVE  d \in ToSet(Append(s, d)) /\ ToSet(s) \subseteq ToSet(Append(s, d))
<1> DEFINE a == Append(s, d)
<1>1. /\ Len(s) \in Nat /\ DOMAIN s = 1..Len(s) /\ DOMAIN a = 1..(Len(s) + 1)
      /\ (\A i \in 1..Len(s) : a[i] = s[i]) /\ a[Len(s) + 1] = d
  BY AppendIs
<1> HIDE DEF a
<1>2. ToSet(s) = {s[i] : i \in DOMAIN s} /\ ToSet(a) = {a[i] : i \in DOMAIN a}
  BY DEF ToSet
<1>3. \A i \in DOMAIN s : s[i] = a[i] /\ i \in DOMAIN a
  BY <1>1
<1>4. Len(s) + 1 \in DOMAIN a
  BY <1>1
<1> QED  BY <1>1, <1>2, <1>3, <1>4 DEF a

(* The entry that a read makes, and that the ones before it stay. *)
LEMMA DeliveredGrows ==
    ASSUME NEW t, NEW k, NEW payload, NEW fin, Reads(t, k, payload, fin)
    PROVE  /\ ToSet(delivered) \subseteq ToSet(delivered')
           /\ Joint(script[t].op, payload).op \in 1..7 /\ fin =>
                Entry(t, Joint(script[t].op, payload)) \in ToSet(delivered')
<1> DEFINE m == Joint(script[t].op, payload)
           d == Entry(t, m)
<1>1. /\ delivered \in Seq(Entries)
      /\ m.op \in 1..7 /\ fin => delivered' = Append(delivered, d)
      /\ ~ (m.op \in 1..7 /\ fin) => delivered' = delivered
  BY DeliveredIs
<1>2. d \in Entries
  <2>1. m \in Message /\ t \in 1..Len(script)
    BY FittingIs, JointIs DEF Reads, TypeOK
  <2> HIDE DEF m
  <2> QED  BY <2>1 DEF Entry, Entries
<1> HIDE DEF d
<1>3. CASE m.op \in 1..7 /\ fin
  BY <1>1, <1>2, <1>3, ToSetAppend DEF d
<1>4. CASE ~ (m.op \in 1..7 /\ fin)
  BY <1>1, <1>4
<1> QED  BY <1>3, <1>4

LEMMA ReadEachIsDelivered ==
    ASSUME NEW t, NEW k, NEW payload, NEW fin, Reads(t, k, payload, fin),
           AppIsSent, EachIsDelivered
    PROVE  EachIsDelivered'
<1>1. /\ TypeOK /\ script' = script /\ taken \in Nat /\ t = taken + 1 /\ t \in Nat /\ taken' \in Nat
      /\ seen' = seen \cup {t} /\ seen \subseteq 1..taken
  BY DEF Reads, TypeOK, Remaining
<1>2. SUFFICES ASSUME NEW j \in 1..taken', SeenWhole(j)'
               PROVE  \E d \in ToSet(delivered') : d.frame = j /\ d.message = Sent(j)
  BY <1>1, ScriptStays DEF EachIsDelivered
<1>3. /\ Data(j) /\ Fragments(j) \subseteq seen \cup {t}
      /\ \A i \in Fragments(j) : WellFormed(script[i]) /\ (script[i].fin <=> i = j)
      /\ \E i \in Fragments(j) : script[i].op # Continuation
  BY <1>1, <1>2, ScriptStays DEF SeenWhole, WellFormed
<1>4. j \in Nat /\ j \in Fragments(j)
  <2>1. j \in Nat /\ j \in 1..j /\ (j + 1)..j = {}
    BY <1>1
  <2> QED  BY <1>3, <2>1, FragmentsAre
<1>5. CASE j = t
  <2>1. WellFormed(script[t]) /\ script[t].fin
    BY <1>3, <1>4, <1>5
  <2>2. Joint(script[t].op, payload) = Sent(t) /\ Sent(t).op \in 1..7
    BY <1>1, <1>3, <1>5, <2>1, JointIsSent
  <2>3. fin
    BY <2>1 DEF Reads
  <2>4. Entry(t, Sent(t)) \in ToSet(delivered')
    BY <2>2, <2>3, DeliveredGrows
  <2>5. Entry(t, Sent(t)).frame = t /\ Entry(t, Sent(t)).message = Sent(t)
    BY DEF Entry
  <2> QED  BY <1>5, <2>4, <2>5
<1>6. CASE j # t
  <2>1. j \in 1..taken
    BY <1>1, <1>3, <1>4, <1>6
  <2>2. Fragments(j) \subseteq seen
    <3>1. Fragments(j) \subseteq 1..j
      BY <1>4, FragmentsAre
    <3>2. t \notin Fragments(j)
      BY <1>1, <2>1, <3>1
    <3> QED  BY <1>3, <3>2
  <2>3. SeenWhole(j)
    BY <1>3, <2>2 DEF SeenWhole
  <2>4. PICK d \in ToSet(delivered) : d.frame = j /\ d.message = Sent(j)
    BY <2>1, <2>3 DEF EachIsDelivered
  <2> QED  BY <2>4, DeliveredGrows
<1> QED  BY <1>5, <1>6

LEMMA ReadInOrder ==
    ASSUME NEW t, NEW k, NEW payload, NEW fin, Reads(t, k, payload, fin), InOrder
    PROVE  InOrder'
<1> DEFINE m == Joint(script[t].op, payload)
           d == Entry(t, m)
           n == Len(delivered)
<1>1. /\ TypeOK /\ script' = script /\ taken \in Nat /\ t = taken + 1 /\ t \in Nat
      /\ seen' = seen \cup {t} /\ seen \subseteq 1..taken
      /\ payload \in Bytes /\ t \in 1..Len(script) /\ script[t] \in Fitting
  BY DEF Reads, TypeOK
<1>k. script[t].op \in 0..15
  BY <1>1, FittingIs
<1>2. /\ delivered \in Seq(Entries)
      /\ m.op \in 1..7 /\ fin => delivered' = Append(delivered, d)
      /\ ~ (m.op \in 1..7 /\ fin) => delivered' = delivered
  BY DeliveredIs
<1>3. m \in Message
  BY <1>1, <1>k, JointIs DEF TypeOK
<1>4. SUFFICES \A i \in DOMAIN delivered' :
                 /\ delivered'[i].frame \in seen \cup {t} /\ Data(delivered'[i].frame)
                 /\ \A j \in 1..(i - 1) : delivered'[j].frame < delivered'[i].frame
  BY <1>1, ScriptStays DEF InOrder
<1>5. CASE ~ (m.op \in 1..7 /\ fin)
  <2>1. delivered' = delivered
    BY <1>2, <1>5
  <2> HIDE DEF m, d
  <2> QED  BY <2>1 DEF InOrder
<1>6. CASE m.op \in 1..7 /\ fin
  <2>1. Data(t)
    <3>1. script[t].op # Continuation => m.op = script[t].op
      BY <1>1, JointBy
    <3> HIDE DEF m
    <3>2. script[t].op = Continuation \/ script[t].op \in 1..7
      BY <1>6, <1>k, <3>1
    <3> QED  BY <3>2 DEF Data, Continuation, Close
  <2>2. d \in Entries
    <3> HIDE DEF m
    <3> QED  BY <1>1, <1>3 DEF Entry, Entries
  <2>3. d.frame = t
    BY DEF Entry
  <2>4. delivered' = Append(delivered, d)
    BY <1>2, <1>6
  <2> HIDE DEF m, d
  <2>5. /\ n \in Nat /\ DOMAIN delivered = 1..n /\ DOMAIN delivered' = 1..(n + 1)
        /\ \A i \in 1..n : delivered'[i] = delivered[i]
        /\ delivered'[n + 1] = d
    BY <1>2, <2>2, <2>4, AppendIs
  <2> HIDE DEF n
  <2>6. \A i \in 1..n : /\ delivered'[i].frame \in seen /\ Data(delivered'[i].frame)
                        /\ \A j \in 1..(i - 1) : delivered'[j].frame < delivered'[i].frame
    <3> TAKE i \in 1..n
    <3>1. /\ delivered[i].frame \in seen /\ Data(delivered[i].frame)
          /\ \A j \in 1..(i - 1) : delivered[j].frame < delivered[i].frame
      BY <2>5 DEF InOrder
    <3>2. \A j \in 1..(i - 1) : delivered'[j] = delivered[j]
      BY <2>5
    <3> QED  BY <2>5, <3>1, <3>2
  <2>7. \A j \in 1..n : delivered'[j].frame < t
    <3> TAKE j \in 1..n
    <3>1. delivered'[j].frame \in 1..taken
      BY <1>1, <2>6
    <3> QED  BY <1>1, <3>1
  <2>8. delivered'[n + 1].frame = t
    BY <2>3, <2>5
  <2>9. \A i \in 1..(n + 1) : i = n + 1 \/ i \in 1..n
    BY <2>5
  <2>10. (n + 1) - 1 = n
    BY <2>5
  <2> QED  BY <2>1, <2>5, <2>6, <2>7, <2>8, <2>9, <2>10
<1> QED  BY <1>5, <1>6

LEMMA ReadCloseIsSent ==
    ASSUME NEW t, NEW k, NEW payload, NEW fin, Reads(t, k, payload, fin), NoneCloses
    PROVE  CloseIsSent'
<1>1. TypeOK /\ script' = script /\ seen' = seen \cup {t} /\ payload \in Bytes
  BY DEF Reads
<1>2. SUFFICES ASSUME NEW j \in seen', WellFormed(script[j]), script[j].op = Close,
                      Len(script[j].payload) >= 2
               PROVE  closing' = CloseOf(script[j])
  BY <1>1 DEF CloseIsSent, CloseOf, WellFormed
<1>3. j = t
  BY <1>1, <1>2 DEF NoneCloses
<1>4. payload = script[t].payload
  BY <1>2, <1>3 DEF Reads
<1> DEFINE m == Joint(script[t].op, payload)
<1>5. m = [op |-> Close, payload |-> payload]
  BY <1>1, <1>2, <1>3, JointBy DEF Close, Continuation
<1>6. closing' = IF m.op = Close /\ Len(m.payload) >= 2 THEN CloseOf(m) ELSE closing
  BY DEF Reads, Takes
<1> HIDE DEF m
<1>7. m.op = Close /\ m.payload = script[j].payload
  BY <1>3, <1>4, <1>5
<1>8. closing' = CloseOf(m)
  BY <1>2, <1>6, <1>7
<1> QED  BY <1>7, <1>8 DEF CloseOf

-----------------------------------------------------------------------------
LEMMA ReadDInv == ASSUME DInv, ReadWebsocket  PROVE DInv'
<1>1. TypeOK /\ TypeOK'
  BY TypeRead DEF DInv
<1>2. PICK n, k : Read(n, k)
  BY ReadWebsocketReads
<1>3. SUFFICES ASSUME inStep'
               PROVE  /\ socket' = "open" => NoneCloses' /\ AppIsSent'
                      /\ EachIsDelivered' /\ InOrder' /\ CloseIsSent'
  BY <1>1 DEF DInv
<1> DEFINE t == taken + 1
<1>4. k \in 1..Remaining
  BY <1>1, <1>2, <1>3, ReadInStep
<1>5. PICK payload \in Bytes, fin \in BOOLEAN :
        /\ Takes(script[t].op, payload, fin, WellFormed(script[t]))
        /\ WellFormed(script[t]) => payload = script[t].payload /\ (fin <=> script[t].fin)
  BY <1>1, <1>2, <1>3, ReadInStep
<1>6. /\ Remaining \in Nat /\ t \in 1..Len(script) /\ script[t] \in Fitting
  BY <1>1, <1>2, ReadIs
<1>7. t \in Nat /\ Len(script) \in Nat
  BY <1>1, ScriptIs DEF TypeOK
<1>8. /\ inStep /\ socket = "open" /\ script' = script /\ taken' = taken + k
      /\ seen' = IF k > 0 THEN seen \cup {t} ELSE seen
  BY <1>2 DEF Read
<1>9. k > 0
  BY <1>4, <1>6
<1>10. t = taken + 1
  OBVIOUS
<1> HIDE DEF t
<1>11. Reads(t, k, payload, fin)
  BY <1>1, <1>3, <1>4, <1>5, <1>6, <1>7, <1>8, <1>9, <1>10 DEF Reads
<1>12. NoneCloses /\ AppIsSent /\ EachIsDelivered /\ InOrder
  BY <1>8 DEF DInv
<1> QED
  BY <1>11, <1>12, ReadNoneCloses, ReadAppIsSent, ReadEachIsDelivered, ReadInOrder, ReadCloseIsSent

(* What stays as it is while the application sends. *)
LEMMA OthersDInv ==
    ASSUME DInv, TypeOK',
           UNCHANGED <<script, taken, seen, inStep, socket, app, cntl, delivered, closing>>
    PROVE  DInv'
<1>1. EachIsDelivered' = EachIsDelivered /\ InOrder' = InOrder /\ CloseIsSent' = CloseIsSent
      /\ NoneCloses' = NoneCloses /\ AppIsSent' = AppIsSent
  BY ScriptStays DEF EachIsDelivered, InOrder, CloseIsSent, NoneCloses, AppIsSent, SeenWhole,
                     CloseOf, WellFormed
<1> QED  BY <1>1 DEF DInv

LEMMA NextDInv == DInv /\ [Next]_vars => DInv'
<1> SUFFICES ASSUME DInv, [Next]_vars  PROVE DInv'
  OBVIOUS
<1>1. TypeOK'
  BY TypeNext DEF DInv
<1>2. CASE ReadWebsocket
  BY <1>2, ReadDInv
<1>3. ASSUME NEW m \in AppMessages, sendSocketMessage(m)  PROVE DInv'
  BY <1>1, <1>3, OthersDInv DEF sendSocketMessage, Send
<1>4. ASSUME NEW reason \in CloseReasons, closeSocketConnection(reason)  PROVE DInv'
  BY <1>1, <1>4, OthersDInv DEF closeSocketConnection, Send
<1>5. CASE UNCHANGED vars
  BY <1>1, <1>5, OthersDInv DEF vars
<1> QED  BY <1>2, <1>3, <1>4, <1>5 DEF Next

(* A message none of whose frames was swallowed is delivered when its last *)
(* frame is read, as the client sent it, whatever control frames stand     *)
(* between its fragments and whatever was swallowed before it; in order    *)
(* and once; and a close is reported as the client gave it.                *)
THEOREM MessagesAreDelivered == Spec => []DeliveredAsSent
<1>1. Init => DInv
  BY DInvInit
<1>2. DInv /\ [Next]_vars => DInv'
  BY NextDInv
<1>3. DInv => DeliveredAsSent
  BY DEF DInv, DeliveredAsSent, EachIsDelivered, InOrder, CloseIsSent, CloseOf
<1> QED  BY <1>1, <1>2, <1>3, PTL DEF Spec

-----------------------------------------------------------------------------
(* What the client receives.                                               *)

(* The messages of the server, and how long the length of one is.          *)
Sendable == {m \in Message : Fits(Len(m.payload), 8)}

Form(n) == IF n < 126 THEN 0 ELSE IF n < 65536 THEN 2 ELSE 8

LEMMA SendableIs ==
    ASSUME NEW m \in Sendable
    PROVE  /\ m \in Message /\ m.op \in 0..15 /\ m.payload \in Bytes
           /\ Len(m.payload) \in Nat /\ Len(m.payload) \in Lengths
           /\ m = [op |-> m.op, payload |-> m.payload]
<1>1. m \in Message /\ Fits(Len(m.payload), 8)
  BY DEF Sendable
<1>2. m.op \in 0..15 /\ m.payload \in Bytes
  BY <1>1, MessageIs
<1>3. Len(m.payload) \in Nat
  BY <1>2, BytesProperties
<1>4. m = [op |-> m.op, payload |-> m.payload]
  BY <1>1 DEF Message
<1> QED  BY <1>1, <1>2, <1>3, <1>4, FitsIsLength

(* p is the bytes of a packet: the parts and where they stand.             *)
HasLength(p, n) ==
    /\ n < 126 => p[2] = n
    /\ n >= 126 /\ n < 65536 => p[2] = 126 /\ n = 256 * p[3] + p[4]
    /\ n >= 65536 => p[2] = 127 /\ n = Number(p[7], p[8], p[9], p[10])

LEMMA LengthBytesAre ==
    ASSUME NEW n \in Lengths
    PROVE  /\ LengthBytes(n) \in Bytes /\ Len(LengthBytes(n)) = 1 + Form(n)
           /\ n < 126 => LengthBytes(n)[1] = n
           /\ n >= 126 /\ n < 65536 =>
                LengthBytes(n)[1] = 126 /\ n = 256 * LengthBytes(n)[2] + LengthBytes(n)[3]
           /\ n >= 65536 =>
                /\ LengthBytes(n)[1] = 127
                /\ n = Number(LengthBytes(n)[6], LengthBytes(n)[7], LengthBytes(n)[8],
                              LengthBytes(n)[9])
<1>0. n \in Int /\ 0 <= n
  BY SMT DEF Lengths
<1>b. /\ Byte1(n) \in Byte /\ Byte2(n) \in Byte /\ Byte3(n) \in Byte /\ Byte4(n) \in Byte
      /\ n = Number(Byte4(n), Byte3(n), Byte2(n), Byte1(n))
      /\ n < 65536 => n = 256 * Byte2(n) + Byte1(n)
  BY BytesOfLength
<1>c. 0 \in Byte /\ 126 \in Byte /\ 127 \in Byte
  BY ByteRange
<1> DEFINE s == LengthBytes(n)
<1>1. CASE n < 126
  <2>1. s = <<n>> /\ n \in Byte
    BY <1>0, <1>1, ByteRange DEF LengthBytes
  <2>2. s \in Bytes /\ Len(s) = 1 /\ s[1] = n
    BY <2>1, OneByte
  <2> HIDE DEF s
  <2> QED  BY <1>0, <1>1, <2>2 DEF Form, s
<1>2. CASE n >= 126 /\ n < 65536
  <2>1. s = <<126, Byte2(n), Byte1(n)>>
    BY <1>0, <1>2 DEF LengthBytes
  <2>2. s \in Seq(Byte) /\ Len(s) = 3 /\ s[1] = 126 /\ s[2] = Byte2(n) /\ s[3] = Byte1(n)
    BY <1>b, <1>c, <2>1, ThreeBytes
  <2> HIDE DEF s
  <2>3. n = 256 * s[2] + s[3]
    BY <1>2, <1>b, <2>2
  <2> QED  BY <1>0, <1>2, <2>2, <2>3 DEF Form, Bytes, s
<1>3. CASE n >= 65536
  <2>1. s = <<127, 0, 0, 0, 0, Byte4(n), Byte3(n), Byte2(n), Byte1(n)>>
    BY <1>0, <1>3 DEF LengthBytes
  <2>2. /\ s \in Seq(Byte) /\ Len(s) = 9 /\ s[1] = 127
        /\ s[6] = Byte4(n) /\ s[7] = Byte3(n) /\ s[8] = Byte2(n) /\ s[9] = Byte1(n)
    BY <1>b, <1>c, <2>1, NineBytes
  <2> HIDE DEF s
  <2>3. n = Number(s[6], s[7], s[8], s[9])
    BY <1>b, <2>2
  <2> QED  BY <1>0, <1>3, <2>2, <2>3 DEF Form, Bytes, s
<1> QED  BY <1>0, <1>1, <1>2, <1>3

LEMMA PacketHas ==
    ASSUME NEW m \in Sendable
    PROVE  LET p == Packet(m.op, m.payload)
               n == Len(m.payload)
           IN /\ p \in Bytes /\ Len(p) = 2 + Form(n) + n
              /\ p[1] = 128 + m.op /\ HasLength(p, n)
              /\ \A i \in 1..n : p[2 + Form(n) + i] = m.payload[i]
<1> DEFINE n == Len(m.payload)
           first == <<128 + m.op>>
           length == LengthBytes(n)
           head == first \o length
           p == head \o m.payload
           F == Form(n)
<1>1. /\ m.op \in 0..15 /\ m.payload \in Bytes /\ n \in Nat /\ n \in Lengths
  BY SendableIs
<1>2. first \in Bytes /\ Len(first) = 1 /\ first[1] = 128 + m.op
  <2>1. \A op \in 0..15 : 128 + op \in Byte
    BY DEF Byte
  <2>2. 128 + m.op \in Byte
    BY <1>1, <2>1
  <2> QED  BY <2>2, OneByte
<1> HIDE DEF n
<1>3. /\ length \in Bytes /\ Len(length) = 1 + F
      /\ n < 126 => length[1] = n
      /\ n >= 126 /\ n < 65536 => length[1] = 126 /\ n = 256 * length[2] + length[3]
      /\ n >= 65536 =>
           length[1] = 127 /\ n = Number(length[6], length[7], length[8], length[9])
  BY <1>1, LengthBytesAre
<1>4. F \in {0, 2, 8} /\ (n < 126 => F = 0) /\ (n >= 126 /\ n < 65536 => F = 2)
      /\ (n >= 65536 => F = 8)
  BY <1>1 DEF Form
<1> HIDE DEF first, length, F
<1>5. head \in Bytes /\ Joined(head, first, length)
  <2>1. first \in Seq(Byte) /\ length \in Seq(Byte)
    BY <1>2, <1>3 DEF Bytes
  <2> QED  BY <2>1, ConcatJoins DEF Bytes
<1> HIDE DEF head
<1>6. p \in Bytes /\ Joined(p, head, m.payload)
  <2>1. head \in Seq(Byte) /\ m.payload \in Seq(Byte)
    BY <1>1, <1>5 DEF Bytes
  <2> QED  BY <2>1, ConcatJoins DEF Bytes
<1>7. p = Packet(m.op, m.payload)
  BY DEF Packet, p, head, first, length, n
<1> HIDE DEF p
<1>8. Len(head) = 2 + F /\ Len(p) = 2 + F + n
  <2>1. Len(head) = Len(first) + Len(length) /\ Len(p) = Len(head) + n
    BY <1>5, <1>6 DEF Joined, n
  <2>2. Len(first) = 1 /\ Len(length) = 1 + F
    BY <1>2, <1>3
  <2> QED  BY <1>1, <1>4, <2>1, <2>2
<1>9. \A i \in 1..(1 + F) : p[1 + i] = length[i]
  <2> TAKE i \in 1..(1 + F)
  <2>1. head[1 + i] = length[i]
    BY <1>2, <1>3, <1>5 DEF Joined
  <2>2. 1 + i \in 1..Len(head)
    BY <1>4, <1>8
  <2>3. p[1 + i] = head[1 + i]
    BY <1>6, <2>2 DEF Joined
  <2> QED  BY <2>1, <2>3
<1>10. p[1] = 128 + m.op
  <2>1. head[1] = first[1]
    BY <1>2, <1>5 DEF Joined
  <2>2. 1 \in 1..Len(head)
    BY <1>4, <1>8
  <2> QED  BY <1>2, <1>6, <2>1, <2>2 DEF Joined
<1>11. \A i \in 1..n : p[2 + F + i] = m.payload[i]
  BY <1>6, <1>8 DEF Joined, n
<1>12. HasLength(p, n)
  <2>1. p[2] = length[1]
    <3>1. 1 \in 1..(1 + F) /\ 1 + 1 = 2
      BY <1>4
    <3>2. p[1 + 1] = length[1]
      BY <1>9, <3>1
    <3> QED  BY <3>2
  <2>2. F \in {2, 8} => p[3] = length[2] /\ p[4] = length[3]
    <3> SUFFICES ASSUME F \in {2, 8}  PROVE p[3] = length[2] /\ p[4] = length[3]
      OBVIOUS
    <3>1. 2 \in 1..(1 + F) /\ 3 \in 1..(1 + F)
      OBVIOUS
    <3>2. p[1 + 2] = length[2] /\ p[1 + 3] = length[3]
      BY <1>9, <3>1
    <3> QED  BY <3>2
  <2>3. F = 8 => p[7] = length[6] /\ p[8] = length[7] /\ p[9] = length[8] /\ p[10] = length[9]
    <3> SUFFICES ASSUME F = 8
                 PROVE  p[7] = length[6] /\ p[8] = length[7] /\ p[9] = length[8]
                        /\ p[10] = length[9]
      OBVIOUS
    <3>1. 6 \in 1..(1 + F) /\ 7 \in 1..(1 + F) /\ 8 \in 1..(1 + F) /\ 9 \in 1..(1 + F)
      OBVIOUS
    <3>2. p[1 + 6] = length[6] /\ p[1 + 7] = length[7] /\ p[1 + 8] = length[8]
          /\ p[1 + 9] = length[9]
      BY <1>9, <3>1
    <3> QED  BY <3>2
  <2> QED  BY <1>3, <1>4, <2>1, <2>2, <2>3 DEF HasLength
<1> QED  BY <1>6, <1>7, <1>8, <1>10, <1>11, <1>12 DEF n, F

-----------------------------------------------------------------------------
(* The bytes behind byte i. *)
LEMMA BytesBehind ==
    ASSUME NEW w \in Bytes, NEW i \in Nat \ {0}, i < Len(w)
    PROVE  LET s == SubSeq(w, i + 1, Len(w))
           IN \A x \in 1..(Len(w) - i) : s[x] = w[i + x]
<1>1. Len(w) \in Nat
  BY BytesProperties
<1>2. i + 1 \in 1..(Len(w) + 1) /\ Len(w) \in i..Len(w)
  BY <1>1
<1>3. \A j \in (i + 1)..Len(w) : w[j] \in Byte
  BY <1>1, ElementOfSeq DEF Bytes
<1>4. \A x \in 1..(Len(w) - (i + 1) + 1) : SubSeq(w, i + 1, Len(w))[x] = w[(i + 1) + x - 1]
  BY <1>1, <1>3, SubSeqProperties DEF Bytes
<1> DEFINE s == SubSeq(w, i + 1, Len(w))
<1> HIDE DEF s
<1>5. \A x \in 1..(Len(w) - i) : s[x] = w[i + x]
  <2> TAKE x \in 1..(Len(w) - i)
  <2>1. x \in 1..(Len(w) - (i + 1) + 1) /\ (i + 1) + x - 1 = i + x
    BY <1>1
  <2> QED  BY <1>4, <2>1 DEF s
<1> QED  BY <1>5 DEF s

(* The client goes on behind what it has read. *)
LEMMA ReadsOn ==
    ASSUME NEW w \in Bytes, NEW i \in Nat \ {0}, i <= Len(w), ~CutOff(w, i)
    PROVE  LastAt(w, i) \in Nat /\ LastAt(w, i) >= i + 1
<1> DEFINE s == SubSeq(w, i + 1, Len(w))
<1>1. Len(w) \in Nat /\ i < Len(w) /\ ~(FirstAt(w, i) > Len(w) + 1)
  BY BytesProperties DEF CutOff
<1>2. \A x \in 1..(Len(w) - i) : s[x] = w[i + x]
  BY <1>1, BytesBehind
<1> HIDE DEF s
<1>3. \A x \in 1..(Len(w) - i) : s[x] \in Nat
  <2> TAKE x \in 1..(Len(w) - i)
  <2>1. i + x \in 1..Len(w)
    BY <1>1
  <2>2. w[i + x] \in Byte
    BY <2>1, ElementOfSeq DEF Bytes
  <2>3. s[x] \in Byte
    BY <1>2, <2>2
  <2> QED  BY <2>3, ByteRange
<1>4. s[1] = w[i + 1] /\ s[1] \in Nat
  <2>1. 1 \in 1..(Len(w) - i)
    BY <1>1
  <2> QED  BY <1>2, <1>3, <2>1
<1>5. RfcLength(s) \in Nat
  <2>1. CASE s[1] < 126
    BY <1>4, <2>1 DEF RfcLength
  <2>2. CASE s[1] = 126
    <3>1. FormAt(w, i) = 2
      BY <1>4, <2>2 DEF FormAt
    <3>2. 2 \in 1..(Len(w) - i) /\ 3 \in 1..(Len(w) - i)
      BY <1>1, <3>1 DEF FirstAt
    <3>3. s[2] \in Nat /\ s[3] \in Nat
      BY <1>3, <3>2
    <3> QED  BY <2>2, <3>3 DEF RfcLength
  <2>3. CASE ~(s[1] < 126) /\ s[1] # 126
    <3>1. FormAt(w, i) = 8
      BY <1>4, <2>3 DEF FormAt
    <3>2. 6 \in 1..(Len(w) - i) /\ 7 \in 1..(Len(w) - i) /\ 8 \in 1..(Len(w) - i)
          /\ 9 \in 1..(Len(w) - i)
      BY <1>1, <3>1 DEF FirstAt
    <3>3. s[6] \in Nat /\ s[7] \in Nat /\ s[8] \in Nat /\ s[9] \in Nat
      BY <1>3, <3>2
    <3>4. RfcLength(s) = Number(s[6], s[7], s[8], s[9])
      BY SMT, <2>3 DEF RfcLength
    <3>5. \A a, b, c, d \in Nat : Number(a, b, c, d) \in Nat
      BY SMT DEF Number
    <3>6. Number(s[6], s[7], s[8], s[9]) \in Nat
      BY Zenon, <3>3, <3>5
    <3> QED  BY Zenon, <3>4, <3>6
  <2> QED  BY <2>1, <2>2, <2>3
<1>6. FormAt(w, i) \in Nat
  BY DEF FormAt
<1> DEFINE form == FormAt(w, i)
           length == RfcLength(s)
<1>7. LastAt(w, i) = (i + 2 + form) + length - 1
  BY DEF LastAt, FirstAt, s
<1>8. form \in Nat /\ length \in Nat
  BY <1>5, <1>6
<1> HIDE DEF form, length
<1> QED  BY <1>7, <1>8

(* There is one way to read all of some bytes, which RfcMessages() takes.  *)
LEMMA ReadingExists ==
    ASSUME NEW w \in Bytes
    PROVE  \E from : from = [i \in Nat \ {0} |-> ReadFrom(w, from, i)]
<1> DEFINE Pos == Nat \ {0}
           L == Len(w)
           Reading(from, d) == /\ from = [i \in Pos |-> from[i]]
                               /\ \A i \in Pos : i > L - d => from[i] = ReadFrom(w, from, i)
           T == {d \in Nat : \E from : Reading(from, d)}
<1>0. L \in Nat
  BY BytesProperties
<1>1. 0 \in T
  <2> DEFINE none == [i \in Pos |-> <<>>]
  <2>1. none = [i \in Pos |-> none[i]]
    OBVIOUS
  <2>2. \A i \in Pos : i > L - 0 => none[i] = ReadFrom(w, none, i)
    <3> SUFFICES ASSUME NEW i \in Pos, i > L - 0  PROVE none[i] = ReadFrom(w, none, i)
      OBVIOUS
    <3>1. i > Len(w)
      BY <1>0
    <3>2. none[i] = <<>>
      OBVIOUS
    <3> HIDE DEF none
    <3> QED  BY <3>1, <3>2 DEF ReadFrom
  <2> HIDE DEF none
  <2>3. Reading(none, 0)
    BY <2>1, <2>2
  <2> QED  BY <2>3
<1>2. ASSUME NEW d \in Nat, d \in T  PROVE d + 1 \in T
  <2>1. PICK old : Reading(old, d)
    BY <1>2
  <2> DEFINE i0 == L - d
             from == [i \in Pos |-> IF i = i0 THEN ReadFrom(w, old, i0) ELSE old[i]]
  <2>2. from = [i \in Pos |-> from[i]]
    OBVIOUS
  <2>3. \A i \in Pos : /\ i = i0 => from[i] = ReadFrom(w, old, i)
                       /\ i # i0 => from[i] = old[i]
    OBVIOUS
  <2> HIDE DEF from
  <2>4. \A i \in Pos : i >= i0 => ReadFrom(w, from, i) = ReadFrom(w, old, i)
    <3> SUFFICES ASSUME NEW i \in Pos, i >= i0
                 PROVE  ReadFrom(w, from, i) = ReadFrom(w, old, i)
      OBVIOUS
    <3>1. CASE i > Len(w) \/ CutOff(w, i)
      BY <3>1 DEF ReadFrom
    <3>2. CASE i <= Len(w) /\ ~CutOff(w, i)
      <4>1. LastAt(w, i) \in Nat /\ LastAt(w, i) >= i + 1
        BY <3>2, ReadsOn
      <4>2. LastAt(w, i) + 1 \in Pos /\ LastAt(w, i) + 1 # i0
        BY <1>0, <4>1
      <4>3. from[LastAt(w, i) + 1] = old[LastAt(w, i) + 1]
        BY <2>3, <4>2
      <4> QED  BY <4>3 DEF ReadFrom
    <3> QED  BY <1>0, <3>1, <3>2
  <2>5. \A i \in Pos : i > L - (d + 1) => from[i] = ReadFrom(w, from, i)
    <3> SUFFICES ASSUME NEW i \in Pos, i > L - (d + 1)  PROVE from[i] = ReadFrom(w, from, i)
      OBVIOUS
    <3>1. i >= i0
      BY <1>0
    <3>2. CASE i = i0
      BY <2>3, <2>4, <3>1, <3>2
    <3>3. CASE i # i0
      <4>1. i > L - d
        BY <1>0, <3>1, <3>3
      <4>2. old[i] = ReadFrom(w, old, i)
        BY <2>1, <4>1
      <4> QED  BY <2>3, <2>4, <3>1, <3>3, <4>2
    <3> QED  BY <3>2, <3>3
  <2> HIDE DEF i0
  <2>6. Reading(from, d + 1)
    BY <2>2, <2>5
  <2> QED  BY <2>6
<1> HIDE DEF T
<1>3. L \in T
  BY <1>0, <1>1, <1>2, NatSetInduction
<1>4. PICK from : Reading(from, L)
  BY <1>3 DEF T
<1>5. \A i \in Pos : from[i] = ReadFrom(w, from, i)
  <2> TAKE i \in Pos
  <2>1. i > L - L
    BY <1>0
  <2> QED  BY <1>4, <2>1
<1>6. from = [i \in Pos |-> ReadFrom(w, from, i)]
  BY <1>4, <1>5
<1> QED  BY <1>6

LEMMA RfcMessagesReads ==
    ASSUME NEW w \in Bytes
    PROVE  \E from : /\ RfcMessages(w) = from[1]
                     /\ \A i \in Nat \ {0} : from[i] = ReadFrom(w, from, i)
<1> DEFINE from == CHOOSE g : g = [i \in Nat \ {0} |-> ReadFrom(w, g, i)]
<1>1. RfcMessages(w) = from[1]
  BY DEF RfcMessages
<1>2. from = [i \in Nat \ {0} |-> ReadFrom(w, from, i)]
  BY ReadingExists
<1> HIDE DEF from
<1>3. \A i \in Nat \ {0} : from[i] = ReadFrom(w, from, i)
  BY <1>2
<1> QED  BY <1>1, <1>3

(* The packet of m stands in w from byte a on, and ends before byte b.     *)
Stands(w, a, b, m) ==
    LET p == Packet(m.op, m.payload)
    IN /\ a \in Nat \ {0} /\ b = a + Len(p) /\ b <= Len(w) + 1
       /\ \A x \in 1..Len(p) : w[(a - 1) + x] = p[x]

(* What the client reads where a packet stands.                            *)
LEMMA StandingIsRead ==
    ASSUME NEW w \in Bytes, NEW a, NEW b, NEW m \in Sendable, Stands(w, a, b, m), NEW from
    PROVE  ReadFrom(w, from, a) = <<m>> \o from[b]
<1> DEFINE p == Packet(m.op, m.payload)
           n == Len(m.payload)
           F == Form(n)
           L == Len(w)
           s == SubSeq(w, a + 1, L)
<1>1. /\ m.op \in 0..15 /\ m.payload \in Bytes /\ n \in Nat /\ n \in Lengths
      /\ m = [op |-> m.op, payload |-> m.payload]
  BY SendableIs
<1>2. /\ p \in Bytes /\ Len(p) = 2 + F + n /\ p[1] = 128 + m.op /\ HasLength(p, n)
      /\ \A i \in 1..n : p[2 + F + i] = m.payload[i]
  BY PacketHas
<1>3. /\ a \in Nat \ {0} /\ b = a + Len(p) /\ b <= L + 1
      /\ \A x \in 1..Len(p) : w[(a - 1) + x] = p[x]
  BY DEF Stands
<1> HIDE DEF n
<1>4. F \in {0, 2, 8} /\ (n < 126 => F = 0) /\ (n >= 126 /\ n < 65536 => F = 2)
      /\ (n >= 65536 => F = 8)
  BY <1>1, SMT DEF Form
<1>5. L \in Nat
  BY BytesProperties
<1> HIDE DEF p, F, L
<1>n. /\ a \in Nat /\ a >= 1 /\ n \in Nat /\ F \in Nat /\ L \in Nat
      /\ Len(p) = 2 + F + n /\ b = a + Len(p) /\ b <= L + 1
  <2>1. a \in Nat /\ a >= 1
    BY <1>3
  <2>2. F \in Nat
    BY <1>4
  <2> QED  BY <1>1, <1>2, <1>3, <1>5, <2>1, <2>2
<1>6. a + 2 <= L + 1 /\ a < L /\ b = a + 2 + F + n
  BY <1>n
<1>7. w[a] = 128 + m.op
  <2>1. 1 \in 1..Len(p) /\ (a - 1) + 1 = a
    BY <1>1, <1>2, <1>3, <1>4
  <2>2. w[(a - 1) + 1] = p[1]
    BY <1>3, <2>1
  <2> QED  BY <1>2, <2>1, <2>2
<1>8. w[a + 1] = p[2]
  <2>1. 2 \in 1..Len(p) /\ (a - 1) + 2 = a + 1
    BY <1>1, <1>2, <1>3, <1>4
  <2>2. w[(a - 1) + 2] = p[2]
    BY <1>3, <2>1
  <2> QED  BY <2>1, <2>2
<1>9. \A x \in 1..(1 + F) : s[x] = p[1 + x]
  <2> TAKE x \in 1..(1 + F)
  <2>1. x \in 1..(L - a)
    BY <1>n
  <2>2. s[x] = w[a + x]
    BY <1>3, <1>5, <1>6, <2>1, BytesBehind DEF L
  <2>3. 1 + x \in 1..Len(p) /\ (a - 1) + (1 + x) = a + x
    BY <1>n
  <2>4. w[(a - 1) + (1 + x)] = p[1 + x]
    BY <1>3, <2>3
  <2> QED  BY <2>2, <2>3, <2>4
<1> HIDE DEF s
<1>10. FormAt(w, a) = F /\ RfcLength(s) = n
  <2>0. s[1] = p[2]
    <3>1. 1 \in 1..(1 + F) /\ 1 + 1 = 2
      BY <1>4
    <3>2. s[1] = p[1 + 1]
      BY <1>9, <3>1
    <3> QED  BY <3>1, <3>2
  <2>1. CASE n < 126
    <3>1. p[2] = n /\ F = 0
      BY <1>2, <1>4, <2>1 DEF HasLength
    <3> QED  BY <1>1, <1>8, <2>0, <2>1, <3>1, SMT DEF FormAt, RfcLength
  <2>2. CASE n >= 126 /\ n < 65536
    <3>1. p[2] = 126 /\ n = 256 * p[3] + p[4] /\ F = 2
      BY <1>2, <1>4, <2>2, SMT DEF HasLength
    <3>2. s[2] = p[3] /\ s[3] = p[4]
      <4>1. 2 \in 1..(1 + F) /\ 3 \in 1..(1 + F)
        BY <3>1
      <4>2. s[2] = p[1 + 2] /\ s[3] = p[1 + 3]
        BY <1>9, <4>1
      <4> QED  BY <4>2
    <3> QED  BY <1>8, <2>0, <3>1, <3>2, SMT DEF FormAt, RfcLength
  <2>3. CASE n >= 65536
    <3>1. p[2] = 127 /\ n = Number(p[7], p[8], p[9], p[10]) /\ F = 8
      BY <1>2, <1>4, <2>3, SMT DEF HasLength
    <3>2. s[6] = p[7] /\ s[7] = p[8] /\ s[8] = p[9] /\ s[9] = p[10]
      <4>1. 6 \in 1..(1 + F) /\ 7 \in 1..(1 + F) /\ 8 \in 1..(1 + F) /\ 9 \in 1..(1 + F)
        BY <3>1
      <4>2. s[6] = p[1 + 6] /\ s[7] = p[1 + 7] /\ s[8] = p[1 + 8] /\ s[9] = p[1 + 9]
        BY <1>9, <4>1
      <4> QED  BY <4>2
    <3>3. RfcLength(s) = Number(s[6], s[7], s[8], s[9])
      BY <2>0, <3>1, SMT DEF RfcLength
    <3>4. FormAt(w, a) = 8
      BY <1>8, <3>1 DEF FormAt
    <3> QED  BY <3>1, <3>2, <3>3, <3>4
  <2> QED  BY <1>1, <2>1, <2>2, <2>3, SMT
<1>11. FirstAt(w, a) = a + 2 + F /\ LastAt(w, a) = (a + 2 + F) + n - 1
  BY <1>10 DEF FirstAt, LastAt, s, L
<1>12. ~CutOff(w, a) /\ ~(a > Len(w))
  <2>1. /\ a # L /\ ~(a + 2 + F > L + 1) /\ ~((a + 2 + F) + n - 1 > L) /\ ~(a > L)
    BY <1>n
  <2> QED  BY <1>11, <2>1 DEF CutOff, L
<1>13. LastAt(w, a) + 1 = b
  BY <1>n, <1>6, <1>11
<1>14. SubSeq(w, FirstAt(w, a), LastAt(w, a)) = m.payload
  <2> DEFINE first == a + 2 + F
             last == first + n - 1
             t == SubSeq(w, first, last)
  <2>1. first \in Int /\ last \in Int /\ first >= 1 /\ last <= L /\ last - first + 1 = n
    BY <1>n
  <2>2. \A i \in 1..n : first + i - 1 = (a - 1) + (2 + F + i) /\ 2 + F + i \in 1..Len(p)
    BY <1>n
  <2>3. FirstAt(w, a) = first /\ LastAt(w, a) = last
    BY <1>11
  <2> HIDE DEF first, last
  <2>4. \A i \in first..last : w[i] \in Byte
    <3> TAKE i \in first..last
    <3>1. i \in 1..Len(w)
      BY <2>1 DEF L
    <3> QED  BY <3>1, ElementOfSeq DEF Bytes
  <2>5. t \in Bytes /\ \A i \in 1..(last - first + 1) : t[i] = w[first + i - 1]
    BY <2>1, <2>4, SubSeqProperties DEF Bytes
  <2>6. Len(t) = n
    <3>1. Len(t) = IF first <= last THEN last - first + 1 ELSE 0
      BY <2>1, <2>4, SubSeqProperties
    <3> QED  BY <1>1, <2>1, <3>1
  <2> HIDE DEF t
  <2>7. \A i \in 1..n : t[i] = m.payload[i]
    <3> TAKE i \in 1..n
    <3>1. t[i] = w[(a - 1) + (2 + F + i)]
      BY <2>1, <2>2, <2>5
    <3>2. w[(a - 1) + (2 + F + i)] = p[2 + F + i]
      BY <1>3, <2>2
    <3>3. p[2 + F + i] = m.payload[i]
      BY <1>2
    <3> QED  BY <3>1, <3>2, <3>3
  <2>8. t = m.payload
    <3>1. t \in Seq(Byte) /\ m.payload \in Seq(Byte) /\ Len(t) = Len(m.payload)
          /\ \A i \in 1..Len(t) : t[i] = m.payload[i]
      BY <1>1, <2>5, <2>6, <2>7 DEF Bytes, n
    <3> QED  BY <3>1, SeqEqual
  <2> QED  BY <2>3, <2>8 DEF t
<1>15. w[a] - 128 = m.op
  BY <1>1, <1>7
<1> QED  BY <1>1, <1>12, <1>13, <1>14, <1>15 DEF ReadFrom

-----------------------------------------------------------------------------
(* The packets of the messages ms stand in w, one behind the other.        *)
Positions(w, ms, pos) ==
    /\ pos[1] = 1 /\ pos[Len(ms) + 1] = Len(w) + 1
    /\ \A i \in 1..Len(ms) : Stands(w, pos[i], pos[i + 1], ms[i])

Written(w, ms) == \E pos : Positions(w, ms, pos)

LEMMA OneMore ==
    ASSUME NEW S, NEW s \in Seq(S), NEW i \in 1..Len(s)
    PROVE  <<s[i]>> \o SubSeq(s, i + 1, Len(s)) = SubSeq(s, i, Len(s))
<1> DEFINE n == Len(s)
           rest == SubSeq(s, i + 1, n)
           all == SubSeq(s, i, n)
           one == <<s[i]>>
<1>1. n \in Nat /\ i \in Nat /\ i >= 1 /\ i <= n /\ s[i] \in S
  BY ElementOfSeq
<1>2. \A j \in i..n : s[j] \in S
  BY <1>1, ElementOfSeq
<1>3. all \in Seq(S) /\ Len(all) = n - i + 1 /\ \A j \in 1..(n - i + 1) : all[j] = s[i + j - 1]
  BY <1>1, <1>2, SubSeqProperties
<1>4. /\ rest \in Seq(S) /\ Len(rest) = IF i + 1 <= n THEN n - (i + 1) + 1 ELSE 0
      /\ \A j \in 1..(n - (i + 1) + 1) : rest[j] = s[(i + 1) + j - 1]
  BY <1>1, <1>2, SubSeqProperties
<1>5. one \in Seq(S) /\ Len(one) = 1 /\ one[1] = s[i]
  BY <1>1
<1> HIDE DEF rest, all, one, n
<1>6. Len(rest) = n - i
  BY <1>1, <1>4
<1>7. /\ one \o rest \in Seq(S) /\ Len(one \o rest) = 1 + Len(rest)
      /\ \A j \in 1..(1 + Len(rest)) :
           (one \o rest)[j] = IF j <= 1 THEN one[j] ELSE rest[j - 1]
  <2>1. one \in Seq(S) /\ rest \in Seq(S) /\ Len(one) = 1
    BY <1>4, <1>5
  <2>2. /\ one \o rest \in Seq(S) /\ Len(one \o rest) = Len(one) + Len(rest)
        /\ \A j \in 1..(Len(one) + Len(rest)) :
             (one \o rest)[j] = IF j <= Len(one) THEN one[j] ELSE rest[j - Len(one)]
    BY <2>1, ConcatProperties
  <2> QED  BY <2>1, <2>2
<1>8. \A j \in 1..(n - i + 1) : (one \o rest)[j] = all[j]
  <2> TAKE j \in 1..(n - i + 1)
  <2>1. j \in 1..(1 + Len(rest))
    BY <1>1, <1>6
  <2>2. CASE j = 1
    <3>1. (one \o rest)[j] = s[i]
      BY <1>5, <1>7, <2>1, <2>2
    <3>2. all[j] = s[i]
      BY <1>1, <1>3, <2>2
    <3> QED  BY <3>1, <3>2
  <2>3. CASE j # 1
    <3>1. (one \o rest)[j] = rest[j - 1]
      BY <1>7, <2>1, <2>3
    <3>2. j - 1 \in 1..(n - (i + 1) + 1) /\ (i + 1) + (j - 1) - 1 = i + j - 1
      BY <1>1, <2>1, <2>3
    <3>3. rest[j - 1] = s[(i + 1) + (j - 1) - 1]
      BY <1>4, <3>2
    <3> QED  BY <1>3, <3>1, <3>2, <3>3
  <2> QED  BY <2>2, <2>3
<1>9. Len(one \o rest) = Len(all)
  BY <1>1, <1>3, <1>6, <1>7
<1>10. one \o rest = all
  BY <1>3, <1>7, <1>8, <1>9, <1>6, <1>1, SeqEqual
<1> QED  BY <1>10 DEF one, rest, all, n

(* Then these are the messages that the client reads. *)
LEMMA WrittenIsRead ==
    ASSUME NEW w \in Bytes, NEW ms \in Seq(Sendable), Written(w, ms)
    PROVE  RfcMessages(w) = ms
<1> DEFINE n == Len(ms)
<1>1. n \in Nat
  OBVIOUS
<1>2. PICK pos : Positions(w, ms, pos)
  BY DEF Written
<1>3. PICK from : /\ RfcMessages(w) = from[1]
                  /\ \A i \in Nat \ {0} : from[i] = ReadFrom(w, from, i)
  BY RfcMessagesReads
<1>4. /\ pos[1] = 1 /\ pos[n + 1] = Len(w) + 1
      /\ \A i \in 1..n : Stands(w, pos[i], pos[i + 1], ms[i])
  BY <1>2 DEF Positions
<1> DEFINE ReadsTail(d) == from[pos[n + 1 - d]] = SubSeq(ms, n + 1 - d, n)
           T == {d \in Nat : d <= n => ReadsTail(d)}
<1>5. 0 \in T
  <2>1. n + 1 - 0 = n + 1 /\ Len(w) \in Nat /\ Len(w) + 1 > Len(w)
    BY <1>1, BytesProperties
  <2>2. from[Len(w) + 1] = <<>>
    <3>1. Len(w) + 1 \in Nat \ {0}
      BY <2>1
    <3>2. from[Len(w) + 1] = ReadFrom(w, from, Len(w) + 1)
      BY <1>3, <3>1
    <3> QED  BY <2>1, <3>2 DEF ReadFrom
  <2>3. SubSeq(ms, n + 1, n) = <<>>
    BY <1>1, SubSeqEmpty
  <2> QED  BY <1>4, <2>1, <2>2, <2>3
<1>6. ASSUME NEW d \in Nat, d \in T  PROVE d + 1 \in T
  <2> SUFFICES ASSUME d + 1 <= n
               PROVE  from[pos[n + 1 - (d + 1)]] = SubSeq(ms, n + 1 - (d + 1), n)
    <3> HIDE DEF n
    <3>1. ReadsTail(d + 1) => d + 1 \in T
      <4> HIDE DEF ReadsTail
      <4> QED  OBVIOUS
    <3>2. ~(d + 1 <= n) => d + 1 \in T
      <4> HIDE DEF ReadsTail
      <4> QED  OBVIOUS
    <3> HIDE DEF T
    <3> QED  BY <3>1, <3>2
  <2>1. from[pos[n + 1 - d]] = SubSeq(ms, n + 1 - d, n)
    <3>1. d <= n
      BY <1>1
    <3>2. ReadsTail(d)
      <4> HIDE DEF ReadsTail, n
      <4> QED  BY <1>6, <3>1
    <3> QED  BY <3>2
  <2> DEFINE i == n - d
  <2>2. i \in 1..n /\ i + 1 = n + 1 - d /\ i = n + 1 - (d + 1)
    BY <1>1
  <2>3. from[pos[i + 1]] = SubSeq(ms, i + 1, n)
    BY <2>1, <2>2
  <2> HIDE DEF i, T
  <2>4. Stands(w, pos[i], pos[i + 1], ms[i])
    BY <1>4, <2>2
  <2>5. ms[i] \in Sendable
    BY <2>2, ElementOfSeq
  <2>6. pos[i] \in Nat \ {0}
    BY <2>4 DEF Stands
  <2>7. from[pos[i]] = <<ms[i]>> \o from[pos[i + 1]]
    <3> DEFINE a == pos[i]
               b == pos[i + 1]
               m == ms[i]
    <3>0. Stands(w, a, b, m) /\ m \in Sendable
      BY <2>4, <2>5
    <3> HIDE DEF a, b, m
    <3>a. ReadFrom(w, from, a) = <<m>> \o from[b]
      BY <3>0, StandingIsRead
    <3>1. ReadFrom(w, from, pos[i]) = <<ms[i]>> \o from[pos[i + 1]]
      BY <3>a DEF a, b, m
    <3>2. from[pos[i]] = ReadFrom(w, from, pos[i])
      BY <1>3, <2>6
    <3> QED  BY <3>1, <3>2
  <2>8. <<ms[i]>> \o SubSeq(ms, i + 1, n) = SubSeq(ms, i, n)
    BY <2>2, OneMore
  <2> QED  BY <2>2, <2>3, <2>7, <2>8
<1> HIDE DEF T
<1>7. n \in T
  BY <1>1, <1>5, <1>6, NatSetInduction
<1>8. from[pos[n + 1 - n]] = SubSeq(ms, n + 1 - n, n)
  BY <1>1, <1>7 DEF T
<1>9. n + 1 - n = 1
  BY <1>1
<1>10. SubSeq(ms, 1, n) = ms
  BY SubSeqFull
<1> QED  BY <1>3, <1>4, <1>8, <1>9, <1>10

(* One more packet is written, and one more message is promised. *)
LEMMA WritesOn ==
    ASSUME NEW w \in Bytes, NEW ms \in Seq(Sendable), Written(w, ms), NEW m \in Sendable
    PROVE  /\ Written(w \o Packet(m.op, m.payload), Append(ms, m))
           /\ Append(ms, m) \in Seq(Sendable)
<1> DEFINE n == Len(ms)
           p == Packet(m.op, m.payload)
           L == Len(w)
           v == w \o p
           ns == Append(ms, m)
<1>1. n \in Nat /\ L \in Nat /\ p \in Bytes /\ Len(p) \in Nat
  <2>1. p \in Bytes
    BY SendableIs, PacketIsBytes
  <2> HIDE DEF p
  <2> QED  BY <2>1, BytesProperties
<1>2. PICK pos : Positions(w, ms, pos)
  BY DEF Written
<1>3. /\ pos[1] = 1 /\ pos[n + 1] = L + 1
      /\ \A i \in 1..n : Stands(w, pos[i], pos[i + 1], ms[i])
  BY <1>2 DEF Positions
<1>4. Len(v) = L + Len(p) /\ (\A i \in 1..L : v[i] = w[i]) /\ (\A i \in 1..Len(p) : v[L + i] = p[i])
  <2>1. w \in Seq(Byte) /\ p \in Seq(Byte)
    BY <1>1 DEF Bytes
  <2>2. Joined(v, w, p)
    BY <2>1, ConcatJoins
  <2> QED  BY <2>2 DEF Joined
<1>5. /\ Len(ns) = n + 1 /\ ns[n + 1] = m /\ (\A i \in 1..n : ns[i] = ms[i])
      /\ ns \in Seq(Sendable)
  OBVIOUS
<1> DEFINE next == [i \in 1..(n + 2) |-> IF i = n + 2 THEN L + 1 + Len(p) ELSE pos[i]]
<1>6. /\ \A i \in 1..(n + 1) : next[i] = pos[i]
      /\ next[n + 2] = L + 1 + Len(p)
  BY <1>1
<1> HIDE DEF next, p, L, v, ns, n
<1>7. \A i \in 1..(n + 1) : Stands(v, next[i], next[i + 1], ns[i])
  <2> TAKE i \in 1..(n + 1)
  <2>1. CASE i = n + 1
    <3>1. next[i] = L + 1 /\ next[i + 1] = L + 1 + Len(p) /\ ns[i] = m
      <4>1. n + 1 \in 1..(n + 1) /\ (n + 1) + 1 = n + 2
        BY <1>1
      <4> QED  BY <1>3, <1>5, <1>6, <2>1, <4>1
    <3>2. Len(v) = L + Len(p) /\ (L + 1) - 1 = L /\ L + 1 \in Nat \ {0}
          /\ L + 1 + Len(p) <= Len(v) + 1
      BY <1>1, <1>4
    <3>3. Stands(v, L + 1, L + 1 + Len(p), m)
      BY <1>4, <3>2 DEF Stands, p
    <3> QED  BY <3>1, <3>3
  <2>2. CASE i # n + 1
    <3>1. i \in 1..n /\ i + 1 \in 1..(n + 1)
      BY <1>1, <2>2
    <3>2. next[i] = pos[i] /\ next[i + 1] = pos[i + 1] /\ ns[i] = ms[i]
      BY <1>5, <1>6, <3>1
    <3> DEFINE a == pos[i]
               b == pos[i + 1]
               q == Packet(ms[i].op, ms[i].payload)
    <3>3. /\ a \in Nat \ {0} /\ b = a + Len(q) /\ b <= L + 1
          /\ \A x \in 1..Len(q) : w[(a - 1) + x] = q[x]
      BY <1>3, <3>1 DEF Stands, L
    <3>4. Len(q) \in Nat
      <4>1. ms[i] \in Sendable
        BY <3>1, ElementOfSeq DEF n
      <4> QED  BY <4>1, SendableIs, PacketIsBytes, BytesProperties
    <3> HIDE DEF a, b, q
    <3>5. b <= Len(v) + 1
      BY <1>1, <1>4, <3>3, <3>4
    <3>6. \A x \in 1..Len(q) : v[(a - 1) + x] = q[x]
      <4> TAKE x \in 1..Len(q)
      <4>1. (a - 1) + x \in 1..L
        BY <1>1, <3>3, <3>4
      <4> QED  BY <1>4, <3>3, <4>1
    <3>7. Stands(v, a, b, ms[i])
      BY <3>3, <3>5, <3>6 DEF Stands, q
    <3> QED  BY <3>2, <3>7 DEF a, b
  <2> QED  BY <2>1, <2>2
<1>8. next[1] = 1 /\ next[(n + 1) + 1] = Len(v) + 1
  <2>1. 1 \in 1..(n + 1) /\ (n + 1) + 1 = n + 2 /\ L + 1 + Len(p) = Len(v) + 1
    BY <1>1, <1>4
  <2> QED  BY <1>3, <1>6, <2>1
<1>9. Positions(v, ns, next)
  BY <1>5, <1>7, <1>8 DEF Positions
<1> QED  BY <1>5, <1>9 DEF Written, v, p, ns

(* The invariant of ReceivedAsSent: app has the kind of a data message, or *)
(* no data frame was seen yet; and the packets of the promised messages    *)
(* stand on the wire, one behind the other.                                *)

AppHasKind == app.op \in 1..7 \/ \A j \in seen : ~Data(j)

RInv ==
    /\ TypeOK
    /\ inStep /\ ~Orphan =>
         AppHasKind /\ promised \in Seq(Sendable) /\ Written(wire, promised)

LEMMA WritesNothing == Written(<<>>, <<>>)
<1> DEFINE pos == [i \in 1..1 |-> 1]
<1>1. pos[1] = 1 /\ Len(<<>>) = 0 /\ 0 + 1 = 1
  OBVIOUS
<1> HIDE DEF pos
<1>2. pos[Len(<<>>) + 1] = Len(<<>>) + 1
  BY <1>1
<1>3. \A i \in 1..Len(<<>>) : FALSE
  BY <1>1
<1>4. Positions(<<>>, <<>>, pos)
  BY <1>1, <1>2, <1>3 DEF Positions
<1> QED  BY <1>4 DEF Written

LEMMA RInvInit == Init => RInv
<1> SUFFICES ASSUME Init  PROVE RInv
  OBVIOUS
<1>1. TypeOK /\ seen = {} /\ wire = <<>> /\ promised = <<>>
  BY TypeInit DEF Init
<1>2. <<>> \in Seq(Sendable)
  OBVIOUS
<1> QED  BY <1>1, <1>2, WritesNothing DEF RInv, AppHasKind

LEMMA PayloadIsSendable ==
    ASSUME NEW f \in Fitting, NEW op \in 0..15
    PROVE  [op |-> op, payload |-> f.payload] \in Sendable
<1>1. f.payload \in Bytes /\ Len(f.payload) \in Nat /\ Fits(Len(f.payload), f.form)
      /\ f.form \in {0, 2, 8}
  BY FittingIs DEF Forms
<1>2. \A n \in Nat, form \in {0, 2, 8} : Fits(n, form) => Fits(n, 8)
  BY SMT DEF Fits
<1>3. Fits(Len(f.payload), 8)
  BY <1>1, <1>2
<1>4. [op |-> op, payload |-> f.payload] \in Message
  BY <1>1, IsMessage
<1> QED  BY <1>3, <1>4 DEF Sendable

(* A continuation is an orphan, or there was data before it. *)
LEMMA NoOrphan ==
    ASSUME NEW t, NEW k, NEW payload, NEW fin, Reads(t, k, payload, fin), ~Orphan'
    PROVE  /\ ~Orphan
           /\ script[t].op = Continuation => \E j \in seen : Data(j)
<1>1. /\ TypeOK /\ script' = script /\ taken \in Nat /\ t = taken + 1 /\ t \in Nat
      /\ seen' = seen \cup {t} /\ seen \subseteq 1..taken
  BY DEF Reads, TypeOK
<1>2. ~ \E j \in seen \cup {t} : /\ script[j].op = Continuation
                                 /\ \A i \in seen \cup {t} : i < j => ~Data(i)
  BY <1>1, ScriptStays DEF Orphan
<1>3. ~Orphan
  <2> SUFFICES ASSUME NEW j \in seen, script[j].op = Continuation,
                      \A i \in seen : i < j => ~Data(i)
               PROVE  FALSE
    BY DEF Orphan
  <2>1. ~(t < j)
    BY <1>1
  <2> QED  BY <1>2, <2>1
<1>4. ASSUME script[t].op = Continuation  PROVE \E j \in seen : Data(j)
  <2>1. PICK i \in seen \cup {t} : i < t /\ Data(i)
    BY <1>2, <1>4
  <2>2. i \in seen
    BY <1>1, <2>1
  <2> QED  BY <2>1, <2>2
<1> QED  BY <1>3, <1>4

(* The kind of the message that is put together: that of the frame, or     *)
(* that of the data before it.                                             *)
LEMMA JointHasKind ==
    ASSUME NEW t, NEW k, NEW payload, NEW fin, Reads(t, k, payload, fin), ~Orphan', AppHasKind
    PROVE  LET m == Joint(script[t].op, payload)
           IN /\ m.payload = IF script[t].op = Continuation THEN app.payload \o payload
                             ELSE payload
              /\ script[t].op # Continuation => m.op = script[t].op
              /\ script[t].op = Continuation => m.op \in 1..7
<1>1. TypeOK /\ payload \in Bytes
  BY DEF Reads
<1>2. CASE script[t].op # Continuation
  <2>1. Joint(script[t].op, payload) = [op |-> script[t].op, payload |-> payload]
    BY <1>1, <1>2, JointBy
  <2> QED  BY <1>2, <2>1
<1>3. CASE script[t].op = Continuation
  <2>1. Joint(script[t].op, payload) = [op |-> app.op, payload |-> app.payload \o payload]
    BY <1>1, <1>3, JointBy
  <2>2. app.op \in 1..7
    BY <1>3, NoOrphan DEF AppHasKind
  <2> QED  BY <1>3, <2>1, <2>2
<1> QED  BY <1>2, <1>3

LEMMA ReadAppHasKind ==
    ASSUME NEW t, NEW k, NEW payload, NEW fin, Reads(t, k, payload, fin), ~Orphan', AppHasKind
    PROVE  AppHasKind'
<1>1. /\ TypeOK /\ script' = script /\ seen' = seen \cup {t} /\ script[t].op \in 0..15
  BY FittingIs DEF Reads
<1> DEFINE m == Joint(script[t].op, payload)
<1>2. app' = IF isControlMessage(script[t].op) THEN app ELSE m
  BY DEF Reads, Takes
<1>3. /\ script[t].op # Continuation => m.op = script[t].op
      /\ script[t].op = Continuation => m.op \in 1..7
  BY JointHasKind
<1> HIDE DEF m
<1>4. CASE isControlMessage(script[t].op)
  <2>1. app' = app /\ ~Data(t)
    BY <1>1, <1>2, <1>4 DEF Data, isControlMessage, Close
  <2> QED  BY <1>1, <2>1, ScriptStays DEF AppHasKind
<1>5. CASE ~isControlMessage(script[t].op)
  <2>1. script[t].op \in 0..7
    BY <1>1, <1>5 DEF isControlMessage, Close
  <2>2. m.op \in 1..7
    BY <1>3, <2>1 DEF Continuation
  <2> QED  BY <1>2, <1>5, <2>2 DEF AppHasKind
<1> QED  BY <1>4, <1>5

(* A read writes the answer to the frame that it takes, and no other.      *)
LEMMA ReadWrites ==
    ASSUME NEW t, NEW k, NEW payload, NEW fin, Reads(t, k, payload, fin), ~Orphan', AppHasKind,
           promised \in Seq(Sendable), Written(wire, promised),
           promised' = promised \o Answer(script[t])
    PROVE  promised' \in Seq(Sendable) /\ Written(wire', promised')
<1> DEFINE f == script[t]
           m == Joint(f.op, payload)
<1>1. /\ TypeOK /\ wire \in Bytes /\ f \in Fitting /\ f.op \in 0..15
      /\ WellFormed(f) => payload = f.payload
  BY FittingIs DEF Reads, TypeOK
<1>2. wire' = IF WellFormed(f) THEN Answered(m) ELSE wire
  BY DEF Reads, Takes
<1>3. /\ f.op # Continuation => m.op = f.op /\ m.payload = payload
      /\ f.op = Continuation => m.op \in 1..7
  BY JointHasKind
<1> HIDE DEF m, f
<1>4. promised \o <<>> = promised
  BY ConcatEmptySeq
<1>5. CASE ~WellFormed(f)
  <2>1. Answer(f) = <<>>
    BY <1>5 DEF Answer
  <2>2. promised' = promised
    BY <1>4, <2>1 DEF f
  <2> QED  BY <1>2, <1>5, <2>2
<1>6. CASE WellFormed(f) /\ f.op \notin {Ping, Close}
  <2>1. Answer(f) = <<>>
    BY <1>6 DEF Answer
  <2>2. promised' = promised
    BY <1>4, <2>1 DEF f
  <2>3. m.op # Close /\ m.op # Ping
    BY <1>3, <1>6 DEF Close, Ping
  <2>4. Answered(m) = wire
    BY <2>3 DEF Answered
  <2> QED  BY <1>2, <1>6, <2>2, <2>4
<1>7. CASE WellFormed(f) /\ f.op \in {Ping, Close}
  <2> DEFINE op == IF f.op = Ping THEN Pong ELSE Close
             a == [op |-> op, payload |-> f.payload]
  <2>1. op \in 0..15
    BY DEF Pong, Close
  <2>2. a \in Sendable
    <3> HIDE DEF op
    <3> QED  BY <1>1, <2>1, PayloadIsSendable
  <2>3. Answer(f) = <<a>>
    BY <1>7 DEF Answer
  <2>4. m.op = f.op /\ m.payload = f.payload
    BY <1>1, <1>3, <1>7 DEF Ping, Close, Continuation
  <2>5. Answered(m) = wire \o Packet(op, f.payload)
    <3>1. CASE f.op = Ping
      <4>1. m.op = Ping /\ Ping # Close /\ op = Pong
        BY <2>4, <3>1 DEF Ping, Close
      <4> HIDE DEF op
      <4>2. Answered(m) = wire \o Packet(Pong, m.payload)
        BY <4>1 DEF Answered
      <4> QED  BY <2>4, <4>1, <4>2
    <3>2. CASE f.op = Close
      <4>1. m.op = Close /\ Ping # Close /\ op = Close
        BY <2>4, <3>2 DEF Ping, Close
      <4> HIDE DEF op
      <4>2. Answered(m) = wire \o Packet(Close, m.payload)
        BY <4>1 DEF Answered
      <4> QED  BY <2>4, <4>1, <4>2
    <3> QED  BY <1>7, <3>1, <3>2
  <2>6. a.op = op /\ a.payload = f.payload
    OBVIOUS
  <2> HIDE DEF op, a
  <2>7. wire' = wire \o Packet(a.op, a.payload)
    BY <1>2, <1>7, <2>5, <2>6
  <2>8. promised' = Append(promised, a)
    <3>1. promised' = promised \o <<a>>
      BY <2>3 DEF f
    <3>2. promised \o <<a>> = Append(promised, a)
      BY <2>2, AppendIsConcat
    <3> QED  BY <3>1, <3>2
  <2> QED  BY <1>1, <2>2, <2>7, <2>8, WritesOn
<1> QED  BY <1>5, <1>6, <1>7

-----------------------------------------------------------------------------
LEMMA ReadRInv == ASSUME RInv, ReadWebsocket  PROVE RInv'
<1>1. TypeOK /\ TypeOK'
  BY TypeRead DEF RInv
<1>2. PICK n, k : Read(n, k)
  BY ReadWebsocketReads
<1>3. SUFFICES ASSUME inStep', ~Orphan'
               PROVE  AppHasKind' /\ promised' \in Seq(Sendable) /\ Written(wire', promised')
  BY <1>1 DEF RInv, Written, Positions, Stands, Packet
<1> DEFINE t == taken + 1
<1>4. k \in 1..Remaining /\ k > 0
  <2>1. k \in 1..Remaining
    BY <1>1, <1>2, <1>3, ReadInStep
  <2> QED  BY <1>1, <1>2, <2>1, ReadIs
<1>5. PICK payload \in Bytes, fin \in BOOLEAN :
        /\ Takes(script[t].op, payload, fin, WellFormed(script[t]))
        /\ WellFormed(script[t]) => payload = script[t].payload /\ (fin <=> script[t].fin)
  BY <1>1, <1>2, <1>3, ReadInStep
<1>6. /\ Remaining \in Nat /\ t \in 1..Len(script) /\ script[t] \in Fitting
  BY <1>1, <1>2, ReadIs
<1>7. t \in Nat /\ Len(script) \in Nat
  BY <1>1, ScriptIs DEF TypeOK
<1>8. /\ inStep /\ socket = "open" /\ script' = script /\ taken' = taken + k
      /\ seen' = seen \cup {t} /\ promised' = promised \o Answer(script[t])
  BY <1>2, <1>4 DEF Read
<1>9. t = taken + 1
  OBVIOUS
<1> HIDE DEF t
<1>10. Reads(t, k, payload, fin)
  BY <1>1, <1>3, <1>4, <1>5, <1>6, <1>7, <1>8, <1>9 DEF Reads
<1>11. ~Orphan
  BY <1>3, <1>10, NoOrphan
<1>12. AppHasKind /\ promised \in Seq(Sendable) /\ Written(wire, promised)
  BY <1>8, <1>11 DEF RInv
<1> QED  BY <1>3, <1>8, <1>10, <1>12, ReadAppHasKind, ReadWrites

LEMMA SendRInv ==
    ASSUME RInv, NEW op \in 0..15, NEW payload \in Bytes, Fits(Len(payload), 8),
           Send(op, payload)
    PROVE  RInv'
<1>1. TypeOK' /\ wire \in Bytes /\ inStep
  BY TypeSend DEF RInv, TypeOK, Send
<1>2. Orphan' = Orphan /\ AppHasKind' = AppHasKind
  BY DEF Send, Orphan, AppHasKind, Data
<1>3. SUFFICES ASSUME ~Orphan
               PROVE  AppHasKind /\ promised' \in Seq(Sendable) /\ Written(wire', promised')
  BY <1>1, <1>2 DEF RInv, Written, Positions, Stands, Packet
<1>4. AppHasKind /\ promised \in Seq(Sendable) /\ Written(wire, promised)
  BY <1>1, <1>3 DEF RInv
<1> DEFINE m == [op |-> op, payload |-> payload]
<1>5. m \in Sendable
  BY IsMessage DEF Sendable
<1>6. wire' = wire \o Packet(m.op, m.payload) /\ promised' = Append(promised, m)
  BY DEF Send
<1> HIDE DEF m
<1> QED  BY <1>1, <1>4, <1>5, <1>6, WritesOn

LEMMA NextRInv == RInv /\ [Next]_vars => RInv'
<1> SUFFICES ASSUME RInv, [Next]_vars  PROVE RInv'
  OBVIOUS
<1>1. CASE ReadWebsocket
  BY <1>1, ReadRInv
<1>2. ASSUME NEW m \in AppMessages, sendSocketMessage(m)  PROVE RInv'
  <2>1. m.op \in 0..15 /\ m.payload \in Bytes /\ Fits(Len(m.payload), 8)
    BY SendIs
  <2> QED  BY <1>2, <2>1, SendRInv DEF sendSocketMessage
<1>3. ASSUME NEW reason \in CloseReasons, closeSocketConnection(reason)  PROVE RInv'
  <2> DEFINE payload == <<reason.status \div 256, reason.status % 256>> \o reason.body
  <2>1. payload \in Bytes /\ Fits(Len(payload), 8) /\ Send(Close, payload)
    BY <1>3, SendIs DEF closeSocketConnection
  <2>2. Close \in 0..15
    BY DEF Close
  <2> HIDE DEF payload
  <2> QED  BY <2>1, <2>2, SendRInv
<1>4. CASE UNCHANGED vars
  <2>1. TypeOK'
    BY <1>4, TypeNext DEF RInv
  <2>2. /\ Orphan' = Orphan /\ AppHasKind' = AppHasKind /\ inStep' = inStep
        /\ wire' = wire /\ promised' = promised
    BY <1>4 DEF vars, Orphan, AppHasKind, Data
  <2>3. Written(wire, promised)' = Written(wire, promised)
    BY <2>2 DEF Written, Positions, Stands, Packet
  <2> QED  BY <2>1, <2>2, <2>3 DEF RInv
<1> QED  BY <1>1, <1>2, <1>3, <1>4 DEF Next

(* A client that follows the RFC finds in the bytes of the server an       *)
(* answer to every ping and close that the server saw and every message    *)
(* of the application, of any length below 4 GB, in order.                 *)
THEOREM MessagesAreReceived == Spec => []ReceivedAsSent
<1>1. Init => RInv
  BY RInvInit
<1>2. RInv /\ [Next]_vars => RInv'
  BY NextRInv
<1>3. RInv => ReceivedAsSent
  BY WrittenIsRead DEF RInv, ReceivedAsSent, TypeOK
<1> QED  BY <1>1, <1>2, <1>3, PTL DEF Spec
=============================================================================
