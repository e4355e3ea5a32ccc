---------------------------- MODULE CgiRelay_proof ----------------------------
(* What reaches the client is what the script printed, in whatever chunks  *)
(* it arrives, for every output.                                           *)
EXTENDS CgiRelay, SequenceTheorems, FiniteSetTheorems, TLAPS

(* The pieces in s are in order, and have numbers in lo+1 .. hi. *)
Ordered(s, lo, hi) ==
    /\ \A i \in 1..Len(s) : s[i].t = "piece" => lo < s[i].code /\ s[i].code <= hi
    /\ \A i, j \in 1..Len(s) :
          i < j /\ s[i].t = "piece" /\ s[j].t = "piece" => s[i].code < s[j].code

NoStatus(s) == \A i \in 1..Len(s) : s[i].t # "status"

Has(s, i) == \E k \in 1..Len(s) : s[k] = At(i)

(* All that was read was sent, but for one empty line. *)
Complete(s, r) ==
    \E e \in 0..r :
        /\ e # 0 => output[e] \in {"blank", "newline"}
        /\ \A i \in 1..r : i = e \/ Has(s, i)

(* Headers that were read are kept until they are complete, and then sent. *)
Relayed(socket, r, active, headers, s) ==
    /\ headers \in Seq(Item) /\ s \in Seq(Item)
    /\ Ordered(headers, 0, r) /\ NoStatus(headers) /\ Ordered(s, 0, r)
    /\ active => \A i \in 1..r : Has(headers, i)
    /\ socket = "open" /\ active => s = <<>>
    /\ socket = "open" /\ ~active => Complete(s, r)

(* An answer begins with its status; an error is the end of it. *)
Marked(socket, s) ==
    \A i \in 1..Len(s) :
        s[i].t = "status" => \/ s[i].code = 200 /\ i = 1
                             \/ s[i].code = 500 /\ i = Len(s) /\ socket # "open"

Told(s) == \E i \in 1..Len(s) : s[i] = Status(500)

Typed ==
    /\ output \in Outputs /\ post \in BOOLEAN
    /\ verdict \in {"ok", "nonzero", "crash", "no program"}
    /\ proc \in {"starting", "running", "crashed", "ended"}
    /\ sock \in {"open", "closed", "gone"}
    /\ conn_cgi_headers_active \in BOOLEAN

Bounds == written \in 0..Len(output) /\ read \in 0..written

Ending ==
    /\ proc = "ended" => sock # "open"
    /\ sock = "closed" /\ verdict # "ok" => Told(sent)

(* A connection is closed after an error, or by the last relay. *)
Closing ==
    sock = "closed" =>
        \/ Told(sent)
        \/ proc = "ended" /\ (~conn_cgi_headers_active => Complete(sent, read))

IInv ==
    /\ Typed /\ Bounds /\ Ending /\ Closing
    /\ Relayed(sock, read, conn_cgi_headers_active, conn_cgi_headers, sent)
    /\ Marked(sock, sent)

-----------------------------------------------------------------------------
(* Sequences of what is sent.                                              *)

(* u is s with t behind it. *)
Joined(u, s, t) ==
    /\ u \in Seq(Item) /\ Len(u) = Len(s) + Len(t)
    /\ Len(s) \in Nat /\ Len(t) \in Nat
    /\ \A i \in 1..Len(s) : u[i] = s[i]
    /\ \A i \in 1..Len(t) : u[Len(s) + i] = t[i]

LEMMA ConcatJoins ==
    ASSUME NEW s \in Seq(Item), NEW t \in Seq(Item), NEW u, u = s \o t
    PROVE  Joined(u, s, t)
<1>1. /\ s \o t \in Seq(Item) /\ Len(s \o t) = Len(s) + Len(t)
      /\ \A i \in 1..Len(s) + Len(t) :
           (s \o t)[i] = IF i <= Len(s) THEN s[i] ELSE t[i - Len(s)]
  BY ConcatProperties
<1>2. Len(s) \in Nat /\ Len(t) \in Nat
  OBVIOUS
<1>3. ASSUME NEW i \in 1..Len(s)  PROVE  u[i] = s[i]
  BY SMT, <1>1, <1>2
<1>4. ASSUME NEW i \in 1..Len(t)  PROVE  u[Len(s) + i] = t[i]
  <2>1. /\ Len(s) + i \in 1..Len(s) + Len(t) /\ ~ Len(s) + i <= Len(s)
        /\ (Len(s) + i) - Len(s) = i
    BY SMT, <1>2
  <2>2. (s \o t)[Len(s) + i] = t[(Len(s) + i) - Len(s)]
    BY <1>1, <2>1
  <2> QED  BY <2>1, <2>2
<1> QED  BY <1>1, <1>2, <1>3, <1>4 DEF Joined

(* An element of u is one of s or one of t. *)
LEMMA JoinedElement ==
    ASSUME NEW u, NEW s, NEW t, Joined(u, s, t), NEW i \in 1..Len(u)
    PROVE  \/ i \in 1..Len(s) /\ u[i] = s[i]
           \/ i > Len(s) /\ i - Len(s) \in 1..Len(t) /\ u[i] = t[i - Len(s)]
<1>1. Len(s) \in Nat /\ Len(t) \in Nat /\ Len(u) = Len(s) + Len(t)
  BY DEF Joined
<1>2. CASE i <= Len(s)
  <2>1. i \in 1..Len(s)
    BY SMT, <1>1, <1>2
  <2> QED  BY <2>1 DEF Joined
<1>3. CASE i > Len(s)
  <2>1. i - Len(s) \in 1..Len(t) /\ Len(s) + (i - Len(s)) = i
    BY SMT, <1>1, <1>3
  <2>2. u[Len(s) + (i - Len(s))] = t[i - Len(s)]
    BY <2>1 DEF Joined
  <2> QED  BY <1>3, <2>1, <2>2
<1> QED  BY SMT, <1>1, <1>2, <1>3

LEMMA ItemHasCode ==
    ASSUME NEW s \in Seq(Item), NEW i \in 1..Len(s)
    PROVE  s[i].code \in Int
<1>1. s[i] \in Item
  BY ElementOfSeq
<1> QED  BY <1>1 DEF Item

LEMMA JoinedOrdered ==
    ASSUME NEW s \in Seq(Item), NEW t \in Seq(Item), NEW u, Joined(u, s, t),
           NEW lo \in Int, NEW mid \in Int, NEW hi \in Int, lo <= mid, mid <= hi,
           Ordered(s, lo, mid), Ordered(t, mid, hi)
    PROVE  Ordered(u, lo, hi)
<1>1. ASSUME NEW i \in 1..Len(u), u[i].t = "piece"
      PROVE  lo < u[i].code /\ u[i].code <= hi
  <2>0. u[i].code \in Int
    BY ItemHasCode DEF Joined
  <2>1. CASE i \in 1..Len(s) /\ u[i] = s[i]
    <3>1. lo < u[i].code /\ u[i].code <= mid
      BY <1>1, <2>1 DEF Ordered
    <3> QED  BY SMT, <2>0, <3>1
  <2>2. CASE i - Len(s) \in 1..Len(t) /\ u[i] = t[i - Len(s)]
    <3>1. mid < u[i].code /\ u[i].code <= hi
      BY <1>1, <2>2 DEF Ordered
    <3> QED  BY SMT, <2>0, <3>1
  <2> QED  BY <2>1, <2>2, JoinedElement
<1>2. ASSUME NEW i \in 1..Len(u), NEW j \in 1..Len(u), i < j,
             u[i].t = "piece", u[j].t = "piece"
      PROVE  u[i].code < u[j].code
  <2>0. u[i].code \in Int /\ u[j].code \in Int
    BY ItemHasCode DEF Joined
  <2>1. CASE i \in 1..Len(s) /\ u[i] = s[i] /\ j \in 1..Len(s) /\ u[j] = s[j]
    BY <1>2, <2>1 DEF Ordered
  <2>2. CASE /\ i - Len(s) \in 1..Len(t) /\ u[i] = t[i - Len(s)]
             /\ j - Len(s) \in 1..Len(t) /\ u[j] = t[j - Len(s)]
    <3>1. i - Len(s) < j - Len(s)
      BY SMT, <1>2 DEF Joined
    <3> QED  BY <1>2, <2>2, <3>1 DEF Ordered
  <2>3. CASE i \in 1..Len(s) /\ u[i] = s[i] /\ j - Len(s) \in 1..Len(t) /\ u[j] = t[j - Len(s)]
    <3>1. u[i].code <= mid
      BY <1>2, <2>3 DEF Ordered
    <3>2. mid < u[j].code
      BY <1>2, <2>3 DEF Ordered
    <3> QED  BY SMT, <2>0, <3>1, <3>2
  <2>4. ~ (i > Len(s) /\ j \in 1..Len(s))
    BY SMT, <1>2 DEF Joined
  <2> QED  BY <2>1, <2>2, <2>3, <2>4, JoinedElement
<1> QED  BY <1>1, <1>2 DEF Ordered

LEMMA Widened ==
    ASSUME NEW s \in Seq(Item), NEW lo \in Int, NEW mid \in Int, NEW hi \in Int,
           mid <= hi, Ordered(s, lo, mid)
    PROVE  Ordered(s, lo, hi)
<1>1. ASSUME NEW i \in 1..Len(s), s[i].t = "piece"
      PROVE  lo < s[i].code /\ s[i].code <= hi
  <2>1. s[i].code \in Int
    BY ItemHasCode
  <2>2. lo < s[i].code /\ s[i].code <= mid
    BY <1>1 DEF Ordered
  <2> QED  BY SMT, <2>1, <2>2
<1> QED  BY <1>1 DEF Ordered

LEMMA JoinedNoStatus ==
    ASSUME NEW u, NEW s, NEW t, Joined(u, s, t), NoStatus(s), NoStatus(t)
    PROVE  NoStatus(u)
  BY JoinedElement DEF NoStatus

LEMMA JoinedHas ==
    ASSUME NEW u, NEW s, NEW t, Joined(u, s, t), NEW i, Has(s, i) \/ Has(t, i)
    PROVE  Has(u, i)
<1>1. CASE Has(s, i)
  <2>1. PICK k \in 1..Len(s) : s[k] = At(i)
    BY <1>1 DEF Has
  <2>2. k \in 1..Len(u)
    BY SMT DEF Joined
  <2>3. u[k] = s[k]
    BY DEF Joined
  <2> QED  BY <2>1, <2>2, <2>3 DEF Has
<1>2. CASE Has(t, i)
  <2>1. PICK k \in 1..Len(t) : t[k] = At(i)
    BY <1>2 DEF Has
  <2>2. Len(s) + k \in 1..Len(u)
    BY SMT DEF Joined
  <2>3. u[Len(s) + k] = t[k]
    BY DEF Joined
  <2> QED  BY <2>1, <2>2, <2>3 DEF Has
<1> QED  BY <1>1, <1>2

LEMMA StatusStays ==
    ASSUME NEW u, NEW s, NEW t, Joined(u, s, t), NoStatus(t),
           NEW i \in 1..Len(u), u[i].t = "status"
    PROVE  i \in 1..Len(s) /\ u[i] = s[i]
<1>1. ~ (i - Len(s) \in 1..Len(t) /\ u[i] = t[i - Len(s)])
  BY DEF NoStatus
<1> QED  BY <1>1, JoinedElement

(* A function on an initial segment of the numbers is a sequence. *)
LEMMA FunctionIsSeq ==
    ASSUME NEW n \in Nat, NEW S, NEW s \in [1..n -> S]
    PROVE  s \in Seq(S) /\ Len(s) = n
  OBVIOUS

(* The pieces i .. j. *)
LEMMA UptoPieces ==
    ASSUME NEW i \in Nat \ {0}, NEW j \in Nat
    PROVE  /\ Upto(i, j) \in Seq(Item)
           /\ Ordered(Upto(i, j), i - 1, j) /\ NoStatus(Upto(i, j))
           /\ \A k \in i..j : Has(Upto(i, j), k)
<1> DEFINE n == IF j < i THEN 0 ELSE j - i + 1
           s == Upto(i, j)
<1>1. n \in Nat /\ s = [k \in 1..n |-> At(i + k - 1)]
  BY DEF Upto
<1>2. \A k \in 1..n : i + k - 1 \in Nat /\ i - 1 < i + k - 1 /\ i + k - 1 <= j
  BY SMT
<1>3. \A k \in i..j : k - i + 1 \in 1..n /\ i + (k - i + 1) - 1 = k
  BY SMT
<1> HIDE DEF n, s
<1>4. ASSUME NEW k \in 1..n
      PROVE  /\ s[k] = At(i + k - 1) /\ s[k] \in Item
             /\ s[k].t = "piece" /\ s[k].code = i + k - 1
  <2>1. s[k] = At(i + k - 1) /\ i + k - 1 \in Nat
    BY <1>1, <1>2
  <2> QED  BY <2>1 DEF At, Item
<1>5. s \in [1..n -> Item]
  BY <1>1, <1>4
<1>6. s \in Seq(Item) /\ Len(s) = n
  BY <1>1, <1>5, FunctionIsSeq
<1>8. Ordered(s, i - 1, j)
  <2>1. \A k \in 1..n : i - 1 < s[k].code /\ s[k].code <= j
    BY <1>2, <1>4
  <2>2. ASSUME NEW k \in 1..n, NEW l \in 1..n, k < l  PROVE  s[k].code < s[l].code
    <3>1. i + k - 1 < i + l - 1
      BY SMT, <1>1, <2>2
    <3> QED  BY <1>4, <3>1
  <2> QED  BY <1>6, <2>1, <2>2 DEF Ordered
<1>9. NoStatus(s)
  BY <1>4, <1>6 DEF NoStatus
<1>10. ASSUME NEW k \in i..j  PROVE  Has(s, k)
  <2>1. k - i + 1 \in 1..n /\ s[k - i + 1] = At(i + (k - i + 1) - 1)
    BY <1>3, <1>4
  <2>2. s[k - i + 1] = At(k)
    BY <1>3, <2>1
  <2> QED  BY <1>6, <2>1, <2>2 DEF Has
<1> QED  BY <1>6, <1>8, <1>9, <1>10 DEF s

LEMMA OneItem ==
    ASSUME NEW x \in Item, x.t # "piece", NEW n \in Int, NEW s, s = <<x>>
    PROVE  s \in Seq(Item) /\ Len(s) = 1 /\ s[1] = x /\ Ordered(s, n, n)
  BY DEF Ordered

LEMMA MarksAreItems ==
    /\ Status(200) \in Item /\ Status(500) \in Item /\ End \in Item
    /\ Status(200).t = "status" /\ Status(200).code = 200
    /\ Status(500).t = "status" /\ Status(500).code = 500
    /\ End.t = "end"
  BY DEF Item, Status, End

StatusFirst(s) == \A i \in 1..Len(s) : s[i].t = "status" => s[i].code = 200 /\ i = 1

LEMMA AnswerStatus ==
    ASSUME NEW first, NEW h, NEW last, NEW t, NEW a, NEW b, NEW s,
           Joined(a, first, h), Joined(b, a, last), Joined(s, b, t),
           NoStatus(h), NoStatus(last), NoStatus(t), Len(first) = 1, first[1] = Status(200)
    PROVE  StatusFirst(s)
<1> SUFFICES ASSUME NEW i \in 1..Len(s), s[i].t = "status"
             PROVE  s[i].code = 200 /\ i = 1
  BY DEF StatusFirst
<1>1. i \in 1..Len(b) /\ s[i] = b[i]
  BY StatusStays
<1>2. i \in 1..Len(a) /\ b[i] = a[i]
  BY <1>1, StatusStays
<1>3. i \in 1..Len(first) /\ a[i] = first[i]
  BY <1>1, <1>2, StatusStays
<1>4. i = 1
  BY SMT, <1>3
<1> QED  BY <1>1, <1>2, <1>3, <1>4, MarksAreItems

(* The answer up to the end of its headers, and the text that has come.    *)
Begun(h, t, w, s) ==
    /\ s \in Seq(Item) /\ Ordered(s, 0, w)
    /\ \A i : Has(h, i) \/ Has(t, i) => Has(s, i)
    /\ StatusFirst(s)

LEMMA AnswerBegins ==
    ASSUME NEW h \in Seq(Item), NEW t \in Seq(Item), NEW r \in Nat, NEW w \in Nat, r <= w,
           Ordered(h, 0, r), NoStatus(h), Ordered(t, r, w), NoStatus(t),
           NEW s, s = <<Status(200)>> \o h \o <<End>> \o t
    PROVE  Begun(h, t, w, s)
<1> DEFINE first == <<Status(200)>>
           last  == <<End>>
           a     == first \o h
           b     == a \o last
<1>1. s = b \o t
  OBVIOUS
<1>2. first \in Seq(Item) /\ Len(first) = 1 /\ first[1] = Status(200) /\ Ordered(first, 0, 0)
  <2>1. Status(200) \in Item /\ Status(200).t # "piece"
    BY MarksAreItems
  <2> HIDE DEF a, b
  <2> QED  BY <2>1, OneItem
<1>3. last \in Seq(Item) /\ Len(last) = 1 /\ last[1] = End /\ Ordered(last, r, r)
  <2>1. End \in Item /\ End.t # "piece"
    BY MarksAreItems
  <2> HIDE DEF a, b
  <2> QED  BY <2>1, OneItem
<1> HIDE DEF first, last
<1>4. NoStatus(last)
  BY <1>3, MarksAreItems DEF NoStatus
<1>5. Joined(a, first, h)
  BY <1>2, ConcatJoins
<1> HIDE DEF a
<1>6. a \in Seq(Item)
  BY <1>5 DEF Joined
<1>7. Joined(b, a, last)
  BY <1>3, <1>6, ConcatJoins
<1> HIDE DEF b
<1>8. b \in Seq(Item)
  BY <1>7 DEF Joined
<1>9. Joined(s, b, t)
  BY <1>1, <1>8, ConcatJoins
<1>10. s \in Seq(Item)
  BY <1>9 DEF Joined
<1>11. Ordered(a, 0, r)
  BY <1>2, <1>5, JoinedOrdered
<1>12. Ordered(b, 0, r)
  BY <1>3, <1>6, <1>7, <1>11, JoinedOrdered
<1>13. Ordered(s, 0, w)
  BY <1>8, <1>9, <1>12, JoinedOrdered
<1>14. \A i : Has(h, i) \/ Has(t, i) => Has(s, i)
  BY <1>5, <1>7, <1>9, JoinedHas
<1>15. StatusFirst(s)
  BY <1>2, <1>4, <1>5, <1>7, <1>9, AnswerStatus
<1> QED  BY <1>10, <1>13, <1>14, <1>15 DEF Begun

-----------------------------------------------------------------------------
LEMMA Lengths ==
    ASSUME IInv
    PROVE  /\ output \in Seq(Piece) /\ Len(output) \in Nat
           /\ written \in Nat /\ read \in Nat /\ read <= written /\ written <= Len(output)
<1>1. output \in Seq(Piece)
  BY OutputsAssumption DEF IInv, Typed
<1>2. Len(output) \in Nat
  BY <1>1, LenProperties
<1>3. written \in 0..Len(output) /\ read \in 0..written
  BY DEF IInv, Bounds
<1> QED  BY <1>1, <1>2, <1>3

LEMMA Lines ==
    ASSUME IInv, NEW w \in written..Len(output)
    PROVE  /\ w \in Nat /\ read \in Nat /\ read <= w
           /\ EmptyLine(w) => \/ w = read /\ LineLength(w) = 0
                              \/ /\ read + 1 <= w /\ LineLength(w) = 1
                                 /\ output[read + 1] \in {"blank", "newline"}
           /\ ~EmptyLine(w) => LineLength(w) \in Nat /\ read + LineLength(w) <= w
<1>1. w \in Nat /\ read \in Nat /\ read <= w
  <2>1. w \in written..Len(output) /\ written \in 0..Len(output) /\ read \in 0..written
    BY DEF IInv, Bounds
  <2> QED  BY SMT, <2>1, Lengths
<1>2. CASE w = read
  BY <1>1, <1>2 DEF EmptyLine, LineLength
<1>3. CASE w = read + 1
  BY <1>1, <1>3 DEF EmptyLine, LineLength
<1>4. CASE w > read + 1
  BY <1>1, <1>4 DEF EmptyLine, LineLength
<1> QED  BY SMT, <1>1, <1>2, <1>3, <1>4

(* The state after a part of the output was handled. *)
After(w) ==
    /\ read' \in read..w
    /\ conn_cgi_headers_active' \in BOOLEAN
    /\ Relayed(sock, read', conn_cgi_headers_active', conn_cgi_headers', sent')
    /\ Marked(sock, sent')
    /\ sock # "open" => sent' = sent

LEMMA HeaderKept ==
    ASSUME IInv, NEW w \in written..Len(output), Relay(w),
           conn_cgi_headers_active, ~EmptyLine(w)
    PROVE  After(w)
<1> DEFINE n == LineLength(w)
           line == Upto(read + 1, read + n)
<1>1. /\ conn_cgi_headers' = conn_cgi_headers \o line
      /\ read' = read + n /\ conn_cgi_headers_active' = TRUE /\ sent' = sent
  BY DEF Relay, IInv, Typed
<1>2. n \in Nat /\ read \in Nat /\ w \in Nat /\ read + n <= w
  BY Lines
<1> HIDE DEF n
<1>3. /\ read + 1 \in Nat \ {0} /\ read + n \in Nat /\ (read + 1) - 1 = read
      /\ read <= read + n
  BY SMT, <1>2
<1>4. /\ line \in Seq(Item) /\ Ordered(line, read, read + n) /\ NoStatus(line)
      /\ \A k \in (read + 1)..(read + n) : Has(line, k)
  BY <1>3, UptoPieces
<1> HIDE DEF line
<1>5. /\ conn_cgi_headers \in Seq(Item) /\ sent \in Seq(Item)
      /\ Ordered(conn_cgi_headers, 0, read) /\ NoStatus(conn_cgi_headers)
      /\ Ordered(sent, 0, read) /\ Marked(sock, sent)
      /\ \A i \in 1..read : Has(conn_cgi_headers, i)
      /\ sock = "open" => sent = <<>>
  BY DEF IInv, Relayed
<1>6. Joined(conn_cgi_headers', conn_cgi_headers, line)
  BY <1>1, <1>4, <1>5, ConcatJoins
<1>7. conn_cgi_headers' \in Seq(Item)
  BY <1>6 DEF Joined
<1>8. Ordered(conn_cgi_headers', 0, read + n)
  BY <1>2, <1>3, <1>4, <1>5, <1>6, JoinedOrdered
<1>9. NoStatus(conn_cgi_headers')
  BY <1>4, <1>5, <1>6, JoinedNoStatus
<1>10. Ordered(sent, 0, read + n)
  BY <1>2, <1>3, <1>5, Widened
<1>11. ASSUME NEW i \in 1..(read + n)  PROVE  Has(conn_cgi_headers', i)
  <2>1. i \in 1..read \/ i \in (read + 1)..(read + n)
    BY SMT, <1>2
  <2> QED  BY <1>4, <1>5, <1>6, <2>1, JoinedHas
<1>12. read + n \in read..w
  BY SMT, <1>2
<1> QED  BY <1>1, <1>5, <1>7, <1>8, <1>9, <1>10, <1>11, <1>12 DEF After, Relayed

LEMMA AnswerSent ==
    ASSUME IInv, NEW w \in written..Len(output), Relay(w),
           conn_cgi_headers_active, EmptyLine(w)
    PROVE  After(w)
<1> DEFINE n == LineLength(w)
           r == read + n
           text == Upto(read + 1 + n, w)
           items == <<Status(200)>> \o conn_cgi_headers \o <<End>> \o text
<1>1. /\ sent' = IF sock = "open" THEN sent \o items ELSE sent
      /\ read' = w /\ conn_cgi_headers_active' = FALSE /\ conn_cgi_headers' = conn_cgi_headers
  BY DEF Relay, Write, IInv, Typed
<1>2. /\ read \in Nat /\ w \in Nat /\ read <= w
      /\ \/ w = read /\ n = 0
         \/ read + 1 <= w /\ n = 1 /\ output[read + 1] \in {"blank", "newline"}
  BY Lines
<1> HIDE DEF n
<1>3. /\ r \in Nat /\ read <= r /\ r <= w
      /\ read + 1 + n \in Nat \ {0} /\ (read + 1 + n) - 1 = r
  BY SMT, <1>2
<1>4. /\ text \in Seq(Item) /\ Ordered(text, r, w) /\ NoStatus(text)
      /\ \A k \in (read + 1 + n)..w : Has(text, k)
  <2> HIDE DEF r
  <2> QED  BY <1>2, <1>3, UptoPieces
<1> HIDE DEF r, text
<1>5. /\ conn_cgi_headers \in Seq(Item) /\ sent \in Seq(Item)
      /\ Ordered(conn_cgi_headers, 0, read) /\ NoStatus(conn_cgi_headers)
      /\ Ordered(sent, 0, read) /\ Marked(sock, sent)
      /\ \A i \in 1..read : Has(conn_cgi_headers, i)
      /\ sock = "open" => sent = <<>>
  BY DEF IInv, Relayed
<1>6. Ordered(conn_cgi_headers, 0, r)
  BY <1>2, <1>3, <1>5, Widened
<1>7. Ordered(conn_cgi_headers, 0, w)
  BY <1>2, <1>5, Widened
<1>b. items = <<Status(200)>> \o conn_cgi_headers \o <<End>> \o text
  OBVIOUS
<1> HIDE DEF items
<1>a. Begun(conn_cgi_headers, text, w, items)
  BY <1>2, <1>3, <1>4, <1>5, <1>6, <1>b, AnswerBegins
<1>8. /\ items \in Seq(Item) /\ Ordered(items, 0, w)
      /\ \A i : Has(conn_cgi_headers, i) \/ Has(text, i) => Has(items, i)
      /\ \A i \in 1..Len(items) : items[i].t = "status" => items[i].code = 200 /\ i = 1
  BY <1>a DEF Begun, StatusFirst
<1>9. read' \in read..w
  BY SMT, <1>1, <1>2
<1>10. CASE sock = "open"
  <2>1. sent' = items
    <3>1. sent' = <<>> \o items
      BY <1>1, <1>5, <1>10
    <3> QED  BY <1>8, <3>1
  <2>2. Complete(items, w)
    <3> DEFINE e == IF n = 0 THEN 0 ELSE read + 1
    <3>1. e \in 0..w /\ (e # 0 => output[e] \in {"blank", "newline"})
      BY <1>2
    <3>2. ASSUME NEW i \in 1..w  PROVE  i = e \/ Has(items, i)
      <4>1. i \in 1..read \/ i = e \/ i \in (read + 1 + n)..w
        BY SMT, <1>2
      <4> QED  BY <1>4, <1>5, <1>8, <4>1
    <3> HIDE DEF e
    <3> QED  BY <3>1, <3>2 DEF Complete
  <2>3. Marked("open", items)
    BY <1>8 DEF Marked
  <2> QED  BY <1>1, <1>5, <1>7, <1>8, <1>9, <1>10, <2>1, <2>2, <2>3 DEF After, Relayed
<1>11. CASE sock # "open"
  <2>1. Ordered(sent, 0, w)
    BY <1>2, <1>5, Widened
  <2> QED  BY <1>1, <1>5, <1>7, <1>9, <1>11, <2>1 DEF After, Relayed
<1> QED  BY <1>10, <1>11

LEMMA TextSent ==
    ASSUME IInv, NEW w \in written..Len(output), Relay(w), ~conn_cgi_headers_active
    PROVE  After(w)
<1> DEFINE text == Upto(read + 1, w)
<1>1. /\ sent' = IF sock = "open" THEN sent \o text ELSE sent
      /\ read' = w /\ conn_cgi_headers_active' = FALSE /\ conn_cgi_headers' = conn_cgi_headers
  BY DEF Relay, Write, IInv, Typed
<1>2. read \in Nat /\ w \in Nat /\ read <= w
  BY Lines
<1>3. read + 1 \in Nat \ {0} /\ (read + 1) - 1 = read
  BY SMT, <1>2
<1>4. /\ text \in Seq(Item) /\ Ordered(text, read, w) /\ NoStatus(text)
      /\ \A k \in (read + 1)..w : Has(text, k)
  BY <1>2, <1>3, UptoPieces
<1> HIDE DEF text
<1>5. /\ conn_cgi_headers \in Seq(Item) /\ sent \in Seq(Item)
      /\ Ordered(conn_cgi_headers, 0, read) /\ NoStatus(conn_cgi_headers)
      /\ Ordered(sent, 0, read) /\ Marked(sock, sent)
      /\ sock = "open" => Complete(sent, read)
  BY DEF IInv, Relayed
<1>6. Ordered(conn_cgi_headers, 0, w)
  BY <1>2, <1>5, Widened
<1>7. read' \in read..w
  BY SMT, <1>1, <1>2
<1>8. CASE sock = "open"
  <2>1. Joined(sent', sent, text)
    BY <1>1, <1>4, <1>5, <1>8, ConcatJoins
  <2>2. sent' \in Seq(Item)
    BY <2>1 DEF Joined
  <2>3. Ordered(sent', 0, w)
    BY <1>2, <1>4, <1>5, <2>1, JoinedOrdered
  <2>4. Complete(sent', w)
    <3>1. PICK e \in 0..read : /\ e # 0 => output[e] \in {"blank", "newline"}
                               /\ \A i \in 1..read : i = e \/ Has(sent, i)
      BY <1>5, <1>8 DEF Complete
    <3>2. e \in 0..w
      BY SMT, <1>2
    <3>3. ASSUME NEW i \in 1..w  PROVE  i = e \/ Has(sent', i)
      <4>1. i \in 1..read \/ i \in (read + 1)..w
        BY SMT, <1>2
      <4> QED  BY <1>4, <2>1, <3>1, <4>1, JoinedHas
    <3> QED  BY <3>1, <3>2, <3>3 DEF Complete
  <2>5. Marked("open", sent')
    <3> SUFFICES ASSUME NEW i \in 1..Len(sent'), sent'[i].t = "status"
                 PROVE  sent'[i].code = 200 /\ i = 1
      BY DEF Marked
    <3>1. i \in 1..Len(sent) /\ sent'[i] = sent[i]
      BY <1>4, <2>1, StatusStays
    <3> QED  BY <1>5, <1>8, <3>1 DEF Marked
  <2> QED  BY <1>1, <1>5, <1>6, <1>7, <1>8, <2>2, <2>3, <2>4, <2>5 DEF After, Relayed
<1>9. CASE sock # "open"
  <2>1. Ordered(sent, 0, w)
    BY <1>2, <1>5, Widened
  <2> QED  BY <1>1, <1>5, <1>6, <1>7, <1>9, <2>1 DEF After, Relayed
<1> QED  BY <1>8, <1>9

LEMMA RelayKeeps ==
    ASSUME IInv, NEW w \in written..Len(output), Relay(w)
    PROVE  After(w)
<1>1. conn_cgi_headers_active \in BOOLEAN
  BY DEF IInv, Typed
<1> QED  BY <1>1, HeaderKept, AnswerSent, TextSent

LEMMA ClosedRelayed ==
    ASSUME NEW so, NEW r, NEW active, NEW headers, NEW s,
           Relayed(so, r, active, headers, s), NEW to, to # "open"
    PROVE  Relayed(to, r, active, headers, s)
  BY DEF Relayed

LEMMA ClosedMarked ==
    ASSUME NEW so, NEW s, Marked(so, s), NEW to, to # "open"
    PROVE  Marked(to, s)
  BY DEF Marked

LEMMA ErrorSent ==
    ASSUME IInv, sendError
    PROVE  /\ sent' \in Seq(Item) /\ Ordered(sent', 0, read) /\ Marked("closed", sent')
           /\ IF sock = "open" THEN Told(sent') ELSE sent' = sent
<1> DEFINE last == <<Status(500)>>
<1>1. sent' = IF sock = "open" THEN sent \o last ELSE sent
  BY DEF sendError, Write
<1>2. /\ sent \in Seq(Item) /\ Ordered(sent, 0, read) /\ Marked(sock, sent)
      /\ read \in Int
  BY Lengths DEF IInv, Relayed
<1>3. last \in Seq(Item) /\ Len(last) = 1 /\ last[1] = Status(500) /\ Ordered(last, read, read)
  <2>1. Status(500) \in Item /\ Status(500).t # "piece"
    BY MarksAreItems
  <2> QED  BY <1>2, <2>1, OneItem
<1> HIDE DEF last
<1>4. CASE sock = "open"
  <2>1. Joined(sent', sent, last)
    BY <1>1, <1>2, <1>3, <1>4, ConcatJoins
  <2>2. sent' \in Seq(Item) /\ Len(sent') = Len(sent) + 1 /\ Len(sent) \in Nat
    BY <1>3, <2>1 DEF Joined
  <2>3. Ordered(sent', 0, read)
    <3>1. 0 <= read
      BY Lengths
    <3> QED  BY <1>2, <1>3, <2>1, <3>1, JoinedOrdered
  <2>4. sent'[Len(sent) + 1] = Status(500)
    <3>1. 1 \in 1..Len(last)
      BY <1>3
    <3> QED  BY <1>3, <2>1, <3>1 DEF Joined
  <2>5. Told(sent')
    <3>1. Len(sent) + 1 \in 1..Len(sent')
      BY SMT, <2>2
    <3> QED  BY <2>4, <3>1 DEF Told
  <2>6. Marked("closed", sent')
    <3> SUFFICES ASSUME NEW i \in 1..Len(sent'), sent'[i].t = "status"
                 PROVE  \/ sent'[i].code = 200 /\ i = 1
                        \/ sent'[i].code = 500 /\ i = Len(sent')
      BY DEF Marked
    <3>1. CASE i \in 1..Len(sent) /\ sent'[i] = sent[i]
      BY <1>2, <1>4, <3>1 DEF Marked
    <3>2. CASE i - Len(sent) \in 1..Len(last)
      <4>1. i = Len(sent) + 1
        BY SMT, <1>3, <2>2, <3>2
      <4> QED  BY <2>2, <2>4, <4>1, MarksAreItems
    <3> QED  BY <2>1, <3>1, <3>2, JoinedElement
  <2> QED  BY <1>4, <2>2, <2>3, <2>5, <2>6
<1>5. CASE sock # "open"
  <2>1. sent' = sent
    BY <1>1, <1>5
  <2>2. Marked("closed", sent)
    BY <1>2, ClosedMarked
  <2> QED  BY <1>2, <1>5, <2>1, <2>2
<1> QED  BY <1>4, <1>5

-----------------------------------------------------------------------------
LEMMA NothingSent ==
    ASSUME NEW so
    PROVE  Relayed(so, 0, TRUE, <<>>, <<>>) /\ Marked(so, <<>>)
<1>1. <<>> \in Seq(Item) /\ Len(<<>>) = 0
  BY EmptySeq
<1>2. \A i : i \notin 1..0
  BY SMT
<1> QED  BY <1>1, <1>2 DEF Relayed, Marked, Ordered, NoStatus

LEMMA InitInv == Init => IInv
<1> SUFFICES ASSUME Init PROVE IInv
  OBVIOUS
<1>1. Len(output) \in Nat
  BY OutputsAssumption, LenProperties DEF Init
<1>2. Typed /\ Ending /\ Closing
  BY DEF Init, Typed, Ending, Closing
<1>3. Bounds
  <2>1. 0 \in 0..Len(output) /\ 0 \in 0..0
    BY SMT, <1>1
  <2> QED  BY <2>1 DEF Init, Bounds
<1>4. Relayed(sock, read, conn_cgi_headers_active, conn_cgi_headers, sent) /\ Marked(sock, sent)
  BY NothingSent DEF Init
<1> QED  BY <1>2, <1>3, <1>4 DEF IInv

LEMMA StartKeeps ==
    ASSUME IInv, cgiStartedData
    PROVE  IInv'
<1> USE DEF cgiStartedData, script, relay
<1>1. Typed' /\ Bounds' /\ Ending'
  BY DEF IInv, Typed, Bounds, Ending
<1>c. Closing'
  BY DEF IInv, Closing, Told
<1>2. Relayed(sock, read, conn_cgi_headers_active, conn_cgi_headers, sent)'
  BY DEF IInv, Relayed, Complete
<1>3. Marked(sock, sent)'
  <2>1. Marked(sock, sent) /\ UNCHANGED <<sock, sent>>
    BY DEF IInv
  <2> QED  BY <2>1
<1> QED  BY <1>1, <1>c, <1>2, <1>3 DEF IInv

LEMMA ReadyReadKeeps ==
    ASSUME IInv, cgiReadyReadData
    PROVE  IInv'
<1>1. PICK w \in (written + 1)..Len(output) : written' = w /\ Relay(w)
  BY DEF cgiReadyReadData
<1>2. proc = "running" /\ UNCHANGED <<output, verdict, post, proc, sock>>
  BY DEF cgiReadyReadData, script
<1>3. w \in written..Len(output) /\ w \in 0..Len(output)
  BY SMT, Lengths
<1>4. After(w)
  BY <1>1, <1>3, RelayKeeps
<1>5. Bounds'
  <2>1. read' \in read..w
    BY <1>4 DEF After
  <2>2. read' \in 0..w
    BY SMT, <2>1, Lengths
  <2> QED  BY <1>1, <1>2, <1>3, <2>2 DEF Bounds
<1>6. Typed'
  BY <1>2, <1>4 DEF IInv, Typed, After
<1>7. Ending' /\ Closing'
  BY <1>2, <1>4 DEF IInv, Ending, Closing, Told, After
<1>8. /\ Relayed(sock, read, conn_cgi_headers_active, conn_cgi_headers, sent)'
      /\ Marked(sock, sent)'
  BY <1>2, <1>4 DEF After, Relayed, Marked, Complete
<1> QED  BY <1>5, <1>6, <1>7, <1>8 DEF IInv

LEMMA ErrorKeeps ==
    ASSUME IInv, cgiErrorData
    PROVE  IInv'
<1>1. /\ sendError /\ sock' # "open" /\ sock' \in {"closed", sock}
      /\ proc' \in {"ended", "crashed", "running"}
      /\ UNCHANGED <<output, verdict, post, written, read, conn_cgi_headers_active, conn_cgi_headers>>
  BY DEF cgiErrorData, Close, script, relay
<1>2. /\ sent' \in Seq(Item) /\ Ordered(sent', 0, read) /\ Marked("closed", sent')
      /\ IF sock = "open" THEN Told(sent') ELSE sent' = sent
  BY <1>1, ErrorSent
<1>3. Typed' /\ Bounds'
  BY <1>1 DEF IInv, Typed, Bounds
<1>4. Ending'
  <2>1. sock # "open" => sock' = sock
    BY DEF cgiErrorData, Close
  <2> QED  BY <1>1, <1>2, <2>1 DEF IInv, Ending
<1>c. Closing'
  <2>1. sock # "open" => sock' = sock
    BY DEF cgiErrorData, Close
  <2>2. proc # "ended"
    BY DEF cgiErrorData
  <2>3. Told(sent) /\ sent' = sent => Told(sent')
    OBVIOUS
  <2>4. sock' = "closed" => Told(sent')
    BY <1>2, <2>1, <2>2, <2>3 DEF IInv, Closing
  <2> QED  BY <2>4 DEF Closing, Told
<1>5. Relayed(sock, read, conn_cgi_headers_active, conn_cgi_headers, sent)'
  BY <1>1, <1>2 DEF IInv, Relayed
<1>6. Marked(sock, sent)'
  BY <1>1, <1>2, ClosedMarked
<1> QED  BY <1>3, <1>4, <1>c, <1>5, <1>6 DEF IInv

LEMMA FinishedKeeps ==
    ASSUME IInv, cgiFinishedData
    PROVE  IInv'
<1>1. /\ sock' # "open" /\ sock' \in {"closed", sock} /\ (sock # "open" => sock' = sock)
      /\ proc' = "ended" /\ UNCHANGED <<output, verdict, post, written>>
  BY DEF cgiFinishedData, Close, script
<1>t. proc # "ended" /\ (sock = "closed" => Told(sent))
  <2>1. proc # "ended"
    BY DEF cgiFinishedData
  <2> QED  BY <2>1 DEF IInv, Closing
<1>2. CASE verdict = "ok"
  <2>1. Relay(written) /\ written \in written..Len(output)
    <3>1. written \in written..Len(output)
      BY SMT, Lengths
    <3> QED  BY <1>2, <3>1 DEF cgiFinishedData
  <2>2. After(written)
    BY <2>1, RelayKeeps
  <2>3. Bounds'
    <3>1. read' \in read..written
      BY <2>2 DEF After
    <3>2. read' \in 0..written
      BY SMT, <3>1, Lengths
    <3> QED  BY <1>1, <3>2 DEF IInv, Bounds
  <2>4. Typed' /\ Ending'
    BY <1>1, <1>2, <2>2 DEF IInv, Typed, Ending, After
  <2>5. /\ Relayed(sock', read', conn_cgi_headers_active', conn_cgi_headers', sent')
        /\ Marked(sock', sent')
    BY <1>1, <2>2, ClosedRelayed, ClosedMarked DEF After
  <2>6. /\ Relayed(sock, read, conn_cgi_headers_active, conn_cgi_headers, sent)'
        /\ Marked(sock, sent)'
    BY <1>1, <2>5 DEF Relayed, Marked
  <2>7. Closing'
    <3>1. CASE sock = "open"
      <4>1. ~conn_cgi_headers_active' => Complete(sent', read')
        BY <2>2, <3>1 DEF After, Relayed
      <4> QED  BY <1>1, <4>1 DEF Closing, Complete
    <3>2. CASE sock # "open"
      <4>1. sent' = sent /\ sock' = sock
        BY <1>1, <2>2, <3>2 DEF After
      <4> QED  BY <1>t, <4>1 DEF Closing, Told
    <3> QED  BY <3>1, <3>2
  <2> QED  BY <2>3, <2>4, <2>6, <2>7 DEF IInv
<1>3. CASE verdict # "ok"
  <2>1. sendError /\ UNCHANGED <<read, conn_cgi_headers_active, conn_cgi_headers>>
    BY <1>3 DEF cgiFinishedData, relay
  <2>2. /\ sent' \in Seq(Item) /\ Ordered(sent', 0, read) /\ Marked("closed", sent')
        /\ IF sock = "open" THEN Told(sent') ELSE sent' = sent
    BY <2>1, ErrorSent
  <2>3. Typed' /\ Bounds'
    BY <1>1, <2>1 DEF IInv, Typed, Bounds
  <2>4. Ending'
    BY <1>1, <2>2 DEF IInv, Ending
  <2>5. Relayed(sock, read, conn_cgi_headers_active, conn_cgi_headers, sent)'
    BY <1>1, <2>1, <2>2 DEF IInv, Relayed
  <2>6. Marked(sock, sent)'
    BY <1>1, <2>2, ClosedMarked
  <2>7. sock' = "closed" => Told(sent')
    BY <1>1, <1>t, <2>2
  <2>8. Closing'
    BY <2>7 DEF Closing, Told
  <2> QED  BY <2>3, <2>4, <2>5, <2>6, <2>8 DEF IInv
<1> QED  BY <1>2, <1>3

LEMMA PeerKeeps ==
    ASSUME IInv, PeerClose
    PROVE  IInv'
<1> USE DEF PeerClose, script, relay
<1>1. Typed' /\ Bounds' /\ Ending'
  BY DEF IInv, Typed, Bounds, Ending
<1>c. Closing'
  BY DEF Closing
<1>2. Relayed(sock, read, conn_cgi_headers_active, conn_cgi_headers, sent)'
  BY DEF IInv, Relayed
<1>3. Marked(sock, sent)'
  <2>1. Marked(sock, sent) /\ sock' # "open" /\ UNCHANGED sent
    BY DEF IInv
  <2> QED  BY <2>1, ClosedMarked
<1> QED  BY <1>1, <1>c, <1>2, <1>3 DEF IInv

LEMMA StutterKeeps ==
    ASSUME IInv, UNCHANGED vars
    PROVE  IInv'
<1> USE DEF vars, script, relay
<1>1. Typed' /\ Bounds' /\ Ending'
  BY DEF IInv, Typed, Bounds, Ending
<1>c. Closing'
  BY DEF IInv, Closing, Complete
<1>2. Relayed(sock, read, conn_cgi_headers_active, conn_cgi_headers, sent)'
  BY DEF IInv, Relayed, Complete
<1>3. Marked(sock, sent)'
  <2>1. Marked(sock, sent) /\ UNCHANGED <<sock, sent>>
    BY DEF IInv
  <2> QED  BY <2>1
<1> QED  BY <1>1, <1>c, <1>2, <1>3 DEF IInv

LEMMA NextInv == IInv /\ [Next]_vars => IInv'
  BY StartKeeps, ReadyReadKeeps, ErrorKeeps, FinishedKeeps, PeerKeeps, StutterKeeps DEF Next

LEMMA SpecInv == Spec => []IInv
  BY InitInv, NextInv, PTL DEF Spec

-----------------------------------------------------------------------------
(* Every variable holds values of its kind: no more is read than was       *)
(* written.                                                                *)
THEOREM RelayTypes == Spec => []TypeOK
<1>1. IInv => TypeOK
  BY DEF IInv, TypeOK, Typed, Bounds, Relayed
<1> QED  BY <1>1, SpecInv, PTL

(* The error response is the last thing written, and the status of an      *)
(* answer the first, for every output and every way in which it arrives.   *)
THEOREM NothingAfterError == Spec => []ErrorIsLast
<1>1. IInv => ErrorIsLast
  <2> SUFFICES ASSUME IInv, NEW i \in DOMAIN sent
               PROVE  /\ sent[i] = Status(500) => i = Len(sent)
                      /\ sent[i] = Status(200) => i = 1
    BY DEF ErrorIsLast
  <2>1. sent \in Seq(Item) /\ Marked(sock, sent)
    BY DEF IInv, Relayed
  <2>2. i \in 1..Len(sent)
    BY <2>1, LenProperties
  <2> QED  BY <2>1, <2>2, MarksAreItems DEF Marked
<1> QED  BY <1>1, SpecInv, PTL

(* A script that fails is reported to a client that is still there, also   *)
(* when both error() and finished() are emitted for it.                    *)
THEOREM FailuresAreReported == Spec => []FailureIsReported
<1>1. IInv => FailureIsReported
  <2> SUFFICES ASSUME IInv, proc = "ended", verdict # "ok", sock # "gone"
               PROVE  Status(500) \in ToSet(sent)
    BY DEF FailureIsReported
  <2>1. Told(sent) /\ sent \in Seq(Item)
    BY DEF IInv, Ending, Typed, Relayed
  <2>2. DOMAIN sent = 1..Len(sent)
    BY <2>1, LenProperties
  <2> QED  BY <2>1, <2>2 DEF Told, ToSet
<1> QED  BY <1>1, SpecInv, PTL

(* What reaches a client of the output is in order and nothing of it is    *)
(* sent twice, whatever the script prints and however it falls into        *)
(* chunks.  After the headers were sent, all that was read is sent but the *)
(* one empty line, the last relay in cgiFinishedData() included, to a      *)
(* client that is there and was not told of an error.  That the headers    *)
(* are ever sent is not said, and is not so for every output.              *)
THEOREM OutputIsRelayedOnce == Spec => []RelayedOnce
<1>1. IInv => RelayedOnce
  <2> SUFFICES ASSUME IInv PROVE RelayedOnce
    OBVIOUS
  <2>1. /\ sent \in Seq(Item) /\ Ordered(sent, 0, read)
        /\ (sock = "open" /\ ~conn_cgi_headers_active => Complete(sent, read))
        /\ Closing /\ sock \in {"open", "closed", "gone"}
    BY DEF IInv, Relayed, Typed
  <2>2. DOMAIN sent = 1..Len(sent)
    BY <2>1, LenProperties
  <2>3. \A i, j \in DOMAIN sent :
          i < j /\ sent[i].t = "piece" /\ sent[j].t = "piece" => sent[i].code < sent[j].code
    BY <2>1, <2>2 DEF Ordered
  <2>4. ASSUME ~conn_cgi_headers_active, sock # "gone", Status(500) \notin ToSet(sent)
        PROVE  LET missing == {i \in 1..read : At(i) \notin ToSet(sent)}
               IN Cardinality(missing) <= 1 /\ \A i \in missing : output[i] \in {"blank", "newline"}
    <3> DEFINE missing == {i \in 1..read : At(i) \notin ToSet(sent)}
    <3>0. Complete(sent, read)
      <4>1. ~Told(sent)
        BY <2>2, <2>4 DEF Told, ToSet
      <4> QED  BY <2>1, <2>4, <4>1 DEF Closing
    <3>1. PICK e \in 0..read : /\ e # 0 => output[e] \in {"blank", "newline"}
                               /\ \A i \in 1..read : i = e \/ Has(sent, i)
      BY <3>0 DEF Complete
    <3>2. \A i : Has(sent, i) => At(i) \in ToSet(sent)
      BY <2>2 DEF Has, ToSet
    <3>3. \A i \in missing : i = e /\ i # 0
      BY <3>1, <3>2
    <3>4. \A i \in missing : output[i] \in {"blank", "newline"}
      BY <3>1, <3>3
    <3>5. Cardinality(missing) <= 1
      <4>1. missing \subseteq {e}
        BY <3>3
      <4>2. IsFiniteSet({e}) /\ Cardinality({e}) = 1
        BY FS_Singleton
      <4> HIDE DEF missing
      <4> QED  BY <4>1, <4>2, FS_Subset
    <3> QED  BY <3>4, <3>5
  <2> QED  BY <2>3, <2>4 DEF RelayedOnce
<1> QED  BY <1>1, SpecInv, PTL
=============================================================================
