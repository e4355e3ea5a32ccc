---------------------------- MODULE CgiPost_proof ----------------------------
(***************************************************************************)
(* Proofs about CgiPost, for all forms, all names of files and every size  *)
(* of the pipe: the lines of a text and of a form; the types; and what the *)
(* script has done when it has read so many lines, from which follows that *)
(* it leaves nothing on the disk; and what it has of each field, which is  *)
(* what the user entered.                                                  *)
(***************************************************************************)
EXTENDS CgiPost, SequenceTheorems, WellFoundedInduction, TLAPS

-----------------------------------------------------------------------------
(* Induction, and the numbers of a set in their order.                     *)

(* Induction over the numbers, for a set of them. *)
LEMMA NatSetInduction ==
    ASSUME NEW T, 0 \in T, \A n \in Nat : n \in T => n + 1 \in T
    PROVE  Nat \subseteq T
<1> DEFINE R == OpToRel(<, Nat)
           Rest == {n \in Nat : n \notin T}
<1>1. IsWellFoundedOn(R, Nat)
  BY NatLessThanWellFounded
<1>2. SUFFICES ASSUME Rest # {}  PROVE FALSE
  OBVIOUS
<1>3. Rest \subseteq Nat
  OBVIOUS
<1> HIDE DEF Rest, R
<1>4. PICK x \in Rest : \A y \in Rest : ~ (<<y, x>> \in R)
  BY <1>1, <1>2, <1>3, WFMin
<1>5. x \in Nat /\ x # 0 /\ x \notin T
  BY <1>4 DEF Rest
<1>6. x - 1 \in Nat /\ (x - 1) + 1 = x /\ x - 1 < x
  BY <1>5
<1>7. x - 1 \notin Rest
  BY <1>4, <1>5, <1>6 DEF R, OpToRel
<1>8. x - 1 \in T
  BY <1>6, <1>7 DEF Rest
<1> QED  BY <1>5, <1>6, <1>8

(* The numbers of a set, as Ascending() collects them.                     *)
Collects(f, S, n) ==
    f = [k \in 0..n |-> IF k = 0 THEN <<>>
                        ELSE IF k \in S THEN Append(f[k - 1], k) ELSE f[k - 1]]

LEMMA CollectsExists == \A S : \A n \in Nat : \E f : Collects(f, S, n)
<1> TAKE S
<1> DEFINE T == {n \in Nat : \E f : Collects(f, S, n)}
<1>1. 0 \in T
  <2> DEFINE f == [k \in 0..0 |-> <<>>]
  <2>1. f = [k \in 0..0 |-> IF k = 0 THEN <<>>
                            ELSE IF k \in S THEN Append(f[k - 1], k) ELSE f[k - 1]]
    OBVIOUS
  <2> HIDE DEF f
  <2> QED  BY <2>1 DEF Collects
<1>2. ASSUME NEW n \in Nat, n \in T  PROVE n + 1 \in T
  <2>1. PICK g : Collects(g, S, n)
    BY <1>2
  <2> DEFINE last == IF n + 1 \in S THEN Append(g[n], n + 1) ELSE g[n]
             f == [k \in 0..(n + 1) |-> IF k = n + 1 THEN last ELSE g[k]]
  <2>2. ASSUME NEW k \in 0..(n + 1)
        PROVE  f[k] = IF k = 0 THEN <<>>
                      ELSE IF k \in S THEN Append(f[k - 1], k) ELSE f[k - 1]
    <3>1. CASE k = n + 1
      <4>1. k # 0 /\ k - 1 = n /\ n \in 0..(n + 1) /\ n # n + 1
        BY <3>1
      <4>2. f[k] = last /\ f[k - 1] = g[n]
        BY <3>1, <4>1
      <4> HIDE DEF f
      <4> QED  BY <3>1, <4>1, <4>2
    <3>2. CASE k # n + 1
      <4>1. k \in 0..n /\ (k # 0 => k - 1 \in 0..n /\ k - 1 \in 0..(n + 1) /\ k - 1 # n + 1)
        BY <3>2
      <4>2. g[k] = IF k = 0 THEN <<>>
                   ELSE IF k \in S THEN Append(g[k - 1], k) ELSE g[k - 1]
        BY <2>1, <4>1 DEF Collects
      <4>3. f[k] = g[k] /\ (k # 0 => f[k - 1] = g[k - 1])
        BY <3>2, <4>1
      <4> HIDE DEF f
      <4> QED  BY <4>2, <4>3
    <3> QED  BY <3>1, <3>2
  <2>3. f = [k \in 0..(n + 1) |-> f[k]]
    OBVIOUS
  <2> HIDE DEF f
  <2>4. Collects(f, S, n + 1)
    BY <2>2, <2>3 DEF Collects
  <2> QED  BY <2>4
<1> HIDE DEF T
<1>3. Nat \subseteq T
  BY <1>1, <1>2, NatSetInduction
<1> QED  BY <1>3 DEF T

LEMMA AscendingCollects ==
    ASSUME NEW S, NEW n \in Nat
    PROVE  \E f : Collects(f, S, n) /\ Ascending(S, n) = f[n]
<1> DEFINE f == CHOOSE g : g = [k \in 0..n |->
                  IF k = 0 THEN <<>> ELSE IF k \in S THEN Append(g[k - 1], k) ELSE g[k - 1]]
<1>1. Ascending(S, n) = f[n]
  BY DEF Ascending
<1>2. \E g : g = [k \in 0..n |->
                  IF k = 0 THEN <<>> ELSE IF k \in S THEN Append(g[k - 1], k) ELSE g[k - 1]]
  <2>1. PICK g : Collects(g, S, n)
    BY CollectsExists
  <2> HIDE DEF f
  <2> QED  BY <2>1 DEF Collects
<1>3. f = [k \in 0..n |->
                  IF k = 0 THEN <<>> ELSE IF k \in S THEN Append(f[k - 1], k) ELSE f[k - 1]]
  BY <1>2
<1> HIDE DEF f
<1> QED  BY <1>1, <1>3 DEF Collects

LEMMA CollectsAgree ==
    ASSUME NEW S, NEW n \in Nat, NEW m \in Nat, NEW f, NEW g,
           n <= m, Collects(f, S, n), Collects(g, S, m)
    PROVE  \A k \in 0..n : f[k] = g[k]
<1> DEFINE T == {k \in Nat : k \in 0..n => f[k] = g[k]}
<1>0. \A k \in 0..n : k \in 0..m
  OBVIOUS
<1>1. 0 \in T
  <2>1. f[0] = <<>> /\ g[0] = <<>>
    BY <1>0 DEF Collects
  <2> QED  BY <2>1
<1>2. ASSUME NEW k \in Nat, k \in T  PROVE k + 1 \in T
  <2> SUFFICES ASSUME k + 1 \in 0..n  PROVE f[k + 1] = g[k + 1]
    OBVIOUS
  <2>1. k + 1 \in 0..m /\ k \in 0..n /\ (k + 1) - 1 = k /\ k + 1 # 0
    BY <1>0
  <2>2. f[k + 1] = IF k + 1 \in S THEN Append(f[k], k + 1) ELSE f[k]
    BY <2>1 DEF Collects
  <2>3. g[k + 1] = IF k + 1 \in S THEN Append(g[k], k + 1) ELSE g[k]
    BY <2>1 DEF Collects
  <2>4. f[k] = g[k]
    BY <1>2, <2>1
  <2> QED  BY <2>2, <2>3, <2>4
<1> HIDE DEF T
<1>3. Nat \subseteq T
  BY <1>1, <1>2, NatSetInduction
<1> QED  BY <1>3 DEF T

(* One number after the other is looked at. *)
LEMMA AscendingNext ==
    ASSUME NEW S, NEW n \in Nat
    PROVE  /\ Ascending(S, 0) = <<>>
           /\ Ascending(S, n + 1) = IF n + 1 \in S THEN Append(Ascending(S, n), n + 1)
                                    ELSE Ascending(S, n)
<1>1. PICK e : Collects(e, S, 0) /\ Ascending(S, 0) = e[0]
  BY AscendingCollects
<1>2. PICK f : Collects(f, S, n) /\ Ascending(S, n) = f[n]
  BY AscendingCollects
<1>3. PICK g : Collects(g, S, n + 1) /\ Ascending(S, n + 1) = g[n + 1]
  BY AscendingCollects
<1>4. e[0] = <<>>
  BY <1>1 DEF Collects
<1>5. n + 1 \in 0..(n + 1) /\ (n + 1) - 1 = n /\ n + 1 # 0 /\ n \in 0..n /\ n <= n + 1
  OBVIOUS
<1>6. g[n + 1] = IF n + 1 \in S THEN Append(g[n], n + 1) ELSE g[n]
  BY <1>3, <1>5 DEF Collects
<1>7. f[n] = g[n]
  BY <1>2, <1>3, <1>5, CollectsAgree
<1> QED  BY <1>1, <1>2, <1>3, <1>4, <1>6, <1>7

(* They are numbers of the set, none above n, and each is above the ones   *)
(* before it.                                                              *)
LEMMA AscendingIs ==
    ASSUME NEW S, NEW n \in Nat
    PROVE  /\ Ascending(S, n) \in Seq(S \cap (1..n))
           /\ Len(Ascending(S, n)) \in Nat
           /\ \A i, j \in 1..Len(Ascending(S, n)) :
                 i < j => Ascending(S, n)[i] < Ascending(S, n)[j]
<1> DEFINE Good(m) ==
             /\ Ascending(S, m) \in Seq(S \cap (1..m))
             /\ \A i, j \in 1..Len(Ascending(S, m)) :
                   i < j => Ascending(S, m)[i] < Ascending(S, m)[j]
           T == {m \in Nat : Good(m)}
<1>1. 0 \in T
  <2>1. Ascending(S, 0) = <<>>
    BY AscendingNext
  <2>2. Ascending(S, 0) \in Seq(S \cap (1..0)) /\ Len(Ascending(S, 0)) = 0
    BY <2>1, EmptySeq
  <2>3. 1..0 = {}
    OBVIOUS
  <2>4. Good(0)
    BY <2>2, <2>3
  <2> QED  BY <2>4
<1>2. ASSUME NEW m \in Nat, m \in T  PROVE m + 1 \in T
  <2> DEFINE a == Ascending(S, m)
             b == Ascending(S, m + 1)
             A == S \cap (1..m)
             B == S \cap (1..(m + 1))
  <2>1. a \in Seq(A) /\ \A i, j \in 1..Len(a) : i < j => a[i] < a[j]
    BY <1>2
  <2>2. b = IF m + 1 \in S THEN Append(a, m + 1) ELSE a
    BY AscendingNext
  <2>3. A \subseteq B /\ (m + 1 \in S => m + 1 \in B) /\ \A x \in A : x \in Nat /\ x < m + 1
    OBVIOUS
  <2> HIDE DEF a, b, A, B
  <2>4. a \in Seq(B)
    BY <2>1, <2>3, SeqMonotonic
  <2>5. CASE m + 1 \in S
    <3>1. b = Append(a, m + 1) /\ m + 1 \in B
      BY <2>2, <2>3, <2>5
    <3>2. /\ b \in Seq(B) /\ Len(b) = Len(a) + 1 /\ b[Len(a) + 1] = m + 1
          /\ \A i \in 1..Len(a) : b[i] = a[i]
      BY <2>4, <3>1, AppendProperties
    <3>3. ASSUME NEW i \in 1..Len(b), NEW j \in 1..Len(b), i < j
          PROVE  b[i] < b[j]
      <4>1. Len(a) \in Nat
        BY <2>1
      <4>2. i \in 1..Len(a) /\ b[i] = a[i]
        BY <3>2, <3>3, <4>1
      <4>3. CASE j \in 1..Len(a)
        BY <2>1, <3>2, <3>3, <4>2, <4>3
      <4>4. CASE j \notin 1..Len(a)
        <5>1. j = Len(a) + 1
          BY <3>2, <4>1, <4>4
        <5>2. a[i] \in A
          BY <2>1, <4>2, ElementOfSeq
        <5> QED  BY <2>3, <3>2, <4>2, <5>1, <5>2
      <4> QED  BY <4>3, <4>4
    <3>4. Good(m + 1)
      BY <3>2, <3>3 DEF b, B
    <3> QED  BY <3>4
  <2>6. CASE m + 1 \notin S
    <3>1. Good(m + 1)
      BY <2>1, <2>2, <2>4, <2>6 DEF b, B
    <3> QED  BY <3>1
  <2> QED  BY <2>5, <2>6
<1> HIDE DEF T
<1>3. n \in T
  BY <1>1, <1>2, NatSetInduction
<1>4. Good(n)
  BY <1>3 DEF T
<1> QED  BY <1>4, LenProperties

(* Only the numbers up to n count. *)
LEMMA AscendingAgree ==
    ASSUME NEW S, NEW T, NEW n \in Nat, \A k \in 1..n : k \in S <=> k \in T
    PROVE  Ascending(S, n) = Ascending(T, n)
<1> DEFINE U == {k \in Nat : k <= n => Ascending(S, k) = Ascending(T, k)}
<1>1. 0 \in U
  BY AscendingNext
<1>2. ASSUME NEW k \in Nat, k \in U  PROVE k + 1 \in U
  <2> SUFFICES ASSUME k + 1 <= n  PROVE Ascending(S, k + 1) = Ascending(T, k + 1)
    OBVIOUS
  <2>1. Ascending(S, k) = Ascending(T, k) /\ (k + 1 \in S <=> k + 1 \in T)
    BY <1>2
  <2> QED  BY <2>1, AscendingNext
<1> HIDE DEF U
<1>3. n \in U
  BY <1>1, <1>2, NatSetInduction
<1> QED  BY <1>3 DEF U

(* Where the set has no number above n, nothing is added. *)
LEMMA AscendingStops ==
    ASSUME NEW S, NEW n \in Nat, NEW m \in Nat, \A k \in S : ~(n < k /\ k <= n + m)
    PROVE  Ascending(S, n + m) = Ascending(S, n)
<1> DEFINE U == {k \in Nat : k <= m => Ascending(S, n + k) = Ascending(S, n)}
<1>1. 0 \in U
  OBVIOUS
<1>2. ASSUME NEW k \in Nat, k \in U  PROVE k + 1 \in U
  <2> SUFFICES ASSUME k + 1 <= m  PROVE Ascending(S, n + (k + 1)) = Ascending(S, n)
    OBVIOUS
  <2>1. Ascending(S, n + k) = Ascending(S, n)
    BY <1>2
  <2>2. n + k \in Nat /\ (n + k) + 1 = n + (k + 1) /\ n < n + (k + 1) /\ n + (k + 1) <= n + m
    OBVIOUS
  <2>3. n + (k + 1) \notin S
    BY <2>2
  <2> QED  BY <2>1, <2>2, <2>3, AscendingNext
<1> HIDE DEF U
<1>3. m \in U
  BY <1>1, <1>2, NatSetInduction
<1> QED  BY <1>3 DEF U

-----------------------------------------------------------------------------
(* Places and lines of a text.                                             *)

(* The places of a text are found from its start. *)
LEMMA WhereAppend ==
    ASSUME NEW A, NEW s \in Seq(A), NEW c \in A, NEW C
    PROVE  Where(Append(s, c), C) = IF c \in C THEN Append(Where(s, C), Len(s) + 1)
                                    ELSE Where(s, C)
<1> DEFINE t == Append(s, c)
           n == Len(s)
           S == {i \in DOMAIN s : s[i] \in C}
           T == {i \in DOMAIN t : t[i] \in C}
<1>1. t \in Seq(A) /\ Len(t) = n + 1 /\ t[n + 1] = c /\ \A i \in 1..n : t[i] = s[i]
  BY AppendProperties
<1>2. n \in Nat /\ DOMAIN s = 1..n /\ DOMAIN t = 1..(n + 1)
  BY <1>1, LenProperties
<1>3. Where(s, C) = Ascending(S, n) /\ Where(t, C) = Ascending(T, n + 1)
  BY <1>1 DEF Where
<1> HIDE DEF t, n
<1>4. \A k \in 1..n : k \in S <=> k \in T
  BY <1>1, <1>2
<1>5. n + 1 \in T <=> c \in C
  BY <1>1, <1>2
<1> HIDE DEF S, T
<1>6. Ascending(T, n) = Ascending(S, n)
  BY <1>2, <1>4, AscendingAgree
<1>7. Ascending(T, n + 1) = IF n + 1 \in T THEN Append(Ascending(T, n), n + 1)
                            ELSE Ascending(T, n)
  BY <1>2, AscendingNext
<1> QED  BY <1>3, <1>5, <1>6, <1>7 DEF t, n

LEMMA WhereIs ==
    ASSUME NEW A, NEW s \in Seq(A), NEW C
    PROVE  /\ Where(s, C) \in Seq(1..Len(s))
           /\ Len(Where(s, C)) \in Nat
           /\ \A i \in 1..Len(Where(s, C)) : s[Where(s, C)[i]] \in C
           /\ \A i, j \in 1..Len(Where(s, C)) : i < j => Where(s, C)[i] < Where(s, C)[j]
<1> DEFINE n == Len(s)
           S == {i \in DOMAIN s : s[i] \in C}
           w == Where(s, C)
<1>1. n \in Nat /\ DOMAIN s = 1..n
  BY LenProperties
<1>2. w = Ascending(S, n)
  BY DEF Where
<1> HIDE DEF w
<1>3. S \cap (1..n) \subseteq 1..n /\ \A x \in S : s[x] \in C
  OBVIOUS
<1> HIDE DEF n, S
<1>4. /\ w \in Seq(S \cap (1..n)) /\ Len(w) \in Nat
      /\ \A i, j \in 1..Len(w) : i < j => w[i] < w[j]
  BY <1>1, <1>2, AscendingIs
<1>5. w \in Seq(1..n)
  BY <1>3, <1>4, SeqMonotonic
<1>6. ASSUME NEW i \in 1..Len(w)  PROVE s[w[i]] \in C
  <2>1. w[i] \in S
    BY <1>4, ElementOfSeq
  <2> QED  BY <1>3, <2>1
<1> QED  BY <1>4, <1>5, <1>6 DEF w, n

(* What follows without such a character adds no place. *)
LEMMA WhereConcat ==
    ASSUME NEW A, NEW s \in Seq(A), NEW t \in Seq(A), NEW C, \A i \in 1..Len(t) : t[i] \notin C
    PROVE  Where(s \o t, C) = Where(s, C)
<1> DEFINE u == s \o t
           n == Len(s)
           m == Len(t)
           S == {i \in DOMAIN s : s[i] \in C}
           U == {i \in DOMAIN u : u[i] \in C}
<1>1. /\ u \in Seq(A) /\ Len(u) = n + m
      /\ \A i \in 1..(n + m) : u[i] = IF i <= n THEN s[i] ELSE t[i - n]
  BY ConcatProperties
<1>2. n \in Nat /\ m \in Nat /\ DOMAIN s = 1..n /\ DOMAIN u = 1..(n + m)
  BY <1>1, LenProperties
<1>3. Where(s, C) = Ascending(S, n) /\ Where(u, C) = Ascending(U, n + m)
  BY <1>1 DEF Where
<1>4. \A i \in 1..m : t[i] \notin C
  OBVIOUS
<1> HIDE DEF u, n, m
<1>5. \A k \in 1..n : k \in S <=> k \in U
  <2> TAKE k \in 1..n
  <2>1. k \in 1..(n + m) /\ u[k] = s[k]
    BY <1>1, <1>2
  <2> QED  BY <1>2, <2>1
<1>6. \A k \in U : ~(n < k /\ k <= n + m)
  <2> SUFFICES ASSUME NEW k \in U, n < k, k <= n + m  PROVE FALSE
    OBVIOUS
  <2>1. k \in 1..(n + m) /\ u[k] = t[k - n] /\ k - n \in 1..m
    BY <1>1, <1>2
  <2> QED  BY <1>4, <2>1
<1> HIDE DEF S, U
<1>7. Ascending(U, n + m) = Ascending(U, n)
  BY <1>2, <1>6, AscendingStops
<1>8. Ascending(U, n) = Ascending(S, n)
  BY <1>2, <1>5, AscendingAgree
<1> QED  BY <1>3, <1>7, <1>8 DEF u

LEMMA WhereNone ==
    ASSUME NEW A, NEW s \in Seq(A), NEW C, \A i \in 1..Len(s) : s[i] \notin C
    PROVE  Where(s, C) = <<>>
<1> DEFINE n == Len(s)
           S == {i \in DOMAIN s : s[i] \in C}
<1>1. n \in Nat /\ DOMAIN s = 1..n /\ Where(s, C) = Ascending(S, n)
  BY LenProperties DEF Where
<1>2. \A k \in S : ~(0 < k /\ k <= 0 + n)
  BY <1>1
<1> HIDE DEF n, S
<1>3. Ascending(S, 0 + n) = Ascending(S, 0)
  BY <1>1, <1>2, AscendingStops
<1>4. 0 + n = n
  BY <1>1
<1> QED  BY <1>1, <1>3, <1>4, AscendingNext

-----------------------------------------------------------------------------
(* The end of a line, from the places of the line ends.                    *)
LineEnds(text)  == <<0>> \o Where(text, {LF})

LEMMA LineEndsAre ==
    ASSUME NEW A, NEW s \in Seq(A)
    PROVE  /\ LineEnds(s) \in Seq(0..Len(s))
           /\ Len(LineEnds(s)) = Len(Where(s, {LF})) + 1
           /\ LineEnds(s)[1] = 0
           /\ \A i \in 1..Len(Where(s, {LF})) : LineEnds(s)[i + 1] = Where(s, {LF})[i]
           /\ \A i \in 1..Len(Where(s, {LF})) : LineEnds(s)[i] <= LineEnds(s)[i + 1]
<1> DEFINE w == Where(s, {LF})
           n == Len(s)
           e == LineEnds(s)
<1>1. n \in Nat /\ Len(w) \in Nat /\ w \in Seq(1..n) /\ \A i, j \in 1..Len(w) : i < j => w[i] < w[j]
  BY WhereIs, LenProperties
<1>2. e = <<0>> \o w
  BY DEF LineEnds
<1> HIDE DEF w, n, e
<1>3. w \in Seq(0..n)
  <2>1. 1..n \subseteq 0..n
    BY <1>1
  <2> QED  BY <1>1, <2>1, SeqMonotonic
<1>4. <<0>> \in Seq(0..n) /\ Len(<<0>>) = 1 /\ <<0>>[1] = 0
  BY <1>1
<1>5. /\ e \in Seq(0..n) /\ Len(e) = 1 + Len(w)
      /\ \A i \in 1..(1 + Len(w)) : e[i] = IF i <= 1 THEN <<0>>[i] ELSE w[i - 1]
  BY <1>2, <1>3, <1>4, ConcatProperties
<1>6. e[1] = 0
  <2>1. 1 \in 1..(1 + Len(w)) /\ 1 <= 1
    BY <1>1
  <2> QED  BY <1>4, <1>5, <2>1
<1>7. ASSUME NEW i \in 1..Len(w)  PROVE e[i + 1] = w[i]
  <2>1. i + 1 \in 1..(1 + Len(w)) /\ ~(i + 1 <= 1) /\ (i + 1) - 1 = i
    BY <1>1
  <2> QED  BY <1>5, <2>1
<1>8. ASSUME NEW i \in 1..Len(w)  PROVE e[i] <= e[i + 1]
  <2>1. CASE i = 1
    <3>1. e[i + 1] \in 0..n
      BY <1>5, <1>7, <1>3, ElementOfSeq
    <3> QED  BY <1>6, <2>1, <3>1
  <2>2. CASE i # 1
    <3>1. i - 1 \in 1..Len(w) /\ (i - 1) + 1 = i /\ i - 1 < i
      BY <1>1, <2>2
    <3>2. e[i] = w[i - 1] /\ w[i - 1] < w[i]
      BY <1>1, <1>7, <3>1
    <3>3. w[i] \in 1..n /\ w[i - 1] \in 1..n
      BY <1>1, <3>1, ElementOfSeq
    <3> QED  BY <1>7, <3>2, <3>3
  <2> QED  BY <2>1, <2>2
<1>9. Len(e) = Len(w) + 1
  BY <1>5, <1>1
<1> QED  BY <1>5, <1>6, <1>7, <1>8, <1>9 DEF w, n, e

LEMMA LinesAre ==
    ASSUME NEW A, NEW s \in Seq(A)
    PROVE  /\ Len(Lines(s)) = Len(Where(s, {LF})) /\ Len(Lines(s)) \in Nat
           /\ DOMAIN Lines(s) = 1..Len(Lines(s))
           /\ \A k \in 1..Len(Lines(s)) :
                 Lines(s)[k] = SubSeq(s, LineEnds(s)[k] + 1, LineEnds(s)[k + 1])
<1> DEFINE e == LineEnds(s)
           n == Len(Where(s, {LF}))
<1>1. Lines(s) = [k \in 1..(Len(e) - 1) |-> SubSeq(s, e[k] + 1, e[k + 1] - 0)]
  BY DEF Lines, Pieces, LineEnds
<1>2. n \in Nat /\ e \in Seq(0..Len(s)) /\ Len(e) = n + 1 /\ Len(s) \in Nat
  BY LineEndsAre, WhereIs, LenProperties
<1> HIDE DEF e, n
<1>3. Len(e) - 1 = n
  BY <1>2
<1>4. \A k \in 1..n : e[k + 1] - 0 = e[k + 1]
  <2> TAKE k \in 1..n
  <2>1. k + 1 \in 1..Len(e)
    BY <1>2
  <2>2. e[k + 1] \in 0..Len(s)
    BY <1>2, <2>1, ElementOfSeq
  <2> QED  BY <2>2
<1>5. /\ Len(Lines(s)) = n
      /\ DOMAIN Lines(s) = 1..n
  BY <1>1, <1>2, <1>3
<1>6. \A k \in 1..n : Lines(s)[k] = SubSeq(s, e[k] + 1, e[k + 1])
  BY <1>1, <1>3, <1>4
<1> QED  BY <1>2, <1>5, <1>6 DEF e, n

(* Line by line a text is read from its start. *)
LEMMA LineAdded ==
    ASSUME NEW A, NEW s \in Seq(A), NEW k \in 1..Len(Lines(s))
    PROVE  /\ LineEnds(s)[k] \in 0..Len(s) /\ LineEnds(s)[k + 1] \in 0..Len(s)
           /\ SubSeq(s, 1, LineEnds(s)[k]) \in Seq(A)
           /\ Len(SubSeq(s, 1, LineEnds(s)[k])) = LineEnds(s)[k]
           /\ Lines(s)[k] \in Seq(A)
           /\ Len(Lines(s)[k]) = LineEnds(s)[k + 1] - LineEnds(s)[k]
           /\ SubSeq(s, 1, LineEnds(s)[k]) \o Lines(s)[k] = SubSeq(s, 1, LineEnds(s)[k + 1])
<1> DEFINE a == LineEnds(s)[k]
           b == LineEnds(s)[k + 1]
           n == Len(s)
<1>1. k \in 1..Len(Where(s, {LF})) /\ Lines(s)[k] = SubSeq(s, a + 1, b)
  BY LinesAre
<1>2. a <= b /\ k \in 1..Len(LineEnds(s)) /\ k + 1 \in 1..Len(LineEnds(s))
  <2>1. Len(Where(s, {LF})) \in Nat /\ Len(LineEnds(s)) = Len(Where(s, {LF})) + 1
    BY LineEndsAre, WhereIs
  <2>2. a <= b
    BY <1>1, LineEndsAre
  <2> QED  BY <1>1, <2>1, <2>2
<1>3. a \in 0..n /\ b \in 0..n /\ n \in Nat
  BY <1>2, LineEndsAre, ElementOfSeq, LenProperties
<1> HIDE DEF a, b, n
<1>4. \A i \in 1..n : s[i] \in A
  BY ElementOfSeq DEF n
<1>5. SubSeq(s, 1, a) \in Seq(A) /\ Len(SubSeq(s, 1, a)) = IF 1 <= a THEN a - 1 + 1 ELSE 0
  <2>1. \A i \in 1..a : s[i] \in A
    BY <1>3, <1>4
  <2> QED  BY <1>3, <2>1, SubSeqProperties
<1>6. SubSeq(s, a + 1, b) \in Seq(A)
      /\ Len(SubSeq(s, a + 1, b)) = IF a + 1 <= b THEN b - (a + 1) + 1 ELSE 0
  <2>1. \A i \in (a + 1)..b : s[i] \in A
    BY <1>3, <1>4
  <2>2. a + 1 \in Int /\ b \in Int
    BY <1>3
  <2> QED  BY <2>1, <2>2, SubSeqProperties
<1>7. SubSeq(s, 1, a) \o SubSeq(s, a + 1, b) = SubSeq(s, 1, b)
  <2>1. 1 \in 1..(n + 1) /\ a \in (1 - 1)..n /\ b \in a..n
    BY <1>2, <1>3 DEF a, b
  <2> QED  BY <2>1, ConcatAdjacentSubSeq DEF n
<1>8. Len(SubSeq(s, 1, a)) = a /\ Len(SubSeq(s, a + 1, b)) = b - a
  BY <1>2, <1>3, <1>5, <1>6 DEF a, b
<1> QED  BY <1>1, <1>3, <1>5, <1>6, <1>7, <1>8 DEF a, b, n

LEMMA OneElement ==
    ASSUME NEW x
    PROVE  /\ [k \in 1..1 |-> x] = <<x>>
           /\ <<x>> \in Seq({x}) /\ Len(<<x>>) = 1 /\ <<x>>[1] = x /\ DOMAIN <<x>> = 1..1
<1>1. <<x>> \in Seq({x}) /\ Len(<<x>>) = 1 /\ <<x>>[1] = x
  OBVIOUS
<1> DEFINE f == [k \in 1..1 |-> x]
<1>2. f \in Seq({x}) /\ Len(f) = 1 /\ f[1] = x
  OBVIOUS
<1> HIDE DEF f
<1>3. \A i \in 1..Len(f) : f[i] = <<x>>[i]
  BY <1>1, <1>2
<1>4. f = <<x>>
  BY <1>1, <1>2, <1>3, SeqEqual
<1> QED  BY <1>1, <1>4, LenProperties DEF f

LEMMA TwoElements ==
    ASSUME NEW A, NEW a \in A, NEW b \in A
    PROVE  /\ <<a, b>> = <<a>> \o <<b>>
           /\ <<a>> \in Seq(A) /\ <<b>> \in Seq(A) /\ <<a, b>> \in Seq(A)
<1>1. /\ <<a>> \in Seq(A) /\ Len(<<a>>) = 1 /\ <<a>>[1] = a
      /\ <<b>> \in Seq(A) /\ Len(<<b>>) = 1 /\ <<b>>[1] = b
  OBVIOUS
<1> DEFINE c == <<a>> \o <<b>>
           d == <<a, b>>
<1>2. d \in Seq(A) /\ Len(d) = 2 /\ d[1] = a /\ d[2] = b
  OBVIOUS
<1>3. /\ c \in Seq(A) /\ Len(c) = 1 + 1
      /\ \A i \in 1..(1 + 1) : c[i] = IF i <= 1 THEN <<a>>[i] ELSE <<b>>[i - 1]
  BY <1>1, ConcatProperties
<1>4. c[1] = a /\ c[2] = b
  <2>1. 1 \in 1..(1 + 1) /\ 2 \in 1..(1 + 1) /\ 1 <= 1 /\ ~(2 <= 1) /\ 2 - 1 = 1
    OBVIOUS
  <2> QED  BY <1>1, <1>3, <2>1
<1> HIDE DEF c, d
<1>5. \A i \in 1..Len(d) : d[i] = c[i]
  BY <1>2, <1>4
<1>6. d = c
  BY <1>2, <1>3, <1>5, SeqEqual
<1> QED  BY <1>1, <1>2, <1>6 DEF c, d

(* A text that ends with a line end has a line, and its last line ends     *)
(* where the text does.  A text without another line end is one line.      *)
LEMMA TextHasLines ==
    ASSUME NEW A, CR \in A, LF \in A, NEW s \in Seq(A), NEW t, t = s \o <<CR, LF>>
    PROVE  /\ t \in Seq(A) /\ Len(t) = Len(s) + 2
           /\ Len(Lines(t)) \in Nat \ {0}
           /\ LineEnds(t)[Len(Lines(t)) + 1] = Len(t)
           /\ (\A i \in 1..Len(s) : s[i] # LF) => Lines(t) = <<t>>
<1> DEFINE r == Append(s, CR)
<1>1. r \in Seq(A) /\ Len(r) = Len(s) + 1
  BY AppendProperties
<1>2. t = Append(r, LF)
  <2>1. s \in Seq(A) /\ <<CR, LF>> \in Seq(A)
    OBVIOUS
  <2>2. <<CR, LF>> = <<CR>> \o <<LF>> /\ <<CR>> \in Seq(A) /\ <<LF>> \in Seq(A)
    BY TwoElements
  <2>3. (s \o <<CR>>) \o <<LF>> = s \o (<<CR>> \o <<LF>>)
    BY <2>1, <2>2, ConcatAssociative
  <2>4. r = s \o <<CR>> /\ Append(r, LF) = r \o <<LF>>
    BY <1>1, AppendIsConcat
  <2> QED  BY <2>2, <2>3, <2>4
<1> HIDE DEF r
<1>3. t \in Seq(A) /\ Len(t) = Len(s) + 2
  BY <1>1, <1>2, AppendProperties, LenProperties
<1>4. Where(t, {LF}) = Append(Where(r, {LF}), Len(r) + 1)
  BY <1>1, <1>2, WhereAppend
<1>5. Where(r, {LF}) = Where(s, {LF})
  <2>1. Where(r, {LF}) = IF CR \in {LF} THEN Append(Where(s, {LF}), Len(s) + 1)
                         ELSE Where(s, {LF})
    BY WhereAppend DEF r
  <2>2. CR \notin {LF}
    BY DEF CR, LF
  <2> QED  BY <2>1, <2>2
<1> DEFINE w == Where(r, {LF})
           v == Where(t, {LF})
<1>6. w \in Seq(Nat) /\ Len(r) + 1 \in Nat
  <2>1. w \in Seq(1..Len(r)) /\ 1..Len(r) \subseteq Nat
    BY <1>1, WhereIs, LenProperties
  <2> QED  BY <1>1, <2>1, SeqMonotonic, LenProperties
<1>7. v = Append(w, Len(r) + 1)
  BY <1>4
<1> HIDE DEF w, v
<1>8. Len(v) = Len(w) + 1 /\ v[Len(w) + 1] = Len(r) + 1 /\ Len(w) \in Nat
  BY <1>6, <1>7, AppendProperties, LenProperties
<1>9. Len(v) \in 1..Len(v) /\ v[Len(v)] = Len(t)
  BY <1>1, <1>2, <1>8, AppendProperties
<1>10. Len(Lines(t)) = Len(v) /\ DOMAIN Lines(t) = 1..Len(v)
       /\ \A k \in 1..Len(v) : Lines(t)[k] = SubSeq(t, LineEnds(t)[k] + 1, LineEnds(t)[k + 1])
  BY <1>3, LinesAre DEF v
<1>11. LineEnds(t)[1] = 0 /\ \A i \in 1..Len(v) : LineEnds(t)[i + 1] = v[i]
  BY <1>3, LineEndsAre DEF v
<1>12. ASSUME \A i \in 1..Len(s) : s[i] # LF  PROVE Lines(t) = <<t>>
  <2>1. w = <<>>
    BY <1>5, <1>12, WhereNone DEF w
  <2>2. Len(v) = 1 /\ v[1] = Len(t)
    BY <1>8, <1>9, <2>1
  <2>3. 0 + 1 = 1 /\ 1 \in 1..Len(v) /\ 1 + 1 = 2
    BY <2>2
  <2>4. LineEnds(t)[1] + 1 = 1 /\ LineEnds(t)[1 + 1] = Len(t)
    BY <1>11, <2>2, <2>3
  <2>5. Lines(t)[1] = SubSeq(t, 1, Len(t))
    BY <1>10, <2>3, <2>4
  <2>6. Lines(t)[1] = t /\ DOMAIN Lines(t) = 1..1
    BY <1>3, <1>10, <2>2, <2>5, SubSeqFull
  <2>7. Lines(t) = [k \in DOMAIN Lines(t) |-> Lines(t)[k]]
    BY DEF Lines, Pieces
  <2>8. Lines(t) = [k \in 1..1 |-> Lines(t)[k]]
    BY <2>6, <2>7
  <2>9. \A k \in 1..1 : Lines(t)[k] = t
    <3>1. \A k \in 1..1 : k = 1
      OBVIOUS
    <3> QED  BY <2>6, <3>1
  <2>10. Lines(t) = [k \in 1..1 |-> t]
    BY <2>8, <2>9
  <2> QED  BY <2>10, OneElement
<1>13. LineEnds(t)[Len(Lines(t)) + 1] = Len(t)
  BY <1>9, <1>10, <1>11
<1>14. Len(Lines(t)) \in Nat \ {0}
  <2>1. Len(v) \in Nat \ {0}
    BY <1>8
  <2>2. Len(Lines(t)) = Len(v)
    BY <1>10
  <2> QED  BY <2>1, <2>2
<1> QED  BY <1>3, <1>12, <1>13, <1>14

-----------------------------------------------------------------------------
(* QString::split() of a text without the separator, and of one with a     *)
(* piece behind it.                                                        *)
Ends(text, sep) == <<0>> \o Where(text, {sep}) \o <<Len(text) + 1>>

LEMMA EndsAre ==
    ASSUME NEW A, NEW s \in Seq(A), NEW sep
    PROVE  /\ Ends(s, sep) \in Seq(0..(Len(s) + 1))
           /\ Len(Ends(s, sep)) = Len(Where(s, {sep})) + 2
           /\ Ends(s, sep)[1] = 0
           /\ \A i \in 1..Len(Where(s, {sep})) : Ends(s, sep)[i + 1] = Where(s, {sep})[i]
           /\ Ends(s, sep)[Len(Where(s, {sep})) + 2] = Len(s) + 1
<1> DEFINE w == Where(s, {sep})
           n == Len(s)
           e == Ends(s, sep)
           d == <<0>> \o w
<1>1. n \in Nat /\ Len(w) \in Nat /\ w \in Seq(1..n)
  BY WhereIs, LenProperties
<1>2. e = d \o <<n + 1>>
  BY DEF Ends
<1> HIDE DEF w, n, e
<1>3. w \in Seq(0..(n + 1))
  <2>1. 1..n \subseteq 0..(n + 1)
    BY <1>1
  <2> QED  BY <1>1, <2>1, SeqMonotonic
<1>4. /\ <<0>> \in Seq(0..(n + 1)) /\ Len(<<0>>) = 1 /\ <<0>>[1] = 0
      /\ <<n + 1>> \in Seq(0..(n + 1)) /\ Len(<<n + 1>>) = 1 /\ <<n + 1>>[1] = n + 1
  BY <1>1
<1>5. /\ d \in Seq(0..(n + 1)) /\ Len(d) = 1 + Len(w)
      /\ \A i \in 1..(1 + Len(w)) : d[i] = IF i <= 1 THEN <<0>>[i] ELSE w[i - 1]
  BY <1>3, <1>4, ConcatProperties
<1> HIDE DEF d
<1>6. /\ e \in Seq(0..(n + 1)) /\ Len(e) = Len(d) + 1
      /\ \A i \in 1..(Len(d) + 1) : e[i] = IF i <= Len(d) THEN d[i] ELSE <<n + 1>>[i - Len(d)]
  BY <1>2, <1>4, <1>5, ConcatProperties
<1>7. e[1] = 0
  <2>1. 1 \in 1..(1 + Len(w)) /\ 1 <= 1 /\ 1 \in 1..(Len(d) + 1) /\ 1 <= Len(d)
    BY <1>1, <1>5
  <2> QED  BY <1>4, <1>5, <1>6, <2>1
<1>8. ASSUME NEW i \in 1..Len(w)  PROVE e[i + 1] = w[i]
  <2>1. i + 1 \in 1..(1 + Len(w)) /\ ~(i + 1 <= 1) /\ (i + 1) - 1 = i
        /\ i + 1 \in 1..(Len(d) + 1) /\ i + 1 <= Len(d)
    BY <1>1, <1>5
  <2> QED  BY <1>5, <1>6, <2>1
<1>9. e[Len(w) + 2] = n + 1 /\ Len(e) = Len(w) + 2
  <2>1. Len(w) + 2 \in 1..(Len(d) + 1) /\ ~(Len(w) + 2 <= Len(d)) /\ (Len(w) + 2) - Len(d) = 1
    BY <1>1, <1>5
  <2>2. e[Len(w) + 2] = <<n + 1>>[1]
    BY <1>6, <2>1
  <2> QED  BY <1>1, <1>4, <1>5, <1>6, <2>2
<1> QED  BY <1>6, <1>7, <1>8, <1>9 DEF w, n, e

LEMMA SplitIs ==
    ASSUME NEW A, NEW s \in Seq(A), NEW sep
    PROVE  /\ Len(Split(s, sep)) = Len(Where(s, {sep})) + 1
           /\ Split(s, sep) = [k \in 1..(Len(Where(s, {sep})) + 1) |->
                SubSeq(s, Ends(s, sep)[k] + 1, Ends(s, sep)[k + 1] - 1)]
<1> DEFINE e == Ends(s, sep)
           n == Len(Where(s, {sep}))
<1>1. Split(s, sep) = [k \in 1..(Len(e) - 1) |-> SubSeq(s, e[k] + 1, e[k + 1] - 1)]
  BY DEF Split, Pieces, Ends
<1>2. n \in Nat /\ Len(e) = n + 2
  BY EndsAre, WhereIs
<1> HIDE DEF e, n
<1>3. Len(e) - 1 = n + 1
  BY <1>2
<1>4. Split(s, sep) = [k \in 1..(n + 1) |-> SubSeq(s, e[k] + 1, e[k + 1] - 1)]
  BY <1>1, <1>3
<1>5. Len(Split(s, sep)) = n + 1
  BY <1>2, <1>4
<1> QED  BY <1>4, <1>5 DEF e, n

LEMMA SplitNone ==
    ASSUME NEW A, NEW s \in Seq(A), NEW sep, \A i \in 1..Len(s) : s[i] # sep
    PROVE  Split(s, sep) = <<s>>
<1>1. Where(s, {sep}) = <<>>
  BY WhereNone
<1>2. Len(Where(s, {sep})) = 0
  BY <1>1
<1> DEFINE e == Ends(s, sep)
<1>3. e[1] = 0 /\ e[0 + 2] = Len(s) + 1 /\ Len(s) \in Nat
  BY <1>2, EndsAre, LenProperties
<1>4. Split(s, sep) = [k \in 1..(Len(Where(s, {sep})) + 1) |->
                         SubSeq(s, e[k] + 1, e[k + 1] - 1)]
  BY SplitIs
<1> HIDE DEF e
<1>5. \A k \in 1..1 : SubSeq(s, e[k] + 1, e[k + 1] - 1) = s
  <2> TAKE k \in 1..1
  <2>1. k = 1 /\ e[k] = 0 /\ e[k + 1] = Len(s) + 1
    BY <1>3
  <2>2. e[k] + 1 = 1 /\ e[k + 1] - 1 = Len(s)
    BY <1>3, <2>1
  <2> QED  BY <2>2, SubSeqFull
<1>6. Split(s, sep) = [k \in 1..1 |-> s]
  <2>1. Split(s, sep) = [k \in 1..1 |-> SubSeq(s, e[k] + 1, e[k + 1] - 1)]
    BY <1>2, <1>4
  <2> QED  BY <1>5, <2>1
<1> QED  BY <1>6, OneElement

JoinedBy(t, s, sep, p) == t = (s \o <<sep>>) \o p

LEMMA SplitJoin ==
    ASSUME NEW A, NEW s \in Seq(A), NEW p \in Seq(A), NEW sep \in A,
           \A i \in 1..Len(p) : p[i] # sep, NEW t, JoinedBy(t, s, sep, p)
    PROVE  /\ t \in Seq(A) /\ Len(t) = Len(s) + 1 + Len(p)
           /\ Len(Split(s, sep)) \in Nat
           /\ Len(Split(t, sep)) = Len(Split(s, sep)) + 1
           /\ \A k \in 1..Len(Split(s, sep)) : Split(t, sep)[k] = Split(s, sep)[k]
           /\ Split(t, sep)[Len(Split(s, sep)) + 1] = p
<1> DEFINE n == Len(s)
           m == Len(p)
           r == Append(s, sep)
           v == Where(s, {sep})
           w == Where(t, {sep})
           d == Ends(s, sep)
           e == Ends(t, sep)
<1>1. n \in Nat /\ m \in Nat /\ Len(v) \in Nat /\ v \in Seq(1..n)
  BY WhereIs, LenProperties
<1>2. /\ r \in Seq(A) /\ Len(r) = n + 1 /\ r = s \o <<sep>>
      /\ r[n + 1] = sep /\ \A i \in 1..n : r[i] = s[i]
  BY AppendProperties, AppendIsConcat
<1>3. t = r \o p
  BY <1>2 DEF JoinedBy
<1>4. /\ t \in Seq(A) /\ Len(t) = (n + 1) + m
      /\ \A i \in 1..((n + 1) + m) : t[i] = IF i <= n + 1 THEN r[i] ELSE p[i - (n + 1)]
  BY <1>2, <1>3, ConcatProperties
<1>5. w = Append(v, n + 1)
  <2>1. Where(t, {sep}) = Where(r, {sep})
    <3>1. \A i \in 1..Len(p) : p[i] \notin {sep}
      OBVIOUS
    <3> QED  BY <1>2, <1>3, <3>1, WhereConcat
  <2>2. Where(r, {sep}) = Append(Where(s, {sep}), Len(s) + 1)
    <3>1. sep \in {sep}
      OBVIOUS
    <3> QED  BY <3>1, WhereAppend
  <2> QED  BY <2>1, <2>2
<1>6. /\ Len(w) = Len(v) + 1 /\ w[Len(v) + 1] = n + 1
      /\ \A i \in 1..Len(v) : w[i] = v[i] /\ v[i] \in 1..n
  <2>1. v \in Seq(Nat) /\ n + 1 \in Nat
    <3>1. 1..n \subseteq Nat
      BY <1>1
    <3> QED  BY <1>1, <3>1, SeqMonotonic
  <2> HIDE DEF v, w, n
  <2> QED  BY <1>1, <1>5, <2>1, AppendProperties, ElementOfSeq
<1>7. /\ Len(d) = Len(v) + 2 /\ d[1] = 0 /\ d[Len(v) + 2] = n + 1
      /\ \A i \in 1..Len(v) : d[i + 1] = v[i]
  <2> HIDE DEF n, m, r, v, w, d, e
  <2>1. /\ Ends(s, sep) \in Seq(0..(Len(s) + 1))
        /\ Len(Ends(s, sep)) = Len(Where(s, {sep})) + 2
        /\ Ends(s, sep)[1] = 0
        /\ \A i \in 1..Len(Where(s, {sep})) : Ends(s, sep)[i + 1] = Where(s, {sep})[i]
        /\ Ends(s, sep)[Len(Where(s, {sep})) + 2] = Len(s) + 1
    BY EndsAre, Zenon
  <2> QED  BY <2>1 DEF d, v, n
<1>8. /\ Len(e) = Len(w) + 2 /\ e[1] = 0 /\ e[Len(w) + 2] = Len(t) + 1
      /\ \A i \in 1..Len(w) : e[i + 1] = w[i]
  <2>1. t \in Seq(A)
    BY <1>4
  <2> HIDE DEF n, m, r, v, w, d, e
  <2>2. /\ Ends(t, sep) \in Seq(0..(Len(t) + 1))
        /\ Len(Ends(t, sep)) = Len(Where(t, {sep})) + 2
        /\ Ends(t, sep)[1] = 0
        /\ \A i \in 1..Len(Where(t, {sep})) : Ends(t, sep)[i + 1] = Where(t, {sep})[i]
        /\ Ends(t, sep)[Len(Where(t, {sep})) + 2] = Len(t) + 1
    BY <2>1, EndsAre, Zenon
  <2> QED  BY <2>2 DEF e, w
<1>9. /\ Len(Split(s, sep)) = Len(v) + 1
      /\ Split(s, sep) = [k \in 1..(Len(v) + 1) |-> SubSeq(s, d[k] + 1, d[k + 1] - 1)]
  BY SplitIs
<1>10. /\ Len(Split(t, sep)) = Len(w) + 1
       /\ Split(t, sep) = [k \in 1..(Len(w) + 1) |-> SubSeq(t, e[k] + 1, e[k + 1] - 1)]
  <2>1. t \in Seq(A)
    BY <1>4
  <2> HIDE DEF n, m, r, v, d
  <2> QED  BY <2>1, SplitIs
<1> HIDE DEF n, m, r, v, w, d, e
<1>11. ASSUME NEW k \in 1..(Len(v) + 2)
       PROVE  e[k] = d[k] /\ d[k] \in 0..(n + 1) /\ (k # Len(v) + 2 => d[k] \in 0..n)
  <2>1. CASE k = 1
    BY <1>1, <1>7, <1>8, <2>1
  <2>2. CASE k = Len(v) + 2
    <3>1. (Len(v) + 1) + 1 = k /\ Len(v) + 1 \in 1..Len(w)
      BY <1>1, <1>6, <2>2
    <3>2. e[k] = w[Len(v) + 1]
      BY <1>8, <3>1
    <3> QED  BY <1>1, <1>6, <1>7, <2>2, <3>2
  <2>3. CASE k # 1 /\ k # Len(v) + 2
    <3>1. k - 1 \in 1..Len(v) /\ (k - 1) + 1 = k /\ k - 1 \in 1..Len(w)
      BY <1>1, <1>6, <2>3
    <3>2. d[k] = v[k - 1] /\ e[k] = w[k - 1] /\ w[k - 1] = v[k - 1] /\ v[k - 1] \in 1..n
      BY <1>6, <1>7, <1>8, <3>1
    <3> QED  BY <1>1, <3>2
  <2> QED  BY <2>1, <2>2, <2>3
<1>12. ASSUME NEW k \in 1..(Len(v) + 1)  PROVE  Split(t, sep)[k] = Split(s, sep)[k]
  <2>1. /\ k \in 1..(Len(w) + 1) /\ k \in 1..(Len(v) + 2) /\ k + 1 \in 1..(Len(v) + 2)
        /\ k # Len(v) + 2
    BY <1>1, <1>6
  <2> DEFINE a == d[k] + 1
             b == d[k + 1] - 1
  <2>2. Split(t, sep)[k] = SubSeq(t, a, b) /\ Split(s, sep)[k] = SubSeq(s, a, b)
    <3>1. e[k] = d[k] /\ e[k + 1] = d[k + 1]
      BY <1>11, <2>1
    <3>2. /\ Split(t, sep)[k] = SubSeq(t, e[k] + 1, e[k + 1] - 1)
          /\ Split(s, sep)[k] = SubSeq(s, d[k] + 1, d[k + 1] - 1)
      BY <1>9, <1>10, <2>1
    <3> QED  BY <3>1, <3>2
  <2>3. a \in Int /\ b \in Int /\ a >= 1 /\ b <= n
    <3>1. d[k] \in 0..n /\ d[k + 1] \in 0..(n + 1)
      BY <1>11, <2>1
    <3> QED  BY <1>1, <3>1
  <2> HIDE DEF a, b
  <2>4. \A i \in a..b : s[i] \in A /\ t[i] = s[i]
    <3> TAKE i \in a..b
    <3>1. i \in 1..n /\ i \in 1..((n + 1) + m) /\ i <= n + 1
      BY <1>1, <2>3
    <3> QED  BY <1>2, <1>4, <3>1, ElementOfSeq DEF n
  <2>5. /\ SubSeq(s, a, b) \in Seq(A) /\ SubSeq(t, a, b) \in Seq(A)
        /\ Len(SubSeq(s, a, b)) = IF a <= b THEN b - a + 1 ELSE 0
        /\ Len(SubSeq(t, a, b)) = IF a <= b THEN b - a + 1 ELSE 0
        /\ \A i \in 1..(b - a + 1) : SubSeq(s, a, b)[i] = s[a + i - 1]
        /\ \A i \in 1..(b - a + 1) : SubSeq(t, a, b)[i] = t[a + i - 1]
    <3>1. \A i \in a..b : s[i] \in A
      BY <2>4
    <3>2. \A i \in a..b : t[i] \in A
      BY <2>4
    <3> QED  BY <2>3, <3>1, <3>2, SubSeqProperties
  <2>6. \A i \in 1..Len(SubSeq(s, a, b)) : SubSeq(t, a, b)[i] = SubSeq(s, a, b)[i]
    <3> TAKE i \in 1..Len(SubSeq(s, a, b))
    <3>1. i \in 1..(b - a + 1) /\ a + i - 1 \in a..b
      BY <2>3, <2>5
    <3> QED  BY <2>4, <2>5, <3>1
  <2>7. SubSeq(t, a, b) = SubSeq(s, a, b)
    BY <2>5, <2>6, SeqEqual
  <2> QED  BY <2>2, <2>7
<1>13. Split(t, sep)[Len(v) + 2] = p
  <2> DEFINE k == Len(v) + 2
  <2>1. k \in 1..(Len(w) + 1) /\ k + 1 = Len(w) + 2
    BY <1>1, <1>6
  <2>2. e[k] = n + 1 /\ e[k + 1] = (n + 1) + m + 1
    BY <1>1, <1>4, <1>7, <1>8, <1>11, <2>1
  <2> DEFINE a == n + 2
             b == (n + 1) + m
  <2>3. e[k] + 1 = a /\ e[k + 1] - 1 = b
    BY <1>1, <2>2
  <2>4. Split(t, sep)[k] = SubSeq(t, a, b)
    BY <1>10, <2>1, <2>3
  <2>5. a \in Int /\ b \in Int /\ b - a + 1 = m /\ (IF a <= b THEN b - a + 1 ELSE 0) = m
    BY <1>1
  <2>6. \A i \in a..b : t[i] \in A
    <3> TAKE i \in a..b
    <3>1. i \in 1..Len(t)
      BY <1>1, <1>4
    <3> QED  BY <1>4, <3>1, ElementOfSeq
  <2>7. /\ SubSeq(t, a, b) \in Seq(A) /\ Len(SubSeq(t, a, b)) = m
        /\ \A i \in 1..m : SubSeq(t, a, b)[i] = t[a + i - 1]
    BY <2>5, <2>6, SubSeqProperties
  <2>8. \A i \in 1..m : t[a + i - 1] = p[i]
    <3> TAKE i \in 1..m
    <3>1. a + i - 1 \in 1..((n + 1) + m) /\ ~(a + i - 1 <= n + 1) /\ (a + i - 1) - (n + 1) = i
      BY <1>1
    <3> QED  BY <1>4, <3>1
  <2> HIDE DEF a, b, k
  <2>9. SubSeq(t, a, b) = p
    BY <2>7, <2>8, SeqEqual DEF m
  <2> QED  BY <2>4, <2>9 DEF k
<1>14. Len(Split(s, sep)) \in Nat /\ Len(Split(t, sep)) = Len(Split(s, sep)) + 1
       /\ Len(Split(s, sep)) + 1 = Len(v) + 2 /\ Len(t) = n + 1 + m
  BY <1>1, <1>4, <1>6, <1>9, <1>10
<1> QED  BY <1>4, <1>9, <1>12, <1>13, <1>14 DEF n, m

-----------------------------------------------------------------------------
(* Sequences that are put together.                                        *)

(* What FlattenSeq() has put together after i of n sequences.              *)
Flattens(flat, s, n) ==
    flat = [i \in 1..n |-> IF i = 1 THEN s[i] ELSE flat[i - 1] \o s[i]]

LEMMA FlattensExists == \A s : \A n \in Nat : \E flat : Flattens(flat, s, n)
<1> TAKE s
<1> DEFINE T == {n \in Nat : \E flat : Flattens(flat, s, n)}
<1>1. 0 \in T
  <2> DEFINE flat == [i \in 1..0 |-> <<>>]
  <2>1. flat = [i \in 1..0 |-> IF i = 1 THEN s[i] ELSE flat[i - 1] \o s[i]]
    OBVIOUS
  <2> HIDE DEF flat
  <2> QED  BY <2>1 DEF Flattens
<1>2. ASSUME NEW n \in Nat, n \in T  PROVE n + 1 \in T
  <2>1. PICK old : Flattens(old, s, n)
    BY <1>2
  <2> DEFINE last == IF n + 1 = 1 THEN s[n + 1] ELSE old[n] \o s[n + 1]
             flat == [i \in 1..(n + 1) |-> IF i = n + 1 THEN last ELSE old[i]]
  <2>2. \A i \in 1..n : flat[i] = old[i]
    OBVIOUS
  <2>3. flat[n + 1] = last /\ (n + 1) - 1 = n
    OBVIOUS
  <2>4. ASSUME NEW i \in 1..(n + 1)
        PROVE  flat[i] = IF i = 1 THEN s[i] ELSE flat[i - 1] \o s[i]
    <3>1. CASE i = n + 1
      <4>1. n + 1 # 1 => flat[n] = old[n]
        BY <2>2
      <4> HIDE DEF flat
      <4> QED  BY <3>1, <2>3, <4>1
    <3>2. CASE i # n + 1
      <4>1. i \in 1..n /\ (i # 1 => i - 1 \in 1..n)
        BY <3>2
      <4>2. old[i] = IF i = 1 THEN s[i] ELSE old[i - 1] \o s[i]
        BY <2>1, <4>1 DEF Flattens
      <4>3. flat[i] = old[i] /\ (i # 1 => flat[i - 1] = old[i - 1])
        BY <2>2, <4>1
      <4> HIDE DEF flat
      <4> QED  BY <4>2, <4>3
    <3> QED  BY <3>1, <3>2
  <2>5. flat = [i \in 1..(n + 1) |-> flat[i]]
    OBVIOUS
  <2> HIDE DEF flat
  <2>6. Flattens(flat, s, n + 1)
    BY <2>4, <2>5 DEF Flattens
  <2> QED  BY <2>6
<1> HIDE DEF T
<1>3. Nat \subseteq T
  BY <1>1, <1>2, NatSetInduction
<1> QED  BY <1>3 DEF T

LEMMA FlattenSeqFlattens ==
    ASSUME NEW n \in Nat \ {0}, NEW s, Len(s) = n
    PROVE  \E flat : Flattens(flat, s, n) /\ FlattenSeq(s) = flat[n]
<1> DEFINE flat == CHOOSE g : g = [i \in 1..n |-> IF i = 1 THEN s[i] ELSE g[i - 1] \o s[i]]
<1>1. FlattenSeq(s) = flat[n]
  BY DEF FlattenSeq
<1>2. \E g : g = [i \in 1..n |-> IF i = 1 THEN s[i] ELSE g[i - 1] \o s[i]]
  <2>1. PICK g : Flattens(g, s, n)
    BY FlattensExists
  <2> HIDE DEF flat
  <2> QED  BY <2>1 DEF Flattens
<1>3. flat = [i \in 1..n |-> IF i = 1 THEN s[i] ELSE flat[i - 1] \o s[i]]
  BY <1>2
<1> HIDE DEF flat
<1> QED  BY <1>1, <1>3 DEF Flattens

LEMMA FlattensAgree ==
    \A n, m \in Nat : \A s, t, f, g :
      /\ n <= m
      /\ \A i \in 1..n : s[i] = t[i]
      /\ Flattens(f, s, n) /\ Flattens(g, t, m)
      => \A i \in 1..n : f[i] = g[i]
<1> SUFFICES ASSUME NEW n \in Nat, NEW m \in Nat, NEW s, NEW t, NEW f, NEW g,
                    n <= m, \A i \in 1..n : s[i] = t[i],
                    Flattens(f, s, n), Flattens(g, t, m)
             PROVE  \A i \in 1..n : f[i] = g[i]
  OBVIOUS
<1> DEFINE T == {i \in Nat : i \in 1..n => f[i] = g[i]}
<1>1. 0 \in T
  OBVIOUS
<1>2. ASSUME NEW i \in Nat, i \in T  PROVE i + 1 \in T
  <2> SUFFICES ASSUME i + 1 \in 1..n  PROVE f[i + 1] = g[i + 1]
    OBVIOUS
  <2>1. i + 1 \in 1..m /\ (i + 1) - 1 = i
    OBVIOUS
  <2>2. f[i + 1] = IF i + 1 = 1 THEN s[i + 1] ELSE f[i] \o s[i + 1]
    BY <2>1 DEF Flattens
  <2>3. g[i + 1] = IF i + 1 = 1 THEN t[i + 1] ELSE g[i] \o t[i + 1]
    BY <2>1 DEF Flattens
  <2>4. i + 1 # 1 => f[i] = g[i]
    BY <1>2
  <2>5. s[i + 1] = t[i + 1]
    OBVIOUS
  <2> HIDE DEF T
  <2> QED  BY <2>2, <2>3, <2>4, <2>5
<1> HIDE DEF T
<1>3. Nat \subseteq T
  BY <1>1, <1>2, NatSetInduction
<1> QED  BY <1>3 DEF T

LEMMA SeqProperties ==
    ASSUME NEW A
    PROVE  /\ <<>> \in Seq(A) /\ Len(<<>>) = 0
           /\ \A s \in Seq(A) : Len(s) \in Nat /\ s \o <<>> = s /\ <<>> \o s = s
           /\ \A s, t \in Seq(A) : s \o t \in Seq(A) /\ Len(s \o t) = Len(s) + Len(t)
           /\ \A s, t, u \in Seq(A) : (s \o t) \o u = s \o (t \o u)
<1>1. <<>> \in Seq(A) /\ Len(<<>>) = 0
  OBVIOUS
<1>2. \A s \in Seq(A) : Len(s) \in Nat /\ s \o <<>> = s /\ <<>> \o s = s
  BY ConcatEmptySeq
<1>3. \A s, t \in Seq(A) : s \o t \in Seq(A) /\ Len(s \o t) = Len(s) + Len(t)
  BY ConcatProperties
<1>4. ASSUME NEW s \in Seq(A), NEW t \in Seq(A), NEW u \in Seq(A)
      PROVE  (s \o t) \o u = s \o (t \o u)
  BY ConcatAssociative
<1> QED  BY <1>1, <1>2, <1>3, <1>4

(* The first n of some sequences, put together.                            *)
Together(s, n) == FlattenSeq([i \in 1..n |-> s[i]])

LEMMA SeqOfFirst ==
    ASSUME NEW s, NEW n \in Nat
    PROVE  Len([i \in 1..n |-> s[i]]) = n
  OBVIOUS

LEMMA TogetherNone ==
    ASSUME NEW s
    PROVE  Together(s, 0) = <<>>
<1> DEFINE e == [i \in 1..0 |-> s[i]]
<1>1. e = <<>>
  OBVIOUS
<1>2. Len(e) = 0
  BY <1>1
<1> QED  BY <1>1, <1>2 DEF Together, FlattenSeq

LEMMA TogetherNext ==
    ASSUME NEW A, NEW n \in Nat, NEW s, \A i \in 1..(n + 1) : s[i] \in Seq(A)
    PROVE  Together(s, n + 1) = Together(s, n) \o s[n + 1]
<1> DEFINE a == [i \in 1..n |-> s[i]]
           b == [i \in 1..(n + 1) |-> s[i]]
<1>1. Len(a) = n /\ Len(b) = n + 1 /\ b[n + 1] = s[n + 1] /\ \A i \in 1..n : a[i] = b[i]
  BY SeqOfFirst
<1>2. Together(s, n) = FlattenSeq(a) /\ Together(s, n + 1) = FlattenSeq(b)
  BY DEF Together
<1> HIDE DEF a, b
<1>3. PICK g : Flattens(g, b, n + 1) /\ FlattenSeq(b) = g[n + 1]
  BY <1>1, FlattenSeqFlattens
<1>4. g[n + 1] = IF n + 1 = 1 THEN b[n + 1] ELSE g[n] \o b[n + 1]
  <2>1. n + 1 \in 1..(n + 1) /\ (n + 1) - 1 = n
    OBVIOUS
  <2> QED  BY <1>3, <2>1 DEF Flattens
<1>5. CASE n = 0
  <2>1. Together(s, n) = <<>>
    BY <1>5, TogetherNone
  <2>2. s[n + 1] \in Seq(A)
    OBVIOUS
  <2>3. Together(s, n + 1) = s[n + 1]
    BY <1>1, <1>2, <1>3, <1>4, <1>5
  <2> QED  BY <2>1, <2>2, <2>3, SeqProperties
<1>6. CASE n # 0
  <2>1. PICK f : Flattens(f, a, n) /\ FlattenSeq(a) = f[n]
    BY <1>1, <1>6, FlattenSeqFlattens
  <2>2. f[n] = g[n]
    <3>1. n \in 1..n /\ n + 1 \in Nat /\ n <= n + 1
      BY <1>6
    <3>2. \A i \in 1..n : f[i] = g[i]
      BY <1>1, <1>3, <2>1, <3>1, FlattensAgree
    <3> QED  BY <3>1, <3>2
  <2>3. n + 1 # 1
    BY <1>6
  <2> QED  BY <1>1, <1>2, <1>3, <1>4, <2>1, <2>2, <2>3
<1> QED  BY <1>5, <1>6

LEMMA TogetherIsSeq ==
    ASSUME NEW A, NEW n \in Nat, NEW s, \A i \in 1..n : s[i] \in Seq(A)
    PROVE  \A i \in 0..n : Together(s, i) \in Seq(A)
<1> DEFINE T == {i \in Nat : i <= n => Together(s, i) \in Seq(A)}
<1>1. 0 \in T
  BY TogetherNone, SeqProperties
<1>2. ASSUME NEW i \in Nat, i \in T  PROVE i + 1 \in T
  <2> SUFFICES ASSUME i + 1 <= n  PROVE Together(s, i + 1) \in Seq(A)
    OBVIOUS
  <2>1. Together(s, i) \in Seq(A)
    BY <1>2
  <2>2. \A k \in 1..(i + 1) : s[k] \in Seq(A)
    OBVIOUS
  <2>3. s[i + 1] \in Seq(A)
    OBVIOUS
  <2> HIDE DEF T
  <2>4. Together(s, i + 1) = Together(s, i) \o s[i + 1]
    BY <2>2, TogetherNext
  <2> QED  BY <2>1, <2>3, <2>4, SeqProperties
<1> HIDE DEF T
<1>3. Nat \subseteq T
  BY <1>1, <1>2, NatSetInduction
<1> QED  BY <1>3 DEF T

Begins(A, whole, front) == \E rest \in Seq(A) : whole = front \o rest

(* What comes first is found at the front, whatever follows.               *)
LEMMA TogetherPrefix ==
    ASSUME NEW A, NEW n \in Nat, NEW s, \A i \in 1..n : s[i] \in Seq(A), NEW k \in 0..n
    PROVE  Begins(A, Together(s, n), Together(s, k))
<1> USE DEF Begins
<1> DEFINE T == {i \in Nat : k + i <= n =>
                   \E rest \in Seq(A) : Together(s, k + i) = Together(s, k) \o rest}
<1>0. Together(s, k) \in Seq(A)
  BY TogetherIsSeq
<1>1. 0 \in T
  <2>1. k + 0 = k
    OBVIOUS
  <2>2. Together(s, k) = Together(s, k) \o <<>> /\ <<>> \in Seq(A)
    BY <1>0, SeqProperties
  <2> QED  BY <2>1, <2>2
<1>2. ASSUME NEW i \in Nat, i \in T  PROVE i + 1 \in T
  <2> SUFFICES ASSUME k + (i + 1) <= n
               PROVE  \E rest \in Seq(A) : Together(s, k + (i + 1)) = Together(s, k) \o rest
    OBVIOUS
  <2>1. PICK rest \in Seq(A) : Together(s, k + i) = Together(s, k) \o rest
    BY <1>2
  <2>2. k + (i + 1) = (k + i) + 1 /\ k + i \in Nat /\ (k + i) + 1 \in 1..n
    OBVIOUS
  <2>3. Together(s, (k + i) + 1) = Together(s, k + i) \o s[(k + i) + 1]
    <3>1. \A j \in 1..((k + i) + 1) : s[j] \in Seq(A)
      BY <2>2
    <3> HIDE DEF T
    <3> QED  BY <2>2, <3>1, TogetherNext
  <2>4. s[(k + i) + 1] \in Seq(A)
    BY <2>2
  <2> HIDE DEF T
  <2>5. Together(s, (k + i) + 1) = Together(s, k) \o (rest \o s[(k + i) + 1])
    <3> DEFINE a == Together(s, k)
               c == s[(k + i) + 1]
    <3>0. a \in Seq(A) /\ c \in Seq(A)
      BY <1>0, <2>4
    <3> HIDE DEF a, c
    <3>1. (a \o rest) \o c = a \o (rest \o c)
      BY <3>0, ConcatAssociative
    <3> QED  BY <2>1, <2>3, <3>1 DEF a, c
  <2>6. rest \o s[(k + i) + 1] \in Seq(A)
    BY <2>4, SeqProperties
  <2> QED  BY <2>2, <2>5, <2>6
<1> HIDE DEF T
<1>3. n - k \in T
  BY <1>1, <1>2, NatSetInduction
<1>4. k + (n - k) = n
  OBVIOUS
<1> QED  BY <1>3, <1>4 DEF T


(* Each of the sequences is found where the ones before it end.            *)
LEMMA TogetherHas ==
    ASSUME NEW A, NEW n \in Nat, NEW s, \A i \in 1..n : s[i] \in Seq(A),
           NEW i \in 0..(n - 1)
    PROVE  /\ Len(Together(s, i)) \in Nat /\ Len(s[i + 1]) \in Nat
           /\ Len(Together(s, i + 1)) = Len(Together(s, i)) + Len(s[i + 1])
           /\ Len(Together(s, i + 1)) <= Len(Together(s, n))
           /\ \A o \in 1..Len(s[i + 1]) :
                 Together(s, n)[Len(Together(s, i)) + o] = s[i + 1][o]
<1>0. \A k \in 0..n : Begins(A, Together(s, n), Together(s, k))
  BY TogetherPrefix
<1> DEFINE a == Together(s, i)
           b == s[i + 1]
           c == Together(s, i + 1)
           d == Together(s, n)
<1>1. i \in Nat /\ i \in 0..n /\ i + 1 \in 0..n /\ i + 1 \in 1..n
  OBVIOUS
<1>2. a \in Seq(A) /\ b \in Seq(A) /\ c \in Seq(A)
  BY <1>1, TogetherIsSeq
<1>3. c = a \o b
  <2>1. \A k \in 1..(i + 1) : s[k] \in Seq(A)
    OBVIOUS
  <2> QED  BY <1>1, <2>1, TogetherNext
<1>4. PICK rest \in Seq(A) : d = c \o rest
  BY <1>0, <1>1 DEF Begins
<1> HIDE DEF a, b, c, d
<1>5. Len(a) \in Nat /\ Len(b) \in Nat /\ Len(c) = Len(a) + Len(b) /\ Len(rest) \in Nat
  BY <1>2, <1>3, SeqProperties
<1>6. Len(d) = Len(c) + Len(rest)
  BY <1>2, <1>4, SeqProperties
<1>7. ASSUME NEW o \in 1..Len(b)  PROVE d[Len(a) + o] = b[o]
  <2> DEFINE k == Len(a) + o
  <2>1. k \in 1..(Len(a) + Len(b)) /\ k \in 1..(Len(c) + Len(rest))
        /\ k <= Len(c) /\ ~(k <= Len(a)) /\ k - Len(a) = o
    BY <1>5
  <2> HIDE DEF k
  <2>2. d[k] = c[k]
    BY <1>2, <1>4, <2>1, ConcatProperties
  <2>3. c[k] = b[o]
    BY <1>2, <1>3, <2>1, ConcatProperties
  <2> QED  BY <2>2, <2>3 DEF k
<1> QED  BY <1>5, <1>6, <1>7 DEF a, b, c, d

(* All of them. *)
LEMMA FlattenIsTogether ==
    ASSUME NEW A, NEW s \in Seq(Seq(A))
    PROVE  FlattenSeq(s) = Together(s, Len(s)) /\ FlattenSeq(s) \in Seq(A)
<1>1. Len(s) \in Nat /\ \A i \in 1..Len(s) : s[i] \in Seq(A)
  BY LenProperties, ElementOfSeq
<1>2. s = [i \in 1..Len(s) |-> s[i]]
  BY LenProperties
<1>3. FlattenSeq(s) = Together(s, Len(s))
  BY <1>2 DEF Together
<1>4. Len(s) \in 0..Len(s)
  BY <1>1
<1> HIDE DEF Together
<1> QED  BY <1>1, <1>3, <1>4, TogetherIsSeq

-----------------------------------------------------------------------------
(* The lines of a multipart form.                                          *)
Sent(f)      == f.content \o <<CR, LF>>
HeaderLines(f) == IF f.kind = "file" THEN 2 ELSE 1

LEMMA ValuesAreLines ==
    /\ CR \in 0..127 /\ LF \in 0..127 /\ <<CR, LF>> \in Text
    /\ Boundary \in Line /\ EmptyLine \in Line /\ OtherHeader \in Line
    /\ \A f \in Field : Disposition(f) \in Line
    /\ \A text \in Text : Data(text) \in Line
<1>1. CR \in 0..127 /\ LF \in 0..127
  BY DEF CR, LF
<1>2. <<CR, LF>> \in Text
  BY <1>1, TwoElements DEF Text
<1>3. Boundary \in Line
  BY DEF Line
<1>4. \A text \in Text : Data(text) \in Line
  BY DEF Line, Data
<1>5. EmptyLine \in Line
  BY <1>2, <1>4 DEF EmptyLine
<1>6. OtherHeader \in Line
  BY DEF Line, OtherHeader
<1>7. ASSUME NEW f \in Field  PROVE Disposition(f) \in Line
  <2>1. <<f>> \in Seq(Field)
    OBVIOUS
  <2> QED  BY <2>1 DEF Line, Disposition
<1> QED  BY <1>1, <1>2, <1>3, <1>4, <1>5, <1>6, <1>7

LEMMA KindsOfLines ==
    /\ Boundary.t = "boundary" /\ EmptyLine.t = "data" /\ OtherHeader.t = "header"
    /\ OtherHeader.field = <<>> /\ EmptyLine.text = <<CR, LF>>
    /\ \A f : Disposition(f).t = "header" /\ Disposition(f).field = <<f>>
    /\ \A text : Data(text).t = "data" /\ Data(text).text = text
  BY DEF Boundary, EmptyLine, OtherHeader, Disposition, Data

LEMMA SentIs ==
    ASSUME NEW f \in Field
    PROVE  /\ Sent(f) \in Text /\ f.content \in Text
           /\ Len(Sent(f)) = Len(f.content) + 2 /\ Len(f.content) \in Nat
           /\ Len(Lines(Sent(f))) \in Nat \ {0}
           /\ LineEnds(Sent(f))[Len(Lines(Sent(f))) + 1] = Len(Sent(f))
           /\ (\A i \in 1..Len(f.content) : f.content[i] # LF) => Lines(Sent(f)) = <<Sent(f)>>
<1>1. f.content \in Seq(0..127)
  BY DEF Field, Text
<1>2. CR \in 0..127 /\ LF \in 0..127
  BY ValuesAreLines
<1>3. Sent(f) = f.content \o <<CR, LF>>
  BY DEF Sent
<1> DEFINE t == Sent(f)
           s == f.content
<1>4. t = s \o <<CR, LF>> /\ s \in Seq(0..127)
  BY <1>1, <1>3
<1> HIDE DEF t, s
<1>5. /\ t \in Seq(0..127) /\ Len(t) = Len(s) + 2
      /\ Len(Lines(t)) \in Nat \ {0}
      /\ LineEnds(t)[Len(Lines(t)) + 1] = Len(t)
      /\ (\A i \in 1..Len(s) : s[i] # LF) => Lines(t) = <<t>>
  <2> DEFINE A == 0..127
  <2>1. s \in Seq(A) /\ t = s \o <<CR, LF>> /\ CR \in A /\ LF \in A
    BY <1>2, <1>4
  <2> HIDE DEF A
  <2>2. /\ t \in Seq(A) /\ Len(t) = Len(s) + 2
        /\ Len(Lines(t)) \in Nat \ {0}
        /\ LineEnds(t)[Len(Lines(t)) + 1] = Len(t)
        /\ (\A i \in 1..Len(s) : s[i] # LF) => Lines(t) = <<t>>
    BY <2>1, TextHasLines
  <2> QED  BY <2>2 DEF A
<1>6. Len(s) \in Nat
  BY <1>4, LenProperties
<1> QED  BY <1>4, <1>5, <1>6 DEF t, s, Text

LEMMA LinesAreText ==
    ASSUME NEW f \in Field, NEW k \in 1..Len(Lines(Sent(f)))
    PROVE  Lines(Sent(f))[k] \in Text
<1>1. Sent(f) \in Seq(0..127)
  BY SentIs DEF Text
<1> QED  BY <1>1, LineAdded DEF Text

LEMMA PartIs ==
    ASSUME NEW f \in Field
    PROVE  /\ Part(f) \in Seq(Line)
           /\ HeaderLines(f) \in {1, 2} /\ Len(Lines(Sent(f))) \in Nat \ {0}
           /\ Len(Part(f)) = HeaderLines(f) + 2 + Len(Lines(Sent(f)))
           /\ Part(f)[1] = Disposition(f)
           /\ HeaderLines(f) = 2 => Part(f)[2] = OtherHeader
           /\ Part(f)[HeaderLines(f) + 1] = EmptyLine
           /\ \A k \in 1..Len(Lines(Sent(f))) :
                 Part(f)[HeaderLines(f) + 1 + k] = Data(Lines(Sent(f))[k])
           /\ Part(f)[HeaderLines(f) + 2 + Len(Lines(Sent(f)))] = Boundary
<1> DEFINE L == Lines(Sent(f))
           n == Len(L)
           h == HeaderLines(f)
           headers == <<Disposition(f)>> \o (IF f.kind = "file" THEN <<OtherHeader>> ELSE <<>>)
           top == headers \o <<EmptyLine>>
           content == [i \in DOMAIN L |-> Data(L[i])]
           opened == top \o content
<1>1. Part(f) = opened \o <<Boundary>>
  BY DEF Part, Sent
<1>2. n \in Nat \ {0} /\ DOMAIN L = 1..n /\ h \in {1, 2}
  <2>1. Sent(f) \in Seq(0..127)
    BY SentIs DEF Text
  <2>2. DOMAIN L = 1..n
    BY <2>1, LinesAre
  <2> QED  BY <2>2, SentIs DEF HeaderLines
<1>3. /\ headers \in Seq(Line) /\ Len(headers) = h
      /\ headers[1] = Disposition(f) /\ (h = 2 => headers[2] = OtherHeader)
  <2>1. /\ <<Disposition(f)>> \in Seq(Line) /\ Len(<<Disposition(f)>>) = 1
        /\ <<Disposition(f)>>[1] = Disposition(f)
    BY ValuesAreLines
  <2>2. CASE f.kind = "file"
    <3>1. <<OtherHeader>> \in Seq(Line) /\ Len(<<OtherHeader>>) = 1
          /\ <<OtherHeader>>[1] = OtherHeader
      BY ValuesAreLines
    <3>2. headers = <<Disposition(f)>> \o <<OtherHeader>> /\ h = 2
      BY <2>2 DEF HeaderLines
    <3> HIDE DEF headers, h
    <3>3. /\ headers \in Seq(Line) /\ Len(headers) = 1 + 1
          /\ \A i \in 1..(1 + 1) : headers[i] = IF i <= 1 THEN <<Disposition(f)>>[i]
                                                ELSE <<OtherHeader>>[i - 1]
      BY <2>1, <3>1, <3>2, ConcatProperties
    <3> QED  BY <2>1, <3>1, <3>2, <3>3
  <2>3. CASE f.kind # "file"
    <3>1. headers = <<Disposition(f)>> \o <<>> /\ h = 1
      BY <2>3 DEF HeaderLines
    <3> HIDE DEF headers, h
    <3>2. headers = <<Disposition(f)>>
      BY <2>1, <3>1, ConcatEmptySeq
    <3> QED  BY <2>1, <3>1, <3>2
  <2> QED  BY <2>2, <2>3
<1>4. top = headers \o <<EmptyLine>> /\ opened = top \o content
  OBVIOUS
<1>5. content = [i \in 1..n |-> Data(L[i])]
  BY <1>2
<1>6. \A i \in 1..n : L[i] \in Text /\ Data(L[i]) \in Line
  BY LinesAreText, ValuesAreLines
<1> HIDE DEF L, n, h, headers, top, content, opened
<1>7. /\ content \in Seq(Line) /\ Len(content) = n
      /\ \A i \in 1..n : content[i] = Data(L[i])
  BY <1>2, <1>5, <1>6
<1>8. /\ <<EmptyLine>> \in Seq(Line) /\ Len(<<EmptyLine>>) = 1 /\ <<EmptyLine>>[1] = EmptyLine
      /\ <<Boundary>> \in Seq(Line) /\ Len(<<Boundary>>) = 1 /\ <<Boundary>>[1] = Boundary
  BY ValuesAreLines
<1>9. /\ top \in Seq(Line) /\ Len(top) = h + 1
      /\ \A i \in 1..(h + 1) : top[i] = IF i <= h THEN headers[i] ELSE <<EmptyLine>>[i - h]
  BY <1>3, <1>4, <1>8, ConcatProperties
<1>10. /\ opened \in Seq(Line) /\ Len(opened) = (h + 1) + n
       /\ \A i \in 1..((h + 1) + n) : opened[i] = IF i <= h + 1 THEN top[i]
                                                ELSE content[i - (h + 1)]
  BY <1>4, <1>7, <1>9, ConcatProperties
<1> DEFINE m == (h + 1) + n
<1>11. m \in Nat /\ Len(opened) = m
  BY <1>2, <1>10
<1>12. m = (h + 1) + n
  OBVIOUS
<1> HIDE DEF m
<1>13. /\ Part(f) \in Seq(Line) /\ Len(Part(f)) = m + 1 /\ Part(f)[m + 1] = Boundary
       /\ \A i \in 1..m : Part(f)[i] = opened[i]
  <2>1. opened \in Seq(Line) /\ Len(opened) = m /\ Boundary \in Line
    BY <1>10, <1>11, ValuesAreLines
  <2>2. Part(f) = Append(opened, Boundary)
    BY <1>1, <2>1, AppendIsConcat
  <2> QED  BY <2>1, <2>2, AppendProperties
<1>14. ASSUME NEW i \in 1..h  PROVE Part(f)[i] = headers[i]
  <2>1. i \in 1..m /\ i \in 1..((h + 1) + n) /\ i <= h + 1 /\ i \in 1..(h + 1)
        /\ i <= h
    BY <1>2, <1>12
  <2> QED  BY <1>9, <1>10, <1>13, <2>1
<1>15. Part(f)[h + 1] = EmptyLine
  <2>1. /\ h + 1 \in 1..m /\ h + 1 \in 1..((h + 1) + n)
        /\ h + 1 \in 1..(h + 1) /\ ~(h + 1 <= h) /\ (h + 1) - h = 1 /\ h + 1 <= h + 1
    BY <1>2, <1>12
  <2> QED  BY <1>8, <1>9, <1>10, <1>13, <2>1
<1>16. ASSUME NEW k \in 1..n  PROVE Part(f)[h + 1 + k] = Data(L[k])
  <2> DEFINE i == h + 1 + k
  <2>1. i \in 1..m /\ i \in 1..((h + 1) + n) /\ ~(i <= h + 1) /\ i - (h + 1) = k
    BY <1>2, <1>12
  <2> HIDE DEF i
  <2>2. Part(f)[i] = content[k]
    BY <1>10, <1>13, <2>1
  <2> QED  BY <1>7, <2>2 DEF i
<1>17. Part(f)[h + 2 + n] = Boundary
  <2>1. h + 2 + n = m + 1
    BY <1>2, <1>11, <1>12
  <2> QED  BY <1>13, <2>1
<1>18. Len(Part(f)) = h + 2 + n
  BY <1>2, <1>12, <1>13
<1>19. Part(f)[1] = Disposition(f) /\ (h = 2 => Part(f)[2] = OtherHeader)
  BY <1>2, <1>3, <1>14
<1> QED  BY <1>2, <1>13, <1>15, <1>16, <1>17, <1>18, <1>19 DEF L, n, h

-----------------------------------------------------------------------------
(* The body of a form.                                                     *)
LEMMA FunctionIsSeq ==
    ASSUME NEW A, NEW n \in Nat, NEW g \in [1..n -> A]
    PROVE  g \in Seq(A) /\ Len(g) = n
  OBVIOUS

LEMMA HexDigitIs == \A n \in 0..15 : HexDigit[n] \in 48..57 \cup 65..70
  BY DEF HexDigit

LEMMA CodeIs == \A c \in 0..127 : Code(c) \in Text
<1> TAKE c \in 0..127
<1>1. CASE c = Space
  <2>1. c \notin Digits \cup Letters
    BY <1>1 DEF Space, Digits, Letters
  <2>2. Code(c) = <<43>>
    BY <1>1, <2>1 DEF Code
  <2> QED  BY <2>2 DEF Text
<1>2. CASE c # Space /\ c \in Digits \cup Letters
  BY <1>2 DEF Code, Text
<1>3. CASE c # Space /\ c \notin Digits \cup Letters
  <2>1. c \div 16 \in 0..15 /\ c % 16 \in 0..15
    OBVIOUS
  <2>2. HexDigit[c \div 16] \in 0..127 /\ HexDigit[c % 16] \in 0..127
    BY <2>1, HexDigitIs
  <2>3. Code(c) = <<37, HexDigit[c \div 16], HexDigit[c % 16]>>
    BY <1>3 DEF Code
  <2> QED  BY <2>2, <2>3 DEF Text
<1> QED  BY <1>1, <1>2, <1>3

LEMMA UrlEncodeIs ==
    ASSUME NEW text \in Text
    PROVE  UrlEncode(text) \in Text
<1> DEFINE codes == [i \in DOMAIN text |-> Code(text[i])]
<1>1. Len(text) \in Nat /\ DOMAIN text = 1..Len(text) /\ \A i \in 1..Len(text) : text[i] \in 0..127
  BY LenProperties, ElementOfSeq DEF Text
<1>2. codes \in Seq(Text)
  <2>1. codes \in [1..Len(text) -> Text]
    BY <1>1, CodeIs
  <2> HIDE DEF codes
  <2> QED  BY <1>1, <2>1, FunctionIsSeq
<1>3. UrlEncode(text) = FlattenSeq(codes)
  BY DEF UrlEncode
<1> HIDE DEF codes
<1> QED  BY <1>2, <1>3, FlattenIsTogether DEF Text

LEMMA PairIs ==
    ASSUME NEW f \in Field
    PROVE  Pair(f) \in Text
<1>1. UrlEncode(f.name) \in Seq(0..127) /\ UrlEncode(f.content) \in Seq(0..127)
  BY UrlEncodeIs DEF Field, Text
<1>2. <<61>> \in Seq(0..127)
  OBVIOUS
<1> DEFINE a == UrlEncode(f.name)
           b == UrlEncode(f.content)
<1> HIDE DEF a, b
<1>3. (a \o <<61>>) \o b \in Seq(0..127)
  BY <1>1, <1>2, ConcatProperties DEF a, b
<1> QED  BY <1>3 DEF Pair, Text, a, b

LEMMA FormIs ==
    ASSUME NEW f \in Forms
    PROVE  /\ f.method \in {"GET", "POST"} /\ f.encoding \in {"url", "multipart", "other"}
           /\ f.fields \in Seq(Field) /\ f.ended \in BOOLEAN
           /\ Len(f.fields) \in Nat /\ DOMAIN f.fields = 1..Len(f.fields)
           /\ \A i \in 1..Len(f.fields) : f.fields[i] \in Field
<1>1. f \in Form
  BY FormsAssumption
<1>2. f.fields \in Seq(Field)
  BY <1>1 DEF Form
<1>3. Len(f.fields) \in Nat /\ DOMAIN f.fields = 1..Len(f.fields)
  BY <1>2, LenProperties
<1>4. \A i \in 1..Len(f.fields) : f.fields[i] \in Field
  BY <1>2, ElementOfSeq
<1> QED  BY <1>1, <1>2, <1>3, <1>4 DEF Form

(* The parts of a multipart form. *)
Parts(f) == [i \in DOMAIN f.fields |-> Part(f.fields[i])]
Behind(f, i) == Len(Together(Parts(f), i))

LEMMA PartsAre ==
    ASSUME NEW f \in Forms
    PROVE  /\ Parts(f) \in Seq(Seq(Line)) /\ Len(Parts(f)) = Len(f.fields)
           /\ \A i \in 1..Len(f.fields) : Parts(f)[i] = Part(f.fields[i])
<1>1. /\ Len(f.fields) \in Nat /\ DOMAIN f.fields = 1..Len(f.fields)
      /\ \A i \in 1..Len(f.fields) : f.fields[i] \in Field
  BY FormIs
<1>2. \A i \in 1..Len(f.fields) : Part(f.fields[i]) \in Seq(Line)
  BY <1>1, PartIs
<1> QED  BY <1>1, <1>2 DEF Parts

LEMMA BodyIs ==
    ASSUME NEW f \in Forms
    PROVE  /\ f.encoding = "multipart" => Body(f) \in Seq(Line) /\ Len(Body(f)) \in Nat \ {0}
           /\ f.encoding # "multipart" => Body(f) \in Text /\ Len(Body(f)) \in Nat
<1>1. CASE f.encoding = "multipart"
  <2> DEFINE flat == FlattenSeq(Parts(f))
  <2>1. Body(f) = <<Boundary>> \o flat
    BY <1>1 DEF Body, Parts
  <2>2. flat \in Seq(Line)
    BY PartsAre, FlattenIsTogether
  <2> HIDE DEF flat
  <2>3. <<Boundary>> \in Seq(Line) /\ Len(<<Boundary>>) = 1
    BY ValuesAreLines
  <2>4. Body(f) \in Seq(Line) /\ Len(Body(f)) = 1 + Len(flat)
    BY <2>1, <2>2, <2>3, ConcatProperties
  <2>5. Len(flat) \in Nat
    BY <2>2, LenProperties
  <2> QED  BY <1>1, <2>4, <2>5
<1>2. CASE f.encoding # "multipart"
  <2> DEFINE pairs == [i \in DOMAIN f.fields |->
                          (IF i = 1 THEN <<>> ELSE <<38>>) \o Pair(f.fields[i])]
  <2>1. Body(f) = FlattenSeq(pairs)
    BY <1>2 DEF Body
  <2>2. ASSUME NEW i \in 1..Len(f.fields)
        PROVE  (IF i = 1 THEN <<>> ELSE <<38>>) \o Pair(f.fields[i]) \in Text
    <3> DEFINE a == IF i = 1 THEN <<>> ELSE <<38>>
               b == Pair(f.fields[i])
    <3>1. a \in Seq(0..127) /\ b \in Seq(0..127)
      <4>1. f.fields[i] \in Field
        BY FormIs
      <4>2. <<>> \in Seq(0..127) /\ <<38>> \in Seq(0..127)
        OBVIOUS
      <4> QED  BY <4>1, <4>2, PairIs DEF Text
    <3> HIDE DEF a, b
    <3>2. a \o b \in Seq(0..127)
      BY <3>1, ConcatProperties
    <3> QED  BY <3>2 DEF a, b, Text
  <2>3. pairs \in Seq(Text)
    <3>1. DOMAIN f.fields = 1..Len(f.fields) /\ Len(f.fields) \in Nat
      BY FormIs
    <3>2. pairs \in [1..Len(f.fields) -> Text]
      BY <2>2, <3>1
    <3> HIDE DEF pairs
    <3> QED  BY <3>1, <3>2, FunctionIsSeq
  <2> HIDE DEF pairs
  <2>4. Body(f) \in Seq(0..127)
    BY <2>1, <2>3, FlattenIsTogether DEF Text
  <2> QED  BY <1>2, <2>4, LenProperties DEF Text
<1> QED  BY <1>1, <1>2

(* Where the lines of each part are in it. *)
LEMMA LinesOfBody ==
    ASSUME NEW f \in Forms, f.encoding = "multipart"
    PROVE  /\ Behind(f, 0) = 0 /\ Body(f)[1] = Boundary
           /\ Len(Body(f)) = 1 + Behind(f, Len(f.fields))
           /\ \A i \in 0..(Len(f.fields) - 1) :
                /\ Behind(f, i) \in Nat
                /\ Behind(f, i + 1) = Behind(f, i) + Len(Part(f.fields[i + 1]))
                /\ Behind(f, i + 1) <= Behind(f, Len(f.fields))
                /\ \A o \in 1..Len(Part(f.fields[i + 1])) :
                      Body(f)[1 + Behind(f, i) + o] = Part(f.fields[i + 1])[o]
<1> DEFINE n == Len(f.fields)
           flat == Together(Parts(f), n)
<1>1. n \in Nat /\ \A i \in 1..n : Parts(f)[i] = Part(f.fields[i]) /\ Parts(f)[i] \in Seq(Line)
  <2>1. n \in Nat /\ Parts(f) \in Seq(Seq(Line)) /\ Len(Parts(f)) = n
        /\ \A i \in 1..n : Parts(f)[i] = Part(f.fields[i])
    BY FormIs, PartsAre
  <2> HIDE DEF n
  <2>2. \A i \in 1..n : Parts(f)[i] \in Seq(Line)
    BY <2>1, ElementOfSeq
  <2> QED  BY <2>1, <2>2
<1>2. Body(f) = <<Boundary>> \o flat
  <2>1. Body(f) = <<Boundary>> \o FlattenSeq(Parts(f))
    BY DEF Body, Parts
  <2> QED  BY <2>1, PartsAre, FlattenIsTogether
<1>3. Len(flat) = Behind(f, n)
  BY DEF Behind
<1>4. flat \in Seq(Line)
  <2>1. n \in 0..n
    BY <1>1
  <2> HIDE DEF n
  <2> QED  BY <1>1, <2>1, TogetherIsSeq
<1> HIDE DEF flat
<1>5. <<Boundary>> \in Seq(Line) /\ Len(<<Boundary>>) = 1 /\ <<Boundary>>[1] = Boundary
  BY ValuesAreLines
<1>6. /\ Len(Body(f)) = 1 + Len(flat)
      /\ \A i \in 1..(1 + Len(flat)) : Body(f)[i] = IF i <= 1 THEN <<Boundary>>[i]
                                                    ELSE flat[i - 1]
  BY <1>2, <1>4, <1>5, ConcatProperties
<1>7. Len(flat) \in Nat
  BY <1>4, LenProperties
<1>8. Behind(f, 0) = 0
  BY TogetherNone DEF Behind
<1> HIDE DEF n
<1>9. ASSUME NEW i \in 0..(n - 1)
      PROVE  /\ Behind(f, i) \in Nat
             /\ Behind(f, i + 1) = Behind(f, i) + Len(Part(f.fields[i + 1]))
             /\ Behind(f, i + 1) <= Behind(f, n)
             /\ \A o \in 1..Len(Part(f.fields[i + 1])) :
                   Body(f)[1 + Behind(f, i) + o] = Part(f.fields[i + 1])[o]
  <2> DEFINE p == Part(f.fields[i + 1])
  <2>1. Parts(f)[i + 1] = p
    BY <1>1
  <2> HIDE DEF p
  <2>2. /\ Behind(f, i) \in Nat /\ Len(p) \in Nat
        /\ Behind(f, i + 1) = Behind(f, i) + Len(p)
        /\ Behind(f, i + 1) <= Behind(f, n)
        /\ \A o \in 1..Len(p) : flat[Behind(f, i) + o] = p[o]
    <3> DEFINE s == Parts(f)
    <3>1. n \in Nat /\ \A k \in 1..n : s[k] \in Seq(Line)
      BY <1>1
    <3>2. s[i + 1] = p /\ flat = Together(s, n)
      BY <2>1 DEF flat
    <3> HIDE DEF s
    <3>3. /\ Len(Together(s, i)) \in Nat /\ Len(s[i + 1]) \in Nat
          /\ Len(Together(s, i + 1)) = Len(Together(s, i)) + Len(s[i + 1])
          /\ Len(Together(s, i + 1)) <= Len(Together(s, n))
          /\ \A o \in 1..Len(s[i + 1]) :
                Together(s, n)[Len(Together(s, i)) + o] = s[i + 1][o]
      BY <3>1, TogetherHas
    <3>4. /\ Behind(f, i) = Len(Together(s, i)) /\ Behind(f, n) = Len(Together(s, n))
          /\ Behind(f, i + 1) = Len(Together(s, i + 1))
      BY DEF Behind, s
    <3> QED  BY <3>2, <3>3, <3>4
  <2>3. ASSUME NEW o \in 1..Len(p)  PROVE Body(f)[1 + Behind(f, i) + o] = p[o]
    <3> DEFINE k == 1 + Behind(f, i) + o
    <3>1. k \in 1..(1 + Len(flat)) /\ ~(k <= 1) /\ k - 1 = Behind(f, i) + o
      BY <1>3, <1>7, <2>2
    <3> HIDE DEF k
    <3>2. Body(f)[k] = flat[k - 1]
      BY <1>6, <3>1
    <3> QED  BY <2>2, <3>1, <3>2 DEF k
  <2> QED  BY <2>2, <2>3 DEF p
<1>10. Body(f)[1] = Boundary
  BY <1>5, <1>6, <1>7
<1> QED  BY <1>3, <1>6, <1>8, <1>9, <1>10 DEF n

-----------------------------------------------------------------------------
(* Types.  The open file is there since a part has a file name from where  *)
(* it is opened to the boundary.                                           *)
Phases ==
    /\ phase \in {"first line", "parts"} => form.encoding = "multipart"
    /\ phase \in {"reading", "first line", "parts"} => post_tempdir
    /\ phase \in {"starting", "reading", "first line"} => part = NewPart
    /\ phase = "parts" => (part.open <=> part.filename # "")
    /\ part.header => part.filename = "" /\ ~part.open /\ part.pos = 0
    /\ stdin # <<>> => form.method = "POST"

TInv == TypeOK /\ Phases

Input == IF form.encoding = "multipart" THEN Line ELSE 0..127

LEMMA LengthStays == ASSUME form' = form  PROVE post_content_length' = post_content_length
  BY DEF post_content_length

LEMMA LengthIs == ASSUME form \in Forms  PROVE post_content_length \in Nat
<1>1. Len(Body(form)) \in Nat
  BY BodyIs, FormIs
<1> QED  BY <1>1 DEF post_content_length

LEMMA NewPartIs ==
    /\ NewPart \in PartState
    /\ NewPart.header = TRUE /\ NewPart.filename = "" /\ NewPart.open = FALSE
    /\ NewPart.pos = 0
<1>1. <<>> \in Seq(Field) /\ <<>> \in Text
  BY DEF Text
<1>2. 0 \in Nat
  OBVIOUS
<1>4. TRUE \in BOOLEAN /\ FALSE \in BOOLEAN
  OBVIOUS
<1>5. "" \in Filenames \cup {""}
  OBVIOUS
<1>3. NewPart \in PartState
  BY <1>1, <1>2, <1>4, <1>5, Zenon DEF NewPart, PartState
<1> QED  BY <1>3, Zenon DEF NewPart

LEMMA AssignIs ==
    ASSUME NEW f, NEW x, NEW v
    PROVE  /\ DOMAIN Assign(f, x, v) = DOMAIN f \cup {x}
           /\ Assign(f, x, v) = [y \in DOMAIN f \cup {x} |-> IF y = x THEN v ELSE f[y]]
           /\ Assign(f, x, v)[x] = v
           /\ \A y \in DOMAIN f : y # x => Assign(f, x, v)[y] = f[y]
  BY DEF Assign

LEMMA TypeInit == Init => TInv
<1> SUFFICES ASSUME Init  PROVE TInv
  OBVIOUS
<1>1. post_content_length \in Nat
  BY LengthIs DEF Init
<1>2. <<>> \in Seq(IF form.encoding = "multipart" THEN Line ELSE 0..127)
  OBVIOUS
<1>3. NoFiles \in [DOMAIN NoFiles -> BOOLEAN] /\ NoFiles \in [DOMAIN NoFiles -> Text]
  BY DEF NoFiles
<1>4. TypeOK
  <2>1. /\ form \in Forms /\ written \in BOOLEAN /\ eof \in BOOLEAN /\ post_tempdir \in BOOLEAN
        /\ phase \in {"starting", "reading", "first line", "parts", "loaded", "failed",
                      "exited", "kept", "killed"}
        /\ post_error \in {"NotInitialized", "Ok", "NoTempDir", "CannotSaveFile"}
        /\ (phase = "parts" /\ part.open =>
              part.filename \in DOMAIN disk /\ part.pos <= Len(disk[part.filename]))
        /\ disk = NoFiles
    BY DEF Init
  <2>2. total_bytes \in 0..post_content_length
    BY <1>1 DEF Init
  <2>3. stdin \in Seq(IF form.encoding = "multipart" THEN Line ELSE 0..127)
    BY <1>2 DEF Init
  <2>4. post_filenames \in [DOMAIN post_values -> BOOLEAN] /\ disk \in [DOMAIN disk -> Text]
    BY <1>3 DEF Init
  <2>5. part \in PartState
    BY NewPartIs DEF Init
  <2> QED  BY <2>1, <2>2, <2>3, <2>4, <2>5 DEF TypeOK
<1>5. Phases
  BY NewPartIs DEF Init, Phases
<1> QED  BY <1>4, <1>5 DEF TInv

(* The variables of the script, and what a step of the server leaves.      *)
LEMMA ServerTypes ==
    ASSUME TInv, form' = form, written' \in BOOLEAN, eof' \in BOOLEAN, UNCHANGED script,
           stdin' \in Seq(Input), stdin' # <<>> => form.method = "POST"
    PROVE  TInv'
<1> USE DEF TInv
<1>1. UNCHANGED <<phase, post_error, post_values, post_filenames, total_bytes, part, disk,
                  post_tempdir>>
  BY DEF script, loading, store, files
<1>2. post_content_length' = post_content_length /\ Input' = Input
  BY LengthStays DEF Input
<1>3. TypeOK'
  <2>1. form' \in Forms /\ stdin' \in Seq(Input)'
    BY <1>2 DEF TypeOK
  <2> QED  BY <1>1, <1>2, <2>1 DEF TypeOK, NoFiles, Input
<1>4. Phases'
  BY <1>1 DEF Phases, NewPart
<1> QED  BY <1>3, <1>4

LEMMA TypeStarted == ASSUME TInv, cgiStartedData  PROVE TInv'
<1> USE DEF TInv
<1>1. form \in Forms /\ form' = form
  BY DEF TypeOK, cgiStartedData
<1>2. stdin' \in Seq(Input) /\ (stdin' # <<>> => form.method = "POST")
  <2>1. CASE form.method = "GET"
    BY <2>1 DEF cgiStartedData
  <2>2. CASE form.method = "POST" /\ form.encoding = "multipart"
    <3> DEFINE b == Body(form)
               last == IF form.ended THEN <<EmptyLine>> ELSE <<>>
    <3>1. b \in Seq(Line)
      BY <1>1, <2>2, BodyIs
    <3>2. last \in Seq(Line)
      BY ValuesAreLines
    <3>3. stdin' = b \o last
      BY <2>2 DEF cgiStartedData
    <3> HIDE DEF b, last
    <3>4. stdin' \in Seq(Line)
      BY <3>1, <3>2, <3>3, ConcatProperties
    <3> QED  BY <2>2, <3>4 DEF Input
  <2>3. CASE form.method = "POST" /\ form.encoding # "multipart"
    <3> DEFINE b == Body(form)
    <3>1. b \in Seq(0..127)
      BY <1>1, <2>3, BodyIs DEF Text
    <3>2. <<CR, LF>> \in Seq(0..127)
      BY ValuesAreLines DEF Text
    <3>3. stdin' = b \o <<CR, LF>>
      BY <2>3 DEF cgiStartedData
    <3> HIDE DEF b
    <3>4. stdin' \in Seq(0..127)
      BY <3>1, <3>2, <3>3, ConcatProperties
    <3> QED  BY <2>3, <3>4 DEF Input
  <2> QED  BY <1>1, <2>1, <2>2, <2>3, FormIs
<1>3. UNCHANGED <<eof, script>> /\ written' = TRUE /\ eof \in BOOLEAN
  BY DEF cgiStartedData, TypeOK
<1> QED  BY <1>1, <1>2, <1>3, ServerTypes

LEMMA TypeDies == ASSUME TInv, ServerDies  PROVE TInv'
<1> USE DEF TInv
<1>1. form \in Forms /\ form' = form /\ stdin \in Seq(Input)
  BY DEF TypeOK, ServerDies, Input
<1>2. stdin' \in Seq(Input) /\ (stdin' # <<>> => stdin # <<>>)
  <2>1. PICK n \in 0..Len(stdin) : stdin' = SubSeq(stdin, 1, n)
    BY DEF ServerDies
  <2>2. Len(stdin) \in Nat
    BY <1>1, LenProperties
  <2>3. \A i \in 1..n : stdin[i] \in Input
    <3> TAKE i \in 1..n
    <3>1. i \in 1..Len(stdin)
      BY <2>2
    <3> QED  BY <1>1, <3>1, ElementOfSeq
  <2>4. SubSeq(stdin, 1, n) \in Seq(Input)
    BY <2>2, <2>3, SubSeqProperties
  <2>5. stdin = <<>> => SubSeq(stdin, 1, n) = <<>>
    BY <2>2, SubSeqEmpty
  <2> QED  BY <2>1, <2>4, <2>5
<1>3. UNCHANGED <<written, script>> /\ eof' = TRUE /\ written \in BOOLEAN
      /\ (stdin # <<>> => form.method = "POST")
  BY DEF ServerDies, TypeOK, Phases
<1> QED  BY <1>1, <1>2, <1>3, ServerTypes

LEMMA TypeKill == ASSUME TInv, Kill  PROVE TInv'
<1>1. post_content_length' = post_content_length
  BY LengthStays DEF Kill
<1> QED  BY <1>1 DEF TInv, Kill, TypeOK, Phases, loading, files, store, NoFiles, NewPart

LEMMA TypeInitialize == ASSUME TInv, Initialize  PROVE TInv'
<1>1. post_content_length' = post_content_length
  BY LengthStays DEF Initialize, server
<1>2. form.encoding \in {"url", "multipart", "other"}
  BY FormIs DEF TInv, TypeOK
<1>3. phase' \in {"reading", "first line", "loaded", "failed"}
      /\ (phase' = "first line" => form.encoding = "multipart")
      /\ (phase' # "failed" => post_tempdir') /\ part = NewPart /\ part' = part
      /\ (disk # NoFiles => post_tempdir')
  BY <1>2 DEF TInv, Initialize, Phases, TypeOK
<1> QED  BY <1>1, <1>3, NewPartIs DEF TInv, Initialize, TypeOK, Phases, server, store, NoFiles

LEMMA KindOfLine ==
    ASSUME NEW x \in Line
    PROVE  /\ x.t \in {"boundary", "header", "data"}
           /\ x.t = "header" => x.field \in Seq(Field)
           /\ x.t = "data" => x.text \in Text
  BY DEF Line, Boundary

LEMMA GetlineIs ==
    ASSUME TInv, Getline
    PROVE  /\ line \in Line /\ stdin' \in Seq(Input) /\ form' = form /\ Input' = Input
           /\ total_bytes' \in 0..post_content_length'
           /\ written' \in BOOLEAN /\ eof' \in BOOLEAN /\ form \in Forms /\ post_tempdir
           /\ phase = "parts" /\ form.encoding = "multipart" /\ form.method = "POST"
<1>1. /\ phase = "parts" /\ stdin # <<>> /\ stdin' = Tail(stdin)
      /\ total_bytes < post_content_length
      /\ total_bytes' = total_bytes + 1 /\ form' = form /\ UNCHANGED <<written, eof>>
  BY DEF Getline, server
<1>2. /\ form.encoding = "multipart" /\ form \in Forms /\ form.method = "POST" /\ post_tempdir
      /\ written \in BOOLEAN /\ eof \in BOOLEAN /\ total_bytes \in 0..post_content_length
  BY <1>1 DEF TInv, TypeOK, Phases
<1>3. stdin \in Seq(Line)
  BY <1>2 DEF TInv, TypeOK
<1>4. line \in Line /\ Tail(stdin) \in Seq(Line)
  BY <1>1, <1>3, HeadTailProperties DEF line
<1>5. post_content_length' = post_content_length /\ post_content_length \in Nat
  BY <1>1, <1>2, LengthStays, LengthIs
<1>6. Input' = Input /\ Input = Line
  BY <1>1, <1>2 DEF Input
<1>7. total_bytes' \in 0..post_content_length'
  BY <1>1, <1>2, <1>5
<1> QED  BY <1>1, <1>2, <1>4, <1>6, <1>7

(* What a step of the loop leaves to be shown. *)
LEMMA LoopTypes ==
    ASSUME TInv, Getline, part' \in PartState, phase' \in {"parts", "failed"},
           post_error' \in {"Ok", "CannotSaveFile", post_error},
           post_filenames' \in [DOMAIN post_values' -> BOOLEAN],
           disk' \in [DOMAIN disk' -> Text], post_tempdir' = post_tempdir,
           part'.header => part'.filename = "" /\ ~part'.open /\ part'.pos = 0,
           phase' = "parts" => (part'.open <=> part'.filename # ""),
           phase' = "parts" /\ part'.open =>
              part'.filename \in DOMAIN disk' /\ part'.pos <= Len(disk'[part'.filename])
    PROVE  TInv'
<1>1. /\ stdin' \in Seq(Input)' /\ form' = form
      /\ total_bytes' \in 0..post_content_length'
      /\ written' \in BOOLEAN /\ eof' \in BOOLEAN /\ form \in Forms /\ post_tempdir
      /\ phase = "parts" /\ form.encoding = "multipart" /\ form.method = "POST"
  BY GetlineIs
<1>2. TypeOK'
  <2>1. post_error' \in {"NotInitialized", "Ok", "NoTempDir", "CannotSaveFile"}
    BY DEF TInv, TypeOK
  <2>2. phase' \in {"starting", "reading", "first line", "parts", "loaded", "failed",
                    "exited", "kept", "killed"} /\ post_tempdir' = TRUE
    BY <1>1 DEF TInv, TypeOK
  <2>3. (phase = "parts" /\ part.open =>
              part.filename \in DOMAIN disk /\ part.pos <= Len(disk[part.filename]))'
    OBVIOUS
  <2> QED  BY <1>1, <2>1, <2>2, <2>3 DEF TypeOK, Input
<1>3. Phases'
  BY <1>1 DEF Phases
<1> QED  BY <1>2, <1>3 DEF TInv

LEMMA LoopIs ==
    ASSUME TInv, phase = "parts"
    PROVE  /\ part \in PartState /\ post_filenames \in [DOMAIN post_values -> BOOLEAN]
           /\ disk \in [DOMAIN disk -> Text]
           /\ part.header => part.filename = "" /\ ~part.open /\ part.pos = 0
           /\ part.open <=> part.filename # ""
           /\ part.open => part.filename \in DOMAIN disk /\ part.pos <= Len(disk[part.filename])
  BY DEF TInv, TypeOK, Phases

LEMMA TypeEndOfPart == ASSUME TInv, EndOfPart  PROVE TInv'
<1>1. /\ Getline /\ part' = NewPart /\ UNCHANGED <<phase, post_error, store, post_tempdir>>
      /\ disk' = IF part.open
                 THEN [disk EXCEPT ![part.filename] = SubSeq(@, 1, part.pos - 2)] ELSE disk
  BY DEF EndOfPart
<1>2. phase = "parts"
  BY <1>1, GetlineIs
<1>3. disk' \in [DOMAIN disk' -> Text]
  <2>1. CASE part.open
    <3> DEFINE old == disk[part.filename]
               cut == SubSeq(old, 1, part.pos - 2)
    <3>1. old \in Seq(0..127) /\ part.pos \in Nat /\ part.pos <= Len(old)
      BY <1>2, <2>1, LoopIs DEF PartState, Text
    <3>2. part.pos - 2 \in Int
      BY <3>1
    <3>3. \A i \in 1..(part.pos - 2) : old[i] \in 0..127
      <4> TAKE i \in 1..(part.pos - 2)
      <4>1. Len(old) \in Nat
        BY <3>1, LenProperties
      <4>2. i \in 1..Len(old)
        BY <3>1, <4>1
      <4> HIDE DEF old
      <4> QED  BY <3>1, <4>2, ElementOfSeq
    <3> HIDE DEF old
    <3>4. cut \in Text
      BY <3>2, <3>3, SubSeqProperties DEF Text
    <3>5. disk' = [disk EXCEPT ![part.filename] = cut]
      BY <1>1, <2>1 DEF old
    <3> HIDE DEF cut
    <3> QED  BY <1>2, <3>4, <3>5, LoopIs
  <2>2. CASE ~part.open
    BY <1>1, <1>2, <2>2, LoopIs
  <2> QED  BY <2>1, <2>2
<1>4. post_filenames' \in [DOMAIN post_values' -> BOOLEAN]
  BY <1>1, <1>2, LoopIs DEF store
<1> QED  BY <1>1, <1>2, <1>3, <1>4, NewPartIs, LoopTypes

LEMMA TypeReadHeader == ASSUME TInv, ReadHeader  PROVE TInv'
<1>1. /\ Getline /\ line.t = "header" /\ part.header
      /\ UNCHANGED <<phase, post_error, store, files>>
      /\ part' = IF line.field = <<>> THEN part ELSE [part EXCEPT !.disposition = line.field]
  BY DEF ReadHeader
<1>2. phase = "parts" /\ line.field \in Seq(Field)
  BY <1>1, GetlineIs, KindOfLine
<1>3. /\ part' \in PartState /\ part'.header = part.header /\ part'.filename = part.filename
      /\ part'.open = part.open /\ part'.pos = part.pos
  BY <1>1, <1>2, LoopIs DEF PartState
<1> QED  BY <1>1, <1>2, <1>3, LoopIs, LoopTypes DEF store, files

LEMMA TypeEndOfHeaders == ASSUME TInv, EndOfHeaders  PROVE TInv'
<1> DEFINE field == part.disposition[1]
<1>1. /\ Getline /\ part.header /\ part.disposition # <<>> /\ UNCHANGED <<store, post_tempdir>>
  BY DEF EndOfHeaders
<1>2. phase = "parts" /\ post_filenames' \in [DOMAIN post_values' -> BOOLEAN]
  BY <1>1, GetlineIs, LoopIs DEF store
<1>3. field \in Field
  <2>1. part.disposition \in Seq(Field)
    BY <1>2, LoopIs DEF PartState
  <2>2. 1 \in 1..Len(part.disposition)
    BY <1>1, <2>1, EmptySeq
  <2> QED  BY <2>1, <2>2, ElementOfSeq
<1>4. field.name \in Text /\ field.filename \in Filenames \cup {""}
  BY <1>3 DEF Field
<1>5. /\ Named \in PartState /\ Named.header = FALSE /\ Named.filename = "" /\ Named.open = FALSE
      /\ Named.pos = part.pos
  BY <1>1, <1>2, <1>4, LoopIs DEF Named, PartState
<1>6. CASE /\ field.kind = "text" /\ part' = Named /\ UNCHANGED <<phase, post_error, disk>>
  BY <1>1, <1>2, <1>5, <1>6, LoopIs, LoopTypes
<1>7. CASE /\ field.kind = "file" /\ field.filename # ""
           /\ part' = [Named EXCEPT !.filename = field.filename, !.open = TRUE]
           /\ disk' = IF field.filename \in DOMAIN disk THEN disk
                      ELSE Assign(disk, field.filename, <<>>)
           /\ UNCHANGED <<phase, post_error>>
  <2>1. /\ part' \in PartState /\ part'.header = FALSE /\ part'.filename = field.filename
        /\ part'.open = TRUE /\ part'.pos = Named.pos
    BY <1>4, <1>5, <1>7 DEF PartState
  <2>2. CASE field.filename \in DOMAIN disk
    <3>1. disk' = disk
      BY <1>7, <2>2
    <3>2. Len(disk[field.filename]) \in Nat
      <4>1. disk[field.filename] \in Seq(0..127)
        BY <1>2, <2>2, LoopIs DEF Text
      <4> QED  BY <4>1, LenProperties
    <3>3. part'.pos = 0 /\ field.filename # ""
      BY <1>1, <1>2, <1>5, <1>7, <2>1, LoopIs
    <3>4. part'.pos <= Len(disk'[part'.filename]) /\ part'.filename \in DOMAIN disk'
      <4>1. part'.filename = field.filename /\ disk'[part'.filename] = disk[field.filename]
        BY <2>1, <3>1
      <4>2. part'.filename \in DOMAIN disk'
        BY <2>2, <3>1, <4>1
      <4> DEFINE pos == part'.pos
                 length == Len(disk'[part'.filename])
      <4>3. pos = 0 /\ length \in Nat
        BY <3>2, <3>3, <4>1
      <4> HIDE DEF pos, length
      <4>4. pos <= length
        BY <4>3
      <4> QED  BY <4>2, <4>4 DEF pos, length
    <3>5. disk' \in [DOMAIN disk' -> Text] /\ UNCHANGED <<phase, post_error>>
      BY <1>2, <1>7, <3>1, LoopIs
    <3> QED  BY <1>1, <1>2, <2>1, <3>3, <3>4, <3>5, LoopTypes
  <2>3. CASE field.filename \notin DOMAIN disk
    <3>1. disk' = Assign(disk, field.filename, <<>>)
      BY <1>7, <2>3
    <3>2. /\ DOMAIN disk' = DOMAIN disk \cup {field.filename}
          /\ disk' = [y \in DOMAIN disk \cup {field.filename} |->
                        IF y = field.filename THEN <<>> ELSE disk[y]]
          /\ disk'[field.filename] = <<>>
      BY <3>1 DEF Assign
    <3>3. disk' \in [DOMAIN disk' -> Text]
      <4>1. <<>> \in Text
        BY DEF Text
      <4>2. \A y \in DOMAIN disk : disk[y] \in Text
        BY <1>2, LoopIs
      <4> HIDE DEF field
      <4> QED  BY <3>2, <4>1, <4>2
    <3>4. part'.pos = 0 /\ field.filename # ""
      BY <1>1, <1>2, <1>5, <1>7, <2>1, LoopIs
    <3>5. part'.pos <= Len(disk'[part'.filename]) /\ part'.filename \in DOMAIN disk'
      <4>1. Len(<<>>) = 0
        OBVIOUS
      <4>2. part'.filename = field.filename /\ disk'[part'.filename] = <<>>
        BY <2>1, <3>2
      <4>3. part'.filename \in DOMAIN disk'
        BY <3>2, <4>2
      <4> DEFINE pos == part'.pos
                 length == Len(disk'[part'.filename])
      <4>4. pos = 0 /\ length = 0
        BY <3>4, <4>1, <4>2
      <4> HIDE DEF pos, length
      <4>5. pos <= length
        BY <4>4
      <4> QED  BY <4>3, <4>5 DEF pos, length
    <3>6. UNCHANGED <<phase, post_error>>
      BY <1>7
    <3> QED  BY <1>1, <1>2, <2>1, <3>3, <3>4, <3>5, <3>6, LoopTypes
  <2> QED  BY <2>2, <2>3
<1>8. CASE /\ field.kind = "file" /\ post_error' = "CannotSaveFile" /\ phase' = "failed"
           /\ UNCHANGED <<part, disk>>
  BY <1>1, <1>2, <1>8, LoopIs, LoopTypes
<1> QED  BY <1>6, <1>7, <1>8 DEF EndOfHeaders

LEMMA TypeReadText == ASSUME TInv, ReadText  PROVE TInv'
<1> DEFINE old == IF part.name \in DOMAIN post_values THEN post_values[part.name] ELSE <<>>
           new == Simplified(old \o CString(line.text))
<1>1. /\ Getline /\ ~part.header /\ UNCHANGED <<phase, post_error, part, files>>
      /\ post_filenames' = Assign(post_filenames, part.name, FALSE)
      /\ post_values' = Assign(post_values, part.name, new)
  BY DEF ReadText
<1> HIDE DEF new
<1>2. phase = "parts"
  BY <1>1, GetlineIs
<1>3. /\ DOMAIN post_values' = DOMAIN post_values \cup {part.name}
      /\ post_filenames' = [y \in DOMAIN post_filenames \cup {part.name} |->
                             IF y = part.name THEN FALSE ELSE post_filenames[y]]
  BY <1>1 DEF Assign
<1>4. post_filenames' \in [DOMAIN post_values' -> BOOLEAN]
  <2>1. DOMAIN post_filenames = DOMAIN post_values
        /\ \A y \in DOMAIN post_filenames : post_filenames[y] \in BOOLEAN
    BY <1>2, LoopIs
  <2> QED  BY <1>3, <2>1
<1> QED  BY <1>1, <1>2, <1>4, LoopIs, LoopTypes DEF files

(* A line is written where the one before it ended. *)
LEMMA OverwrittenIs ==
    ASSUME NEW old \in Text, NEW text \in Text, NEW pos \in Nat, pos <= Len(old)
    PROVE  /\ Overwritten(old, pos, text) \in Text
           /\ pos + Len(text) \in Nat /\ Len(Overwritten(old, pos, text)) \in Nat
           /\ pos + Len(text) <= Len(Overwritten(old, pos, text))
           /\ pos = Len(old) => Overwritten(old, pos, text) = old \o text
<1> DEFINE front == SubSeq(old, 1, pos)
           m == pos + Len(text) + 1
           rest == SubSeq(old, m, Len(old))
<1>1. /\ old \in Seq(0..127) /\ text \in Seq(0..127) /\ Len(old) \in Nat /\ Len(text) \in Nat
      /\ \A i \in 1..Len(old) : old[i] \in 0..127
  BY LenProperties, ElementOfSeq DEF Text
<1>2. front \in Seq(0..127) /\ Len(front) = pos
  <2>1. \A i \in 1..pos : old[i] \in 0..127
    BY <1>1
  <2>2. /\ SubSeq(old, 1, pos) \in Seq(0..127)
        /\ Len(SubSeq(old, 1, pos)) = IF 1 <= pos THEN pos - 1 + 1 ELSE 0
    BY <2>1, SubSeqProperties
  <2> QED  BY <2>2
<1>3. rest \in Seq(0..127) /\ Len(rest) \in Nat
  <2>1. m \in Int /\ m >= 1
    BY <1>1
  <2> HIDE DEF m
  <2>2. \A i \in m..Len(old) : old[i] \in 0..127
    BY <1>1, <2>1
  <2>3. SubSeq(old, m, Len(old)) \in Seq(0..127)
    BY <1>1, <2>1, <2>2, SubSeqProperties
  <2> QED  BY <2>3, LenProperties
<1>4. pos = Len(old) => rest = <<>> /\ front = old
  <2>1. m \in Int /\ (pos = Len(old) => Len(old) < m)
    BY <1>1
  <2> HIDE DEF m
  <2>2. pos = Len(old) => SubSeq(old, m, Len(old)) = <<>>
    BY <1>1, <2>1, SubSeqEmpty
  <2>3. pos = Len(old) => SubSeq(old, 1, pos) = old
    BY <1>1, SubSeqFull
  <2> QED  BY <2>2, <2>3
<1>5. Overwritten(old, pos, text) = (front \o text) \o rest
  BY DEF Overwritten
<1> HIDE DEF front, rest
<1>6. front \o text \in Seq(0..127) /\ Len(front \o text) = pos + Len(text)
  BY <1>1, <1>2, ConcatProperties
<1>7. /\ (front \o text) \o rest \in Seq(0..127)
      /\ Len((front \o text) \o rest) = (pos + Len(text)) + Len(rest)
  BY <1>3, <1>6, ConcatProperties
<1>8. (front \o text) \o <<>> = front \o text
  BY <1>6, ConcatEmptySeq
<1> DEFINE new == (front \o text) \o rest
           n == pos + Len(text)
<1>9. n \in Nat
  BY <1>1
<1>10. pos = Len(old) => new = old \o text
  BY <1>4, <1>8
<1>11. new \in Text /\ Len(new) = n + Len(rest)
  BY <1>7 DEF Text
<1> HIDE DEF new, n
<1>12. Len(new) \in Nat /\ n <= Len(new)
  BY <1>3, <1>9, <1>11
<1> QED  BY <1>5, <1>9, <1>10, <1>11, <1>12 DEF new, n

LEMMA TypeReadFile == ASSUME TInv, ReadFile  PROVE TInv'
<1> DEFINE name == part.filename
<1>1. /\ Getline /\ line.t = "data" /\ ~part.header /\ part.filename # ""
      /\ UNCHANGED <<phase, post_error, post_tempdir>>
      /\ post_filenames' = Assign(post_filenames, part.name, TRUE)
      /\ post_values' = Assign(post_values, part.name, part.filename)
      /\ disk' = [disk EXCEPT ![part.filename] = Overwritten(@, part.pos, line.text)]
      /\ part' = [part EXCEPT !.pos = @ + Len(line.text)]
  BY DEF ReadFile
<1>2. phase = "parts" /\ line.text \in Text
  BY <1>1, GetlineIs, KindOfLine
<1>3. /\ DOMAIN post_values' = DOMAIN post_values \cup {part.name}
      /\ post_filenames' = [y \in DOMAIN post_filenames \cup {part.name} |->
                             IF y = part.name THEN TRUE ELSE post_filenames[y]]
  BY <1>1 DEF Assign
<1>4. post_filenames' \in [DOMAIN post_values' -> BOOLEAN]
  <2>1. DOMAIN post_filenames = DOMAIN post_values
        /\ \A y \in DOMAIN post_filenames : post_filenames[y] \in BOOLEAN
    BY <1>2, LoopIs
  <2> QED  BY <1>3, <2>1
<1> DEFINE old == disk[part.filename]
           new == Overwritten(old, part.pos, line.text)
<1>5. /\ old \in Text /\ part.pos \in Nat /\ part.pos <= Len(old)
      /\ part.filename \in DOMAIN disk /\ part.open = TRUE
  BY <1>1, <1>2, LoopIs DEF PartState
<1>6. /\ new \in Text /\ part.pos + Len(line.text) \in Nat
      /\ part.pos + Len(line.text) <= Len(new)
  BY <1>2, <1>5, OverwrittenIs
<1>7. disk' = [disk EXCEPT ![part.filename] = new]
  BY <1>1
<1> HIDE DEF old, new
<1>8. disk' \in [DOMAIN disk' -> Text] /\ part.filename \in DOMAIN disk'
      /\ disk'[part.filename] = new
  BY <1>2, <1>5, <1>6, <1>7, LoopIs
<1>9. /\ part' \in PartState /\ part'.header = FALSE /\ part'.filename = part.filename
      /\ part'.open = TRUE /\ part'.pos = part.pos + Len(line.text)
  BY <1>1, <1>2, <1>5, <1>6, LoopIs DEF PartState
<1> QED  BY <1>1, <1>2, <1>4, <1>6, <1>8, <1>9, LoopTypes

LEMMA TypeLoadUrl == ASSUME TInv, LoadUrlEncoding  PROVE TInv'
<1>1. /\ phase = "reading" /\ phase' = "loaded"
      /\ post_filenames' = [name \in DOMAIN post_values' |-> FALSE]
      /\ UNCHANGED <<server, stdin, post_error, total_bytes, part, files>>
  BY DEF LoadUrlEncoding
<1>2. post_content_length' = post_content_length
  BY <1>1, LengthStays DEF server
<1>3. post_filenames' \in [DOMAIN post_values' -> BOOLEAN]
  BY <1>1
<1>4. TypeOK'
  BY <1>1, <1>2, <1>3 DEF TInv, TypeOK, server, files, NoFiles
<1>5. Phases'
  BY <1>1 DEF TInv, Phases, server, files
<1> QED  BY <1>4, <1>5 DEF TInv

(* The input of the script without its first line. *)
LEMMA TailIs ==
    ASSUME NEW A, NEW s \in Seq(A)
    PROVE  s # <<>> => Tail(s) \in Seq(A)
  BY HeadTailProperties

LEMMA TypeReadSeparator == ASSUME TInv, ReadSeparator  PROVE TInv'
<1>1. /\ phase = "first line" /\ UNCHANGED <<server, post_error, store, part, files>>
      /\ form \in Forms /\ form' = form
  BY DEF ReadSeparator, server, TInv, TypeOK
<1>2. /\ post_content_length' = post_content_length /\ post_content_length \in Nat
      /\ Input' = Input
  BY <1>1, LengthStays, LengthIs DEF Input
<1>3. stdin \in Seq(Input)
  BY DEF TInv, TypeOK, Input
<1>4. CASE stdin # <<>> /\ stdin' = Tail(stdin) /\ total_bytes' = 1 /\ phase' = "parts"
  <2>1. stdin' \in Seq(Input)
    BY <1>3, <1>4, TailIs
  <2>2. form.method = "POST" /\ form.encoding = "multipart"
    BY <1>1, <1>4 DEF TInv, Phases
  <2>3. total_bytes' \in 0..post_content_length'
    <3>1. post_content_length = Len(Body(form))
      BY <2>2 DEF post_content_length
    <3>2. Len(Body(form)) \in Nat \ {0}
      BY <1>1, <2>2, BodyIs
    <3> QED  BY <1>2, <1>4, <3>1, <3>2
  <2>4. part' = NewPart /\ post_tempdir'
    BY <1>1 DEF TInv, Phases, files
  <2>5. TypeOK'
    <3>1. UNCHANGED <<written, eof, post_error, post_values, post_filenames, disk, post_tempdir>>
      BY <1>1 DEF server, store, files
    <3>2. part' = NewPart /\ part' \in PartState /\ part'.open = FALSE
      BY <2>4, NewPartIs
    <3> QED  BY <1>1, <1>2, <1>4, <2>1, <2>3, <3>1, <3>2 DEF TInv, TypeOK, Input, NoFiles
  <2>6. Phases'
    BY <1>1, <1>4, <2>2, <2>4, NewPartIs DEF Phases
  <2> QED  BY <2>5, <2>6 DEF TInv
<1>5. CASE phase' = "loaded" /\ UNCHANGED <<stdin, total_bytes>>
  <2>1. TypeOK'
    BY <1>1, <1>2, <1>5 DEF TInv, TypeOK, server, store, files, NoFiles
  <2>2. Phases'
    BY <1>1, <1>5 DEF TInv, Phases, server, files
  <2> QED  BY <2>1, <2>2 DEF TInv
<1> QED  BY <1>4, <1>5 DEF ReadSeparator

LEMMA TypeEndOfForm == ASSUME TInv, EndOfForm  PROVE TInv'
<1>1. /\ phase' = "loaded" /\ UNCHANGED <<server, loading, files>> /\ form' = form
      /\ stdin' = stdin \/ (stdin # <<>> /\ stdin' = Tail(stdin))
  BY DEF EndOfForm, server
<1>2. post_content_length' = post_content_length /\ Input' = Input
  BY <1>1, LengthStays DEF Input
<1>3. stdin \in Seq(Input)
  BY DEF TInv, TypeOK, Input
<1>4. stdin' \in Seq(Input) /\ (stdin' # <<>> => form.method = "POST")
  <2>1. stdin # <<>> => form.method = "POST"
    BY DEF TInv, Phases
  <2> QED  BY <1>1, <1>3, <2>1, TailIs
<1>5. TypeOK'
  BY <1>1, <1>2, <1>4 DEF TInv, TypeOK, server, loading, store, files, NoFiles, Input
<1>6. Phases'
  BY <1>1, <1>4 DEF TInv, Phases, server, loading, files
<1> QED  BY <1>5, <1>6 DEF TInv

LEMMA TypeExit == ASSUME TInv, NEW no_cleanup \in BOOLEAN, exit(no_cleanup)  PROVE TInv'
<1>1. /\ phase' \in {"kept", "exited"} /\ UNCHANGED <<server, stdin, loading>>
      /\ (UNCHANGED files \/ Destructor)
  BY DEF exit
<1>2. post_content_length' = post_content_length
  BY <1>1, LengthStays DEF server
<1>3. /\ disk' \in [DOMAIN disk' -> Text] /\ (disk' # NoFiles => post_tempdir')
      /\ post_tempdir' \in BOOLEAN
  <2>1. /\ disk \in [DOMAIN disk -> Text] /\ (disk # NoFiles => post_tempdir)
        /\ post_tempdir \in BOOLEAN
    BY DEF TInv, TypeOK
  <2>2. CASE UNCHANGED files
    BY <2>1, <2>2 DEF files
  <2>3. CASE Destructor
    <3>1. disk' = [x \in DOMAIN disk \ Registered |-> disk[x]]
          /\ post_tempdir' = (post_tempdir /\ disk' # NoFiles)
      BY <2>3 DEF Destructor
    <3>2. disk' \in [DOMAIN disk' -> Text]
      BY <2>1, <3>1
    <3>3. disk = NoFiles => disk' = NoFiles
      BY <3>1 DEF NoFiles
    <3> QED  BY <2>1, <3>1, <3>2, <3>3
  <2> QED  BY <1>1, <2>2, <2>3
<1>4. TypeOK'
  <2>1. UNCHANGED <<written, eof, form, stdin, post_error, post_values, post_filenames,
                    total_bytes, part>>
    BY <1>1 DEF server, loading, store
  <2> QED  BY <1>1, <1>2, <1>3, <2>1 DEF TInv, TypeOK, NoFiles
<1>5. Phases'
  BY <1>1 DEF TInv, Phases, server, loading
<1> QED  BY <1>4, <1>5 DEF TInv

LEMMA TypeScript == ASSUME TInv, Script  PROVE TInv'
  BY TypeInitialize, TypeLoadUrl, TypeReadSeparator, TypeEndOfPart, TypeReadHeader,
     TypeEndOfHeaders, TypeReadText, TypeReadFile, TypeEndOfForm, TypeExit
  DEF Script, Load

LEMMA TypeNext == TInv /\ [Next]_vars => TInv'
<1>1. ASSUME TInv, UNCHANGED vars  PROVE TInv'
  <2>1. UNCHANGED <<form, written, stdin, eof, phase, post_error, post_values, post_filenames,
                    total_bytes, part, disk, post_tempdir>>
    BY <1>1 DEF vars, loading, store, files
  <2>2. post_content_length' = post_content_length
    BY <2>1, LengthStays
  <2>3. TypeOK'
    BY <1>1, <2>1, <2>2 DEF TInv, TypeOK, NoFiles
  <2>4. Phases'
    BY <1>1, <2>1 DEF TInv, Phases, NewPart
  <2> QED  BY <2>3, <2>4 DEF TInv
<1> QED  BY <1>1, TypeStarted, TypeDies, TypeKill, TypeScript DEF Next

(* Types, over the whole life of the server and the script: in particular  *)
(* a value is in both maps, so that the destructor finds each file that    *)
(* LoadMultipartEncoding() has noted down; and the file that is written to *)
(* is there.                                                               *)
THEOREM TypeCorrect == Spec => []TypeOK
<1>1. TInv => TypeOK
  BY DEF TInv
<1> QED  BY <1>1, TypeInit, TypeNext, PTL DEF Spec

-----------------------------------------------------------------------------
(* Where the script is in the form.                                        *)
LEMMA LineOfPart ==
    ASSUME NEW f \in Field, NEW o \in 0..(Len(Part(f)) - 1)
    PROVE  /\ HeaderLines(f) \in {1, 2} /\ Len(Part(f)) \in Nat
           /\ HeaderLines(f) + 3 <= Len(Part(f))
           /\ Len(Part(f)) = HeaderLines(f) + 2 + Len(Lines(Sent(f)))
           /\ Part(f)[o + 1].t = "header" => o < HeaderLines(f)
           /\ Part(f)[o + 1].t = "boundary" => o + 1 = Len(Part(f))
           /\ Part(f)[o + 1].t = "data" => HeaderLines(f) <= o /\ o + 1 < Len(Part(f))
           /\ o < HeaderLines(f) => Part(f)[o + 1].field = IF o = 0 THEN <<f>> ELSE <<>>
           /\ o = HeaderLines(f) => Part(f)[o + 1].text = <<CR, LF>>
           /\ HeaderLines(f) < o /\ o + 1 < Len(Part(f)) =>
                 o - HeaderLines(f) \in 1..Len(Lines(Sent(f)))
                 /\ Part(f)[o + 1].text = Lines(Sent(f))[o - HeaderLines(f)]
<1> DEFINE h == HeaderLines(f)
           n == Len(Lines(Sent(f)))
           p == Part(f)
<1>1. /\ h \in {1, 2} /\ n \in Nat \ {0} /\ Len(p) = h + 2 + n
      /\ p[1] = Disposition(f) /\ (h = 2 => p[2] = OtherHeader) /\ p[h + 1] = EmptyLine
      /\ (\A k \in 1..n : p[h + 1 + k] = Data(Lines(Sent(f))[k])) /\ p[h + 2 + n] = Boundary
  BY PartIs
<1> HIDE DEF h, n, p
<1>2. o \in Int /\ 0 <= o /\ o <= h + 1 + n
  BY <1>1 DEF p
<1>3. Len(p) \in Nat /\ h + 3 <= Len(p)
  BY <1>1
<1>4. CASE o = 0
  <2>1. p[o + 1].t = "header" /\ p[o + 1].field = <<f>> /\ o < h /\ ~(h <= o)
    BY <1>1, <1>4, KindsOfLines
  <2> QED  BY <1>1, <1>3, <1>4, <2>1 DEF h, n, p
<1>5. CASE o = 1 /\ h = 2
  <2>1. p[o + 1].t = "header" /\ p[o + 1].field = <<>> /\ o < h /\ ~(h <= o) /\ o # 0
    BY <1>1, <1>5, KindsOfLines
  <2> QED  BY <1>1, <1>3, <1>5, <2>1 DEF h, n, p
<1>6. CASE o = h
  <2>1. p[o + 1].t = "data" /\ p[o + 1].text = <<CR, LF>> /\ ~(o < h) /\ h <= o /\ ~(h < o)
        /\ o + 1 < Len(p)
    BY <1>1, <1>6, KindsOfLines
  <2> QED  BY <1>1, <1>3, <1>6, <2>1 DEF h, n, p
<1>7. CASE h < o /\ o <= h + n
  <2>1. o - h \in 1..n /\ h + 1 + (o - h) = o + 1 /\ o + 1 < Len(p) /\ ~(o < h) /\ h <= o /\ o # h
    BY <1>1, <1>2, <1>7
  <2>2. p[o + 1] = Data(Lines(Sent(f))[o - h])
    BY <1>1, <2>1
  <2>3. p[o + 1].t = "data" /\ p[o + 1].text = Lines(Sent(f))[o - h]
    BY <2>2, KindsOfLines
  <2> QED  BY <1>1, <1>3, <1>7, <2>1, <2>3 DEF h, n, p
<1>8. CASE o = h + 1 + n
  <2>1. o + 1 = h + 2 + n /\ o + 1 = Len(p) /\ ~(o + 1 < Len(p)) /\ ~(o < h) /\ o # h
    BY <1>1, <1>2, <1>8
  <2>2. p[o + 1].t = "boundary"
    BY <1>1, <2>1, KindsOfLines
  <2> QED  BY <1>1, <1>3, <1>8, <2>1, <2>2 DEF h, n, p
<1>9. o = 0 \/ (o = 1 /\ h = 2) \/ o = h \/ (h < o /\ o <= h + n) \/ o = h + 1 + n
  BY <1>1, <1>2
<1> QED  BY <1>4, <1>5, <1>6, <1>7, <1>8, <1>9

(* All that a script may read. *)
Full(f) == Body(f) \o IF f.ended THEN <<EmptyLine>> ELSE <<>>

LEMMA FullIs ==
    ASSUME NEW f \in Forms, f.encoding = "multipart"
    PROVE  /\ Full(f) \in Seq(Line) /\ Len(Full(f)) \in Nat /\ Len(Body(f)) \in Nat \ {0}
           /\ Len(Body(f)) <= Len(Full(f))
           /\ \A i \in 1..Len(Body(f)) : Full(f)[i] = Body(f)[i]
<1> DEFINE b == Body(f)
           last == IF f.ended THEN <<EmptyLine>> ELSE <<>>
<1>1. b \in Seq(Line) /\ Len(b) \in Nat \ {0}
  BY BodyIs
<1>2. last \in Seq(Line)
  BY ValuesAreLines
<1>3. Full(f) = b \o last
  BY DEF Full
<1> HIDE DEF b, last
<1>4. Len(last) \in Nat
  BY <1>2, LenProperties
<1>5. /\ Full(f) \in Seq(Line) /\ Len(Full(f)) = Len(b) + Len(last)
      /\ \A i \in 1..(Len(b) + Len(last)) : Full(f)[i] = IF i <= Len(b) THEN b[i]
                                                          ELSE last[i - Len(b)]
  BY <1>1, <1>2, <1>3, ConcatProperties
<1>6. ASSUME NEW i \in 1..Len(b)  PROVE Full(f)[i] = b[i]
  <2>1. i \in 1..(Len(b) + Len(last)) /\ i <= Len(b)
    BY <1>1, <1>4
  <2> QED  BY <1>5, <2>1
<1>7. Len(Full(f)) \in Nat /\ Len(b) <= Len(Full(f))
  BY <1>1, <1>4, <1>5
<1> QED  BY <1>1, <1>5, <1>6, <1>7 DEF b

(* Some parts are over, and of the next one some lines. *)
Place(i, o) ==
    /\ i \in 0..Len(form.fields) /\ o \in Nat
    /\ total_bytes = 1 + Behind(form, i) + o
    /\ i < Len(form.fields) => o < Len(Part(form.fields[i + 1]))
    /\ i = Len(form.fields) => o = 0
    /\ stdin = SubSeq(Full(form), total_bytes + 1, Len(Full(form)))

LEMMA BehindIs ==
    ASSUME NEW f \in Forms, f.encoding = "multipart", NEW i \in 0..Len(f.fields)
    PROVE  Behind(f, i) \in Nat /\ Behind(f, i) <= Behind(f, Len(f.fields))
<1>1. Len(f.fields) \in Nat
  BY FormIs
<1>2. CASE i = Len(f.fields)
  <2>1. Len(Body(f)) \in Nat /\ Len(Body(f)) = 1 + Behind(f, Len(f.fields))
    BY BodyIs, LinesOfBody
  <2>2. CASE i = 0
    BY <1>2, <2>2, LinesOfBody
  <2>3. CASE i # 0
    <3>1. i - 1 \in 0..(Len(f.fields) - 1) /\ (i - 1) + 1 = i
      BY <1>1, <1>2, <2>3
    <3>2. /\ Behind(f, i - 1) \in Nat
          /\ Behind(f, (i - 1) + 1) = Behind(f, i - 1) + Len(Part(f.fields[(i - 1) + 1]))
      BY <3>1, LinesOfBody
    <3>3. Len(Part(f.fields[i])) \in Nat
      <4>1. f.fields[i] \in Field
        BY <1>1, <2>3, FormIs
      <4> QED  BY <4>1, PartIs
    <3> QED  BY <1>2, <3>1, <3>2, <3>3
  <2> QED  BY <2>2, <2>3
<1>3. CASE i # Len(f.fields)
  <2>1. i \in 0..(Len(f.fields) - 1)
    BY <1>1, <1>3
  <2>2. /\ Behind(f, i) \in Nat
        /\ Behind(f, i + 1) = Behind(f, i) + Len(Part(f.fields[i + 1]))
        /\ Behind(f, i + 1) <= Behind(f, Len(f.fields))
    BY <2>1, LinesOfBody
  <2>3. f.fields[i + 1] \in Field
    BY <1>1, <2>1, FormIs
  <2>4. Len(Part(f.fields[i + 1])) \in Nat
    BY <2>3, PartIs
  <2>5. Len(Body(f)) \in Nat /\ Len(Body(f)) = 1 + Behind(f, Len(f.fields))
    BY BodyIs, LinesOfBody
  <2>6. Behind(f, Len(f.fields)) = Len(Together(Parts(f), Len(f.fields)))
    BY DEF Behind
  <2>7. Behind(f, Len(f.fields)) \in Nat
    <3>1. /\ Parts(f) \in Seq(Seq(Line)) /\ Len(Parts(f)) = Len(f.fields)
      BY PartsAre
    <3>2. Together(Parts(f), Len(f.fields)) \in Seq(Line)
      BY <3>1, FlattenIsTogether
    <3> QED  BY <2>6, <3>2, LenProperties
  <2> QED  BY <2>2, <2>4, <2>7
<1> QED  BY <1>2, <1>3

LEMMA LineHere ==
    ASSUME TInv, Getline, NEW i, NEW o, Place(i, o)
    PROVE  /\ i \in 0..(Len(form.fields) - 1) /\ i + 1 \in 1..Len(form.fields)
           /\ form.fields[i + 1] \in Field
           /\ o \in 0..(Len(Part(form.fields[i + 1])) - 1)
           /\ line = Part(form.fields[i + 1])[o + 1]
           /\ o + 1 < Len(Part(form.fields[i + 1])) => Place(i, o + 1)'
           /\ o + 1 = Len(Part(form.fields[i + 1])) => Place(i + 1, 0)'
<1> DEFINE n == Len(form.fields)
           full == Full(form)
           N == Len(full)
<1>1. /\ form \in Forms /\ form.encoding = "multipart" /\ form.method = "POST"
      /\ form' = form /\ total_bytes < post_content_length
      /\ stdin' = Tail(stdin) /\ total_bytes' = total_bytes + 1
  BY GetlineIs DEF Getline, server
<1>2. post_content_length = Len(Body(form))
  BY <1>1 DEF post_content_length
<1>3. n \in Nat /\ i \in 0..n /\ o \in Nat
  BY <1>1, FormIs DEF Place
<1>4. Behind(form, i) \in Nat /\ Len(Body(form)) = 1 + Behind(form, n)
  BY <1>1, <1>3, BehindIs, LinesOfBody
<1>5. i # n
  <2>1. i = n => total_bytes = 1 + Behind(form, n) + 0
    BY DEF Place
  <2>2. n \in 0..n
    BY <1>3
  <2>3. Behind(form, n) \in Nat
    BY <1>1, <2>2, BehindIs
  <2> HIDE DEF n
  <2> QED  BY <1>1, <1>2, <1>4, <2>1, <2>3
<1>6. i \in 0..(n - 1) /\ i + 1 \in 1..n /\ i < n
  BY <1>3, <1>5
<1>7. form.fields[i + 1] \in Field
  BY <1>1, <1>6, FormIs
<1> DEFINE p == Part(form.fields[i + 1])
<1>8. p \in Seq(Line) /\ Len(p) \in Nat /\ o < Len(p)
  BY <1>6, <1>7, PartIs, LenProperties DEF Place
<1>9. /\ Behind(form, i + 1) = Behind(form, i) + Len(p)
      /\ Behind(form, i + 1) <= Behind(form, n)
      /\ \A k \in 1..Len(p) : Body(form)[1 + Behind(form, i) + k] = p[k]
  BY <1>1, <1>6, LinesOfBody
<1>10. o \in 0..(Len(p) - 1) /\ o + 1 \in 1..Len(p)
  BY <1>3, <1>8
<1>11. /\ full \in Seq(Line) /\ N \in Nat /\ Len(Body(form)) <= N
       /\ \A k \in 1..Len(Body(form)) : full[k] = Body(form)[k]
  BY <1>1, FullIs
<1>12. total_bytes = 1 + Behind(form, i) + o /\ stdin = SubSeq(full, total_bytes + 1, N)
  BY DEF Place
<1> DEFINE m == total_bytes + 1
<1>13. m \in 1..Len(Body(form)) /\ m \in 1..N /\ N \in m..N /\ m = 1 + Behind(form, i) + (o + 1)
  <2> DEFINE B == Len(Body(form))
             behind == Behind(form, i)
  <2>1. total_bytes < B /\ B \in Nat /\ B <= N /\ N \in Nat
    BY <1>1, <1>2, <1>11, FullIs
  <2>2. behind \in Nat /\ o \in Nat /\ total_bytes = 1 + behind + o
    BY <1>3, <1>4, <1>12
  <2> HIDE DEF n, N, B, behind
  <2>3. m \in 1..B /\ m \in 1..N /\ N \in m..N /\ m = 1 + behind + (o + 1)
    BY <2>1, <2>2
  <2> QED  BY <2>3 DEF B, behind
<1>14. m = total_bytes' /\ stdin = SubSeq(full, m, N)
  BY <1>1, <1>12
<1> HIDE DEF m, full, p, n, N
<1>15. line = full[m] /\ stdin' = SubSeq(full, m + 1, N)
  BY <1>1, <1>11, <1>13, <1>14, HeadTailOfSubSeq DEF line, N
<1>16. line = p[o + 1]
  BY <1>9, <1>10, <1>11, <1>13, <1>15
<1>17. stdin' = SubSeq(Full(form'), total_bytes' + 1, Len(Full(form')))
  BY <1>1, <1>14, <1>15 DEF full, N
<1>18. ASSUME o + 1 < Len(p)  PROVE Place(i, o + 1)'
  <2>1. total_bytes' = 1 + Behind(form', i) + (o + 1) /\ i \in 0..Len(form'.fields) /\ o + 1 \in Nat
    BY <1>1, <1>3, <1>13, <1>14 DEF n
  <2>2. i < Len(form'.fields) => o + 1 < Len(Part(form'.fields[i + 1]))
    BY <1>1, <1>18 DEF p
  <2>3. i # Len(form'.fields)
    BY <1>1, <1>5 DEF n
  <2> QED  BY <1>17, <2>1, <2>2, <2>3 DEF Place
<1>19. ASSUME o + 1 = Len(p)  PROVE Place(i + 1, 0)'
  <2>1. total_bytes' = 1 + Behind(form', i + 1) + 0 /\ i + 1 \in 0..Len(form'.fields)
    <3>1. 1 + Behind(form, i) + (o + 1) = 1 + Behind(form, i + 1) + 0
      BY <1>3, <1>4, <1>8, <1>9, <1>19
    <3> QED  BY <1>1, <1>3, <1>6, <1>13, <1>14, <3>1 DEF n
  <2>2. i + 1 < Len(form'.fields) => 0 < Len(Part(form'.fields[(i + 1) + 1]))
    <3> SUFFICES ASSUME i + 1 < n  PROVE 0 < Len(Part(form.fields[(i + 1) + 1]))
      BY <1>1 DEF n
    <3>1. (i + 1) + 1 \in 1..n
      BY <1>3
    <3>2. form.fields[(i + 1) + 1] \in Field
      BY <1>1, <3>1, FormIs DEF n
    <3>3. Len(Part(form.fields[(i + 1) + 1]))
            = HeaderLines(form.fields[(i + 1) + 1]) + 2 + Len(Lines(Sent(form.fields[(i + 1) + 1])))
          /\ HeaderLines(form.fields[(i + 1) + 1]) \in {1, 2}
          /\ Len(Lines(Sent(form.fields[(i + 1) + 1]))) \in Nat \ {0}
      BY <3>2, PartIs
    <3> QED  BY <3>3
  <2> QED  BY <1>17, <2>1, <2>2 DEF Place
<1> QED  BY <1>6, <1>7, <1>10, <1>16, <1>18, <1>19 DEF n, p

-----------------------------------------------------------------------------
(* What has been done for the fields that were read.                       *)
Alone(j) == \A k \in DOMAIN form.fields : k # j => form.fields[k].name # form.fields[j].name

Noted(j) ==
    LET f == form.fields[j] IN
    Alone(j) =>
        /\ f.name \in DOMAIN post_filenames
        /\ f.kind = "file" => post_filenames[f.name] = TRUE /\ post_values[f.name] = f.filename
        /\ f.kind # "file" => post_filenames[f.name] = FALSE

FileOf(j, x) == form.fields[j].kind = "file" /\ form.fields[j].filename = x

Processed(i) ==
    /\ \A j \in 1..i : Noted(j)
    /\ \A x \in DOMAIN disk : \E j \in 1..i : FileOf(j, x)

(* Inside a part: its header, and then its kind, is what the part has.     *)
InPart(f, o) ==
    /\ part.disposition = <<f>>
    /\ o <= HeaderLines(f) <=> part.header
    /\ o > HeaderLines(f) =>
          /\ part.name = f.name
          /\ part.filename = IF f.kind = "file" THEN f.filename ELSE ""
          /\ f.kind = "file" => f.filename # ""

Reading(i, o) ==
    /\ Place(i, o)
    /\ o = 0 => part = NewPart
    /\ o > 0 => InPart(form.fields[i + 1], o)
    /\ \A j \in 1..i : Noted(j)
    /\ o > HeaderLines(form.fields[i + 1]) + 1 => Noted(i + 1)
    /\ \A x \in DOMAIN disk :
          \/ \E j \in 1..i : FileOf(j, x)
          \/ o > HeaderLines(form.fields[i + 1]) /\ FileOf(i + 1, x)

LEMMA HeaderLinesAre == \A f : HeaderLines(f) \in {1, 2}
  BY DEF HeaderLines

LEMMA NotedStays ==
    ASSUME NEW j, form' = form, post_filenames' = post_filenames, post_values' = post_values,
           Noted(j)
    PROVE  Noted(j)'
  BY DEF Noted, Alone

LEMMA NotedAnother ==
    ASSUME NEW k \in DOMAIN form.fields, NEW j, j # k, form' = form,
           NEW b, NEW v, DOMAIN post_filenames = DOMAIN post_values,
           post_filenames' = Assign(post_filenames, form.fields[k].name, b),
           post_values' = Assign(post_values, form.fields[k].name, v),
           Noted(j)
    PROVE  Noted(j)'
<1> DEFINE f == form.fields[j]
           name == form.fields[k].name
<1> SUFFICES ASSUME Alone(j)'
             PROVE  (/\ f.name \in DOMAIN post_filenames
                     /\ f.kind = "file" => post_filenames[f.name] = TRUE
                                           /\ post_values[f.name] = f.filename
                     /\ f.kind # "file" => post_filenames[f.name] = FALSE)'
  BY DEF Noted
<1>1. Alone(j) /\ name # f.name /\ f' = f
  BY DEF Alone
<1>2. /\ f.name \in DOMAIN post_filenames
      /\ f.kind = "file" => post_filenames[f.name] = TRUE /\ post_values[f.name] = f.filename
      /\ f.kind # "file" => post_filenames[f.name] = FALSE
  BY <1>1 DEF Noted
<1> HIDE DEF f, name
<1>3. /\ f.name \in DOMAIN post_filenames'
      /\ post_filenames'[f.name] = post_filenames[f.name]
      /\ post_values'[f.name] = post_values[f.name]
  BY <1>1, <1>2 DEF Assign, name
<1> QED  BY <1>1, <1>2, <1>3

LEMMA NotedNow ==
    ASSUME NEW j, form' = form, NEW v,
           post_filenames' = Assign(post_filenames, form.fields[j].name,
                                    form.fields[j].kind = "file"),
           post_values' = Assign(post_values, form.fields[j].name, v),
           form.fields[j].kind = "file" => v = form.fields[j].filename
    PROVE  Noted(j)'
<1> DEFINE name == form.fields[j].name
           b == form.fields[j].kind = "file"
<1>1. /\ name \in DOMAIN post_filenames' /\ post_filenames'[name] = b /\ post_values'[name] = v
  BY DEF Assign
<1> QED  BY <1>1 DEF Noted

(* A line end before the boundary. *)
LEMMA ReadingEndOfPart ==
    ASSUME TInv, EndOfPart, NEW i, NEW o, Reading(i, o)
    PROVE  Reading(i + 1, 0)'
<1> DEFINE f == form.fields[i + 1]
<1>1. /\ Getline /\ line.t = "boundary" /\ part' = NewPart
      /\ UNCHANGED <<post_filenames, post_values>>
      /\ DOMAIN disk' = DOMAIN disk
  BY DEF EndOfPart, store
<1>2. Place(i, o)
  BY DEF Reading
<1>3. /\ i \in 0..(Len(form.fields) - 1) /\ f \in Field /\ o \in 0..(Len(Part(f)) - 1)
      /\ line = Part(f)[o + 1]
      /\ o + 1 = Len(Part(f)) => Place(i + 1, 0)'
  BY <1>1, <1>2, LineHere
<1>4. /\ o + 1 = Len(Part(f)) /\ Len(Part(f)) = HeaderLines(f) + 2 + Len(Lines(Sent(f)))
      /\ HeaderLines(f) \in {1, 2} /\ Len(Lines(Sent(f))) \in Nat \ {0}
  BY <1>1, <1>3, LineOfPart, PartIs
<1>5. o > HeaderLines(f) + 1 /\ o > HeaderLines(f) /\ i \in Nat /\ o \in Nat
  <2> DEFINE h == HeaderLines(f)
             n == Len(Lines(Sent(f)))
             m == Len(Part(f))
  <2>1. o \in 0..(m - 1) /\ o + 1 = m /\ m = h + 2 + n /\ h \in {1, 2} /\ n \in Nat \ {0}
    BY <1>3, <1>4
  <2>2. Len(form.fields) \in Nat
    BY GetlineIs, <1>1, FormIs
  <2> HIDE DEF h, n, m
  <2>3. o > h + 1 /\ o > h /\ o \in Nat
    BY <2>1
  <2> QED  BY <1>3, <2>2, <2>3 DEF h
<1>6. form' = form /\ Place(i + 1, 0)'
  BY <1>1, <1>3, <1>4, GetlineIs
<1>7. ASSUME NEW j \in 1..(i + 1)  PROVE Noted(j)'
  <2>1. Noted(j)
    <3>1. (\A k \in 1..i : Noted(k)) /\ Noted(i + 1)
      BY <1>5 DEF Reading
    <3>2. j \in 1..i \/ j = i + 1
      BY <1>5
    <3> QED  BY <3>1, <3>2
  <2> QED  BY <1>1, <1>6, <2>1, NotedStays
<1>8. ASSUME NEW x \in DOMAIN disk'  PROVE \E j \in 1..(i + 1) : FileOf(j, x)'
  <2>1. (\E j \in 1..i : FileOf(j, x)) \/ FileOf(i + 1, x)
    BY <1>1 DEF Reading
  <2>2. \A j : FileOf(j, x)' <=> FileOf(j, x)
    BY <1>6 DEF FileOf
  <2> QED  BY <1>5, <2>1, <2>2
<1>9. part' = NewPart' /\ ~(0 > 0) /\ ~(0 > HeaderLines(form.fields[(i + 1) + 1]) + 1)'
  <2> DEFINE h == HeaderLines(form.fields[(i + 1) + 1])
  <2>1. h \in {1, 2} /\ h' = h
    BY <1>6, HeaderLinesAre DEF HeaderLines
  <2> HIDE DEF h
  <2>2. ~(0 > h' + 1)
    BY <2>1
  <2>3. part' = NewPart'
    BY <1>1 DEF NewPart
  <2>4. ~(0 > 0)
    OBVIOUS
  <2>5. ~(0 > HeaderLines(form.fields[(i + 1) + 1]) + 1)'
    BY <2>2 DEF h
  <2> QED  BY <2>3, <2>4, <2>5
<1> QED  BY <1>6, <1>7, <1>8, <1>9 DEF Reading

LEMMA ReadingHeader ==
    ASSUME TInv, ReadHeader, NEW i, NEW o, Reading(i, o)
    PROVE  Reading(i, o + 1)'
<1> DEFINE f == form.fields[i + 1]
           h == HeaderLines(f)
<1>1. /\ Getline /\ line.t = "header" /\ part.header
      /\ part' = (IF line.field = <<>> THEN part ELSE [part EXCEPT !.disposition = line.field])
      /\ UNCHANGED <<post_filenames, post_values, disk>>
  BY DEF ReadHeader, store, files
<1>2. Place(i, o)
  BY DEF Reading
<1>3. /\ f \in Field /\ o \in 0..(Len(Part(f)) - 1)
      /\ line = Part(f)[o + 1] /\ form' = form
      /\ o + 1 < Len(Part(f)) => Place(i, o + 1)'
  BY <1>1, <1>2, LineHere, GetlineIs
<1>4. /\ Part(f)[o + 1].t = "header" => o < HeaderLines(f)
      /\ o < HeaderLines(f) => Part(f)[o + 1].field = IF o = 0 THEN <<f>> ELSE <<>>
      /\ HeaderLines(f) \in {1, 2} /\ Len(Part(f)) \in Nat
      /\ HeaderLines(f) + 3 <= Len(Part(f))
  BY <1>3, LineOfPart
<1>5. /\ o < h /\ h \in {1, 2} /\ o \in Nat /\ o + 1 > 0 /\ o + 1 <= h
      /\ line.field = IF o = 0 THEN <<f>> ELSE <<>>
  <2> HIDE DEF f, h
  <2>1. o < h /\ line.field = (IF o = 0 THEN <<f>> ELSE <<>>)
    BY <1>1, <1>3, <1>4 DEF h
  <2>2. h \in {1, 2} /\ o \in Nat
    BY <1>3, <1>4 DEF h
  <2> QED  BY <2>1, <2>2
<1>6. Place(i, o + 1)'
  <2> DEFINE m == Len(Part(f))
  <2>1. m \in Nat /\ h + 3 <= m
    BY <1>4
  <2> HIDE DEF m, h
  <2>2. o + 1 < m
    BY <1>5, <2>1
  <2> QED  BY <1>3, <2>2 DEF m
<1>7. part'.disposition = <<f>> /\ part'.header = TRUE
  <2>1. part \in PartState /\ part.header = TRUE
    BY <1>1, GetlineIs, LoopIs DEF PartState
  <2>2. CASE o = 0
    <3>1. line.field = <<f>> /\ <<f>> # <<>>
      BY <1>5, <2>2
    <3> QED  BY <1>1, <2>1, <3>1 DEF PartState
  <2>3. CASE o # 0
    <3>1. line.field = <<>> /\ o > 0
      BY <1>5, <2>3
    <3>2. part.disposition = <<f>>
      BY <3>1 DEF Reading, InPart
    <3> QED  BY <1>1, <2>1, <3>1, <3>2
  <2> QED  BY <2>2, <2>3
<1>8. InPart(form.fields[i + 1], o + 1)'
  <2>1. ~(o + 1 > h) /\ o + 1 <= h
    BY <1>5
  <2> QED  BY <1>3, <1>7, <2>1 DEF InPart
<1>9. \A j \in 1..i : Noted(j)'
  BY <1>1, <1>3, NotedStays DEF Reading
<1>10. ASSUME NEW x \in DOMAIN disk'  PROVE \E j \in 1..i : FileOf(j, x)'
  <2>1. \E j \in 1..i : FileOf(j, x)
    <3>1. ~(o > h)
      BY <1>5
    <3> QED  BY <1>1, <3>1 DEF Reading
  <2> QED  BY <1>3, <2>1 DEF FileOf
<1>11. ~(o + 1 = 0) /\ ~(o + 1 > h + 1)
  BY <1>5
<1> QED  BY <1>3, <1>6, <1>8, <1>9, <1>10, <1>11 DEF Reading

(* Where the headers of a part are over, and a line of the value.          *)
LEMMA ValueLine ==
    ASSUME TInv, Getline, line.t = "data", NEW i, NEW o, Reading(i, o)
    PROVE  /\ i + 1 \in 1..Len(form.fields) /\ i \in Nat /\ o \in Nat /\ form' = form
           /\ form.fields[i + 1] \in Field
           /\ HeaderLines(form.fields[i + 1]) <= o
           /\ part.header => o = HeaderLines(form.fields[i + 1]) /\ o > 0
           /\ ~part.header => o > HeaderLines(form.fields[i + 1]) /\ o > 0
           /\ InPart(form.fields[i + 1], o)
           /\ Place(i, o + 1)'
<1> DEFINE f == form.fields[i + 1]
           h == HeaderLines(f)
           n == Len(form.fields)
<1>1. Place(i, o)
  BY DEF Reading
<1>2. /\ i \in 0..(n - 1) /\ i + 1 \in 1..n
      /\ f \in Field /\ o \in 0..(Len(Part(f)) - 1) /\ form' = form
      /\ line = Part(f)[o + 1]
      /\ o + 1 < Len(Part(f)) => Place(i, o + 1)'
  BY <1>1, LineHere, GetlineIs
<1>3. h <= o /\ o + 1 < Len(Part(f)) /\ h \in {1, 2}
  BY <1>2, LineOfPart
<1>4. n \in Nat
  BY FormIs, GetlineIs
<1>5. i \in Nat /\ o \in Nat /\ o > 0 /\ (o <= h => o = h) /\ (~(o <= h) => o > h)
  <2> HIDE DEF n, h
  <2> QED  BY <1>2, <1>3, <1>4
<1>6. InPart(f, o)
  BY <1>5 DEF Reading
<1> QED  BY <1>2, <1>3, <1>5, <1>6 DEF InPart

LEMMA ReadingEndOfHeaders ==
    ASSUME TInv, EndOfHeaders, NEW i, NEW o, Reading(i, o), phase' # "failed"
    PROVE  Reading(i, o + 1)'
<1> DEFINE f == form.fields[i + 1]
           h == HeaderLines(f)
<1>1. /\ Getline /\ line.t = "data" /\ part.header /\ part.disposition # <<>>
      /\ UNCHANGED <<post_filenames, post_values>>
  BY DEF EndOfHeaders, store
<1>2. /\ i + 1 \in 1..Len(form.fields) /\ i \in Nat /\ o \in Nat /\ form' = form /\ f \in Field
      /\ o = h /\ o > 0 /\ InPart(f, o) /\ Place(i, o + 1)'
  BY <1>1, ValueLine
<1>3. part.disposition[1] = f
  <2>1. part.disposition = <<f>>
    BY <1>2 DEF InPart
  <2> HIDE DEF f
  <2> QED  BY <2>1
<1>4. o + 1 > h /\ ~(o + 1 <= h) /\ ~(o + 1 = 0) /\ ~(o + 1 > h + 1) /\ h \in Nat /\ ~(o > h)
  <2>1. h \in {1, 2}
    BY HeaderLinesAre
  <2> HIDE DEF h
  <2> QED  BY <1>2, <2>1
<1>5. f.kind \in {"text", "file"} /\ part \in PartState
  BY <1>1, <1>2, GetlineIs, LoopIs DEF Field
<1>6. /\ Named.name = f.name /\ Named.header = FALSE /\ Named.disposition = part.disposition
      /\ Named.filename = ""
      /\ Named \in [header : BOOLEAN, disposition : Seq(Field), name : {f.name},
                    filename : Filenames \cup {""}, open : BOOLEAN, pos : Nat]
  <2>1. part.filename = ""
    BY <1>1, GetlineIs, LoopIs
  <2> QED  BY <1>3, <1>5, <2>1 DEF Named, PartState
<1>7. /\ part'.disposition = part.disposition /\ part'.header = FALSE /\ part'.name = f.name
      /\ part'.filename = IF f.kind = "file" THEN f.filename ELSE ""
      /\ f.kind = "file" => f.filename # ""
      /\ f.kind # "file" => disk' = disk
      /\ f.kind = "file" => disk' = IF f.filename \in DOMAIN disk THEN disk
                                     ELSE Assign(disk, f.filename, <<>>)
  <2>1. CASE f.kind = "text" /\ part' = Named /\ UNCHANGED disk
    BY <1>6, <2>1
  <2>2. CASE /\ f.kind = "file" /\ f.filename # ""
             /\ part' = [Named EXCEPT !.filename = f.filename, !.open = TRUE]
             /\ disk' = IF f.filename \in DOMAIN disk THEN disk
                        ELSE Assign(disk, f.filename, <<>>)
    BY <1>6, <2>2
  <2> QED  BY <1>3, <2>1, <2>2 DEF EndOfHeaders
<1>8. InPart(f, o + 1)'
  BY <1>2, <1>4, <1>7 DEF InPart
<1>9. \A j \in 1..i : Noted(j)'
  BY <1>1, <1>2, NotedStays DEF Reading
<1>10. ASSUME NEW x \in DOMAIN disk'
       PROVE  (\E j \in 1..i : FileOf(j, x)') \/ FileOf(i + 1, x)'
  <2>1. CASE x \in DOMAIN disk
    <3>1. \E j \in 1..i : FileOf(j, x)
      BY <1>4, <2>1 DEF Reading
    <3> QED  BY <1>2, <3>1 DEF FileOf
  <2>2. CASE x \notin DOMAIN disk
    <3>1. f.kind = "file" /\ x = f.filename
      BY <1>7, <2>2 DEF Assign
    <3> QED  BY <1>2, <3>1 DEF FileOf
  <2> QED  BY <2>1, <2>2
<1> QED  BY <1>2, <1>4, <1>8, <1>9, <1>10 DEF Reading

LEMMA PastHeaders ==
    ASSUME NEW f, NEW o \in Nat, o > HeaderLines(f)
    PROVE  o + 1 > HeaderLines(f) /\ ~(o + 1 <= HeaderLines(f)) /\ ~(o + 1 = 0)
<1> DEFINE h == HeaderLines(f)
<1>1. h \in {1, 2}
  BY HeaderLinesAre
<1> HIDE DEF h
<1>2. o > h => o + 1 > h /\ ~(o + 1 <= h) /\ ~(o + 1 = 0)
  BY <1>1
<1> QED  BY <1>2 DEF h

LEMMA NotYet == \A i \in Nat : \A j \in 1..i : j # i + 1
  OBVIOUS

(* A value that is entered.                                                *)
LEMMA ReadingValue ==
    ASSUME TInv, Getline, line.t = "data", ~part.header, NEW i, NEW o, Reading(i, o), NEW v,
           post_filenames' = Assign(post_filenames, part.name, part.filename # ""),
           post_values' = Assign(post_values, part.name, v),
           part.filename # "" => v = part.filename,
           DOMAIN disk' = DOMAIN disk,
           part'.disposition = part.disposition, part'.header = part.header,
           part'.name = part.name, part'.filename = part.filename
    PROVE  Reading(i, o + 1)'
<1> DEFINE f == form.fields[i + 1]
           h == HeaderLines(f)
<1>2. /\ i + 1 \in 1..Len(form.fields) /\ i \in Nat /\ o \in Nat /\ form' = form /\ f \in Field
      /\ o > h /\ o > 0 /\ InPart(f, o) /\ Place(i, o + 1)'
  BY ValueLine
<1>3. /\ part.name = f.name /\ part.disposition = <<f>>
      /\ part.filename # "" <=> f.kind = "file"
      /\ part.filename # "" => part.filename = f.filename
  BY <1>2 DEF InPart
<1>4. o + 1 > h /\ ~(o + 1 <= h) /\ ~(o + 1 = 0)
  BY <1>2, PastHeaders
<1>5. InPart(f, o + 1)'
  BY <1>2, <1>4 DEF InPart
<1>6. DOMAIN form.fields = 1..Len(form.fields) /\ DOMAIN post_filenames = DOMAIN post_values
  <2>1. post_filenames \in [DOMAIN post_values -> BOOLEAN] /\ form \in Forms
    BY GetlineIs, LoopIs
  <2>2. DOMAIN post_filenames = DOMAIN post_values
    BY <2>1
  <2> QED  BY <2>1, <2>2, FormIs
<1>7. ASSUME NEW j \in 1..i  PROVE Noted(j)'
  <2>1. j # i + 1 /\ Noted(j)
    <3>2. j # i + 1
      BY <1>2, NotYet
    <3>3. Noted(j)
      BY DEF Reading
    <3> QED  BY <3>2, <3>3
  <2>2. /\ i + 1 \in DOMAIN form.fields
        /\ post_filenames' = Assign(post_filenames, form.fields[i + 1].name, part.filename # "")
        /\ post_values' = Assign(post_values, form.fields[i + 1].name, v)
    BY <1>2, <1>3, <1>6
  <2> QED  BY <1>2, <1>6, <2>1, <2>2, NotedAnother
<1>8. Noted(i + 1)'
  <2>1. /\ (part.filename # "") = (form.fields[i + 1].kind = "file")
        /\ part.name = form.fields[i + 1].name
        /\ form.fields[i + 1].kind = "file" => v = form.fields[i + 1].filename
    BY <1>3
  <2>2. /\ post_filenames' = Assign(post_filenames, form.fields[i + 1].name,
                                    form.fields[i + 1].kind = "file")
        /\ post_values' = Assign(post_values, form.fields[i + 1].name, v)
    BY <2>1
  <2> QED  BY <1>2, <2>1, <2>2, NotedNow
<1>9. ASSUME NEW x \in DOMAIN disk'
      PROVE  (\E j \in 1..i : FileOf(j, x)') \/ FileOf(i + 1, x)'
  BY <1>2 DEF Reading, FileOf
<1> QED  BY <1>2, <1>4, <1>5, <1>7, <1>8, <1>9 DEF Reading

LEMMA ReadingText ==
    ASSUME TInv, ReadText, NEW i, NEW o, Reading(i, o)
    PROVE  Reading(i, o + 1)'
<1> DEFINE old == IF part.name \in DOMAIN post_values THEN post_values[part.name] ELSE <<>>
           new == Simplified(old \o CString(line.text))
<1>1. /\ Getline /\ line.t = "data" /\ ~part.header /\ part.filename = ""
      /\ post_values' = Assign(post_values, part.name, new)
      /\ post_filenames' = Assign(post_filenames, part.name, FALSE)
      /\ part' = part /\ disk' = disk
  BY DEF ReadText, files
<1> HIDE DEF new
<1>2. (part.filename # "") = FALSE
  BY <1>1
<1>3. post_filenames' = Assign(post_filenames, part.name, part.filename # "")
  BY <1>1, <1>2
<1> QED  BY <1>1, <1>3, ReadingValue

LEMMA ReadingFile ==
    ASSUME TInv, ReadFile, NEW i, NEW o, Reading(i, o)
    PROVE  Reading(i, o + 1)'
<1>1. /\ Getline /\ line.t = "data" /\ ~part.header /\ part.filename # ""
      /\ post_values' = Assign(post_values, part.name, part.filename)
      /\ post_filenames' = Assign(post_filenames, part.name, TRUE)
      /\ part' = [part EXCEPT !.pos = @ + Len(line.text)]
      /\ DOMAIN disk' = DOMAIN disk
  BY DEF ReadFile
<1>2. (part.filename # "") = TRUE
  BY <1>1
<1>3. post_filenames' = Assign(post_filenames, part.name, part.filename # "")
  BY <1>1, <1>2
<1>4. /\ part'.disposition = part.disposition /\ part'.header = part.header
      /\ part'.name = part.name /\ part'.filename = part.filename
  BY <1>1, GetlineIs, LoopIs DEF PartState
<1> QED  BY <1>1, <1>3, <1>4, ReadingValue

(* The end of the form. *)
LEMMA AtEnd ==
    ASSUME TInv, NEW i, NEW o, Place(i, o), total_bytes >= post_content_length,
           form.encoding = "multipart", form.method = "POST"
    PROVE  i = Len(form.fields)
<1> DEFINE n == Len(form.fields)
<1> SUFFICES ASSUME i # n  PROVE FALSE
  OBVIOUS
<1>1. form \in Forms /\ n \in Nat /\ i \in 0..n /\ o \in Nat
  BY FormIs DEF TInv, TypeOK, Place
<1>2. i \in 0..(n - 1) /\ i + 1 \in 1..n /\ i < n
  BY <1>1
<1>3. form.fields[i + 1] \in Field
  BY <1>1, <1>2, FormIs
<1> DEFINE p == Len(Part(form.fields[i + 1]))
           b == Behind(form, i)
           c == Behind(form, n)
<1>4. b \in Nat /\ b + p <= c /\ c \in Nat
  <2>1. b \in Nat /\ Behind(form, i + 1) = b + p /\ Behind(form, i + 1) <= c
    BY <1>1, <1>2, LinesOfBody
  <2>2. n \in 0..n
    BY <1>1
  <2>3. c \in Nat
    BY <1>1, <2>2, BehindIs
  <2> QED  BY <2>1, <2>3
<1>5. o < p /\ total_bytes = 1 + b + o
  BY <1>2 DEF Place
<1>6. p \in Nat
  BY <1>3, PartIs
<1>7. post_content_length = 1 + c
  BY <1>1, LinesOfBody DEF post_content_length
<1>8. 1 + b + o >= 1 + c
  BY <1>5, <1>7
<1> HIDE DEF n, p, b, c
<1> QED  BY <1>1, <1>4, <1>5, <1>6, <1>8

(* What the script has done, as long as the server lives.                  *)
Posted == form.method = "POST" /\ form.encoding = "multipart"

Progress ==
    /\ phase \in {"starting", "first line"} /\ written => stdin = Full(form)
    /\ phase = "parts" => \E i, o \in Nat : Reading(i, o)
    /\ phase = "loaded" => Processed(Len(form.fields))
    /\ phase = "failed" => \E i \in 0..Len(form.fields) : Processed(i)

SInv ==
    /\ ~written => stdin = <<>>
    /\ phase = "parts" => written
    /\ phase = "reading" => form.encoding = "url"
    /\ ~Posted \/ phase \in {"starting", "reading", "first line"} => disk = NoFiles
    /\ ~eof /\ Posted => Progress
    /\ NothingLeftOnDisk

LEMMA StructureInit == Init => SInv
  BY DEF Init, SInv, Progress, NothingLeftOnDisk

LEMMA SameProcessed ==
    ASSUME NEW i, form' = form, UNCHANGED <<post_values, post_filenames, disk>>, Processed(i)
    PROVE  Processed(i)'
<1>1. \A j \in 1..i : Noted(j)'
  BY NotedStays DEF Processed
<1>2. \A x \in DOMAIN disk' : \E j \in 1..i : FileOf(j, x)'
  BY DEF Processed, FileOf
<1> QED  BY <1>1, <1>2 DEF Processed

LEMMA SameLeft ==
    ASSUME form' = form, eof' = eof, UNCHANGED files, phase' = phase \/ phase' # "exited",
           NothingLeftOnDisk
    PROVE  NothingLeftOnDisk'
  BY DEF NothingLeftOnDisk, Unique, NameOf, files, NoFiles

LEMMA StructureStarted == ASSUME TInv, SInv, cgiStartedData  PROVE SInv'
<1>1. /\ ~written /\ written' = TRUE
      /\ UNCHANGED <<form, eof, phase, post_values, post_filenames, files>>
      /\ disk' = disk
  BY DEF cgiStartedData, script, loading, store, files
<1>2. Posted => stdin' = Full(form)
  BY DEF cgiStartedData, Posted, Full
<1>3. NothingLeftOnDisk'
  BY <1>1, SameLeft DEF SInv
<1>4. Full(form)' = Full(form) /\ (Posted' <=> Posted)
  BY <1>1 DEF Full, Posted
<1>5. ~eof' /\ Posted' => Progress'
  BY <1>1, <1>2, <1>4, SameProcessed DEF SInv, Progress
<1> QED  BY <1>1, <1>3, <1>4, <1>5 DEF SInv, NoFiles

LEMMA StructureDies == ASSUME TInv, SInv, ServerDies  PROVE SInv'
<1>1. /\ eof' = TRUE /\ UNCHANGED <<form, written, phase, disk>>
      /\ \E n \in 0..Len(stdin) : stdin' = SubSeq(stdin, 1, n)
  BY DEF ServerDies, script, files
<1>2. ~written => stdin' = <<>>
  <2> SUFFICES ASSUME ~written  PROVE stdin' = <<>>
    OBVIOUS
  <2>1. stdin = <<>>
    BY DEF SInv
  <2> QED  BY <1>1, <2>1
<1>3. NothingLeftOnDisk'
  BY <1>1 DEF NothingLeftOnDisk
<1> QED  BY <1>1, <1>2, <1>3 DEF SInv, NoFiles, Posted

LEMMA StructureKill == ASSUME TInv, SInv, Kill  PROVE SInv'
<1>1. /\ phase' = "killed" /\ UNCHANGED <<form, written, stdin, eof, files, disk>>
  BY DEF Kill, files
<1>2. NothingLeftOnDisk'
  BY <1>1, SameLeft DEF SInv
<1> QED  BY <1>1, <1>2 DEF SInv, NoFiles, Posted, Progress

(* What a step of the script leaves to be shown.                           *)
LEMMA ScriptStructure ==
    ASSUME TInv, SInv, UNCHANGED server, phase' # "exited",
           stdin' = stdin \/ stdin # <<>>,
           phase' = "parts" => phase \in {"first line", "parts"},
           phase = "first line" /\ phase' = "parts" => stdin # <<>>,
           phase' = "reading" => form.encoding = "url",
           phase' \in {"starting", "reading", "first line"} =>
              phase = "starting" /\ UNCHANGED <<stdin, disk>>,
           ~Posted => disk' = disk,
           ~eof /\ Posted => Progress'
    PROVE  SInv'
<1>1. UNCHANGED <<form, written, eof>>
  BY DEF server
<1>2. (Posted' <=> Posted) /\ NothingLeftOnDisk'
  BY <1>1 DEF Posted, NothingLeftOnDisk
<1>3. /\ ~written' => stdin' = <<>>
      /\ phase' = "parts" => written'
  BY <1>1 DEF SInv
<1>4. ~Posted' \/ phase' \in {"starting", "reading", "first line"} => disk' = NoFiles'
  BY <1>1, <1>2 DEF SInv, NoFiles
<1> QED  BY <1>1, <1>2, <1>3, <1>4 DEF SInv

LEMMA NothingProcessed ==
    ASSUME disk' = NoFiles
    PROVE  Processed(0)'
<1>1. DOMAIN disk' = {}
  BY DEF NoFiles
<1>2. 1..0 = {}
  OBVIOUS
<1> QED  BY <1>1, <1>2 DEF Processed

LEMMA StructureInitialize == ASSUME TInv, SInv, Initialize  PROVE SInv'
<1>1. /\ phase = "starting" /\ UNCHANGED <<server, stdin, disk>> /\ form' = form /\ form \in Forms
      /\ written' = written
  BY DEF Initialize, server, TInv, TypeOK
<1>2. \/ phase' = "reading" /\ form.encoding = "url"
      \/ phase' = "first line" /\ form.encoding = "multipart"
      \/ phase' = "loaded" /\ form.encoding # "multipart"
      \/ phase' = "failed"
  BY DEF Initialize
<1>3. disk' = NoFiles
  BY <1>1 DEF SInv
<1>4. Processed(0)' /\ 0 \in (0..Len(form.fields))'
  <2>1. Len(form.fields) \in Nat
    BY <1>1, FormIs
  <2>2. 0 \in 0..Len(form.fields)
    BY <2>1
  <2> QED  BY <1>1, <1>3, <2>2, NothingProcessed
<1>5. ASSUME ~eof, Posted  PROVE Progress'
  <2>1. phase' # "loaded" /\ phase' # "parts"
    BY <1>2, <1>5 DEF Posted
  <2>2. written' => stdin' = Full(form)'
    BY <1>1, <1>5 DEF SInv, Progress, Full
  <2> QED  BY <1>4, <2>1, <2>2 DEF Progress
<1> QED  BY <1>1, <1>2, <1>5, ScriptStructure

LEMMA StructureLoadUrl == ASSUME TInv, SInv, LoadUrlEncoding  PROVE SInv'
<1>1. /\ phase = "reading" /\ phase' = "loaded" /\ UNCHANGED <<server, stdin, disk>>
  BY DEF LoadUrlEncoding, files
<1>2. ~Posted
  BY <1>1 DEF SInv, Posted
<1> QED  BY <1>1, <1>2, ScriptStructure

(* After the separator the first part begins.                              *)
LEMMA ReadingFirst ==
    ASSUME TInv, SInv, ReadSeparator, ~eof, Posted
    PROVE  phase' = "parts" /\ Reading(0, 0)'
<1>1. /\ phase = "first line" /\ UNCHANGED <<server, store, part, disk>> /\ form' = form
      /\ form \in Forms
      /\ (stdin' = stdin \/ stdin # <<>>)
      /\ \/ phase' = "parts" /\ stdin # <<>> /\ stdin' = Tail(stdin) /\ total_bytes' = 1
         \/ phase' = "loaded" /\ eof
  BY DEF ReadSeparator, server, files, TInv, TypeOK
<1>2. phase' = "parts" /\ Reading(0, 0)'
  <2>1. /\ phase' = "parts" /\ stdin' = Tail(stdin) /\ total_bytes' = 1 /\ stdin = Full(form)
        /\ form.encoding = "multipart"
    BY <1>1 DEF SInv, Progress, Posted
  <2> DEFINE n == Len(form.fields)
             full == Full(form)
             N == Len(full)
  <2>2. n \in Nat /\ full \in Seq(Line) /\ N \in Nat /\ N # 0
    <3>1. N \in Nat /\ Len(Body(form)) \in Nat \ {0} /\ Len(Body(form)) <= N
      BY <1>1, <2>1, FullIs
    <3> HIDE DEF N
    <3>2. N # 0
      BY <3>1
    <3> QED  BY <1>1, <2>1, <3>1, <3>2, FormIs, FullIs
  <2>3. Place(0, 0)'
    <3>1. stdin' = SubSeq(full, 1 + 1, N)
      <4>1. full = SubSeq(full, 1, N)
        BY <2>2, SubSeqFull
      <4>2. 1 \in 1..N /\ N \in 1..N
        <5> HIDE DEF N, full
        <5> QED  BY <2>2
      <4>3. Tail(full) = Tail(SubSeq(full, 1, N))
        BY <4>1
      <4> HIDE DEF N, full
      <4>4. Tail(SubSeq(full, 1, N)) = SubSeq(full, 1 + 1, N)
        BY <2>2, <4>2, HeadTailOfSubSeq DEF N
      <4> QED  BY <2>1, <4>3, <4>4 DEF full
    <3>2. Behind(form, 0) = 0
      BY <1>1, <2>1, LinesOfBody
    <3>3. 0 < n => 0 < Len(Part(form.fields[0 + 1]))
      <4> SUFFICES ASSUME 0 < n  PROVE 0 < Len(Part(form.fields[0 + 1]))
        OBVIOUS
      <4>1. form.fields[0 + 1] \in Field
        <5>1. 0 + 1 \in 1..n
          BY <2>2
        <5> QED  BY <1>1, <5>1, FormIs
      <4>2. /\ Len(Part(form.fields[0 + 1]))
               = HeaderLines(form.fields[0 + 1]) + 2 + Len(Lines(Sent(form.fields[0 + 1])))
            /\ HeaderLines(form.fields[0 + 1]) \in {1, 2}
            /\ Len(Lines(Sent(form.fields[0 + 1]))) \in Nat \ {0}
        BY <4>1, PartIs
      <4> QED  BY <4>2
    <3>4. 0 \in 0..n /\ 0 \in Nat /\ 1 = 1 + 0 + 0
      BY <2>2
    <3>5. /\ total_bytes' = 1 + Behind(form', 0) + 0
          /\ stdin' = SubSeq(Full(form'), total_bytes' + 1, Len(Full(form')))
      BY <1>1, <2>1, <3>1, <3>2, <3>4
    <3> HIDE DEF n, full, N
    <3> QED  BY <1>1, <3>3, <3>4, <3>5 DEF Place, n
  <2>4. part' = NewPart' /\ disk' = NoFiles
    BY <1>1 DEF SInv, TInv, Phases, NewPart
  <2>5. /\ ~(0 > 0) /\ 1..0 = {} /\ DOMAIN disk' = {}
        /\ ~(0 > HeaderLines(form.fields[0 + 1]) + 1)'
    <3>1. HeaderLines(form.fields[0 + 1])' \in {1, 2}
      BY DEF HeaderLines
    <3>2. DOMAIN disk' = {}
      BY <2>4 DEF NoFiles
    <3> QED  BY <3>1, <3>2
  <2>6. Reading(0, 0)'
    BY <2>3, <2>4, <2>5 DEF Reading
  <2> QED  BY <2>1, <2>6
<1> QED  BY <1>2

LEMMA StructureReadSeparator == ASSUME TInv, SInv, ReadSeparator  PROVE SInv'
<1>1. /\ phase = "first line" /\ UNCHANGED server /\ disk' = disk
      /\ (stdin' = stdin \/ stdin # <<>>)
      /\ ((phase' = "parts" /\ stdin # <<>>) \/ phase' = "loaded")
  BY DEF ReadSeparator, files
<1>2. ASSUME ~eof, Posted  PROVE Progress'
  <2>1. phase' = "parts" /\ Reading(0, 0)' /\ 0 \in Nat
    BY <1>2, ReadingFirst
  <2> QED  BY <2>1 DEF Progress
<1> QED  BY <1>1, <1>2, ScriptStructure

LEMMA LoopStructure ==
    ASSUME TInv, SInv, Getline, phase' \in {"parts", "failed"},
           \A i, o \in Nat : ~eof /\ Reading(i, o) => Progress'
    PROVE  SInv'
<1>1. /\ phase = "parts" /\ form.encoding = "multipart" /\ form.method = "POST"
      /\ UNCHANGED server /\ stdin # <<>>
  BY GetlineIs DEF Getline
<1>2. Posted
  BY <1>1 DEF Posted
<1>3. ~eof /\ Posted => Progress'
  BY <1>1 DEF SInv, Progress
<1> QED  BY <1>1, <1>2, <1>3, ScriptStructure

LEMMA StillReading ==
    ASSUME phase' = "parts", NEW i \in Nat, NEW o \in Nat, Reading(i, o)'
    PROVE  Progress'
  BY DEF Progress

LEMMA StructureLoop ==
    ASSUME TInv, SInv, EndOfPart \/ ReadHeader \/ ReadText \/ ReadFile
    PROVE  SInv'
<1>1. Getline /\ phase' = "parts"
  <2>1. Getline /\ phase' = phase
    BY DEF EndOfPart, ReadHeader, ReadText, ReadFile
  <2> QED  BY <2>1 DEF Getline
<1>2. ASSUME NEW i \in Nat, NEW o \in Nat, Reading(i, o)  PROVE Progress'
  <2>1. i + 1 \in Nat /\ o + 1 \in Nat /\ 0 \in Nat
    OBVIOUS
  <2>2. CASE EndOfPart
    BY <1>1, <1>2, <2>1, <2>2, ReadingEndOfPart, StillReading
  <2>3. CASE ReadHeader
    BY <1>1, <1>2, <2>1, <2>3, ReadingHeader, StillReading
  <2>4. CASE ReadText
    BY <1>1, <1>2, <2>1, <2>4, ReadingText, StillReading
  <2>5. CASE ReadFile
    BY <1>1, <1>2, <2>1, <2>5, ReadingFile, StillReading
  <2> QED  BY <2>2, <2>3, <2>4, <2>5
<1> QED  BY <1>1, <1>2, LoopStructure

LEMMA StructureEndOfHeaders == ASSUME TInv, SInv, EndOfHeaders  PROVE SInv'
<1>1. /\ Getline /\ line.t = "data" /\ part.header /\ UNCHANGED <<post_values, post_filenames>>
      /\ phase = "parts" /\ (phase' = "parts" \/ (phase' = "failed" /\ disk' = disk))
      /\ form' = form /\ form \in Forms
  BY GetlineIs DEF EndOfHeaders, store
<1>2. ASSUME NEW i \in Nat, NEW o \in Nat, Reading(i, o)  PROVE Progress'
  <2>1. CASE phase' = "parts"
    <3>1. Reading(i, o + 1)' /\ o + 1 \in Nat
      BY <1>2, <2>1, ReadingEndOfHeaders
    <3> QED  BY <2>1, <3>1, StillReading
  <2>2. CASE phase' = "failed" /\ disk' = disk
    <3>1. o = HeaderLines(form.fields[i + 1]) /\ i + 1 \in 1..Len(form.fields)
      BY <1>1, <1>2, ValueLine
    <3>2. ~(o > HeaderLines(form.fields[i + 1]))
      BY <3>1
    <3>3. Processed(i)
      BY <1>2, <3>2 DEF Reading, Processed
    <3>4. Processed(i)'
      BY <1>1, <2>2, <3>3, SameProcessed
    <3>5. i \in 0..Len(form'.fields)
      <4>1. Len(form.fields) \in Nat
        BY <1>1, FormIs
      <4> QED  BY <1>1, <3>1, <4>1
    <3> QED  BY <2>2, <3>4, <3>5 DEF Progress
  <2> QED  BY <1>1, <2>1, <2>2
<1> QED  BY <1>1, <1>2, LoopStructure

LEMMA StructureEndOfForm == ASSUME TInv, SInv, EndOfForm  PROVE SInv'
<1>1. /\ phase = "parts" /\ phase' = "loaded" /\ UNCHANGED <<post_values, post_filenames, disk>>
      /\ UNCHANGED server /\ form' = form /\ form \in Forms
      /\ stdin' = stdin \/ stdin # <<>>
      /\ ~eof => total_bytes >= post_content_length
  BY DEF EndOfForm, server, loading, store, files, TInv, TypeOK
<1>2. ASSUME ~eof, Posted  PROVE Progress'
  <2>1. PICK i \in Nat, o \in Nat : Reading(i, o)
    BY <1>1, <1>2 DEF SInv, Progress
  <2> DEFINE n == Len(form.fields)
  <2>2. i = n /\ Place(i, o)
    BY <1>1, <1>2, <2>1, AtEnd DEF Posted, Reading
  <2>3. ~(o > HeaderLines(form.fields[i + 1]))
    <3>1. o = 0
      BY <2>2 DEF Place
    <3> QED  BY <3>1, HeaderLinesAre
  <2>4. Processed(i)
    BY <2>1, <2>3 DEF Reading, Processed
  <2>5. Processed(i)' /\ i = Len(form.fields)'
    BY <1>1, <2>2, <2>4, SameProcessed
  <2> QED  BY <1>1, <2>5 DEF Progress
<1> QED  BY <1>1, <1>2, ScriptStructure

(* Each file that is there was noted down. *)
LEMMA AllRegistered ==
    ASSUME NEW i \in 0..Len(form.fields), Processed(i), form \in Forms,
           \A j \in DOMAIN form.fields : Unique(j, NameOf)
    PROVE  DOMAIN disk \subseteq Registered
<1> SUFFICES ASSUME NEW x \in DOMAIN disk  PROVE x \in Registered
  OBVIOUS
<1>1. PICK j \in 1..i : FileOf(j, x)
  BY DEF Processed
<1>2. j \in DOMAIN form.fields
  <2>1. DOMAIN form.fields = 1..Len(form.fields) /\ Len(form.fields) \in Nat
    BY FormIs
  <2>2. j \in 1..Len(form.fields)
    BY <2>1
  <2> QED  BY <2>1, <2>2
<1>3. Alone(j)
  BY <1>2 DEF Unique, NameOf, Alone
<1>4. Noted(j)
  BY <1>1 DEF Processed
<1>5. /\ form.fields[j].name \in DOMAIN post_filenames
      /\ post_filenames[form.fields[j].name] = TRUE /\ post_values[form.fields[j].name] = x
  BY <1>1, <1>3, <1>4 DEF Noted, FileOf
<1> QED  BY <1>5 DEF Registered

LEMMA StructureExit ==
    ASSUME TInv, SInv, NEW no_cleanup \in BOOLEAN, exit(no_cleanup)
    PROVE  SInv'
<1>1. /\ phase \in {"loaded", "failed"} /\ phase' \in {"kept", "exited"}
      /\ UNCHANGED <<form, written, eof, stdin>>
      /\ phase' = "exited" => Destructor
      /\ UNCHANGED files \/ Destructor
  BY DEF exit, server
<1>2. NothingLeftOnDisk'
  <2>1. SUFFICES ASSUME phase' = "exited", ~eof,
                        \A i \in DOMAIN form.fields : Unique(i, NameOf)'
                 PROVE  disk' = NoFiles /\ ~post_tempdir'
    BY <1>1 DEF NothingLeftOnDisk, NoFiles
  <2>2. \A i \in DOMAIN form.fields : Unique(i, NameOf)
    BY <1>1, <2>1 DEF Unique, NameOf
  <2>3. DOMAIN disk \subseteq Registered
    <3>1. CASE Posted
      <4>1. Progress /\ form \in Forms
        BY <2>1, <3>1 DEF SInv, TInv, TypeOK
      <4>2. Len(form.fields) \in Nat
        BY <4>1, FormIs
      <4>3. \E i \in 0..Len(form.fields) : Processed(i)
        <5>1. Len(form.fields) \in 0..Len(form.fields)
          BY <4>2
        <5>2. CASE phase = "loaded"
          BY <4>1, <5>1, <5>2 DEF Progress
        <5>3. CASE phase = "failed"
          BY <4>1, <5>3 DEF Progress
        <5> QED  BY <1>1, <5>2, <5>3
      <4> QED  BY <2>2, <4>1, <4>3, AllRegistered
    <3>2. CASE ~Posted
      BY <3>2 DEF SInv, NoFiles
    <3> QED  BY <3>1, <3>2
  <2>4. /\ disk' = [x \in DOMAIN disk \ Registered |-> disk[x]]
        /\ post_tempdir' = (post_tempdir /\ disk' # NoFiles)
    BY <1>1, <2>1 DEF Destructor
  <2>5. DOMAIN disk \ Registered = {}
    BY <2>3
  <2>6. disk' = NoFiles
    BY <2>4, <2>5 DEF NoFiles
  <2> QED  BY <2>4, <2>6
<1>3. ~Posted => disk' = NoFiles
  <2> SUFFICES ASSUME ~Posted  PROVE disk' = NoFiles
    OBVIOUS
  <2>1. disk = NoFiles
    BY DEF SInv
  <2> QED  BY <1>1, <2>1 DEF files, Destructor, NoFiles
<1> QED  BY <1>1, <1>2, <1>3 DEF SInv, Posted, Progress, NoFiles

LEMMA StructureStutter == ASSUME SInv, UNCHANGED vars  PROVE SInv'
<1>1. /\ UNCHANGED <<form, written, stdin, eof, phase, total_bytes, part, files,
                     post_values, post_filenames, disk>>
  BY DEF vars, loading, store, files
<1>2. NothingLeftOnDisk'
  BY <1>1, SameLeft DEF SInv
<1>3. \A j : Noted(j) => Noted(j)'
  BY <1>1, NotedStays
<1>4. \A i, o : Reading(i, o) => Reading(i, o)'
  <2> TAKE i, o
  <2>1. (Place(i, o) => Place(i, o)') /\ part' = part
    BY <1>1 DEF Place
  <2> QED  BY <1>1, <1>3, <2>1 DEF Reading, InPart, FileOf, NewPart
<1>5. Progress => Progress'
  BY <1>1, <1>4, SameProcessed DEF Progress, Full
<1> QED  BY <1>1, <1>2, <1>5 DEF SInv, Posted, NoFiles

LEMMA StructureNext == TInv /\ SInv /\ [Next]_vars => SInv'
<1>1. ASSUME TInv, SInv, Script  PROVE SInv'
  BY <1>1, StructureInitialize, StructureLoadUrl, StructureReadSeparator, StructureLoop,
     StructureEndOfHeaders, StructureEndOfForm, StructureExit
  DEF Script, Load
<1> QED  BY <1>1, StructureStarted, StructureDies, StructureKill, StructureStutter DEF Next

(* ~WHCgiPost() finds every file that LoadMultipartEncoding() wrote, also  *)
(* after an error, and then the directory is empty and goes too: when the  *)
(* whole form was there and no two fields of it have one name.             *)
THEOREM NothingLeft == Spec => []NothingLeftOnDisk
<1>1. SInv => NothingLeftOnDisk
  BY DEF SInv
<1> QED  BY <1>1, TypeInit, TypeNext, StructureInit, StructureNext, PTL DEF Spec

-----------------------------------------------------------------------------
(* What is visible in a text, and what is left of it.                        *)

(* Induction over a sequence that grows, for a set of sequences. *)
LEMMA SeqInduction ==
    ASSUME NEW A, NEW T, <<>> \in T,
           \A s \in Seq(A) : s \in T => \A c \in A : Append(s, c) \in T
    PROVE  \A s \in Seq(A) : s \in T
<1> DEFINE U == {n \in Nat : \A s \in Seq(A) : Len(s) = n => s \in T}
<1>1. 0 \in U
  <2> SUFFICES ASSUME NEW s \in Seq(A), Len(s) = 0  PROVE s \in T
    OBVIOUS
  <2>1. s = <<>>
    BY EmptySeq
  <2> QED  BY <2>1
<1>2. ASSUME NEW n \in Nat, n \in U  PROVE n + 1 \in U
  <2> SUFFICES ASSUME NEW s \in Seq(A), Len(s) = n + 1  PROVE s \in T
    OBVIOUS
  <2>1. s # <<>>
    <3> SUFFICES ASSUME s = <<>>  PROVE FALSE
      OBVIOUS
    <3>1. Len(s) = 0
      BY EmptySeq
    <3> QED  BY <3>1
  <2>2. PICK t \in Seq(A), c \in A : s = Append(t, c)
    BY <2>1, SequenceEmptyOrAppend
  <2>3. Len(s) = Len(t) + 1 /\ Len(t) \in Nat
    BY <2>2, AppendProperties, LenProperties
  <2>4. Len(t) = n
    BY <2>3
  <2> QED  BY <1>2, <2>2, <2>4
<1> HIDE DEF U
<1>3. Nat \subseteq U
  BY <1>1, <1>2, NatSetInduction
<1> SUFFICES ASSUME NEW s \in Seq(A)  PROVE s \in T
  OBVIOUS
<1>4. Len(s) \in U
  BY <1>3, LenProperties
<1> QED  BY <1>4 DEF U

LEMMA ChosenIs ==
    ASSUME NEW A, NEW D, NEW f, \A d \in D : f[d] \in A, NEW s \in Seq(D)
    PROVE  Chosen(f, s) \in Seq(A)
<1> DEFINE n == Len(s)
           u == Chosen(f, s)
<1>1. n \in Nat /\ DOMAIN s = 1..n /\ \A k \in 1..n : s[k] \in D
  BY LenProperties, ElementOfSeq
<1>2. u = [k \in 1..n |-> f[s[k]]]
  BY <1>1 DEF Chosen
<1>3. u \in [1..n -> A]
  BY <1>1, <1>2
<1> HIDE DEF u, n
<1> QED  BY <1>1, <1>3, FunctionIsSeq DEF u

LEMMA ChosenAppend ==
    ASSUME NEW D, NEW f, NEW s \in Seq(D), NEW x \in D
    PROVE  Chosen(f, Append(s, x)) = Append(Chosen(f, s), f[x])
<1> DEFINE A == {f[d] : d \in D}
<1> DEFINE t == Append(s, x)
           u == Chosen(f, s)
           v == Append(u, f[x])
           n == Len(s)
<1>1. n \in Nat /\ DOMAIN s = 1..n /\ \A k \in 1..n : s[k] \in D
  BY LenProperties, ElementOfSeq
<1>2. /\ t \in Seq(D) /\ Len(t) = n + 1 /\ t[n + 1] = x /\ \A k \in 1..n : t[k] = s[k]
  BY AppendProperties
<1>3. u = [k \in 1..n |-> f[s[k]]]
  BY <1>1 DEF Chosen
<1>4. u \in [1..n -> A]
  BY <1>1, <1>3
<1> HIDE DEF u, n
<1>5. u \in Seq(A) /\ Len(u) = n
  BY <1>1, <1>4, FunctionIsSeq
<1>6. f[x] \in A
  OBVIOUS
<1>7. v \in Seq(A) /\ Len(v) = n + 1 /\ v[n + 1] = f[x] /\ \A k \in 1..n : v[k] = u[k]
  BY <1>5, <1>6, AppendProperties
<1> DEFINE w == Chosen(f, t)
<1> HIDE DEF t, v
<1>8. DOMAIN t = 1..(n + 1) /\ \A k \in 1..(n + 1) : t[k] \in D
  BY <1>2, LenProperties, ElementOfSeq
<1>9. w = [k \in 1..(n + 1) |-> f[t[k]]]
  BY <1>8 DEF Chosen
<1>10. n + 1 \in Nat /\ w \in [1..(n + 1) -> A]
  BY <1>1, <1>8, <1>9
<1>11. w \in Seq(A) /\ Len(w) = n + 1
  <2> HIDE DEF w
  <2> QED  BY <1>10, FunctionIsSeq
<1>12. \A k \in 1..(n + 1) : w[k] = v[k]
  <2> TAKE k \in 1..(n + 1)
  <2>1. CASE k = n + 1
    BY <1>2, <1>7, <1>9, <2>1
  <2>2. CASE k # n + 1
    <3>1. k \in 1..n
      BY <1>1, <2>2
    <3> QED  BY <1>2, <1>3, <1>7, <1>9, <3>1
  <2> QED  BY <2>1, <2>2
<1>13. w = v
  <2> HIDE DEF w
  <2> QED  BY <1>7, <1>11, <1>12, SeqEqual
<1> QED  BY <1>13 DEF t, u, v

(* The visible characters of a text. *)
LEMMA VisibleAppend ==
    ASSUME NEW s \in Text, NEW c \in 0..127
    PROVE  /\ Visible(<<>>) = <<>> /\ Visible(s) \in Text
           /\ Visible(Append(s, c)) = IF c \in White THEN Visible(s) ELSE Append(Visible(s), c)
<1> DEFINE A == 0..127
           W == A \ White
           t == Append(s, c)
           n == Len(s)
           p == Where(s, W)
<1>1. s \in Seq(A) /\ c \in A /\ (c \in W <=> c \notin White)
  BY DEF Text
<1> HIDE DEF A, W
<1>2. /\ t \in Seq(A) /\ Len(t) = n + 1 /\ t[n + 1] = c /\ \A k \in 1..n : t[k] = s[k]
      /\ n \in Nat
  BY <1>1, AppendProperties, LenProperties
<1>3. \A k \in 1..(n + 1) : t[k] \in A
  BY <1>2, ElementOfSeq
<1>4. p \in Seq(1..n) /\ Where(t, W) = IF c \in W THEN Append(p, n + 1) ELSE p
  BY <1>1, WhereIs, WhereAppend
<1> HIDE DEF t, n, p
<1>5. Chosen(t, p) = Chosen(s, p)
  <2>1. \A k \in DOMAIN p : p[k] \in 1..n
    BY <1>4, LenProperties, ElementOfSeq
  <2> QED  BY <1>2, <2>1 DEF Chosen
<1>6. p \in Seq(1..(n + 1)) /\ n + 1 \in 1..(n + 1)
  <2>1. 1..n \subseteq 1..(n + 1) /\ n + 1 \in 1..(n + 1)
    BY <1>2
  <2> QED  BY <1>4, <2>1, SeqMonotonic
<1>7. Chosen(t, p) \in Seq(A) /\ Chosen(t, Append(p, n + 1)) = Append(Chosen(t, p), t[n + 1])
  <2> DEFINE D == 1..(n + 1)
             x == n + 1
  <2>1. (\A d \in D : t[d] \in A) /\ p \in Seq(D) /\ x \in D
    BY <1>3, <1>6
  <2> HIDE DEF D, x
  <2>2. Chosen(t, p) \in Seq(A) 
    BY <2>1, ChosenIs
  <2>3. Chosen(t, Append(p, x)) = Append(Chosen(t, p), t[x])
    BY <2>1, ChosenAppend
  <2> QED  BY <2>2, <2>3 DEF x
<1>8. Visible(s) = Chosen(s, p) /\ Visible(t) = Chosen(t, Where(t, W))
  BY DEF Visible, p, W, A
<1>9. Visible(t) = IF c \in White THEN Visible(s) ELSE Append(Visible(s), c)
  BY <1>1, <1>2, <1>4, <1>5, <1>7, <1>8
<1>10. Visible(<<>>) = <<>>
  <2>1. <<>> \in Seq(A) /\ \A i \in 1..Len(<<>>) : <<>>[i] \notin W
    BY EmptySeq
  <2>2. Where(<<>>, W) = <<>>
    BY <2>1, WhereNone
  <2>3. Chosen(<<>>, <<>>) = <<>>
    BY DEF Chosen
  <2>4. Visible(<<>>) = Chosen(<<>>, Where(<<>>, W))
    BY DEF Visible, W, A
  <2> QED  BY <2>2, <2>3, <2>4
<1> QED  BY <1>5, <1>7, <1>8, <1>9, <1>10 DEF t, A, Text

LEMMA VisibleConcat ==
    ASSUME NEW s \in Text, NEW t \in Text
    PROVE  Visible(s \o t) = Visible(s) \o Visible(t)
<1> DEFINE A == 0..127
           T == {u \in Text : Visible(s \o u) = Visible(s) \o Visible(u)}
<1>1. Text = Seq(A) /\ s \in Seq(A)
  BY DEF Text
<1> HIDE DEF A
<1>2. Visible(s) \in Seq(A) /\ Visible(<<>>) = <<>> /\ <<>> \in Text
  <2>1. 0 \in 0..127
    OBVIOUS
  <2> QED  BY <1>1, <2>1, VisibleAppend, EmptySeq
<1>3. <<>> \in T
  <2>1. s \o <<>> = s /\ Visible(s) \o <<>> = Visible(s)
    BY <1>1, <1>2, ConcatEmptySeq
  <2> QED  BY <1>2, <2>1
<1>4. ASSUME NEW u \in Seq(A), u \in T, NEW c \in A  PROVE Append(u, c) \in T
  <2>1. /\ c \in 0..127 /\ u \in Text /\ s \o u \in Text /\ Append(u, c) \in Text
        /\ s \o Append(u, c) = Append(s \o u, c)
    <3>1. Append(u, c) = u \o <<c>> /\ s \o u \in Seq(A) /\ <<c>> \in Seq(A)
          /\ Append(s \o u, c) = (s \o u) \o <<c>> /\ Append(u, c) \in Seq(A)
      BY <1>1, <1>4, AppendIsConcat, ConcatProperties, AppendProperties
    <3>2. s \o (u \o <<c>>) = (s \o u) \o <<c>>
      BY <1>1, <1>4, <3>1, ConcatAssociative
    <3> QED  BY <1>1, <1>4, <3>1, <3>2 DEF A
  <2>2. /\ Visible(Append(u, c)) = IF c \in White THEN Visible(u) ELSE Append(Visible(u), c)
        /\ Visible(Append(s \o u, c)) = IF c \in White THEN Visible(s \o u)
                                        ELSE Append(Visible(s \o u), c)
        /\ Visible(u) \in Text
    BY <2>1, VisibleAppend
  <2>3. Visible(s) \o Append(Visible(u), c) = Append(Visible(s) \o Visible(u), c)
    <3> DEFINE x == Visible(s)
               y == Visible(u)
    <3>1. x \in Seq(A) /\ y \in Seq(A) /\ c \in A
      BY <1>1, <1>2, <2>2, <1>4
    <3> HIDE DEF x, y
    <3>2. Append(y, c) = y \o <<c>> /\ x \o y \in Seq(A) /\ <<c>> \in Seq(A)
          /\ Append(x \o y, c) = (x \o y) \o <<c>>
      BY <3>1, AppendIsConcat, ConcatProperties
    <3>3. x \o (y \o <<c>>) = (x \o y) \o <<c>>
      BY <3>1, <3>2, ConcatAssociative
    <3> QED  BY <3>2, <3>3 DEF x, y
  <2>4. Visible(s \o u) = Visible(s) \o Visible(u)
    BY <1>4
  <2> QED  BY <2>1, <2>2, <2>3, <2>4
<1> HIDE DEF T
<1>5. t \in T
  BY <1>1, <1>3, <1>4, SeqInduction
<1> QED  BY <1>5 DEF T

(* QString::simplified() chooses places, and has a space for white space.  *)
KeptPlaces(text) ==
    {i \in DOMAIN text :
        \/ text[i] \notin White
        \/ /\ i > 1 /\ text[i - 1] \notin White
           /\ \E j \in i..Len(text) : text[j] \notin White}
Blanked(text) == [i \in DOMAIN text |-> IF text[i] \in White THEN Space ELSE text[i]]

LEMMA SimplifiedIsChosen ==
    ASSUME NEW A, NEW text \in Seq(A)
    PROVE  /\ Ascending(KeptPlaces(text), Len(text)) \in Seq(1..Len(text))
           /\ Simplified(text) = Chosen(Blanked(text), Ascending(KeptPlaces(text), Len(text)))
<1> DEFINE n == Len(text)
           K == KeptPlaces(text)
           kept == Ascending(K, n)
<1>1. n \in Nat /\ DOMAIN text = 1..n
  BY LenProperties
<1>2. Simplified(text)
        = [k \in DOMAIN kept |-> IF text[kept[k]] \in White THEN Space ELSE text[kept[k]]]
  BY DEF Simplified, KeptPlaces
<1>3. kept \in Seq(K \cap (1..n))
  <2> HIDE DEF n, K
  <2> QED  BY <1>1, AscendingIs
<1> HIDE DEF kept, n, K
<1>4. kept \in Seq(1..n)
  <2>1. K \cap (1..n) \subseteq 1..n
    OBVIOUS
  <2> QED  BY <1>3, <2>1, SeqMonotonic
<1>5. \A k \in DOMAIN kept : kept[k] \in DOMAIN text
  BY <1>1, <1>4, LenProperties, ElementOfSeq
<1>6. Simplified(text) = Chosen(Blanked(text), kept)
  BY <1>2, <1>5 DEF Chosen, Blanked
<1> QED  BY <1>4, <1>6 DEF kept, n, K

(* It keeps every visible character, in its order.                         *)
LEMMA SimplifiedVisible ==
    ASSUME NEW text \in Text
    PROVE  Simplified(text) \in Text /\ Visible(Simplified(text)) = Visible(text)
<1> DEFINE A == 0..127
           n == Len(text)
           K == KeptPlaces(text)
           V == {i \in DOMAIN text : text[i] \in A \ White}
           b == Blanked(text)
           simple(k) == Chosen(b, Ascending(K, k))
           seen(k) == Chosen(text, Ascending(V, k))
           T == {k \in Nat : k <= n =>
                   simple(k) \in Text /\ Visible(simple(k)) = seen(k)}
<1>1. n \in Nat /\ DOMAIN text = 1..n /\ \A i \in 1..n : text[i] \in A
  BY LenProperties, ElementOfSeq DEF Text
<1>2. /\ \A i \in 1..n : i \in V <=> text[i] \notin White
      /\ \A i \in 1..n : i \notin K => text[i] \in White
  BY <1>1 DEF KeptPlaces
<1>3. \A i \in 1..n : b[i] \in A /\ b[i] = IF text[i] \in White THEN Space ELSE text[i]
  <2>1. Space \in 0..127
    BY DEF Space
  <2> QED  BY <1>1, <2>1 DEF Blanked
<1>4. Space \in White
  BY DEF White
<1>5. Text = Seq(A)
  BY DEF Text
<1> HIDE DEF A, n, K, V, b
<1>6. 0 \in T
  <2>1. Ascending(K, 0) = <<>> /\ Ascending(V, 0) = <<>>
    BY AscendingNext
  <2>2. simple(0) = <<>> /\ seen(0) = <<>>
    BY <2>1 DEF Chosen
  <2>3. <<>> \in Text /\ Visible(<<>>) = <<>>
    <3>1. 0 \in 0..127 /\ <<>> \in Text
      BY <1>5, EmptySeq
    <3> QED  BY <3>1, VisibleAppend
  <2> QED  BY <2>2, <2>3
<1>7. ASSUME NEW k \in Nat, k \in T  PROVE k + 1 \in T
  <2> SUFFICES ASSUME k + 1 <= n
               PROVE  simple(k + 1) \in Text /\ Visible(simple(k + 1)) = seen(k + 1)
    OBVIOUS
  <2>1. simple(k) \in Text /\ Visible(simple(k)) = seen(k)
    BY <1>1, <1>7
  <2>2. k + 1 \in 1..n
    BY <1>1
  <2>3. /\ k + 1 \in K => simple(k + 1) = Append(simple(k), b[k + 1])
        /\ k + 1 \notin K => simple(k + 1) = simple(k)
        /\ k + 1 \in V => seen(k + 1) = Append(seen(k), text[k + 1])
        /\ k + 1 \notin V => seen(k + 1) = seen(k)
    <3> DEFINE x == k + 1
               p == Ascending(K, k)
               q == Ascending(V, k)
    <3>1. x \in Nat /\ 1..k \subseteq Nat
      OBVIOUS
    <3>2. p \in Seq(Nat) /\ q \in Seq(Nat)
      <4>1. K \cap (1..k) \subseteq Nat /\ V \cap (1..k) \subseteq Nat
        OBVIOUS
      <4>2. p \in Seq(K \cap (1..k)) /\ q \in Seq(V \cap (1..k))
        BY AscendingIs
      <4> QED  BY <4>1, <4>2, SeqMonotonic
    <3>3. /\ Ascending(K, k + 1) = IF x \in K THEN Append(p, x) ELSE p
          /\ Ascending(V, k + 1) = IF x \in V THEN Append(q, x) ELSE q
      BY AscendingNext
    <3> HIDE DEF x, p, q
    <3>4. /\ Chosen(b, Append(p, x)) = Append(Chosen(b, p), b[x])
          /\ Chosen(text, Append(q, x)) = Append(Chosen(text, q), text[x])
      BY <3>1, <3>2, ChosenAppend
    <3> QED  BY <3>3, <3>4 DEF x, p, q
  <2> HIDE DEF simple, seen
  <2>4. CASE k + 1 \in V
    <3>1. k + 1 \in K /\ b[k + 1] = text[k + 1] /\ text[k + 1] \notin White
          /\ text[k + 1] \in 0..127
      BY <1>1, <1>2, <1>3, <2>2, <2>4 DEF A
    <3>2. /\ Visible(Append(simple(k), text[k + 1])) = Append(Visible(simple(k)), text[k + 1])
      BY <2>1, <3>1, VisibleAppend
    <3>3. Append(simple(k), text[k + 1]) \in Text
      BY <1>5, <2>1, <3>1, AppendProperties DEF A
    <3> QED  BY <2>1, <2>3, <2>4, <3>1, <3>2, <3>3
  <2>5. CASE k + 1 \notin V /\ k + 1 \in K
    <3>1. b[k + 1] = Space /\ Space \in 0..127
      BY <1>2, <1>3, <2>2, <2>5 DEF Space
    <3>2. Visible(Append(simple(k), Space)) = Visible(simple(k))
      BY <1>4, <2>1, <3>1, VisibleAppend
    <3>3. Append(simple(k), Space) \in Text
      BY <1>5, <2>1, <3>1, AppendProperties DEF A
    <3> QED  BY <2>1, <2>3, <2>5, <3>1, <3>2, <3>3
  <2>6. CASE k + 1 \notin V /\ k + 1 \notin K
    BY <2>1, <2>3, <2>6
  <2> QED  BY <2>4, <2>5, <2>6
<1> HIDE DEF T
<1>8. n \in T
  BY <1>1, <1>6, <1>7, NatSetInduction
<1>9. simple(n) \in Text /\ Visible(simple(n)) = seen(n)
  BY <1>1, <1>8 DEF T
<1>10. simple(n) = Simplified(text)
  BY <1>5, SimplifiedIsChosen DEF n, K, b
<1>11. seen(n) = Visible(text)
  BY DEF Visible, Where, V, n, A
<1> QED  BY <1>9, <1>10, <1>11

(* The line end that is sent after a text is not entered.                  *)
LEMMA SimplifiedSent ==
    ASSUME NEW text \in Text
    PROVE  Simplified(text \o <<CR, LF>>) = Simplified(text)
<1> DEFINE A == 0..127
           e == <<CR, LF>>
           t == text \o e
           n == Len(text)
           K == KeptPlaces(text)
           L == KeptPlaces(t)
<1>1. text \in Seq(A) /\ e \in Seq(A) /\ Len(e) = 2 /\ e[1] \in White /\ e[2] \in White
  BY ValuesAreLines DEF Text, White
<1> HIDE DEF A
<1>2. n \in Nat /\ DOMAIN text = 1..n
  BY <1>1, LenProperties
<1>3. /\ t \in Seq(A) /\ Len(t) = n + 2
      /\ \A i \in 1..n : t[i] = text[i]
      /\ t[n + 1] \in White /\ t[n + 2] \in White
  <2> HIDE DEF e, K, L
  <2>1. /\ t \in Seq(A) /\ Len(t) = n + Len(e)
        /\ \A i \in 1..(n + Len(e)) : t[i] = IF i <= n THEN text[i] ELSE e[i - n]
    BY <1>1, ConcatProperties
  <2>2. /\ \A i \in 1..n : i \in 1..(n + 2) /\ i <= n
        /\ n + 1 \in 1..(n + 2) /\ ~(n + 1 <= n) /\ (n + 1) - n = 1
        /\ n + 2 \in 1..(n + 2) /\ ~(n + 2 <= n) /\ (n + 2) - n = 2
    BY <1>2
  <2> QED  BY <1>1, <2>1, <2>2
<1> HIDE DEF e, t, n
<1>4. DOMAIN t = 1..(n + 2)
  BY <1>3, LenProperties
<1>5. \A i \in (n + 1)..(n + 2) : t[i] \in White
  <2> TAKE i \in (n + 1)..(n + 2)
  <2>1. i = n + 1 \/ i = n + 2
    BY <1>2
  <2> QED  BY <1>3, <2>1
<1>6. \A i \in 1..n : i \in K <=> i \in L
  <2> TAKE i \in 1..n
  <2>1. t[i] = text[i] /\ (i > 1 => t[i - 1] = text[i - 1])
    <3>1. i > 1 => i - 1 \in 1..n
      BY <1>2
    <3> QED  BY <1>3, <3>1
  <2>2. (\E j \in i..n : text[j] \notin White) <=> (\E j \in i..(n + 2) : t[j] \notin White)
    <3>1. ASSUME NEW j \in i..n, text[j] \notin White
          PROVE  \E k \in i..(n + 2) : t[k] \notin White
      <4>1. j \in i..(n + 2) /\ j \in 1..n
        BY <1>2
      <4> QED  BY <1>3, <3>1, <4>1
    <3>2. ASSUME NEW j \in i..(n + 2), t[j] \notin White
          PROVE  \E k \in i..n : text[k] \notin White
      <4>1. j \notin (n + 1)..(n + 2)
        BY <1>5, <3>2
      <4>2. j \in i..n /\ j \in 1..n
        BY <1>2, <4>1
      <4> QED  BY <1>3, <3>2, <4>2
    <3> QED  BY <3>1, <3>2
  <2>3. i \in K <=> \/ text[i] \notin White
                    \/ /\ i > 1 /\ text[i - 1] \notin White
                       /\ \E j \in i..n : text[j] \notin White
    BY <1>2 DEF KeptPlaces, n
  <2>4. i \in L <=> \/ t[i] \notin White
                    \/ /\ i > 1 /\ t[i - 1] \notin White
                       /\ \E j \in i..(n + 2) : t[j] \notin White
    <3>1. i \in DOMAIN t
      BY <1>2, <1>4
    <3> QED  BY <1>3, <3>1 DEF KeptPlaces
  <2> QED  BY <2>1, <2>2, <2>3, <2>4
<1>7. \A i \in L : ~(n < i /\ i <= n + 2)
  <2> SUFFICES ASSUME NEW i \in L, n < i, i <= n + 2  PROVE FALSE
    OBVIOUS
  <2>1. i \in 1..(n + 2)
    BY <1>4 DEF KeptPlaces
  <2>2. i \in (n + 1)..(n + 2) /\ \A j \in i..(n + 2) : j \in (n + 1)..(n + 2)
    BY <1>2, <2>1
  <2>3. t[i] \in White /\ ~(\E j \in i..Len(t) : t[j] \notin White)
    BY <1>3, <1>5, <2>2
  <2> QED  BY <2>3 DEF KeptPlaces
<1> HIDE DEF K, L
<1>8. Ascending(L, n + 2) = Ascending(K, n)
  <2>1. Ascending(K, n) = Ascending(L, n)
    BY <1>2, <1>6, AscendingAgree
  <2>2. Ascending(L, n + 2) = Ascending(L, n)
    BY <1>2, <1>7, AscendingStops
  <2> QED  BY <2>1, <2>2
<1> DEFINE p == Ascending(K, n)
<1>9. p \in Seq(1..n) /\ Simplified(text) = Chosen(Blanked(text), p)
  BY <1>1, SimplifiedIsChosen DEF n, K
<1>10. Simplified(t) = Chosen(Blanked(t), p)
  <2>1. Simplified(t) = Chosen(Blanked(t), Ascending(KeptPlaces(t), Len(t)))
    BY <1>3, SimplifiedIsChosen
  <2> QED  BY <1>3, <1>8, <2>1 DEF L
<1> HIDE DEF p
<1>11. \A k \in DOMAIN p : Blanked(t)[p[k]] = Blanked(text)[p[k]]
  <2> TAKE k \in DOMAIN p
  <2>1. p[k] \in 1..n
    BY <1>9, LenProperties, ElementOfSeq
  <2>2. p[k] \in DOMAIN t /\ p[k] \in DOMAIN text
    BY <1>2, <1>4, <2>1
  <2> QED  BY <1>3, <2>1, <2>2 DEF Blanked
<1> QED  BY <1>9, <1>10, <1>11 DEF Chosen, t, e

LEMMA CStringClean ==
    ASSUME NEW A, NEW text \in Seq(A), \A i \in 1..Len(text) : text[i] # 0
    PROVE  CString(text) = text
<1>1. \A i \in 1..Len(text) : text[i] \notin {0}
  OBVIOUS
<1>2. Where(text, {0}) = <<>>
  BY <1>1, WhereNone
<1> QED  BY <1>2 DEF CString

(* What a field has sent after some of its lines, and whether a line end,  *)
(* or a zero, is in it.                                                    *)
SentUpTo(f, k) == SubSeq(Sent(f), 1, LineEnds(Sent(f))[k + 1])
Clean(f)       == \A n \in 1..Len(f.content) : f.content[n] # 0
OneLine(f)     == \A n \in 1..Len(f.content) : f.content[n] # LF

LEMMA SentUpToIs ==
    ASSUME NEW f \in Field
    PROVE  /\ SentUpTo(f, 0) = <<>> /\ LineEnds(Sent(f))[1] = 0
           /\ SentUpTo(f, Len(Lines(Sent(f)))) = Sent(f)
           /\ SubSeq(Sent(f), 1, Len(Sent(f)) - 2) = f.content
<1> DEFINE A == 0..127
           s == Sent(f)
           n == Len(Lines(s))
           e == <<CR, LF>>
           c == f.content
<1>1. /\ s \in Seq(A) /\ c \in Seq(A) /\ Len(s) = Len(c) + 2 /\ Len(c) \in Nat
      /\ LineEnds(s)[n + 1] = Len(s)
  BY SentIs DEF Text
<1>2. e \in Seq(A)
  BY ValuesAreLines DEF Text
<1> HIDE DEF A
<1>3. LineEnds(s)[1] = 0
  BY <1>1, LineEndsAre
<1>4. s = c \o e
  BY DEF Sent
<1> HIDE DEF s, n, e, c
<1>5. SubSeq(s, 1, 0) = <<>>
  BY <1>1, SubSeqEmpty
<1>6. SubSeq(s, 1, Len(s)) = s
  BY <1>1, SubSeqFull
<1>7. SubSeq(s, 1, Len(s) - 2) = c
  <2>1. Len(s) - 2 = Len(c)
    BY <1>1
  <2>2. Len(c) \in 0..Len(c) /\ Len(c) \in Nat /\ 1 \in Nat
    BY <1>1
  <2>3. SubSeq(c \o e, 1, Len(c)) = SubSeq(c, 1, Len(c))
    BY <1>1, <1>2, <2>2, SubSeqOfConcat1
  <2>4. SubSeq(c, 1, Len(c)) = c
    BY <1>1, SubSeqFull
  <2> QED  BY <1>4, <2>1, <2>3, <2>4
<1>8. 0 + 1 = 1
  OBVIOUS
<1>9. SentUpTo(f, 0) = <<>>
  BY <1>3, <1>5, <1>8 DEF SentUpTo, s
<1>10. SentUpTo(f, n) = s
  BY <1>1, <1>6 DEF SentUpTo, s
<1> QED  BY <1>3, <1>7, <1>9, <1>10 DEF s, n, c

LEMMA NextLine ==
    ASSUME NEW f \in Field, NEW k \in Nat, k + 1 \in 1..Len(Lines(Sent(f)))
    PROVE  /\ SentUpTo(f, k) \in Text /\ Lines(Sent(f))[k + 1] \in Text
           /\ LineEnds(Sent(f))[k + 1] \in Nat
           /\ Len(SentUpTo(f, k)) = LineEnds(Sent(f))[k + 1]
           /\ LineEnds(Sent(f))[k + 1] + Len(Lines(Sent(f))[k + 1])
                = LineEnds(Sent(f))[(k + 1) + 1]
           /\ SentUpTo(f, k) \o Lines(Sent(f))[k + 1] = SentUpTo(f, k + 1)
           /\ Clean(f) => CString(Lines(Sent(f))[k + 1]) = Lines(Sent(f))[k + 1]
<1> DEFINE A == 0..127
           s == Sent(f)
           j == k + 1
           E == LineEnds(s)
           l == Lines(s)[j]
<1>1. s \in Seq(A) /\ Text = Seq(A)
  BY SentIs DEF Text
<1>2. Len(s) = Len(f.content) + 2 /\ Len(f.content) \in Nat /\ f.content \in Seq(A)
  BY SentIs DEF Text
<1> HIDE DEF A, s
<1>3. j \in 1..Len(Lines(s)) /\ j \in Nat
  BY DEF s
<1> HIDE DEF j
<1>4. /\ E[j] \in 0..Len(s) /\ E[j + 1] \in 0..Len(s)
      /\ SubSeq(s, 1, E[j]) \in Seq(A)
      /\ Len(SubSeq(s, 1, E[j])) = E[j]
      /\ l \in Seq(A)
      /\ Len(l) = E[j + 1] - E[j]
      /\ SubSeq(s, 1, E[j]) \o l = SubSeq(s, 1, E[j + 1])
  BY <1>1, <1>3, LineAdded
<1>5. l = SubSeq(s, E[j] + 1, E[j + 1])
  BY <1>1, <1>3, LinesAre
<1> HIDE DEF E
<1>6. E[j] \in Nat /\ E[j] + Len(l) = E[j + 1]
  <2> DEFINE a == E[j]
             b == E[j + 1]
             m == Len(l)
  <2>1. a \in Nat /\ b \in Nat /\ m = b - a
    BY <1>2, <1>4
  <2> HIDE DEF a, b, m
  <2>2. a + m = b
    BY <2>1
  <2> QED  BY <2>1, <2>2 DEF a, b, m
<1>7. ASSUME Clean(f)  PROVE CString(l) = l
  <2>1. \A i \in 1..Len(s) : s[i] # 0
    <3> TAKE i \in 1..Len(s)
    <3> DEFINE e == <<CR, LF>>
    <3>1. e \in Seq(A) /\ e[1] # 0 /\ e[2] # 0 /\ Len(e) = 2
      BY ValuesAreLines DEF Text, A, CR, LF
    <3>2. s = f.content \o e
      BY DEF Sent, s
    <3> HIDE DEF e
    <3>3. s[i] = IF i <= Len(f.content) THEN f.content[i] ELSE e[i - Len(f.content)]
      BY <1>2, <3>1, <3>2, ConcatProperties
    <3>4. CASE i <= Len(f.content)
      <4>1. i \in 1..Len(f.content)
        BY <1>2, <3>4
      <4> QED  BY <1>7, <3>3, <3>4, <4>1 DEF Clean
    <3>5. CASE ~(i <= Len(f.content))
      <4>1. i - Len(f.content) = 1 \/ i - Len(f.content) = 2
        BY <1>2, <3>5
      <4> QED  BY <3>1, <3>3, <3>5, <4>1
    <3> QED  BY <3>4, <3>5
  <2>2. \A i \in 1..Len(l) : l[i] # 0
    <3> TAKE i \in 1..Len(l)
    <3> DEFINE a == E[j] + 1
               b == E[j + 1]
    <3>1. a \in Int /\ b \in Int /\ a >= 1 /\ b <= Len(s) /\ Len(s) \in Nat
      BY <1>2, <1>4
    <3>2. Len(l) = b - a + 1
      BY <1>2, <1>4
    <3> HIDE DEF a, b
    <3>3. \A x \in a..b : s[x] \in A
      <4> TAKE x \in a..b
      <4>1. x \in 1..Len(s)
        BY <3>1
      <4> QED  BY <1>1, <4>1, ElementOfSeq
    <3>4. \A x \in 1..(b - a + 1) : SubSeq(s, a, b)[x] = s[a + x - 1]
      BY <3>1, <3>3, SubSeqProperties
    <3>5. l = SubSeq(s, a, b)
      BY <1>5 DEF a, b
    <3>6. i \in 1..(b - a + 1)
      BY <3>2
    <3>7. a + i - 1 \in 1..Len(s)
      BY <3>1, <3>6
    <3>8. l[i] = s[a + i - 1]
      BY <3>4, <3>5, <3>6
    <3> QED  BY <2>1, <3>7, <3>8
  <2> QED  BY <1>4, <2>2, CStringClean
<1>8. /\ SentUpTo(f, k) = SubSeq(s, 1, E[j]) /\ SentUpTo(f, k + 1) = SubSeq(s, 1, E[j + 1])
  BY DEF SentUpTo, s, j, E
<1> QED  BY <1>1, <1>4, <1>6, <1>7, <1>8 DEF s, j, E

LEMMA VisibleSent ==
    ASSUME NEW f \in Field
    PROVE  Visible(Sent(f)) = Visible(f.content)
<1>1. Simplified(Sent(f)) = Simplified(f.content) /\ Sent(f) \in Text /\ f.content \in Text
  BY SentIs, SimplifiedSent DEF Sent
<1> QED  BY <1>1, SimplifiedVisible

-----------------------------------------------------------------------------
(* The files and texts that are read, up to a line.                         *)

(* What the script has of a field that it has read, and of one that it is  *)
(* reading.                                                                *)
OneFile(j) ==
    \A k \in DOMAIN form.fields : k # j => ~FileOf(k, form.fields[j].filename)

Kept(j) ==
    LET f == form.fields[j] IN
    /\ f.kind = "file" /\ OneFile(j) =>
          f.filename \in DOMAIN disk /\ disk[f.filename] = f.content
    /\ f.kind = "text" /\ Alone(j) /\ Clean(f) =>
          /\ Visible(post_values[f.name]) = Visible(f.content)
          /\ OneLine(f) => post_values[f.name] = Simplified(f.content)

Growing(j, k) ==
    LET f == form.fields[j] IN
    /\ f.kind = "file" => part.pos = LineEnds(Sent(f))[k + 1]
    /\ f.kind = "file" /\ OneFile(j) =>
          f.filename \in DOMAIN disk /\ disk[f.filename] = SentUpTo(f, k)
    /\ f.kind = "text" /\ Alone(j) /\ Clean(f) =>
          /\ k = 0 => f.name \notin DOMAIN post_values
          /\ k > 0 => /\ post_values[f.name] \in Text
                      /\ Visible(post_values[f.name]) = Visible(SentUpTo(f, k))
          /\ k = 1 => post_values[f.name] = Simplified(Lines(Sent(f))[1])

Content(i, o) ==
    LET h == HeaderLines(form.fields[i + 1]) IN
    /\ \A j \in 1..i : Kept(j)
    /\ o > h => Growing(i + 1, o - h - 1)
    /\ \A x \in DOMAIN post_values :
          \/ \E j \in 1..i : form.fields[j].name = x
          \/ o > h + 1 /\ form.fields[i + 1].name = x

LEMMA KeptStays ==
    ASSUME form' = form, NEW j, Kept(j),
           form.fields[j].kind = "file" /\ OneFile(j) /\ form.fields[j].filename \in DOMAIN disk
             => /\ form.fields[j].filename \in DOMAIN disk'
                /\ disk'[form.fields[j].filename] = disk[form.fields[j].filename],
           form.fields[j].kind = "text" /\ Alone(j) =>
             post_values'[form.fields[j].name] = post_values[form.fields[j].name]
    PROVE  Kept(j)'
<1> DEFINE f == form.fields[j]
<1>1. f' = f /\ (OneFile(j)' <=> OneFile(j)) /\ (Alone(j)' <=> Alone(j))
  BY DEF OneFile, Alone, FileOf
<1>2. (f.kind = "file" /\ OneFile(j) =>
          f.filename \in DOMAIN disk /\ disk[f.filename] = f.content)'
  BY <1>1 DEF Kept
<1>3. ASSUME f.kind = "text", Alone(j), Clean(f)
      PROVE  /\ Visible(post_values'[f.name]) = Visible(f.content)
             /\ OneLine(f) => post_values'[f.name] = Simplified(f.content)
  BY <1>3 DEF Kept
<1> HIDE DEF f
<1>4. (f.kind = "text" /\ Alone(j) /\ Clean(f) =>
          /\ Visible(post_values[f.name]) = Visible(f.content)
          /\ OneLine(f) => post_values[f.name] = Simplified(f.content))'
  BY <1>1, <1>3
<1> QED  BY <1>2, <1>4 DEF Kept, f

LEMMA GrowingFileNow ==
    ASSUME form' = form, NEW j, NEW m, form.fields[j].kind = "file",
           part'.pos = LineEnds(Sent(form.fields[j]))[m + 1],
           OneFile(j) => /\ form.fields[j].filename \in DOMAIN disk'
                         /\ disk'[form.fields[j].filename] = SentUpTo(form.fields[j], m)
    PROVE  Growing(j, m)'
<1> DEFINE f == form.fields[j]
<1>1. f' = f /\ (OneFile(j)' <=> OneFile(j)) /\ f.kind # "text"
  BY DEF OneFile, FileOf
<1>2. /\ part'.pos = LineEnds(Sent(f'))[m + 1]
      /\ OneFile(j)' => f'.filename \in DOMAIN disk' /\ disk'[f'.filename] = SentUpTo(f', m)
      /\ ~(f'.kind = "text")
  BY <1>1
<1> QED  BY <1>2 DEF Growing

LEMMA GrowingTextNow ==
    ASSUME form' = form, NEW j, NEW m, form.fields[j].kind = "text",
           Alone(j) /\ Clean(form.fields[j]) =>
              LET v == post_values'[form.fields[j].name] IN
              /\ m = 0 => form.fields[j].name \notin DOMAIN post_values'
              /\ m > 0 => v \in Text /\ Visible(v) = Visible(SentUpTo(form.fields[j], m))
              /\ m = 1 => v = Simplified(Lines(Sent(form.fields[j]))[1])
    PROVE  Growing(j, m)'
<1> DEFINE f == form.fields[j]
<1>1. f' = f /\ (Alone(j)' <=> Alone(j)) /\ f.kind # "file"
  BY DEF Alone
<1>2. /\ ~(f'.kind = "file")
      /\ Alone(j)' /\ Clean(f') =>
           /\ m = 0 => f'.name \notin DOMAIN post_values'
           /\ m > 0 => /\ post_values'[f'.name] \in Text
                       /\ Visible(post_values'[f'.name]) = Visible(SentUpTo(f', m))
           /\ m = 1 => post_values'[f'.name] = Simplified(Lines(Sent(f'))[1])
  BY <1>1
<1> QED  BY <1>2 DEF Growing

(* The place in the form, and what is at it, of a line of a value. *)
LEMMA LineOfValue ==
    ASSUME TInv, Getline, line.t = "data", ~part.header, NEW i, NEW o, Reading(i, o)
    PROVE  LET f == form.fields[i + 1]
               k == o - HeaderLines(f) - 1
           IN
           /\ f \in Field /\ k \in Nat /\ k + 1 \in 1..Len(Lines(Sent(f)))
           /\ (o + 1) - HeaderLines(f) - 1 = k + 1 /\ (k > 0 <=> o > HeaderLines(f) + 1)
           /\ o > HeaderLines(f) /\ o + 1 > HeaderLines(f) + 1
           /\ line.text = Lines(Sent(f))[k + 1]
           /\ part.name = f.name
           /\ part.filename = IF f.kind = "file" THEN f.filename ELSE ""
           /\ f.kind = "file" => f.filename # ""
           /\ f.kind \in {"text", "file"}
<1> DEFINE f == form.fields[i + 1]
           h == HeaderLines(f)
           k == o - h - 1
<1>1. /\ f \in Field /\ o > h /\ o \in Nat /\ InPart(f, o)
  BY ValueLine
<1>2. Place(i, o)
  BY DEF Reading
<1>3. /\ o \in 0..(Len(Part(f)) - 1) /\ line = Part(f)[o + 1]
  BY <1>2, LineHere
<1>4. h \in {1, 2}
  BY HeaderLinesAre
<1>5. Part(f)[o + 1].t = "data" => o + 1 < Len(Part(f))
  BY <1>1, <1>3, LineOfPart
<1>6. h < o /\ o + 1 < Len(Part(f)) =>
         o - h \in 1..Len(Lines(Sent(f))) /\ Part(f)[o + 1].text = Lines(Sent(f))[o - h]
  BY <1>1, <1>3, LineOfPart
<1>7. h < o
  <2> HIDE DEF h
  <2> QED  BY <1>1, <1>4
<1>8. o - h \in 1..Len(Lines(Sent(f))) /\ line.text = Lines(Sent(f))[o - h]
  BY <1>3, <1>5, <1>6, <1>7
<1>9. /\ part.name = f.name
      /\ part.filename = IF f.kind = "file" THEN f.filename ELSE ""
      /\ f.kind = "file" => f.filename # ""
  BY <1>1 DEF InPart
<1>10. f.kind \in {"text", "file"}
  BY <1>1 DEF Field
<1>11. /\ k \in Nat /\ k + 1 = o - h /\ (o + 1) - h - 1 = k + 1 /\ (k > 0 <=> o > h + 1)
       /\ o + 1 > h + 1
  <2> HIDE DEF h
  <2> QED  BY <1>1, <1>4, <1>7
<1> QED  BY <1>1, <1>8, <1>9, <1>10, <1>11

(* ReadFile() *)
LEMMA GrowingFile ==
    ASSUME TInv, ReadFile, NEW i, NEW o, Reading(i, o), Content(i, o),
           NEW m, m = (o + 1) - HeaderLines(form.fields[i + 1]) - 1
    PROVE  Growing(i + 1, m)'
<1> DEFINE f == form.fields[i + 1]
           k == o - HeaderLines(f) - 1
           E == LineEnds(Sent(f))
           l == Lines(Sent(f))[k + 1]
<1>1. /\ Getline /\ line.t = "data" /\ ~part.header /\ part.filename # ""
      /\ disk' = [disk EXCEPT ![part.filename] = Overwritten(@, part.pos, line.text)]
      /\ part' = [part EXCEPT !.pos = @ + Len(line.text)]
  BY DEF ReadFile
<1>2. /\ f \in Field /\ k \in Nat /\ k + 1 \in 1..Len(Lines(Sent(f)))
      /\ (o + 1) - HeaderLines(f) - 1 = k + 1 /\ o > HeaderLines(f)
      /\ line.text = l
      /\ part.filename = IF f.kind = "file" THEN f.filename ELSE ""
      /\ f.kind \in {"text", "file"}
  BY <1>1, LineOfValue
<1>3. f.kind = "file" /\ part.filename = f.filename
  BY <1>1, <1>2
<1>4. Growing(i + 1, k)
  BY <1>2 DEF Content
<1>5. /\ form' = form /\ part \in PartState /\ disk \in [DOMAIN disk -> Text]
  BY <1>1, GetlineIs, LoopIs
<1>6. part.pos = E[k + 1]
  BY <1>3, <1>4 DEF Growing
<1>7. OneFile(i + 1) => f.filename \in DOMAIN disk /\ disk[f.filename] = SentUpTo(f, k)
  BY <1>3, <1>4 DEF Growing
<1> HIDE DEF k, f
<1>8. /\ SentUpTo(f, k) \in Text /\ l \in Text /\ E[k + 1] \in Nat
      /\ Len(SentUpTo(f, k)) = E[k + 1]
      /\ E[k + 1] + Len(l) = E[(k + 1) + 1]
      /\ SentUpTo(f, k) \o l = SentUpTo(f, k + 1)
  BY <1>2, NextLine
<1> HIDE DEF E, l
<1>9. part'.pos = E[(k + 1) + 1]
  BY <1>1, <1>2, <1>5, <1>6, <1>8 DEF PartState
<1>10. ASSUME OneFile(i + 1)
       PROVE  f.filename \in DOMAIN disk' /\ disk'[f.filename] = SentUpTo(f, k + 1)
  <2>1. disk'[f.filename] = Overwritten(SentUpTo(f, k), E[k + 1], l)
    BY <1>1, <1>2, <1>3, <1>6, <1>7, <1>10
  <2>2. E[k + 1] <= Len(SentUpTo(f, k))
    BY <1>8
  <2>3. Overwritten(SentUpTo(f, k), E[k + 1], l) = SentUpTo(f, k) \o l
    BY <1>8, <2>2, OverwrittenIs
  <2> QED  BY <1>1, <1>7, <1>8, <1>10, <2>1, <2>3
<1>11. m = k + 1
  BY <1>2 DEF f
<1> QED  BY <1>3, <1>5, <1>9, <1>10, <1>11, GrowingFileNow DEF f, E

(* ReadText() *)
LEMMA GrowingText ==
    ASSUME TInv, ReadText, NEW i, NEW o, Reading(i, o), Content(i, o),
           NEW m, m = (o + 1) - HeaderLines(form.fields[i + 1]) - 1
    PROVE  Growing(i + 1, m)'
<1> DEFINE f == form.fields[i + 1]
           k == o - HeaderLines(f) - 1
           l == Lines(Sent(f))[k + 1]
           old == IF part.name \in DOMAIN post_values THEN post_values[part.name] ELSE <<>>
           new == Simplified(old \o CString(line.text))
<1>1. /\ Getline /\ line.t = "data" /\ ~part.header /\ part.filename = ""
      /\ post_values' = Assign(post_values, part.name, new)
  BY DEF ReadText
<1>2. /\ f \in Field /\ k \in Nat /\ k + 1 \in 1..Len(Lines(Sent(f)))
      /\ (o + 1) - HeaderLines(f) - 1 = k + 1 /\ o > HeaderLines(f)
      /\ (k > 0 <=> o > HeaderLines(f) + 1)
      /\ line.text = l /\ part.name = f.name
      /\ part.filename = IF f.kind = "file" THEN f.filename ELSE ""
      /\ f.kind = "file" => f.filename # ""
      /\ f.kind \in {"text", "file"}
  <2> HIDE DEF old, new
  <2> QED  BY <1>1, LineOfValue
<1>3. f.kind = "text" /\ f.kind # "file"
  BY <1>1, <1>2
<1>4. Growing(i + 1, k)
  BY <1>2 DEF Content
<1>5. form' = form /\ DOMAIN post_filenames = DOMAIN post_values
  <2>1. form' = form /\ post_filenames \in [DOMAIN post_values -> BOOLEAN]
    BY <1>1, GetlineIs, LoopIs
  <2> QED  BY <2>1
<1>7. ASSUME Alone(i + 1), Clean(f)
      PROVE  /\ post_values'[f.name] \in Text
             /\ Visible(post_values'[f.name]) = Visible(SentUpTo(f, k + 1))
             /\ k + 1 = 1 => post_values'[f.name] = Simplified(Lines(Sent(f))[1])
  <2>1. /\ k = 0 => f.name \notin DOMAIN post_values
        /\ k > 0 => /\ post_values[f.name] \in Text
                    /\ Visible(post_values[f.name]) = Visible(SentUpTo(f, k))
    BY <1>3, <1>4, <1>7 DEF Growing
  <2>2. k > 0 => f.name \in DOMAIN post_values
    <3> SUFFICES ASSUME k > 0  PROVE f.name \in DOMAIN post_values
      OBVIOUS
    <3>1. Noted(i + 1)
      BY <1>2 DEF Reading
    <3> QED  BY <1>5, <1>7, <3>1 DEF Noted
  <2>12. k \in Nat
    BY <1>2
  <2> HIDE DEF k, f
  <2>3. /\ SentUpTo(f, k) \in Text /\ l \in Text
        /\ SentUpTo(f, k) \o l = SentUpTo(f, k + 1)
        /\ CString(l) = l
    BY <1>2, <1>7, NextLine
  <2>4. SentUpTo(f, 0) = <<>>
    BY <1>2, SentUpToIs
  <2> HIDE DEF l
  <2>5. old \in Text /\ Visible(old) = Visible(SentUpTo(f, k)) /\ (k = 0 => old = <<>>)
    <3> HIDE DEF new
    <3>0. (k = 0 \/ k > 0) /\ ~(k = 0 /\ k > 0)
      BY <2>12
    <3>1. CASE k = 0
      <4>1. old = <<>>
        BY <1>2, <2>1, <3>1
      <4> QED  BY <2>3, <2>4, <3>1, <4>1
    <3>2. CASE k > 0
      <4>1. old = post_values[f.name]
        BY <1>2, <2>2, <3>2
      <4> HIDE DEF old
      <4> QED  BY <2>1, <3>0, <3>2, <4>1
    <3> QED  BY <3>0, <3>1, <3>2
  <2>6. post_values'[f.name] = new
    <3>1. post_values' = Assign(post_values, f.name, new)
      BY <1>1, <1>2
    <3> HIDE DEF new, old
    <3> QED  BY <3>1 DEF Assign
  <2> HIDE DEF old
  <2>7. new = Simplified(old \o l)
    BY <1>2, <2>3
  <2>8. old \o l \in Text
    <3>1. old \in Seq(0..127) /\ l \in Seq(0..127)
      BY <2>3, <2>5 DEF Text
    <3>2. old \o l \in Seq(0..127)
      BY <3>1, ConcatProperties
    <3> QED  BY <3>2 DEF Text
  <2>9. new \in Text /\ Visible(new) = Visible(old \o l)
    BY <2>7, <2>8, SimplifiedVisible
  <2>10. Visible(old \o l) = Visible(SentUpTo(f, k) \o l)
    <3>1. Visible(old \o l) = Visible(old) \o Visible(l)
      BY <2>3, <2>5, VisibleConcat
    <3>2. Visible(SentUpTo(f, k) \o l) = Visible(SentUpTo(f, k)) \o Visible(l)
      BY <2>3, VisibleConcat
    <3> QED  BY <2>5, <3>1, <3>2
  <2>11. k + 1 = 1 => new = Simplified(Lines(Sent(f))[1])
    <3> SUFFICES ASSUME k + 1 = 1  PROVE new = Simplified(Lines(Sent(f))[1])
      OBVIOUS
    <3>1. k = 0 /\ old = <<>>
      <4>1. k = 0
        BY <2>12
      <4> QED  BY <2>5, <4>1
    <3>2. l = Lines(Sent(f))[1]
      BY <3>1 DEF l
    <3>3. <<>> \o l = l
      <4>1. l \in Seq(0..127)
        BY <2>3 DEF Text
      <4> QED  BY <4>1, ConcatEmptySeq
    <3> QED  BY <2>7, <3>1, <3>2, <3>3
  <2> HIDE DEF new
  <2> QED  BY <2>3, <2>6, <2>9, <2>10, <2>11
<1> HIDE DEF new, old, l
<1>8. m = k + 1 /\ m > 0 /\ ~(m = 0)
  <2>1. m = k + 1 /\ k \in Nat
    BY <1>2
  <2> HIDE DEF k
  <2> QED  BY <2>1
<1> HIDE DEF k
<1> QED  BY <1>3, <1>5, <1>7, <1>8, GrowingTextNow DEF f

LEMMA ContentNow ==
    ASSUME form' = form, NEW i, NEW o,
           \A j \in 1..i : Kept(j)',
           o > HeaderLines(form.fields[i + 1]) =>
              \A m : m = o - HeaderLines(form.fields[i + 1]) - 1 => Growing(i + 1, m)',
           \A x \in DOMAIN post_values' :
              \/ \E j \in 1..i : form.fields[j].name = x
              \/ o > HeaderLines(form.fields[i + 1]) + 1 /\ form.fields[i + 1].name = x
    PROVE  Content(i, o)'
<1> DEFINE h == HeaderLines(form.fields[i + 1])
           m == o - h - 1
<1>1. h' = h /\ m' = m
  OBVIOUS
<1>2. o > h => Growing(i + 1, m)'
  OBVIOUS
<1>3. \A x \in DOMAIN post_values' :
         \/ \E j \in 1..i : form'.fields[j].name = x
         \/ o > HeaderLines(form'.fields[i + 1]) + 1 /\ form'.fields[i + 1].name = x
  OBVIOUS
<1> QED  BY <1>2, <1>3 DEF Content

(* The disk and the values that stay the same. *)
LEMMA KeptUnchanged ==
    ASSUME form' = form, disk' = disk, post_values' = post_values, NEW i,
           \A j \in 1..i : Kept(j)
    PROVE  \A j \in 1..i : Kept(j)'
<1> TAKE j \in 1..i
<1>1. Kept(j)
  OBVIOUS
<1> QED  BY <1>1, KeptStays

LEMMA ContentHeader ==
    ASSUME TInv, ReadHeader, NEW i, NEW o, Reading(i, o), Content(i, o)
    PROVE  Content(i, o + 1)'
<1> DEFINE f == form.fields[i + 1]
           h == HeaderLines(f)
<1>1. Getline /\ line.t = "header" /\ UNCHANGED <<post_values, disk>>
  BY DEF ReadHeader, store, files
<1>2. Place(i, o)
  BY DEF Reading
<1>3. /\ f \in Field /\ o \in 0..(Len(Part(f)) - 1) /\ line = Part(f)[o + 1] /\ form' = form
  BY <1>1, <1>2, LineHere, GetlineIs
<1>4. o < h /\ h \in {1, 2} /\ Len(Part(f)) \in Nat
  BY <1>1, <1>3, LineOfPart
<1>5. o \in Nat /\ ~(o + 1 > h) /\ ~(o > h + 1)
  <2> HIDE DEF h
  <2> QED  BY <1>3, <1>4
<1>6. \A j \in 1..i : Kept(j)'
  BY <1>1, <1>3, KeptUnchanged DEF Content
<1>7. \A x \in DOMAIN post_values' : \E j \in 1..i : form.fields[j].name = x
  BY <1>1, <1>5 DEF Content
<1> QED  BY <1>3, <1>5, <1>6, <1>7, ContentNow

LEMMA ContentEndOfHeaders ==
    ASSUME TInv, EndOfHeaders, NEW i, NEW o, Reading(i, o), Content(i, o), phase' # "failed"
    PROVE  Content(i, o + 1)'
<1> DEFINE f == form.fields[i + 1]
           h == HeaderLines(f)
<1>1. /\ Getline /\ line.t = "data" /\ part.header /\ post_values' = post_values
  BY DEF EndOfHeaders, store
<1>2. /\ i + 1 \in 1..Len(form.fields) /\ i \in Nat /\ o \in Nat /\ form' = form /\ f \in Field
      /\ o = h /\ InPart(f, o)
  BY <1>1, ValueLine
<1>3. h \in Nat /\ ~(o > h) /\ ~(o > h + 1) /\ ~(o + 1 > h + 1) /\ (o + 1) - h - 1 = 0
  <2>1. h \in {1, 2}
    BY HeaderLinesAre
  <2> HIDE DEF h
  <2> QED  BY <1>2, <2>1
<1>4. part.disposition[1] = f
  <2>1. part.disposition = <<f>>
    BY <1>2 DEF InPart
  <2> HIDE DEF f
  <2> QED  BY <2>1
<1>5. \A x \in DOMAIN disk : \E j \in 1..i : FileOf(j, x)
  BY <1>3 DEF Reading
<1>6. part \in PartState /\ part.pos = 0
  BY <1>1, GetlineIs, LoopIs
<1>7. part'.pos = 0
  BY <1>6 DEF EndOfHeaders, Named, PartState
<1>8. /\ f.kind = "text" => disk' = disk
      /\ f.kind = "file" => disk' = IF f.filename \in DOMAIN disk THEN disk
                                     ELSE Assign(disk, f.filename, <<>>)
  BY <1>4 DEF EndOfHeaders
<1>9. \A x \in DOMAIN disk : x \in DOMAIN disk' /\ disk'[x] = disk[x]
  <2>1. f.kind \in {"text", "file"}
    BY <1>2 DEF Field
  <2>2. CASE disk' = disk
    BY <2>2
  <2>3. CASE f.filename \notin DOMAIN disk /\ disk' = Assign(disk, f.filename, <<>>)
    BY <2>3 DEF Assign
  <2> QED  BY <1>8, <2>1, <2>2, <2>3
<1>10. ASSUME NEW j \in 1..i  PROVE Kept(j)'
  <2>1. Kept(j)
    BY DEF Content
  <2> QED  BY <1>1, <1>2, <1>9, <2>1, KeptStays
<1>11. SentUpTo(f, 0) = <<>> /\ LineEnds(Sent(f))[0 + 1] = 0
  BY <1>2, SentUpToIs
<1>12. ASSUME f.kind = "file"  PROVE Growing(i + 1, 0)'
  <2>1. ASSUME OneFile(i + 1)
        PROVE  f.filename \in DOMAIN disk' /\ disk'[f.filename] = <<>>
    <3>1. f.filename \notin DOMAIN disk
      <4> SUFFICES ASSUME f.filename \in DOMAIN disk  PROVE FALSE
        OBVIOUS
      <4>1. PICK j \in 1..i : FileOf(j, f.filename)
        BY <1>5
      <4>2. j # i + 1 /\ j \in DOMAIN form.fields
        <5>1. DOMAIN form.fields = 1..Len(form.fields) /\ Len(form.fields) \in Nat
          BY <1>1, GetlineIs, FormIs
        <5>2. j # i + 1 /\ j \in 1..Len(form.fields)
          BY <1>2, <5>1
        <5> QED  BY <5>1, <5>2
      <4> QED  BY <2>1, <4>1, <4>2 DEF OneFile
    <3>2. disk' = Assign(disk, f.filename, <<>>)
      BY <1>8, <1>12, <3>1
    <3> QED  BY <3>2 DEF Assign
  <2> QED  BY <1>2, <1>7, <1>11, <1>12, <2>1, GrowingFileNow
<1>13. ASSUME f.kind = "text"  PROVE Growing(i + 1, 0)'
  <2>1. ASSUME Alone(i + 1)  PROVE f.name \notin DOMAIN post_values'
    <3> SUFFICES ASSUME f.name \in DOMAIN post_values  PROVE FALSE
      BY <1>1
    <3>1. PICK j \in 1..i : form.fields[j].name = f.name
      BY <1>3 DEF Content
    <3>2. j # i + 1 /\ j \in DOMAIN form.fields
      <4>1. DOMAIN form.fields = 1..Len(form.fields) /\ Len(form.fields) \in Nat
        BY <1>1, GetlineIs, FormIs
      <4>2. j # i + 1 /\ j \in 1..Len(form.fields)
        BY <1>2, <4>1
      <4> QED  BY <4>1, <4>2
    <3> QED  BY <2>1, <3>1, <3>2 DEF Alone
  <2>2. ~(0 > 0) /\ ~(0 = 1)
    OBVIOUS
  <2> QED  BY <1>2, <1>13, <2>1, <2>2, GrowingTextNow
<1>14. Growing(i + 1, 0)'
  BY <1>2, <1>12, <1>13 DEF Field
<1>15. \A m : m = (o + 1) - h - 1 => Growing(i + 1, m)'
  <2> SUFFICES ASSUME NEW m, m = (o + 1) - h - 1  PROVE Growing(i + 1, m)'
    OBVIOUS
  <2>1. m = 0
    BY <1>3
  <2> QED  BY <1>14, <2>1
<1>16. \A x \in DOMAIN post_values' : \E j \in 1..i : form.fields[j].name = x
  BY <1>1, <1>3 DEF Content
<1> QED  BY <1>2, <1>10, <1>15, <1>16, ContentNow

(* A line of a value leaves the fields before as they are. *)
LEMMA ValueOfAnother ==
    ASSUME TInv, Getline, line.t = "data", ~part.header, NEW i, NEW o, Reading(i, o),
           NEW j \in 1..i
    PROVE  /\ j # i + 1 /\ j \in DOMAIN form.fields /\ i + 1 \in DOMAIN form.fields
           /\ Alone(j) => /\ form.fields[j].name # part.name
                          /\ form.fields[j].name \in DOMAIN post_values
           /\ OneFile(j) /\ part.filename # "" => form.fields[j].filename # part.filename
<1> DEFINE f == form.fields[i + 1]
<1>1. /\ i + 1 \in 1..Len(form.fields) /\ i \in Nat
  BY ValueLine
<1>2. /\ part.name = f.name
      /\ part.filename = IF f.kind = "file" THEN f.filename ELSE ""
  BY LineOfValue
<1>3. /\ DOMAIN form.fields = 1..Len(form.fields) /\ Len(form.fields) \in Nat
      /\ post_filenames \in [DOMAIN post_values -> BOOLEAN]
  BY GetlineIs, FormIs, LoopIs
<1>4. j # i + 1 /\ j \in DOMAIN form.fields /\ i + 1 \in DOMAIN form.fields
  <2>1. j # i + 1 /\ j \in 1..Len(form.fields)
    BY <1>1, <1>3
  <2> QED  BY <1>1, <1>3, <2>1
<1>5. Noted(j)
  BY DEF Reading
<1>6. Alone(j) => f.name # form.fields[j].name /\ form.fields[j].name \in DOMAIN post_values
  <2>1. DOMAIN post_filenames = DOMAIN post_values
    BY <1>3
  <2> QED  BY <1>4, <1>5, <2>1 DEF Noted, Alone
<1>7. OneFile(j) /\ part.filename # "" => form.fields[j].filename # part.filename
  BY <1>2, <1>4 DEF OneFile, FileOf
<1> QED  BY <1>2, <1>4, <1>6, <1>7

LEMMA ContentValue ==
    ASSUME TInv, Getline, line.t = "data", ~part.header, NEW i, NEW o,
           Reading(i, o), Content(i, o), NEW v,
           post_values' = Assign(post_values, part.name, v),
           \/ disk' = disk
           \/ part.filename # "" /\ \E new : disk' = [disk EXCEPT ![part.filename] = new],
           \A m : m = (o + 1) - HeaderLines(form.fields[i + 1]) - 1 => Growing(i + 1, m)'
    PROVE  Content(i, o + 1)'
<1> DEFINE f == form.fields[i + 1]
           h == HeaderLines(f)
<1>1. form' = form /\ part.name = f.name /\ o + 1 > h + 1
  BY LineOfValue, GetlineIs
<1>2. ASSUME NEW j \in 1..i  PROVE Kept(j)'
  <2>1. /\ Alone(j) => /\ form.fields[j].name # part.name
                       /\ form.fields[j].name \in DOMAIN post_values
        /\ OneFile(j) /\ part.filename # "" => form.fields[j].filename # part.filename
    BY ValueOfAnother
  <2>2. Alone(j) => post_values'[form.fields[j].name] = post_values[form.fields[j].name]
    BY <2>1 DEF Assign
  <2>3. ASSUME OneFile(j), form.fields[j].filename \in DOMAIN disk
        PROVE  /\ form.fields[j].filename \in DOMAIN disk'
               /\ disk'[form.fields[j].filename] = disk[form.fields[j].filename]
    BY <2>1, <2>3
  <2>4. Kept(j)
    BY DEF Content
  <2> QED  BY <1>1, <2>2, <2>3, <2>4, KeptStays
<1>3. ASSUME NEW x \in DOMAIN post_values'
      PROVE  (\E j \in 1..i : form.fields[j].name = x) \/ f.name = x
  <2>1. x \in DOMAIN post_values \/ x = f.name
    BY <1>1 DEF Assign
  <2> QED  BY <2>1 DEF Content
<1> QED  BY <1>1, <1>2, <1>3, ContentNow

LEMMA ContentText ==
    ASSUME TInv, ReadText, NEW i, NEW o, Reading(i, o), Content(i, o)
    PROVE  Content(i, o + 1)'
<1> DEFINE old == IF part.name \in DOMAIN post_values THEN post_values[part.name] ELSE <<>>
           new == Simplified(old \o CString(line.text))
<1>1. /\ Getline /\ line.t = "data" /\ ~part.header
      /\ post_values' = Assign(post_values, part.name, new) /\ disk' = disk
  BY DEF ReadText, files
<1>2. \A m : m = (o + 1) - HeaderLines(form.fields[i + 1]) - 1 => Growing(i + 1, m)'
  BY GrowingText
<1> HIDE DEF new
<1> QED  BY <1>1, <1>2, ContentValue

LEMMA ContentFile ==
    ASSUME TInv, ReadFile, NEW i, NEW o, Reading(i, o), Content(i, o)
    PROVE  Content(i, o + 1)'
<1>1. /\ Getline /\ line.t = "data" /\ ~part.header /\ part.filename # ""
      /\ post_values' = Assign(post_values, part.name, part.filename)
      /\ \E new : disk' = [disk EXCEPT ![part.filename] = new]
  BY DEF ReadFile
<1>2. \A m : m = (o + 1) - HeaderLines(form.fields[i + 1]) - 1 => Growing(i + 1, m)'
  BY GrowingFile
<1> QED  BY <1>1, <1>2, ContentValue

(* The boundary: what was cut off is the line end before it. *)
LEMMA ContentEndOfPart ==
    ASSUME TInv, EndOfPart, NEW i, NEW o, Reading(i, o), Content(i, o)
    PROVE  Content(i + 1, 0)'
<1> DEFINE f == form.fields[i + 1]
           h == HeaderLines(f)
           n == Len(Lines(Sent(f)))
<1>1. /\ Getline /\ line.t = "boundary" /\ post_values' = post_values
      /\ disk' = IF part.open
                 THEN [disk EXCEPT ![part.filename] = SubSeq(@, 1, part.pos - 2)]
                 ELSE disk
  BY DEF EndOfPart, store
<1>2. Place(i, o)
  BY DEF Reading
<1>3. /\ i \in 0..(Len(form.fields) - 1) /\ i + 1 \in 1..Len(form.fields)
      /\ f \in Field /\ o \in 0..(Len(Part(f)) - 1)
      /\ line = Part(f)[o + 1] /\ form' = form
  BY <1>1, <1>2, LineHere, GetlineIs
<1>4. /\ o + 1 = Len(Part(f)) /\ Len(Part(f)) = h + 2 + n
      /\ h \in {1, 2} /\ n \in Nat \ {0}
  BY <1>1, <1>3, LineOfPart, PartIs
<1>5. /\ o > h + 1 /\ o > h /\ o > 0 /\ o - h - 1 = n
      /\ n \in Nat /\ ~(n = 0) /\ n > 0
  <2> DEFINE m == Len(Part(f))
  <2>1. o \in 0..(m - 1) /\ o + 1 = m /\ m = h + 2 + n
    BY <1>3, <1>4
  <2> HIDE DEF h, n, m
  <2> QED  BY <1>4, <2>1
<1>6. i \in Nat
  <2>1. Len(form.fields) \in Nat
    BY GetlineIs, <1>1, FormIs
  <2> QED  BY <1>3, <2>1
<1>7. /\ part.filename = IF f.kind = "file" THEN f.filename ELSE ""
      /\ f.kind = "file" => f.filename # ""
  BY <1>5 DEF Reading, InPart
<1>8. Growing(i + 1, n)
  BY <1>5 DEF Content
<1>9. /\ disk \in [DOMAIN disk -> Text] /\ (part.open <=> part.filename # "")
      /\ DOMAIN form.fields = 1..Len(form.fields) /\ Len(form.fields) \in Nat
  BY <1>1, GetlineIs, LoopIs, FormIs
<1>10. /\ SentUpTo(f, n) = Sent(f) /\ SubSeq(Sent(f), 1, Len(Sent(f)) - 2) = f.content
       /\ LineEnds(Sent(f))[n + 1] = Len(Sent(f))
  BY <1>3, SentUpToIs, SentIs
<1>11. ASSUME NEW j \in 1..i  PROVE Kept(j)'
  <2>1. Kept(j)
    BY DEF Content
  <2>2. ASSUME form.fields[j].kind = "file", OneFile(j), form.fields[j].filename \in DOMAIN disk
        PROVE  /\ form.fields[j].filename \in DOMAIN disk'
               /\ disk'[form.fields[j].filename] = disk[form.fields[j].filename]
    <3>1. part.open => form.fields[j].filename # part.filename
      <4>1. i + 1 # j
        BY <1>6, NotYet
      <4>2. i + 1 \in DOMAIN form.fields
        BY <1>3, <1>9
      <4> QED  BY <1>7, <1>9, <2>2, <4>1, <4>2 DEF OneFile, FileOf
    <3> QED  BY <1>1, <2>2, <3>1
  <2> QED  BY <1>1, <1>3, <2>1, <2>2, KeptStays
<1> HIDE DEF n
<1>12. ASSUME f.kind = "file", OneFile(i + 1)
       PROVE  f.filename \in DOMAIN disk' /\ disk'[f.filename] = f.content
  <2>1. /\ part.pos = Len(Sent(f)) /\ f.filename \in DOMAIN disk
        /\ disk[f.filename] = Sent(f)
    BY <1>8, <1>10, <1>12 DEF Growing
  <2>2. part.open /\ part.filename = f.filename
    BY <1>7, <1>9, <1>12
  <2> QED  BY <1>1, <1>10, <2>1, <2>2
<1>13. ASSUME f.kind = "text", Alone(i + 1), Clean(f)
       PROVE  /\ Visible(post_values'[f.name]) = Visible(f.content)
              /\ OneLine(f) => post_values'[f.name] = Simplified(f.content)
  <2>1. Visible(post_values[f.name]) = Visible(SentUpTo(f, n))
    BY <1>5, <1>8, <1>13 DEF Growing
  <2>2. Visible(SentUpTo(f, n)) = Visible(f.content)
    BY <1>3, <1>10, VisibleSent
  <2>3. ASSUME OneLine(f)  PROVE post_values[f.name] = Simplified(f.content)
    <3>1. Lines(Sent(f)) = <<Sent(f)>>
      BY <1>3, <2>3, SentIs DEF OneLine
    <3>2. n = 1 /\ Lines(Sent(f))[1] = Sent(f)
      BY <3>1, OneElement DEF n
    <3>3. post_values[f.name] = Simplified(Sent(f))
      BY <1>8, <1>13, <3>2 DEF Growing
    <3>4. Simplified(Sent(f)) = Simplified(f.content)
      BY <1>3, SentIs, SimplifiedSent DEF Sent
    <3> QED  BY <3>3, <3>4
  <2> QED  BY <1>1, <2>1, <2>2, <2>3
<1>14. Kept(i + 1)'
  <2>1. /\ f' = f /\ (OneFile(i + 1)' <=> OneFile(i + 1)) /\ (Alone(i + 1)' <=> Alone(i + 1))
    BY <1>3 DEF OneFile, Alone, FileOf
  <2>2. (f.kind = "file" /\ OneFile(i + 1) =>
           f.filename \in DOMAIN disk /\ disk[f.filename] = f.content)'
    BY <1>12, <2>1
  <2>3. (f.kind = "text" /\ Alone(i + 1) /\ Clean(f) =>
            /\ Visible(post_values[f.name]) = Visible(f.content)
            /\ OneLine(f) => post_values[f.name] = Simplified(f.content))'
    BY <1>13, <2>1
  <2> QED  BY <2>2, <2>3 DEF Kept
<1>15. \A j \in 1..(i + 1) : j \in 1..i \/ j = i + 1
  BY <1>6
<1>16. \A j \in 1..i : j \in 1..(i + 1) /\ i + 1 \in 1..(i + 1)
  BY <1>6
<1>17. i + 1 \in 1..(i + 1)
  BY <1>6
<1>18. \A x \in DOMAIN post_values' : \E j \in 1..(i + 1) : form.fields[j].name = x
  <2> TAKE x \in DOMAIN post_values'
  <2>1. (\E j \in 1..i : form.fields[j].name = x) \/ f.name = x
    BY <1>1 DEF Content
  <2> QED  BY <1>16, <1>17, <2>1
<1>19. ~(0 > HeaderLines(form.fields[(i + 1) + 1]))
  <2>1. HeaderLines(form.fields[(i + 1) + 1]) \in {1, 2}
    BY HeaderLinesAre
  <2> QED  BY <2>1
<1>20. \A j \in 1..(i + 1) : Kept(j)'
  BY <1>11, <1>14, <1>15
<1> QED  BY <1>3, <1>18, <1>19, <1>20, ContentNow

-----------------------------------------------------------------------------
(* What UrlDecode() makes of what the browser encodes.                       *)

(* The steps of UrlDecode(). *)
Start == [istate |-> 0, code |-> 0, ret |-> <<>>]

Decodes(g, text, n) ==
    g = [i \in 0..n |-> IF i = 0 THEN Start ELSE Decode[g[i - 1]][text[i]]]

LEMMA DecodesExists == \A text : \A n \in Nat : \E g : Decodes(g, text, n)
<1> TAKE text
<1> DEFINE T == {n \in Nat : \E g : Decodes(g, text, n)}
<1>1. 0 \in T
  <2> DEFINE g == [i \in 0..0 |-> Start]
  <2>1. g = [i \in 0..0 |-> IF i = 0 THEN Start ELSE Decode[g[i - 1]][text[i]]]
    OBVIOUS
  <2> HIDE DEF g
  <2> QED  BY <2>1 DEF Decodes
<1>2. ASSUME NEW n \in Nat, n \in T  PROVE n + 1 \in T
  <2>1. PICK g : Decodes(g, text, n)
    BY <1>2
  <2> DEFINE last == Decode[g[n]][text[n + 1]]
             f == [i \in 0..(n + 1) |-> IF i = n + 1 THEN last ELSE g[i]]
  <2>2. ASSUME NEW i \in 0..(n + 1)
        PROVE  f[i] = IF i = 0 THEN Start ELSE Decode[f[i - 1]][text[i]]
    <3>1. CASE i = n + 1
      <4>1. i # 0 /\ i - 1 = n /\ n \in 0..(n + 1) /\ n # n + 1
        BY <3>1
      <4>2. f[i] = last /\ f[i - 1] = g[n]
        BY <3>1, <4>1
      <4> HIDE DEF f
      <4> QED  BY <3>1, <4>1, <4>2
    <3>2. CASE i # n + 1
      <4>1. i \in 0..n /\ (i # 0 => i - 1 \in 0..n /\ i - 1 \in 0..(n + 1) /\ i - 1 # n + 1)
        BY <3>2
      <4>2. g[i] = IF i = 0 THEN Start ELSE Decode[g[i - 1]][text[i]]
        BY <2>1, <4>1 DEF Decodes
      <4>3. f[i] = g[i] /\ (i # 0 => f[i - 1] = g[i - 1])
        BY <3>2, <4>1
      <4> HIDE DEF f
      <4> QED  BY <4>2, <4>3
    <3> QED  BY <3>1, <3>2
  <2>3. f = [i \in 0..(n + 1) |-> f[i]]
    OBVIOUS
  <2> HIDE DEF f
  <2>4. Decodes(f, text, n + 1)
    BY <2>2, <2>3 DEF Decodes
  <2> QED  BY <2>4
<1> HIDE DEF T
<1>3. Nat \subseteq T
  BY <1>1, <1>2, NatSetInduction
<1> QED  BY <1>3 DEF T

LEMMA UrlDecodeDecodes ==
    ASSUME NEW text, Len(text) \in Nat
    PROVE  \E g : Decodes(g, text, Len(text)) /\ UrlDecode(text) = g[Len(text)].ret
<1> DEFINE n == Len(text)
           f == CHOOSE g : g = [i \in 0..Len(text) |->
                   IF i = 0 THEN [istate |-> 0, code |-> 0, ret |-> <<>>]
                   ELSE Decode[g[i - 1]][text[i]]]
<1>1. UrlDecode(text) = f[n].ret
  BY DEF UrlDecode
<1>2. \E g : g = [i \in 0..Len(text) |->
                   IF i = 0 THEN [istate |-> 0, code |-> 0, ret |-> <<>>]
                   ELSE Decode[g[i - 1]][text[i]]]
  <2>1. PICK g : Decodes(g, text, Len(text))
    BY DecodesExists
  <2> HIDE DEF f
  <2> QED  BY <2>1 DEF Decodes, Start
<1>3. f = [i \in 0..Len(text) |->
                   IF i = 0 THEN [istate |-> 0, code |-> 0, ret |-> <<>>]
                   ELSE Decode[f[i - 1]][text[i]]]
  BY <1>2
<1> HIDE DEF f
<1> QED  BY <1>1, <1>3 DEF Decodes, Start, n

LEMMA DecodesAgree ==
    ASSUME NEW s, NEW t, NEW n \in Nat, NEW m \in Nat, NEW f, NEW g,
           n <= m, \A i \in 1..n : s[i] = t[i], Decodes(f, s, n), Decodes(g, t, m)
    PROVE  \A k \in 0..n : f[k] = g[k]
<1> DEFINE T == {k \in Nat : k \in 0..n => f[k] = g[k]}
<1>0. \A k \in 0..n : k \in 0..m
  OBVIOUS
<1>1. 0 \in T
  <2>1. f[0] = Start /\ g[0] = Start
    BY <1>0 DEF Decodes
  <2> QED  BY <2>1
<1>2. ASSUME NEW k \in Nat, k \in T  PROVE k + 1 \in T
  <2> SUFFICES ASSUME k + 1 \in 0..n  PROVE f[k + 1] = g[k + 1]
    OBVIOUS
  <2>1. k + 1 \in 0..m /\ k \in 0..n /\ (k + 1) - 1 = k /\ k + 1 # 0 /\ k + 1 \in 1..n
    BY <1>0
  <2>2. f[k + 1] = Decode[f[k]][s[k + 1]]
    BY <2>1 DEF Decodes
  <2>3. g[k + 1] = Decode[g[k]][t[k + 1]]
    BY <2>1 DEF Decodes
  <2>4. f[k] = g[k] /\ s[k + 1] = t[k + 1]
    BY <1>2, <2>1
  <2> QED  BY <2>2, <2>3, <2>4
<1> HIDE DEF T
<1>3. Nat \subseteq T
  BY <1>1, <1>2, NatSetInduction
<1> QED  BY <1>3 DEF T

(* After the characters of a text, the variables are s.                    *)
Reaches(text, s) == \E g : Decodes(g, text, Len(text)) /\ g[Len(text)] = s

LEMMA ReachesNone == Reaches(<<>>, Start)
<1>1. Len(<<>>) = 0
  OBVIOUS
<1>2. PICK g : Decodes(g, <<>>, 0)
  BY DecodesExists
<1>3. g[0] = Start
  BY <1>2 DEF Decodes
<1> QED  BY <1>1, <1>2, <1>3 DEF Reaches

LEMMA ReachesAppend ==
    ASSUME NEW A, NEW text \in Seq(A), NEW c \in A, NEW s, Reaches(text, s)
    PROVE  Reaches(Append(text, c), Decode[s][c])
<1> DEFINE n == Len(text)
           t == Append(text, c)
<1>1. n \in Nat /\ t \in Seq(A) /\ Len(t) = n + 1 /\ t[n + 1] = c /\ \A k \in 1..n : t[k] = text[k]
  BY AppendProperties, LenProperties
<1> HIDE DEF t
<1>2. PICK g : Decodes(g, text, n) /\ g[n] = s
  BY DEF Reaches
<1> HIDE DEF n
<1>0. n + 1 \in Nat
  BY <1>1
<1>3. PICK f : Decodes(f, t, n + 1)
  BY <1>0, DecodesExists
<1>4. n + 1 \in Nat /\ n <= n + 1 /\ n \in 0..n /\ n + 1 \in 0..(n + 1) /\ (n + 1) - 1 = n /\ n + 1 # 0
  BY <1>1
<1>5. g[n] = f[n]
  <2>1. \A k \in 1..n : text[k] = t[k]
    BY <1>1
  <2>2. \A k \in 0..n : g[k] = f[k]
    BY <1>1, <1>2, <1>3, <1>4, <2>1, DecodesAgree
  <2> QED  BY <1>4, <2>2
<1>6. f[n + 1] = Decode[f[n]][c]
  BY <1>1, <1>3, <1>4 DEF Decodes
<1> QED  BY <1>1, <1>2, <1>3, <1>5, <1>6 DEF Reaches, t

LEMMA DecodesOnce ==
    ASSUME NEW text, NEW n \in Nat, NEW f, NEW g, Decodes(f, text, n), Decodes(g, text, n)
    PROVE  f[n] = g[n]
<1> DEFINE m == n
<1>1. \A i \in 1..n : text[i] = text[i]
  OBVIOUS
<1>2. m \in Nat /\ n <= m /\ n \in 0..n /\ n = m /\ Decodes(g, text, m)
  OBVIOUS
<1> HIDE DEF m
<1>3. \A k \in 0..n : f[k] = g[k]
  BY <1>1, <1>2, DecodesAgree
<1> QED  BY <1>2, <1>3

LEMMA ReachesIs ==
    ASSUME NEW text, Len(text) \in Nat, NEW s, Reaches(text, s)
    PROVE  UrlDecode(text) = s.ret
<1>1. PICK g : Decodes(g, text, Len(text)) /\ UrlDecode(text) = g[Len(text)].ret
  BY UrlDecodeDecodes
<1>2. PICK f : Decodes(f, text, Len(text)) /\ f[Len(text)] = s
  BY DEF Reaches
<1>3. f[Len(text)] = g[Len(text)]
  BY <1>1, <1>2, DecodesOnce
<1> QED  BY <1>1, <1>2, <1>3

LEMMA DecodeIs ==
    ASSUME NEW s \in Decoder, NEW c \in 0..127
    PROVE  Decode[s][c] =
             CASE s.istate = 0 /\ c = 43 -> [s EXCEPT !.ret = Append(@, Space)]
               [] s.istate = 0 /\ c = 37 -> [s EXCEPT !.istate = 1]
               [] s.istate = 0 /\ c \notin {43, 37} -> [s EXCEPT !.ret = Append(@, c)]
               [] s.istate = 1 -> [s EXCEPT !.istate = 2, !.code = c]
               [] s.istate = 2 -> [s EXCEPT !.istate = 0, !.ret = Append(@, ToInt(s.code, c))]
<1> DEFINE D(t, d) ==
             CASE t.istate = 0 /\ d = 43 -> [t EXCEPT !.ret = Append(@, Space)]
               [] t.istate = 0 /\ d = 37 -> [t EXCEPT !.istate = 1]
               [] t.istate = 0 /\ d \notin {43, 37} -> [t EXCEPT !.ret = Append(@, d)]
               [] t.istate = 1 -> [t EXCEPT !.istate = 2, !.code = d]
               [] t.istate = 2 -> [t EXCEPT !.istate = 0, !.ret = Append(@, ToInt(t.code, d))]
<1>1. Decode = [t \in Decoder |-> [d \in 0..127 |-> D(t, d)]]
  BY Zenon DEF Decode
<1> HIDE DEF D
<1>2. Decode[s][c] = D(s, c)
  BY <1>1
<1> QED  BY <1>2 DEF D

(* A state of the decoder: what it has found, and where it is.             *)
At(s, istate, ret) == s \in Decoder /\ s.istate = istate /\ s.ret = ret

LEMMA NewRet ==
    ASSUME NEW s \in Decoder, NEW r \in Seq(0..255)
    PROVE  LET t == [s EXCEPT !.ret = r] IN
           t \in Decoder /\ t.istate = s.istate /\ t.ret = r
<1> DEFINE R == Seq(0..255)
<1>1. s \in [istate : 0..2, code : 0..127, ret : R] /\ r \in R
  BY DEF Decoder
<1>2. Decoder = [istate : 0..2, code : 0..127, ret : R]
  BY DEF Decoder
<1> HIDE DEF R
<1> QED  BY <1>1, <1>2

LEMMA NewState ==
    ASSUME NEW s \in Decoder, NEW i \in 0..2
    PROVE  LET t == [s EXCEPT !.istate = i] IN
           t \in Decoder /\ t.istate = i /\ t.ret = s.ret
<1> DEFINE R == Seq(0..255)
<1>1. s \in [istate : 0..2, code : 0..127, ret : R]
  BY DEF Decoder
<1>2. Decoder = [istate : 0..2, code : 0..127, ret : R]
  BY DEF Decoder
<1> HIDE DEF R
<1> QED  BY <1>1, <1>2

LEMMA FoundIs ==
    ASSUME NEW ret \in Text, NEW c \in 0..127
    PROVE  Append(ret, c) \in Seq(0..255)
<1>1. ret \in Seq(0..127) /\ 0..127 \subseteq 0..255 /\ c \in 0..255
  BY DEF Text
<1>2. ret \in Seq(0..255)
  BY <1>1, SeqMonotonic
<1> QED  BY <1>1, <1>2, AppendProperties

LEMMA DecodePlain ==
    ASSUME NEW s, NEW ret \in Text, At(s, 0, ret), NEW c \in 0..127
    PROVE  /\ c = 43 => At(Decode[s][c], 0, Append(ret, Space))
           /\ c = 37 => At(Decode[s][c], 1, ret)
           /\ c \notin {37, 43} => At(Decode[s][c], 0, Append(ret, c))
<1>1. s \in Decoder /\ s.istate = 0 /\ s.ret = ret
  BY DEF At
<1> DEFINE r1 == Append(ret, Space)
           r2 == Append(ret, c)
           e1 == [s EXCEPT !.ret = r1]
           e2 == [s EXCEPT !.ret = r2]
           e3 == [s EXCEPT !.istate = 1]
<1>2. Decode[s][c] = CASE s.istate = 0 /\ c = 43 -> e1
                       [] s.istate = 0 /\ c = 37 -> e3
                       [] s.istate = 0 /\ c \notin {43, 37} -> e2
                       [] s.istate = 1 -> [s EXCEPT !.istate = 2, !.code = c]
                       [] s.istate = 2 -> [s EXCEPT !.istate = 0,
                                                    !.ret = Append(@, ToInt(s.code, c))]
  <2>1. s \in Decoder /\ c \in 0..127 /\ s.ret = ret
    BY <1>1
  <2> QED  BY <2>1, DecodeIs, Zenon
<1>3. r1 \in Seq(0..255) /\ r2 \in Seq(0..255) /\ 1 \in 0..2
  BY FoundIs DEF Space
<1> HIDE DEF r1, r2
<1>4. /\ e1 \in Decoder /\ e1.istate = s.istate /\ e1.ret = r1
      /\ e2 \in Decoder /\ e2.istate = s.istate /\ e2.ret = r2
      /\ e3 \in Decoder /\ e3.istate = 1 /\ e3.ret = s.ret
  <2>1. e1 \in Decoder /\ e1.istate = s.istate /\ e1.ret = r1
    BY <1>1, <1>3, NewRet
  <2>2. e2 \in Decoder /\ e2.istate = s.istate /\ e2.ret = r2
    BY <1>1, <1>3, NewRet
  <2>3. e3 \in Decoder /\ e3.istate = 1 /\ e3.ret = s.ret
    BY <1>1, <1>3, NewState
  <2> QED  BY <2>1, <2>2, <2>3
<1> HIDE DEF e1, e2, e3
<1>5. /\ c = 43 => Decode[s][c] = e1
      /\ c = 37 => Decode[s][c] = e3
      /\ c \notin {37, 43} => Decode[s][c] = e2
  BY <1>1, <1>2
<1> QED  BY <1>1, <1>4, <1>5 DEF At, r1, r2

LEMMA DecodeEscape ==
    ASSUME NEW s, NEW ret \in Text, At(s, 1, ret), NEW a \in 0..127, NEW b \in 0..127,
           ToInt(a, b) \in 0..127
    PROVE  At(Decode[Decode[s][a]][b], 0, Append(ret, ToInt(a, b)))
<1>1. s \in Decoder /\ s.istate = 1 /\ s.ret = ret
  BY DEF At
<1> DEFINE t == Decode[s][a]
           v == Append(ret, ToInt(a, b))
           e == [s EXCEPT !.istate = 2, !.code = a]
           u == [t EXCEPT !.istate = 0, !.ret = Append(@, ToInt(t.code, b))]
<1>2. t = e
  <2>1. t = CASE s.istate = 0 /\ a = 43 -> [s EXCEPT !.ret = Append(@, Space)]
             [] s.istate = 0 /\ a = 37 -> [s EXCEPT !.istate = 1]
             [] s.istate = 0 /\ a \notin {43, 37} -> [s EXCEPT !.ret = Append(@, a)]
             [] s.istate = 1 -> e
             [] s.istate = 2 -> [s EXCEPT !.istate = 0, !.ret = Append(@, ToInt(s.code, a))]
    BY <1>1, DecodeIs, Zenon
  <2> HIDE DEF e
  <2> QED  BY <1>1, <2>1
<1>3. e \in Decoder /\ e.istate = 2 /\ e.ret = s.ret /\ e.code = a
  <2> DEFINE I == 0..2
             C == 0..127
             R == Seq(0..255)
  <2>1. s \in [istate : I, code : C, ret : R] /\ 2 \in I /\ a \in C
    BY <1>1 DEF Decoder
  <2>2. Decoder = [istate : I, code : C, ret : R]
    BY DEF Decoder
  <2> HIDE DEF t, u, v, I, C, R
  <2>3. e \in [istate : I, code : C, ret : R]
    BY <2>1
  <2>4. e.istate = 2 /\ e.ret = s.ret /\ e.code = a
    BY <2>1
  <2> QED  BY <2>2, <2>3, <2>4
<1> HIDE DEF t, e
<1>4. t \in Decoder /\ t.istate = 2 /\ t.ret = ret /\ t.code = a
  BY <1>1, <1>2, <1>3
<1>5. Decode[t][b] = u
  <2>1. Decode[t][b] =
           CASE t.istate = 0 /\ b = 43 -> [t EXCEPT !.ret = Append(@, Space)]
             [] t.istate = 0 /\ b = 37 -> [t EXCEPT !.istate = 1]
             [] t.istate = 0 /\ b \notin {43, 37} -> [t EXCEPT !.ret = Append(@, b)]
             [] t.istate = 1 -> [t EXCEPT !.istate = 2, !.code = b]
             [] t.istate = 2 -> u
    BY <1>4, DecodeIs, Zenon
  <2> HIDE DEF u
  <2> QED  BY <1>4, <2>1
<1>6. u = [t EXCEPT !.istate = 0, !.ret = v]
  BY <1>4, Zenon
<1>7. v \in Seq(0..255) /\ 0 \in 0..2
  BY FoundIs
<1> HIDE DEF u, v
<1>8. u \in Decoder /\ u.istate = 0 /\ u.ret = v
  <2> DEFINE I == 0..2
             C == 0..127
             R == Seq(0..255)
             w == [t EXCEPT !.istate = 0, !.ret = v]
  <2>1. t \in [istate : I, code : C, ret : R] /\ 0 \in I /\ v \in R
    BY <1>4, <1>7 DEF Decoder
  <2>2. Decoder = [istate : I, code : C, ret : R]
    BY DEF Decoder
  <2> HIDE DEF I, C, R
  <2>3. w \in [istate : I, code : C, ret : R]
    BY <2>1
  <2>4. w.istate = 0 /\ w.ret = v
    BY <2>1
  <2> HIDE DEF w
  <2> QED  BY <1>6, <2>2, <2>3, <2>4 DEF w
<1> QED  BY <1>5, <1>8 DEF At, t, v

LEMMA HexIs == \A n \in 0..15 : HexDigit[n] \in 0..127 /\ IsHex(HexDigit[n]) /\ Hex(HexDigit[n]) = n
  BY DEF HexDigit, IsHex, Hex, Digits

LEMMA EscapeIs ==
    ASSUME NEW c \in 0..127
    PROVE  /\ HexDigit[c \div 16] \in 0..127 /\ HexDigit[c % 16] \in 0..127
           /\ ToInt(HexDigit[c \div 16], HexDigit[c % 16]) = c
<1>1. c \div 16 \in 0..15 /\ c % 16 \in 0..15 /\ 16 * (c \div 16) + (c % 16) = c
  OBVIOUS
<1> DEFINE m == c \div 16
           n == c % 16
<1> HIDE DEF m, n
<1>2. m \in 0..15 /\ n \in 0..15 /\ 16 * m + n = c
  BY <1>1 DEF m, n
<1>3. ToInt(HexDigit[m], HexDigit[n]) = 16 * m + n
  BY <1>2, HexIs DEF ToInt
<1> QED  BY <1>2, <1>3, HexIs DEF m, n

LEMMA ThreeElements ==
    ASSUME NEW A, NEW s \in Seq(A), NEW a \in A, NEW b \in A, NEW c \in A
    PROVE  s \o <<a, b, c>> = Append(Append(Append(s, a), b), c)
<1> DEFINE l == s \o <<a, b, c>>
           t == Append(s, a)
           u == Append(t, b)
           r == Append(u, c)
           n == Len(s)
<1>1. <<a, b, c>> \in Seq(A) /\ Len(<<a, b, c>>) = 3 /\ n \in Nat
      /\ <<a, b, c>>[1] = a /\ <<a, b, c>>[2] = b /\ <<a, b, c>>[3] = c
  OBVIOUS
<1>2. t \in Seq(A) /\ Len(t) = n + 1 /\ t[n + 1] = a /\ \A i \in 1..n : t[i] = s[i]
  BY AppendProperties
<1>3. /\ l \in Seq(A) /\ Len(l) = n + 3
      /\ \A i \in 1..(n + 3) : l[i] = IF i <= n THEN s[i] ELSE <<a, b, c>>[i - n]
  <2> DEFINE v == <<a, b, c>>
  <2>1. v \in Seq(A) /\ Len(v) = 3
    BY <1>1
  <2> HIDE DEF v
  <2>2. /\ s \o v \in Seq(A) /\ Len(s \o v) = Len(s) + Len(v)
        /\ \A i \in 1..(Len(s) + Len(v)) :
              (s \o v)[i] = IF i <= Len(s) THEN s[i] ELSE v[i - Len(s)]
    BY <2>1, ConcatProperties
  <2> QED  BY <2>1, <2>2 DEF v
<1> HIDE DEF t
<1>4. u \in Seq(A) /\ Len(u) = Len(t) + 1 /\ u[Len(t) + 1] = b /\ \A i \in 1..Len(t) : u[i] = t[i]
  BY <1>2, AppendProperties
<1> HIDE DEF u
<1>5. r \in Seq(A) /\ Len(r) = Len(u) + 1 /\ r[Len(u) + 1] = c /\ \A i \in 1..Len(u) : r[i] = u[i]
  BY <1>4, AppendProperties
<1> HIDE DEF r, l, n
<1>6. Len(t) = n + 1 /\ Len(u) = n + 2 /\ Len(r) = n + 3 /\ Len(l) = n + 3
  BY <1>1, <1>2, <1>3, <1>4, <1>5
<1>7. \A i \in 1..(n + 3) : l[i] = r[i]
  <2> TAKE i \in 1..(n + 3)
  <2>1. i \in 1..n \/ i = n + 1 \/ i = n + 2 \/ i = n + 3
    BY <1>1
  <2>2. /\ (n + 1) - n = 1 /\ (n + 2) - n = 2 /\ (n + 3) - n = 3
        /\ ~(n + 1 <= n) /\ ~(n + 2 <= n) /\ ~(n + 3 <= n)
        /\ n + 1 \in 1..(n + 3) /\ n + 2 \in 1..(n + 3) /\ n + 3 \in 1..(n + 3)
        /\ n + 1 \in 1..(n + 2) /\ n + 2 \in 1..(n + 2) /\ n + 1 \in 1..(n + 1)
        /\ (n + 1) + 1 = n + 2 /\ (n + 2) + 1 = n + 3
    BY <1>1
  <2>3. CASE i \in 1..n
    <3>1. i <= n /\ i \in 1..(n + 1) /\ i \in 1..(n + 2) /\ i \in 1..(n + 3)
      BY <1>1, <2>3
    <3>2. l[i] = s[i] /\ t[i] = s[i] /\ u[i] = t[i] /\ r[i] = u[i]
      BY <1>2, <1>3, <1>4, <1>5, <1>6, <2>3, <3>1
    <3> QED  BY <3>2
  <2>4. CASE i = n + 1
    <3>1. l[n + 1] = a
      BY <1>1, <1>3, <2>2
    <3>2. t[n + 1] = a /\ u[n + 1] = t[n + 1] /\ r[n + 1] = u[n + 1]
      BY <1>2, <1>4, <1>5, <1>6, <2>2
    <3> QED  BY <2>4, <3>1, <3>2
  <2>5. CASE i = n + 2
    <3>1. l[n + 2] = b
      BY <1>1, <1>3, <2>2
    <3>2. u[n + 2] = b /\ r[n + 2] = u[n + 2]
      BY <1>4, <1>5, <1>6, <2>2
    <3> QED  BY <2>5, <3>1, <3>2
  <2>6. CASE i = n + 3
    <3>1. l[n + 3] = c
      BY <1>1, <1>3, <2>2
    <3>2. r[n + 3] = c
      BY <1>5, <1>6, <2>2
    <3> QED  BY <2>6, <3>1, <3>2
  <2> QED  BY <2>1, <2>3, <2>4, <2>5, <2>6
<1>8. l = r
  BY <1>3, <1>5, <1>6, <1>7, SeqEqual
<1> QED  BY <1>8 DEF l, r, u, t

(* UrlDecode() undoes what the browser makes of a character.               *)
LEMMA ReachesCode ==
    ASSUME NEW text \in Text, NEW ret \in Text, NEW s, At(s, 0, ret), Reaches(text, s),
           NEW c \in 0..127
    PROVE  \E t : At(t, 0, Append(ret, c)) /\ Reaches(text \o Code(c), t)
<1>0. text \in Seq(0..127) /\ Space \in 0..127
  BY DEF Text, Space
<1>1. CASE c = Space
  <2>1. Code(c) = <<43>> /\ 43 \in 0..127
    <3>1. c \notin Digits \cup Letters
      BY <1>1 DEF Space, Digits, Letters
    <3> QED  BY <1>1, <3>1 DEF Code
  <2>2. text \o Code(c) = Append(text, 43)
    BY <1>0, <2>1, AppendIsConcat
  <2>3. Reaches(Append(text, 43), Decode[s][43])
    BY <1>0, <2>1, ReachesAppend
  <2>4. At(Decode[s][43], 0, Append(ret, Space))
    BY <2>1, DecodePlain
  <2> QED  BY <1>1, <2>2, <2>3, <2>4
<1>2. CASE c # Space /\ c \in Digits \cup Letters
  <2>1. Code(c) = <<c>> /\ c \notin {37, 43}
    BY <1>2 DEF Code, Digits, Letters
  <2>2. text \o Code(c) = Append(text, c)
    <3>1. Append(text, c) = text \o <<c>>
      BY <1>0, AppendIsConcat
    <3> QED  BY <2>1, <3>1
  <2>3. Reaches(Append(text, c), Decode[s][c])
    BY <1>0, <2>1, ReachesAppend
  <2>4. At(Decode[s][c], 0, Append(ret, c))
    BY <2>1, DecodePlain
  <2> QED  BY <2>2, <2>3, <2>4
<1>3. CASE c # Space /\ c \notin Digits \cup Letters
  <2> DEFINE a == HexDigit[c \div 16]
             b == HexDigit[c % 16]
  <2>1. Code(c) = <<37, a, b>>
    BY <1>3 DEF Code
  <2>2. a \in 0..127 /\ b \in 0..127 /\ ToInt(a, b) = c
    BY EscapeIs
  <2> HIDE DEF a, b
  <2> DEFINE t1 == Append(text, 37)
             t2 == Append(t1, a)
             t3 == Append(t2, b)
             s1 == Decode[s][37]
             s2 == Decode[s1][a]
             s3 == Decode[s2][b]
  <2>3. 37 \in 0..127
    OBVIOUS
  <2>4. text \o Code(c) = t3
    BY <1>0, <2>1, <2>2, <2>3, ThreeElements
  <2>5. t1 \in Seq(0..127) /\ Reaches(t1, s1) /\ At(s1, 1, ret)
    <3>1. t1 \in Seq(0..127)
      BY <1>0, <2>3, AppendProperties
    <3>2. Reaches(t1, s1)
      BY <1>0, <2>3, ReachesAppend
    <3>3. At(s1, 1, ret)
      BY <2>3, DecodePlain
    <3> QED  BY <3>1, <3>2, <3>3
  <2> HIDE DEF t1, s1
  <2>6. t2 \in Seq(0..127) /\ Reaches(t2, s2)
    BY <2>2, <2>5, AppendProperties, ReachesAppend
  <2>7. At(s3, 0, Append(ret, c))
    BY <2>2, <2>5, DecodeEscape
  <2> HIDE DEF t2, s2
  <2>8. Reaches(t3, s3)
    BY <2>2, <2>6, ReachesAppend
  <2> QED  BY <2>4, <2>7, <2>8
<1> QED  BY <1>1, <1>2, <1>3

LEMMA EncodeNext ==
    ASSUME NEW text \in Text, NEW c \in 0..127
    PROVE  /\ UrlEncode(<<>>) = <<>>
           /\ UrlEncode(text) \in Text /\ Code(c) \in Text
           /\ UrlEncode(Append(text, c)) = UrlEncode(text) \o Code(c)
<1> DEFINE n == Len(text)
           t == Append(text, c)
           S == [i \in 1..n |-> Code(text[i])]
           U == [i \in 1..(n + 1) |-> Code(t[i])]
<1>1. text \in Seq(0..127) /\ n \in Nat /\ DOMAIN text = 1..n /\ \A i \in 1..n : text[i] \in 0..127
  BY LenProperties, ElementOfSeq DEF Text
<1>2. t \in Seq(0..127) /\ Len(t) = n + 1 /\ t[n + 1] = c /\ \A k \in 1..n : t[k] = text[k]
  BY <1>1, AppendProperties
<1> HIDE DEF t, n
<1>3. n + 1 \in Nat /\ DOMAIN t = 1..(n + 1) /\ \A i \in 1..(n + 1) : t[i] \in 0..127
  <2>1. n + 1 \in Nat
    BY <1>1
  <2>2. DOMAIN t = 1..Len(t) /\ \A i \in 1..Len(t) : t[i] \in 0..127
    BY <1>2, LenProperties, ElementOfSeq
  <2> QED  BY <1>2, <2>1, <2>2
<1>4. S \in Seq(Text) /\ Len(S) = n
  <2>1. S \in [1..n -> Text]
    BY <1>1, CodeIs
  <2> HIDE DEF S
  <2> QED  BY <1>1, <2>1, FunctionIsSeq
<1>5. U \in Seq(Text) /\ Len(U) = n + 1 /\ \A i \in 1..(n + 1) : U[i] \in Text
  <2>1. U \in [1..(n + 1) -> Text]
    BY <1>3, CodeIs
  <2> HIDE DEF U
  <2> QED  BY <1>3, <2>1, FunctionIsSeq
<1>6. UrlEncode(text) = FlattenSeq(S) /\ UrlEncode(t) = FlattenSeq(U)
  BY <1>1, <1>3 DEF UrlEncode
<1>7. \A i \in 1..n : S[i] = U[i]
  BY <1>1, <1>2
<1>8. U[n + 1] = Code(c)
  BY <1>1, <1>2
<1> HIDE DEF S, U
<1>9. FlattenSeq(S) = Together(S, n) /\ FlattenSeq(U) = Together(U, n + 1)
  BY <1>4, <1>5, FlattenIsTogether DEF Text
<1>10. Together(S, n) = Together(U, n)
  <2>1. [i \in 1..n |-> S[i]] = [i \in 1..n |-> U[i]]
    BY <1>7
  <2> QED  BY <2>1 DEF Together
<1>11. Together(U, n + 1) = Together(U, n) \o U[n + 1]
  BY <1>1, <1>5, TogetherNext DEF Text
<1>12. UrlEncode(<<>>) = <<>>
  <2>1. [i \in DOMAIN <<>> |-> Code(<<>>[i])] = [i \in 1..0 |-> Code(<<>>[i])]
    OBVIOUS
  <2> DEFINE E == [i \in 1..0 |-> Code(<<>>[i])]
  <2>2. E \in [1..0 -> Text]
    OBVIOUS
  <2>3. UrlEncode(<<>>) = FlattenSeq(E)
    BY <2>1 DEF UrlEncode
  <2> HIDE DEF E
  <2>4. E \in Seq(Text) /\ Len(E) = 0
    BY <2>2, FunctionIsSeq
  <2>5. FlattenSeq(E) = Together(E, 0)
    BY <2>4, FlattenIsTogether DEF Text
  <2> QED  BY <2>3, <2>5, TogetherNone
<1> QED  BY <1>6, <1>8, <1>9, <1>10, <1>11, <1>12, UrlEncodeIs, CodeIs DEF t

LEMMA DecodeEncode == \A text \in Text : UrlDecode(UrlEncode(text)) = text
<1> DEFINE T == {x \in Text : \E s : At(s, 0, x) /\ Reaches(UrlEncode(x), s)}
<1>1. <<>> \in T
  <2>1. At(Start, 0, <<>>)
    <3>1. <<>> \in Seq(0..255)
      OBVIOUS
    <3>2. Start \in Decoder
      BY <3>1 DEF Start, Decoder
    <3> QED  BY <3>2 DEF At, Start
  <2>2. <<>> \in Text
    BY DEF Text
  <2>3. 0 \in 0..127
    OBVIOUS
  <2>4. UrlEncode(<<>>) = <<>>
    BY <2>2, <2>3, EncodeNext
  <2> QED  BY <2>1, <2>2, <2>4, ReachesNone
<1>2. ASSUME NEW x \in Seq(0..127), x \in T, NEW c \in 0..127
      PROVE  Append(x, c) \in T
  <2>1. PICK s : At(s, 0, x) /\ Reaches(UrlEncode(x), s)
    BY <1>2
  <2>2. x \in Text /\ Append(x, c) \in Text
    BY <1>2, AppendProperties DEF Text
  <2>3. UrlEncode(x) \in Text /\ UrlEncode(Append(x, c)) = UrlEncode(x) \o Code(c)
    BY <2>2, EncodeNext
  <2>4. \E t : At(t, 0, Append(x, c)) /\ Reaches(UrlEncode(x) \o Code(c), t)
    BY <2>1, <2>2, <2>3, ReachesCode
  <2> QED  BY <2>2, <2>3, <2>4
<1> HIDE DEF T
<1>3. \A x \in Seq(0..127) : x \in T
  <2>1. \A x \in Seq(0..127) : x \in T => \A c \in 0..127 : Append(x, c) \in T
    BY <1>2
  <2> QED  BY <1>1, <2>1, SeqInduction
<1> TAKE text \in Text
<1>4. PICK s : At(s, 0, text) /\ Reaches(UrlEncode(text), s)
  BY <1>3 DEF T, Text
<1>5. UrlEncode(text) \in Seq(0..127)
  BY UrlEncodeIs DEF Text
<1>6. Len(UrlEncode(text)) \in Nat
  BY <1>5, LenProperties
<1>7. UrlDecode(UrlEncode(text)) = s.ret
  BY <1>4, <1>6, ReachesIs
<1> QED  BY <1>4, <1>7 DEF At

(* What keeps fields apart is not in what is encoded.                      *)
Lacks(text, c) == \A i \in 1..Len(text) : text[i] # c
Free(text)     == Lacks(text, 38) /\ Lacks(text, 61)

LEMMA CodeFree == \A c \in 0..127 : Free(Code(c))
<1> TAKE c \in 0..127
<1>1. CASE c = Space
  <2>1. c \notin Digits \cup Letters
    BY <1>1 DEF Space, Digits, Letters
  <2>2. Code(c) = <<43>>
    BY <1>1, <2>1 DEF Code
  <2> QED  BY <2>2 DEF Free, Lacks
<1>2. CASE c # Space /\ c \in Digits \cup Letters
  <2>1. Code(c) = <<c>> /\ c # 38 /\ c # 61
    BY <1>2 DEF Code, Digits, Letters
  <2> QED  BY <2>1 DEF Free, Lacks
<1>3. CASE c # Space /\ c \notin Digits \cup Letters
  <2> DEFINE a == HexDigit[c \div 16]
             b == HexDigit[c % 16]
  <2>1. Code(c) = <<37, a, b>>
    BY <1>3 DEF Code
  <2>2. c \div 16 \in 0..15 /\ c % 16 \in 0..15
    OBVIOUS
  <2>3. a \in 48..57 \cup 65..70 /\ b \in 48..57 \cup 65..70
    BY <2>2, HexDigitIs
  <2> HIDE DEF a, b
  <2>4. a # 38 /\ a # 61 /\ b # 38 /\ b # 61
    BY <2>3
  <2> QED  BY <2>1, <2>4 DEF Free, Lacks
<1> QED  BY <1>1, <1>2, <1>3

LEMMA ConcatLacks ==
    ASSUME NEW A, NEW s \in Seq(A), NEW t \in Seq(A), NEW c, Lacks(s, c), Lacks(t, c)
    PROVE  Lacks(s \o t, c)
<1> DEFINE n == Len(s)
           m == Len(t)
           u == s \o t
<1>1. /\ Len(u) = n + m /\ n \in Nat /\ m \in Nat
      /\ \A i \in 1..(n + m) : u[i] = IF i <= n THEN s[i] ELSE t[i - n]
  BY ConcatProperties, LenProperties
<1>2. (\A i \in 1..n : s[i] # c) /\ (\A i \in 1..m : t[i] # c)
  BY DEF Lacks
<1> HIDE DEF n, m, u
<1>3. ASSUME NEW i \in 1..(n + m)  PROVE u[i] # c
  <2>1. i \in 1..n \/ (i - n \in 1..m /\ ~(i <= n))
    BY <1>1
  <2>2. i \in 1..n => i <= n
    BY <1>1
  <2> QED  BY <1>1, <1>2, <2>1, <2>2
<1> QED  BY <1>1, <1>3 DEF Lacks, u

LEMMA EncodeFree == \A text \in Text : Free(UrlEncode(text))
<1> DEFINE T == {x \in Text : Free(UrlEncode(x))}
<1>1. <<>> \in T
  <2>1. <<>> \in Text /\ 0 \in 0..127
    BY DEF Text
  <2>2. UrlEncode(<<>>) = <<>>
    BY <2>1, EncodeNext
  <2>3. Free(<<>>)
    BY DEF Free, Lacks
  <2> QED  BY <2>1, <2>2, <2>3
<1>2. ASSUME NEW x \in Seq(0..127), x \in T, NEW c \in 0..127
      PROVE  Append(x, c) \in T
  <2>1. x \in Text /\ Append(x, c) \in Text
    BY <1>2, AppendProperties DEF Text
  <2>2. UrlEncode(x) \in Text /\ Code(c) \in Text /\ UrlEncode(Append(x, c)) = UrlEncode(x) \o Code(c)
    BY <2>1, EncodeNext
  <2>3. Free(UrlEncode(x)) /\ Free(Code(c))
    BY <1>2, CodeFree
  <2>4. Free(UrlEncode(x) \o Code(c))
    BY <2>2, <2>3, ConcatLacks DEF Free, Text
  <2> QED  BY <2>1, <2>2, <2>4
<1> HIDE DEF T
<1>3. \A x \in Seq(0..127) : x \in T
  <2>1. \A x \in Seq(0..127) : x \in T => \A c \in 0..127 : Append(x, c) \in T
    BY <1>2
  <2> QED  BY <1>1, <2>1, SeqInduction
<1> QED  BY <1>3 DEF T, Text

(* A name of digits and letters is sent as it is.                          *)
Plain(text) == \A i \in 1..Len(text) : text[i] \in Digits \cup Letters

LEMMA EncodePlain == \A text \in Text : Plain(text) => UrlEncode(text) = text
<1> DEFINE T == {x \in Text : Plain(x) => UrlEncode(x) = x}
<1>1. <<>> \in T
  <2>1. <<>> \in Text /\ 0 \in 0..127
    BY DEF Text
  <2> QED  BY <2>1, EncodeNext
<1>2. ASSUME NEW x \in Seq(0..127), x \in T, NEW c \in 0..127
      PROVE  Append(x, c) \in T
  <2>1. x \in Text /\ Append(x, c) \in Text
    BY <1>2, AppendProperties DEF Text
  <2>2. SUFFICES ASSUME Plain(Append(x, c))  PROVE UrlEncode(Append(x, c)) = Append(x, c)
    BY <2>1
  <2> DEFINE n == Len(x)
             t == Append(x, c)
  <2>3. Len(t) = n + 1 /\ t[n + 1] = c /\ (\A i \in 1..n : t[i] = x[i]) /\ n \in Nat
    BY AppendProperties, LenProperties
  <2>4. \A i \in 1..Len(t) : t[i] \in Digits \cup Letters
    BY <2>2 DEF Plain
  <2>5. t = x \o <<c>>
    BY AppendIsConcat
  <2>6. UrlEncode(t) = UrlEncode(x) \o Code(c)
    BY <2>1, EncodeNext
  <2> HIDE DEF n, t
  <2>7. n + 1 \in 1..(n + 1) /\ \A i \in 1..n : i \in 1..(n + 1)
    BY <2>3
  <2>8. c \in Digits \cup Letters /\ \A i \in 1..n : x[i] \in Digits \cup Letters
    BY <2>3, <2>4, <2>7
  <2>9. UrlEncode(x) = x
    BY <1>2, <2>8 DEF Plain, n
  <2>10. Code(c) = <<c>>
    BY <2>8 DEF Code, Space, Digits, Letters
  <2> QED  BY <2>5, <2>6, <2>9, <2>10 DEF t
<1> HIDE DEF T
<1>3. \A x \in Seq(0..127) : x \in T
  <2>1. \A x \in Seq(0..127) : x \in T => \A c \in 0..127 : Append(x, c) \in T
    BY <1>2
  <2> QED  BY <1>1, <2>1, SeqInduction
<1> QED  BY <1>3 DEF T, Text

-----------------------------------------------------------------------------
(* The pairs of a form.                                                     *)

LEMMA PairSplits ==
    ASSUME NEW f \in Field
    PROVE  /\ Pair(f) \in Text /\ UrlEncode(f.name) \in Text /\ UrlEncode(f.content) \in Text
           /\ Lacks(Pair(f), 38)
           /\ Len(Split(Pair(f), 61)) = 2
           /\ Split(Pair(f), 61)[1] = UrlEncode(f.name)
           /\ Split(Pair(f), 61)[2] = UrlEncode(f.content)
<1> DEFINE A == 0..127
           s == UrlEncode(f.name)
           p == UrlEncode(f.content)
           t == Pair(f)
           e == <<61>>
<1>0. f.name \in Text /\ f.content \in Text
  BY DEF Field
<1>1. s \in Seq(A) /\ p \in Seq(A) /\ 61 \in A
  BY <1>0, UrlEncodeIs DEF Text
<1>2. Lacks(s, 61) /\ Lacks(p, 61) /\ Lacks(s, 38) /\ Lacks(p, 38)
  BY <1>0, EncodeFree DEF Free
<1>3. t = (s \o e) \o p
  BY DEF Pair
<1>4. t \in Seq(A)
  BY PairIs DEF Text
<1>5. e \in Seq(A) /\ Lacks(e, 38)
  <2>1. e \in Seq(A) /\ Len(e) = 1 /\ e[1] = 61
    OBVIOUS
  <2> HIDE DEF e
  <2> QED  BY <2>1 DEF Lacks
<1>6. JoinedBy(t, s, 61, p)
  BY <1>3 DEF JoinedBy
<1> HIDE DEF A, s, p, t, e
<1>7. Split(s, 61) = <<s>>
  BY <1>1, <1>2, SplitNone DEF Lacks
<1>8. Len(Split(s, 61)) = 1 /\ Split(s, 61)[1] = s
  BY <1>7
<1>9. /\ Len(Split(t, 61)) = Len(Split(s, 61)) + 1
      /\ \A k \in 1..Len(Split(s, 61)) : Split(t, 61)[k] = Split(s, 61)[k]
      /\ Split(t, 61)[Len(Split(s, 61)) + 1] = p
  BY <1>1, <1>2, <1>6, SplitJoin DEF Lacks
<1>10. Len(Split(t, 61)) = 2 /\ Split(t, 61)[1] = s /\ Split(t, 61)[2] = p
  <2> DEFINE q == Len(Split(s, 61))
             S == Split(s, 61)
             R == Split(t, 61)
  <2>1. q = 1 /\ S[1] = s /\ Len(R) = q + 1 /\ (\A k \in 1..q : R[k] = S[k]) /\ R[q + 1] = p
    BY <1>8, <1>9
  <2> HIDE DEF q, S, R
  <2>2. 1 \in 1..q /\ q + 1 = 2
    BY <2>1
  <2>3. Len(R) = 2 /\ R[1] = s /\ R[2] = p
    BY <2>1, <2>2
  <2> QED  BY <2>3 DEF R
<1>11. Lacks(t, 38)
  <2> DEFINE u == s \o e
  <2>1. u \in Seq(A) /\ Lacks(u, 38)
    BY <1>1, <1>2, <1>5, ConcatProperties, ConcatLacks
  <2> HIDE DEF u
  <2>2. Lacks(u \o p, 38)
    BY <1>1, <1>2, <2>1, ConcatLacks
  <2> QED  BY <1>3, <2>2 DEF u
<1> QED  BY <1>1, <1>4, <1>10, <1>11 DEF A, s, p, t, Text

Pairs(f) == [i \in DOMAIN f.fields |-> (IF i = 1 THEN <<>> ELSE <<38>>) \o Pair(f.fields[i])]

LEMMA PairsAre ==
    ASSUME NEW f \in Forms, f.encoding # "multipart"
    PROVE  /\ \A i \in 1..Len(f.fields) : Pairs(f)[i] \in Text
           /\ \A i \in 1..Len(f.fields) :
                 Pairs(f)[i] = IF i = 1 THEN Pair(f.fields[i]) ELSE <<38>> \o Pair(f.fields[i])
           /\ Body(f) = Together(Pairs(f), Len(f.fields))
<1> DEFINE n == Len(f.fields)
           P == Pairs(f)
<1>1. n \in Nat /\ DOMAIN f.fields = 1..n /\ \A i \in 1..n : f.fields[i] \in Field
  BY FormIs
<1>2. P = [i \in 1..n |-> (IF i = 1 THEN <<>> ELSE <<38>>) \o Pair(f.fields[i])]
  BY <1>1 DEF Pairs
<1>3. ASSUME NEW i \in 1..n
      PROVE  /\ P[i] = (IF i = 1 THEN Pair(f.fields[i]) ELSE <<38>> \o Pair(f.fields[i]))
             /\ P[i] \in Text
  <2> DEFINE b == Pair(f.fields[i])
             m == <<38>>
  <2>1. b \in Seq(0..127)
    BY <1>1, PairIs DEF Text
  <2>2. P[i] = (IF i = 1 THEN <<>> ELSE <<38>>) \o b
    BY <1>2
  <2>3. m \in Seq(0..127)
    OBVIOUS
  <2> HIDE DEF b, m
  <2>4. <<>> \o b = b /\ m \o b \in Seq(0..127)
    BY <2>1, <2>3, ConcatEmptySeq, ConcatProperties
  <2> HIDE DEF P
  <2>5. P[i] = IF i = 1 THEN b ELSE <<38>> \o b
    BY <2>2, <2>4
  <2> QED  BY <2>1, <2>4, <2>5 DEF b, m, Text
<1>4. P \in Seq(Text) /\ Len(P) = n
  <2>1. P \in [1..n -> Text]
    BY <1>2, <1>3
  <2> HIDE DEF P, n
  <2> QED  BY <1>1, <2>1, FunctionIsSeq
<1>5. Body(f) = FlattenSeq(P)
  BY DEF Body, Pairs
<1>6. FlattenSeq(P) = Together(P, n)
  <2> HIDE DEF P
  <2> QED  BY <1>4, FlattenIsTogether DEF Text
<1> QED  BY <1>3, <1>5, <1>6

LEMMA BodySplits ==
    ASSUME NEW f \in Forms, f.encoding # "multipart", Len(f.fields) # 0
    PROVE  /\ Len(Split(Body(f), 38)) = Len(f.fields)
           /\ \A i \in 1..Len(f.fields) : Split(Body(f), 38)[i] = Pair(f.fields[i])
<1> DEFINE n == Len(f.fields)
           P == Pairs(f)
           A == 0..127
           S(k) == Split(Together(P, k), 38)
           T == {k \in Nat : k + 1 \in 1..n =>
                     /\ Together(P, k + 1) \in Seq(A)
                     /\ Len(S(k + 1)) = k + 1
                     /\ \A i \in 1..(k + 1) : S(k + 1)[i] = Pair(f.fields[i])}
<1>1. n \in Nat /\ \A i \in 1..n : f.fields[i] \in Field
  BY FormIs
<1>2. /\ \A i \in 1..n : P[i] \in Seq(A)
      /\ \A i \in 1..n : P[i] = IF i = 1 THEN Pair(f.fields[i]) ELSE <<38>> \o Pair(f.fields[i])
      /\ Body(f) = Together(P, n)
  BY PairsAre DEF Text
<1>3. \A i \in 1..n : Pair(f.fields[i]) \in Seq(A) /\ Lacks(Pair(f.fields[i]), 38)
  BY <1>1, PairSplits DEF Text
<1>4. 38 \in A
  OBVIOUS
<1>5. n # 0
  OBVIOUS
<1> HIDE DEF n, P, A
<1>6. ASSUME NEW k \in Nat, k + 1 \in 1..n
      PROVE  Together(P, k + 1) = Together(P, k) \o P[k + 1]
  <2>1. \A i \in 1..(k + 1) : i \in 1..n
    BY <1>1, <1>6
  <2>2. \A i \in 1..(k + 1) : P[i] \in Seq(A)
    BY <1>2, <2>1
  <2> QED  BY <2>2, TogetherNext
<1>7. 0 \in T
  <2> SUFFICES ASSUME 0 + 1 \in 1..n
               PROVE  /\ Together(P, 1) \in Seq(A)
                      /\ Len(S(1)) = 1
                      /\ \A i \in 1..1 : S(1)[i] = Pair(f.fields[i])
    OBVIOUS
  <2> DEFINE t == Pair(f.fields[1])
  <2>1. 1 \in 1..n
    OBVIOUS
  <2>2. P[1] = t /\ t \in Seq(A) /\ Lacks(t, 38)
    BY <1>2, <1>3, <2>1
  <2>3. Together(P, 1) = <<>> \o P[1]
    <3>1. 0 \in Nat /\ 0 + 1 = 1 /\ 0 + 1 \in 1..n
      BY <2>1
    <3>2. Together(P, 0 + 1) = Together(P, 0) \o P[0 + 1]
      BY <1>6, <3>1
    <3> QED  BY <3>1, <3>2, TogetherNone
  <2> HIDE DEF t
  <2>4. Together(P, 1) = t
    BY <2>2, <2>3, ConcatEmptySeq
  <2>5. Split(t, 38) = <<t>>
    BY <2>2, SplitNone DEF Lacks
  <2>6. S(1) = <<t>>
    BY <2>4, <2>5
  <2> HIDE DEF S
  <2> QED  BY <2>2, <2>4, <2>6 DEF t
<1>8. ASSUME NEW k \in Nat, k \in T  PROVE k + 1 \in T
  <2> DEFINE m == k + 1
             t == Together(P, m + 1)
             s == Together(P, m)
             p == Pair(f.fields[m + 1])
  <2>0. SUFFICES ASSUME m + 1 \in 1..n
                 PROVE  /\ t \in Seq(A) /\ Len(S(m + 1)) = m + 1
                        /\ \A i \in 1..(m + 1) : S(m + 1)[i] = Pair(f.fields[i])
    BY <1>8
  <2>1. m \in Nat /\ m \in 1..n /\ m + 1 # 1
    BY <1>1, <2>0
  <2>2. s \in Seq(A) /\ Len(S(m)) = m /\ \A i \in 1..m : S(m)[i] = Pair(f.fields[i])
    BY <1>8, <2>1
  <2> HIDE DEF m
  <2>3. t = s \o (<<38>> \o p)
    BY <1>2, <1>6, <2>0, <2>1
  <2>4. p \in Seq(A) /\ Lacks(p, 38)
    BY <1>3, <2>0
  <2> HIDE DEF t, s, p
  <2>5. JoinedBy(t, s, 38, p)
    <3> DEFINE e == <<38>>
    <3>1. e \in Seq(A) /\ s \in Seq(A) /\ p \in Seq(A)
      BY <1>4, <2>2, <2>4
    <3> HIDE DEF e
    <3>2. (s \o e) \o p = s \o (e \o p)
      BY <3>1, ConcatAssociative
    <3> QED  BY <2>3, <3>2 DEF JoinedBy, e
  <2>6. /\ t \in Seq(A)
        /\ Len(Split(t, 38)) = Len(Split(s, 38)) + 1
        /\ \A i \in 1..Len(Split(s, 38)) : Split(t, 38)[i] = Split(s, 38)[i]
        /\ Split(t, 38)[Len(Split(s, 38)) + 1] = p
    BY <1>4, <2>2, <2>4, <2>5, SplitJoin DEF Lacks
  <2>7. S(m) = Split(s, 38) /\ S(m + 1) = Split(t, 38)
    BY DEF s, t
  <2> HIDE DEF S
  <2>8. Len(S(m + 1)) = m + 1 /\ (\A i \in 1..m : S(m + 1)[i] = S(m)[i]) /\ S(m + 1)[m + 1] = p
    BY <2>2, <2>6, <2>7
  <2>9. ASSUME NEW i \in 1..(m + 1)  PROVE S(m + 1)[i] = Pair(f.fields[i])
    <3>1. i \in 1..m \/ i = m + 1
      BY <2>1
    <3> QED  BY <2>2, <2>8, <3>1 DEF p
  <2> QED  BY <2>6, <2>8, <2>9
<1> HIDE DEF T
<1>9. Nat \subseteq T
  <2>1. \A k \in Nat : k \in T => k + 1 \in T
    BY <1>8
  <2> QED  BY <1>7, <2>1, NatSetInduction
<1>10. n - 1 \in Nat /\ (n - 1) + 1 = n /\ n \in 1..n
  BY <1>1, <1>5
<1>11. Len(S(n)) = n /\ \A i \in 1..n : S(n)[i] = Pair(f.fields[i])
  <2> DEFINE k == n - 1
  <2>1. k \in T /\ k + 1 = n
    BY <1>9, <1>10
  <2> HIDE DEF k
  <2> QED  BY <1>10, <2>1 DEF T
<1> QED  BY <1>2, <1>11 DEF n

(* The pairs of a form are entered one after the other.                    *)
Enters(e, lines, start, n) ==
    e = [k \in 0..n |->
            IF k = 0 THEN start
            ELSE IF Len(lines[k]) = 2
            THEN Assign(e[k - 1], lines[k][1], UrlDecode(lines[k][2]))
            ELSE e[k - 1]]

LEMMA EntersExists == \A lines, start : \A n \in Nat : \E e : Enters(e, lines, start, n)
<1> TAKE lines, start
<1> DEFINE T == {n \in Nat : \E e : Enters(e, lines, start, n)}
<1>1. 0 \in T
  <2> DEFINE e == [k \in 0..0 |-> start]
  <2>1. e = [k \in 0..0 |->
                IF k = 0 THEN start
                ELSE IF Len(lines[k]) = 2
                THEN Assign(e[k - 1], lines[k][1], UrlDecode(lines[k][2]))
                ELSE e[k - 1]]
    OBVIOUS
  <2> HIDE DEF e
  <2> QED  BY <2>1 DEF Enters
<1>2. ASSUME NEW n \in Nat, n \in T  PROVE n + 1 \in T
  <2>1. PICK g : Enters(g, lines, start, n)
    BY <1>2
  <2> DEFINE new(old, k) == IF Len(lines[k]) = 2
                            THEN Assign(old, lines[k][1], UrlDecode(lines[k][2]))
                            ELSE old
             f == [k \in 0..(n + 1) |-> IF k = n + 1 THEN new(g[n], n + 1) ELSE g[k]]
  <2>2. ASSUME NEW k \in 0..n
        PROVE  g[k] = IF k = 0 THEN start ELSE new(g[k - 1], k)
    BY <2>1 DEF Enters
  <2> HIDE DEF new
  <2>3. ASSUME NEW k \in 0..(n + 1)
        PROVE  f[k] = IF k = 0 THEN start ELSE new(f[k - 1], k)
    <3>1. CASE k = n + 1
      <4>1. k # 0 /\ k - 1 = n /\ n \in 0..(n + 1) /\ n # n + 1
        BY <3>1
      <4>2. f[k] = new(g[n], n + 1) /\ f[k - 1] = g[n]
        BY <3>1, <4>1
      <4> HIDE DEF f
      <4> QED  BY <3>1, <4>1, <4>2
    <3>2. CASE k # n + 1
      <4>1. k \in 0..n /\ (k # 0 => k - 1 \in 0..n /\ k - 1 \in 0..(n + 1) /\ k - 1 # n + 1)
        BY <3>2
      <4>2. f[k] = g[k] /\ (k # 0 => f[k - 1] = g[k - 1])
        BY <3>2, <4>1
      <4> HIDE DEF f
      <4> QED  BY <2>2, <4>1, <4>2
    <3> QED  BY <3>1, <3>2
  <2>4. f = [k \in 0..(n + 1) |-> f[k]]
    OBVIOUS
  <2> HIDE DEF f
  <2>5. f = [k \in 0..(n + 1) |-> IF k = 0 THEN start ELSE new(f[k - 1], k)]
    BY <2>3, <2>4
  <2>6. Enters(f, lines, start, n + 1)
    BY <2>5 DEF Enters, new
  <2> QED  BY <2>6
<1> HIDE DEF T
<1>3. Nat \subseteq T
  BY <1>1, <1>2, NatSetInduction
<1> QED  BY <1>3 DEF T

LEMMA EnteredEnters ==
    ASSUME NEW lines, Len(lines) \in Nat
    PROVE  \E e : Enters(e, lines, post_values, Len(lines)) /\ Entered(lines) = e[Len(lines)]
<1> DEFINE f == CHOOSE g : g = [k \in 0..Len(lines) |->
                   IF k = 0 THEN post_values
                   ELSE IF Len(lines[k]) = 2
                   THEN Assign(g[k - 1], lines[k][1], UrlDecode(lines[k][2]))
                   ELSE g[k - 1]]
<1>1. Entered(lines) = f[Len(lines)]
  BY DEF Entered
<1>2. \E g : g = [k \in 0..Len(lines) |->
                   IF k = 0 THEN post_values
                   ELSE IF Len(lines[k]) = 2
                   THEN Assign(g[k - 1], lines[k][1], UrlDecode(lines[k][2]))
                   ELSE g[k - 1]]
  <2>1. PICK g : Enters(g, lines, post_values, Len(lines))
    BY EntersExists
  <2> HIDE DEF f
  <2> QED  BY <2>1 DEF Enters
<1>3. f = [k \in 0..Len(lines) |->
                   IF k = 0 THEN post_values
                   ELSE IF Len(lines[k]) = 2
                   THEN Assign(f[k - 1], lines[k][1], UrlDecode(lines[k][2]))
                   ELSE f[k - 1]]
  BY <1>2
<1> HIDE DEF f
<1> QED  BY <1>1, <1>3 DEF Enters

(* What is entered once stays.                                             *)
LEMMA EnteredKeeps ==
    ASSUME NEW lines, Len(lines) \in Nat, NEW i \in 1..Len(lines), NEW x, NEW v,
           Len(lines[i]) = 2, lines[i][1] = x, UrlDecode(lines[i][2]) = v,
           \A k \in 1..Len(lines) : k # i => lines[k][1] # x
    PROVE  x \in DOMAIN Entered(lines) /\ Entered(lines)[x] = v
<1> DEFINE n == Len(lines)
<1>1. PICK e : Enters(e, lines, post_values, n) /\ Entered(lines) = e[n]
  BY EnteredEnters
<1>2. n \in Nat /\ i \in 1..n
  OBVIOUS
<1>3. \A k \in 1..n : k # i => lines[k][1] # x
  OBVIOUS
<1> HIDE DEF n
<1> DEFINE T == {k \in Nat : k \in 0..n /\ i <= k => x \in DOMAIN e[k] /\ e[k][x] = v}
<1>4. 0 \in T
  BY <1>2
<1>5. ASSUME NEW k \in Nat, k \in T  PROVE k + 1 \in T
  <2> SUFFICES ASSUME k + 1 \in 0..n, i <= k + 1
               PROVE  x \in DOMAIN e[k + 1] /\ e[k + 1][x] = v
    OBVIOUS
  <2>1. k + 1 \in 1..n /\ k \in 0..n /\ k + 1 # 0 /\ (k + 1) - 1 = k /\ (i = k + 1 \/ i <= k)
    BY <1>2
  <2>2. e[k + 1] = IF Len(lines[k + 1]) = 2
                   THEN Assign(e[k], lines[k + 1][1], UrlDecode(lines[k + 1][2]))
                   ELSE e[k]
    BY <1>1, <2>1 DEF Enters
  <2>3. CASE i = k + 1
    <3>1. e[k + 1] = Assign(e[k], x, v)
      BY <2>2, <2>3
    <3> QED  BY <3>1 DEF Assign
  <2>4. CASE i # k + 1
    <3>1. x \in DOMAIN e[k] /\ e[k][x] = v
      BY <1>5, <2>1, <2>4
    <3>2. lines[k + 1][1] # x
      BY <1>3, <2>1, <2>4
    <3> DEFINE y == lines[k + 1][1]
               w == UrlDecode(lines[k + 1][2])
               old == e[k]
    <3>3. e[k + 1] = Assign(old, y, w) \/ e[k + 1] = old
      BY <2>2
    <3> HIDE DEF y, w, old
    <3> QED  BY <3>1, <3>2, <3>3 DEF Assign, y, old
  <2> QED  BY <2>3, <2>4
<1> HIDE DEF T
<1>6. Nat \subseteq T
  <2>1. \A k \in Nat : k \in T => k + 1 \in T
    BY <1>5
  <2> QED  BY <1>4, <2>1, NatSetInduction
<1>7. n \in T /\ n \in 0..n /\ i <= n
  BY <1>2, <1>6
<1> QED  BY <1>1, <1>7 DEF T

(* A body that fits the pipe is read at once, and without the line end.    *)
LEMMA BufferIs ==
    ASSUME NEW body \in Text, Len(body) # 0, stdin = body \o <<CR, LF>>, post_content_length = Len(body),
           Len(body) <= PipeSize
    PROVE  BufferAfterRead = {body}
<1> DEFINE n == Len(body)
           b == CHOOSE m \in {Len(stdin), post_content_length, PipeSize} :
                   \A k \in {Len(stdin), post_content_length, PipeSize} : m <= k
           e == <<CR, LF>>
<1>1. body \in Seq(0..127) /\ e \in Seq(0..127) /\ Len(e) = 2 /\ n \in Nat
  BY LenProperties DEF Text, CR, LF
<1> HIDE DEF e
<1>2. Len(stdin) = n + 2 /\ SubSeq(stdin, 1, n) = body
  <2>1. Len(body \o e) = Len(body) + Len(e)
    BY <1>1, ConcatProperties
  <2>2. SubSeq(body \o e, 1, Len(body)) = body
    <3>1. 1 \in 1..Len(body) /\ Len(body) \in 1..Len(body)
      BY <1>1
    <3>2. SubSeq(body \o e, 1, Len(body)) = SubSeq(body, 1, Len(body))
      BY <1>1, <3>1, SubSeqOfConcat1
    <3> QED  BY <1>1, <3>2, SubSeqFull
  <2> QED  BY <1>1, <2>1, <2>2 DEF e
<1>3. post_content_length = n /\ PipeSize \in Nat /\ n <= PipeSize
  BY PipeAssumption
<1> HIDE DEF n
<1>4. b = n
  <2>1. n \in {Len(stdin), post_content_length, PipeSize}
        /\ \A k \in {Len(stdin), post_content_length, PipeSize} : n <= k
    BY <1>1, <1>2, <1>3
  <2>2. b \in {Len(stdin), post_content_length, PipeSize}
        /\ \A k \in {Len(stdin), post_content_length, PipeSize} : b <= k
    BY <2>1
  <2> HIDE DEF b
  <2>3. b \in Nat /\ b <= n /\ n <= b
    BY <1>1, <1>2, <1>3, <2>1, <2>2
  <2> QED  BY <1>1, <2>3
<1>5. BufferAfterRead = {SubSeq(stdin, 1, b)} \cup
         IF b < post_content_length THEN {Append(SubSeq(stdin, 1, b), 88)} ELSE {}
  BY DEF BufferAfterRead
<1> HIDE DEF b
<1>6. ~(b < post_content_length)
  BY <1>1, <1>3, <1>4
<1> QED  BY <1>2, <1>4, <1>5, <1>6

LEMMA BodyNotEmpty ==
    ASSUME NEW f \in Forms, f.encoding # "multipart", Len(f.fields) # 0
    PROVE  Len(Body(f)) # 0
<1> SUFFICES ASSUME Len(Body(f)) = 0  PROVE FALSE
  OBVIOUS
<1>1. Body(f) \in Seq(0..127)
  BY BodyIs DEF Text
<1>2. Body(f) = <<>>
  BY <1>1, EmptySeq
<1> DEFINE E == <<>>
<1>3. E \in Seq(0..127) /\ \A i \in 1..Len(E) : E[i] # 38 /\ E[i] # 61
  OBVIOUS
<1> HIDE DEF E
<1>4. Split(E, 38) = <<E>> /\ Split(E, 61) = <<E>>
  BY <1>3, SplitNone
<1>5. Len(f.fields) \in Nat /\ f.fields[1] \in Field /\ 1 \in 1..Len(f.fields)
  <2>1. Len(f.fields) \in Nat /\ \A i \in 1..Len(f.fields) : f.fields[i] \in Field
    BY FormIs
  <2>2. 1 \in 1..Len(f.fields)
    BY <2>1
  <2> QED  BY <2>1, <2>2
<1>6. Split(Body(f), 38)[1] = Pair(f.fields[1])
  BY <1>5, BodySplits
<1>7. Pair(f.fields[1]) = E
  BY <1>2, <1>4, <1>6 DEF E
<1>8. Len(Split(Pair(f.fields[1]), 61)) = 2
  BY <1>5, PairSplits
<1>9. Len(Split(E, 61)) = 1
  BY <1>4
<1> QED  BY <1>7, <1>8, <1>9

(* What the script knows of a field of a URL-encoded form.                 *)
Understood(j) ==
    LET f == form.fields[j] IN
    Alone(j) /\ Plain(f.name) =>
        /\ f.name \in DOMAIN post_values /\ post_values[f.name] = f.content
        /\ f.name \in DOMAIN post_filenames /\ post_filenames[f.name] = FALSE

(* A name that is not a plain one is not taken for one.                    *)
LEMMA OtherNames ==
    ASSUME NEW a \in Text, NEW b \in Text, Plain(b), UrlEncode(a) = b
    PROVE  a = b
<1>1. UrlDecode(UrlEncode(a)) = a /\ UrlDecode(UrlEncode(b)) = b
  BY DecodeEncode
<1>2. UrlEncode(b) = b
  BY EncodePlain
<1> QED  BY <1>1, <1>2

LEMMA UnderstoodNow ==
    ASSUME TInv, LoadUrlEncoding, ~eof, form.method = "POST", form.encoding = "url",
           Len(Body(form)) <= PipeSize, stdin # <<>> => stdin = Body(form) \o <<CR, LF>>,
           NEW j \in DOMAIN form.fields
    PROVE  Understood(j)'
<1> DEFINE F == form.fields
           f == form.fields[j]
           n == Len(form.fields)
           B == Body(form)
           S == Split(B, 38)
           lines == [i \in DOMAIN S |-> Split(S[i], 61)]
<1>1. form \in Forms /\ form' = form /\ form.encoding # "multipart"
  BY DEF TInv, TypeOK, LoadUrlEncoding, server
<1>2. n \in Nat /\ DOMAIN F = 1..n /\ (\A i \in 1..n : F[i] \in Field) /\ j \in 1..n
  BY <1>1, FormIs
<1>3. n # 0
  BY <1>2
<1>4. Len(B) # 0 /\ B \in Text /\ post_content_length = Len(B)
  BY <1>1, <1>3, BodyNotEmpty, BodyIs DEF post_content_length
<1>5. stdin # <<>> /\ stdin = B \o <<CR, LF>>
  BY <1>4 DEF LoadUrlEncoding
<1>6. BufferAfterRead = {B}
  BY <1>4, <1>5, BufferIs
<1>7. /\ post_values' = Entered(lines)
      /\ post_filenames' = [name \in DOMAIN post_values' |-> FALSE]
  <2>1. PICK data \in IF stdin = <<>> \/ post_content_length = 0 THEN {<<>>} ELSE BufferAfterRead :
          \E l \in {[i \in DOMAIN Split(data, 38) |-> Split(Split(data, 38)[i], 61)]} :
             post_values' = Entered(l)
    BY DEF LoadUrlEncoding
  <2>2. data = B
    BY <1>4, <1>5, <1>6, <2>1
  <2>3. post_values' = Entered(lines)
    BY <2>1, <2>2
  <2> QED  BY <2>3 DEF LoadUrlEncoding
<1>8. Len(S) = n /\ \A i \in 1..n : S[i] = Pair(F[i])
  BY <1>1, <1>3, BodySplits
<1>9. DOMAIN S = 1..n
  <2>1. B \in Seq(0..127)
    BY <1>4 DEF Text
  <2>2. /\ Len(S) = Len(Where(B, {38})) + 1
        /\ S = [k \in 1..(Len(Where(B, {38})) + 1) |->
                  SubSeq(B, Ends(B, 38)[k] + 1, Ends(B, 38)[k + 1] - 1)]
    BY <2>1, SplitIs
  <2> QED  BY <1>8, <2>2
<1> SUFFICES ASSUME Alone(j), Plain(f.name)
             PROVE  /\ f.name \in DOMAIN post_values' /\ post_values'[f.name] = f.content
                    /\ f.name \in DOMAIN post_filenames' /\ post_filenames'[f.name] = FALSE
  BY <1>1 DEF Understood, Alone
<1>10. \A i \in 1..n : /\ lines[i] = Split(Pair(F[i]), 61) /\ Len(lines[i]) = 2
                       /\ lines[i][1] = UrlEncode(F[i].name)
                       /\ lines[i][2] = UrlEncode(F[i].content)
                       /\ F[i].name \in Text /\ F[i].content \in Text
  <2> TAKE i \in 1..n
  <2>1. lines[i] = Split(Pair(F[i]), 61)
    BY <1>8, <1>9
  <2>2. F[i] \in Field
    BY <1>2
  <2>3. F[i].name \in Text /\ F[i].content \in Text
    BY <2>2 DEF Field
  <2> HIDE DEF lines
  <2> QED  BY <2>1, <2>2, <2>3, PairSplits
<1>11. Len(lines) = n
  BY <1>2, <1>9
<1> HIDE DEF lines, n, F
<1>12. lines[j][1] = f.name /\ UrlDecode(lines[j][2]) = f.content /\ Len(lines[j]) = 2
  <2>1. UrlEncode(f.name) = f.name
    BY <1>2, <1>10, EncodePlain DEF F
  <2>2. UrlDecode(UrlEncode(f.content)) = f.content
    BY <1>2, <1>10, DecodeEncode DEF F
  <2> QED  BY <1>2, <1>10, <2>1, <2>2 DEF F
<1>13. ASSUME NEW k \in 1..n, k # j  PROVE lines[k][1] # f.name
  <2> SUFFICES ASSUME lines[k][1] = f.name  PROVE FALSE
    OBVIOUS
  <2>1. F[k].name \in Text /\ f.name \in Text /\ UrlEncode(F[k].name) = f.name
    BY <1>2, <1>10, <1>13 DEF F
  <2>2. F[k].name = f.name
    BY <2>1, OtherNames
  <2> QED  BY <1>2, <1>13, <2>2 DEF Alone, F
<1>14. f.name \in DOMAIN Entered(lines) /\ Entered(lines)[f.name] = f.content
  <2> DEFINE x == f.name
             v == f.content
  <2>1. Len(lines) \in Nat /\ j \in 1..Len(lines) /\ \A k \in 1..Len(lines) : k # j => lines[k][1] # x
    BY <1>2, <1>11, <1>13
  <2>2. Len(lines[j]) = 2 /\ lines[j][1] = x /\ UrlDecode(lines[j][2]) = v
    BY <1>12
  <2> HIDE DEF x, v, f
  <2>3. x \in DOMAIN Entered(lines) /\ Entered(lines)[x] = v
    BY <2>1, <2>2, EnteredKeeps
  <2> QED  BY <2>3 DEF x, v
<1>15. f.name \in DOMAIN post_values' /\ post_values'[f.name] = f.content
  BY <1>7, <1>14
<1>16. f.name \in DOMAIN post_filenames' /\ post_filenames'[f.name] = FALSE
  <2> DEFINE v == post_values'
  <2>1. f.name \in DOMAIN v /\ post_filenames' = [name \in DOMAIN v |-> FALSE]
    BY <1>7, <1>15
  <2> HIDE DEF v, f
  <2> QED  BY <2>1
<1> QED  BY <1>15, <1>16

-----------------------------------------------------------------------------
(* What the script has when it has read a form.                              *)

UrlPosted == form.method = "POST" /\ form.encoding = "url"

Fresh     == phase \in {"starting", "first line"} => post_values = NoFiles
WholeBody == ~eof /\ UrlPosted /\ stdin # <<>> => stdin = Body(form) \o <<CR, LF>>
PartsRead == ~eof /\ Posted /\ phase = "parts" =>
                \E i, o \in Nat : Reading(i, o) /\ Content(i, o)
PartsKept == ~eof /\ Posted /\ phase = "loaded" => \A j \in DOMAIN form.fields : Kept(j)
PairsKept == ~eof /\ UrlPosted /\ phase = "loaded" /\ Len(Body(form)) <= PipeSize =>
                \A j \in DOMAIN form.fields : Understood(j)

CInv == Fresh /\ WholeBody /\ PartsRead /\ PartsKept /\ PairsKept

LEMMA ContentInit == Init => CInv
  BY DEF Init, CInv, Fresh, WholeBody, PartsRead, PartsKept, PairsKept, NoFiles

LEMMA SameKept ==
    ASSUME form' = form, UNCHANGED store, disk' = disk, NEW j
    PROVE  (Kept(j) => Kept(j)') /\ (Understood(j) => Understood(j)')
  BY DEF Kept, Understood, store, OneFile, Alone, FileOf, Clean, OneLine

LEMMA SamePlace ==
    ASSUME UNCHANGED <<form, stdin, total_bytes, part, store, disk>>, NEW i, NEW o,
           Reading(i, o), Content(i, o)
    PROVE  Reading(i, o)' /\ Content(i, o)'
<1>1. UNCHANGED <<form, stdin, total_bytes, part, post_values, post_filenames, disk>>
  BY DEF store
<1>2. Place(i, o)'
  BY <1>1 DEF Reading, Place
<1>3. \A j : Noted(j) => Noted(j)'
  BY <1>1, NotedStays
<1>4. Reading(i, o)'
  <2>1. o = 0 => part' = NewPart
    BY <1>1 DEF Reading
  <2>2. o > 0 => InPart(form.fields[i + 1], o)'
    BY <1>1 DEF Reading, InPart
  <2>3. /\ \A j \in 1..i : Noted(j)'
        /\ o > HeaderLines(form.fields[i + 1]) + 1 => Noted(i + 1)'
    BY <1>1, <1>3 DEF Reading
  <2>4. \A x : \A j : FileOf(j, x) => FileOf(j, x)'
    BY <1>1 DEF FileOf
  <2>5. \A x \in DOMAIN disk' :
           \/ \E j \in 1..i : FileOf(j, x)'
           \/ o > HeaderLines(form.fields[i + 1]) /\ FileOf(i + 1, x)'
    BY <1>1, <2>4 DEF Reading
  <2>6. HeaderLines(form.fields[i + 1])' = HeaderLines(form.fields[i + 1])
    BY <1>1
  <2> QED  BY <1>2, <2>1, <2>2, <2>3, <2>5, <2>6 DEF Reading, NewPart
<1>5. Content(i, o)'
  <2>1. \A j \in 1..i : Kept(j)'
    BY <1>1, KeptUnchanged DEF Content
  <2>2. ASSUME NEW m, Growing(i + 1, m)  PROVE Growing(i + 1, m)'
    BY <1>1, <2>2 DEF Growing, OneFile, Alone, FileOf, Clean
  <2>3. o > HeaderLines(form.fields[i + 1]) =>
           \A m : m = o - HeaderLines(form.fields[i + 1]) - 1 => Growing(i + 1, m)'
    BY <2>2 DEF Content
  <2>4. \A x \in DOMAIN post_values' :
              \/ \E j \in 1..i : form.fields[j].name = x
              \/ o > HeaderLines(form.fields[i + 1]) + 1 /\ form.fields[i + 1].name = x
    BY <1>1 DEF Content
  <2> QED  BY <1>1, <2>1, <2>3, <2>4, ContentNow
<1> QED  BY <1>4, <1>5

(* The server. *)
LEMMA ContentStarted == ASSUME TInv, SInv, CInv, cgiStartedData  PROVE CInv'
<1>1. /\ form' = form /\ eof' = eof /\ UNCHANGED <<phase, store, disk, post_values>> /\ phase # "parts"
  BY DEF cgiStartedData, script, loading, files, store, SInv
<1>2. (UrlPosted' <=> UrlPosted) /\ (Posted' <=> Posted) /\ form.fields' = form.fields
      /\ Body(form)' = Body(form)
  BY <1>1 DEF UrlPosted, Posted
<1>3. Fresh'
  BY <1>1 DEF CInv, Fresh, NoFiles
<1>4. WholeBody'
  BY <1>1 DEF cgiStartedData, WholeBody, UrlPosted
<1>5. PartsRead'
  BY <1>1 DEF PartsRead
<1>6. PartsKept' /\ PairsKept'
  BY <1>1, <1>2, SameKept DEF CInv, PartsKept, PairsKept
<1> QED  BY <1>3, <1>4, <1>5, <1>6 DEF CInv

LEMMA ContentDies == ASSUME CInv, ServerDies  PROVE CInv'
<1>1. eof' /\ UNCHANGED <<phase, post_values>>
  BY DEF ServerDies, script, loading, store
<1> QED  BY <1>1 DEF CInv, Fresh, WholeBody, PartsRead, PartsKept, PairsKept, NoFiles

(* What a step of the script must do.                                      *)
LEMMA ScriptContent ==
    ASSUME CInv, UNCHANGED server,
           phase' \in {"starting", "first line"} => post_values' = NoFiles,
           UrlPosted => stdin' = stdin,
           ~eof /\ Posted /\ phase' = "parts" =>
              \E i, o \in Nat : Reading(i, o)' /\ Content(i, o)',
           ~eof /\ Posted /\ phase' = "loaded" => \A j \in DOMAIN form.fields : Kept(j)',
           ~eof /\ UrlPosted /\ phase' = "loaded" /\ Len(Body(form)) <= PipeSize =>
              \A j \in DOMAIN form.fields : Understood(j)'
    PROVE  CInv'
<1>1. form' = form /\ eof' = eof
  BY DEF server
<1>2. (UrlPosted' <=> UrlPosted) /\ (Posted' <=> Posted)
  BY <1>1 DEF UrlPosted, Posted
<1>3. Fresh'
  BY DEF Fresh, NoFiles
<1>4. WholeBody'
  BY <1>1, <1>2 DEF CInv, WholeBody
<1>5. PartsRead'
  BY <1>1, <1>2 DEF PartsRead
<1>6. PartsKept'
  BY <1>1, <1>2 DEF PartsKept
<1>7. PairsKept'
  BY <1>1, <1>2 DEF PairsKept
<1> QED  BY <1>3, <1>4, <1>5, <1>6, <1>7 DEF CInv

LEMMA ContentKill == ASSUME CInv, Kill  PROVE CInv'
  BY ScriptContent DEF Kill, server, UrlPosted, Posted

LEMMA ContentInitialize == ASSUME TInv, SInv, CInv, Initialize  PROVE CInv'
<1>1. /\ UNCHANGED server /\ stdin' = stdin /\ post_values' = post_values /\ phase = "starting"
      /\ phase' # "parts"
      /\ phase' = "loaded" => form.encoding \notin {"url", "multipart"}
  BY DEF Initialize, store
<1>2. post_values' = NoFiles
  BY <1>1 DEF CInv, Fresh
<1> QED  BY <1>1, <1>2, ScriptContent DEF UrlPosted, Posted

LEMMA ContentLoadUrl == ASSUME TInv, SInv, CInv, LoadUrlEncoding  PROVE CInv'
<1>1. UNCHANGED server /\ stdin' = stdin /\ phase = "reading" /\ phase' = "loaded"
  BY DEF LoadUrlEncoding
<1>2. ~Posted
  BY <1>1 DEF SInv, Posted
<1>3. ASSUME ~eof, UrlPosted, Len(Body(form)) <= PipeSize, NEW j \in DOMAIN form.fields
      PROVE  Understood(j)'
  <2>1. stdin # <<>> => stdin = Body(form) \o <<CR, LF>>
    BY <1>3 DEF CInv, WholeBody
  <2> QED  BY <1>3, <2>1, UnderstoodNow DEF UrlPosted
<1> QED  BY <1>1, <1>2, <1>3, ScriptContent

LEMMA ContentReadSeparator == ASSUME TInv, SInv, CInv, ReadSeparator  PROVE CInv'
<1>1. /\ UNCHANGED server /\ form' = form /\ phase = "first line" /\ post_values' = post_values
      /\ phase' \in {"parts", "loaded"} /\ (phase' = "loaded" => eof)
  BY DEF ReadSeparator, store, server
<1>2. post_values' = NoFiles /\ ~UrlPosted
  BY <1>1 DEF CInv, Fresh, TInv, Phases, UrlPosted
<1>3. ASSUME ~eof, Posted  PROVE Reading(0, 0)' /\ Content(0, 0)'
  <2>1. Reading(0, 0)'
    BY <1>3, ReadingFirst
  <2>2. ~(0 > HeaderLines(form.fields[0 + 1])) /\ 1..0 = {}
    BY HeaderLinesAre
  <2>3. DOMAIN post_values' = {}
    BY <1>2 DEF NoFiles
  <2>4. Content(0, 0)'
    BY <1>1, <2>2, <2>3, ContentNow
  <2> QED  BY <2>1, <2>4
<1>4. 0 \in Nat
  OBVIOUS
<1> QED  BY <1>1, <1>2, <1>3, <1>4, ScriptContent

LEMMA LoopContent ==
    ASSUME TInv, SInv, CInv, Getline, phase' \in {"parts", "failed"},
           \A i, o \in Nat : Reading(i, o) /\ Content(i, o) /\ phase' = "parts" =>
              \E k, l \in Nat : Reading(k, l)' /\ Content(k, l)'
    PROVE  CInv'
<1>1. /\ phase = "parts" /\ form.encoding = "multipart" /\ UNCHANGED server
  BY GetlineIs DEF Getline
<1>2. ~UrlPosted
  BY <1>1 DEF UrlPosted
<1>3. ~eof /\ Posted /\ phase' = "parts" => \E i, o \in Nat : Reading(i, o)' /\ Content(i, o)'
  BY <1>1 DEF CInv, PartsRead
<1> QED  BY <1>1, <1>2, <1>3, ScriptContent

LEMMA ContentLoop ==
    ASSUME TInv, SInv, CInv, EndOfPart \/ ReadHeader \/ ReadText \/ ReadFile
    PROVE  CInv'
<1>1. Getline /\ phase' = "parts"
  <2>1. Getline /\ phase' = phase
    BY DEF EndOfPart, ReadHeader, ReadText, ReadFile
  <2> QED  BY <2>1 DEF Getline
<1>2. ASSUME NEW i \in Nat, NEW o \in Nat, Reading(i, o), Content(i, o)
      PROVE  \E k, l \in Nat : Reading(k, l)' /\ Content(k, l)'
  <2>1. i + 1 \in Nat /\ o + 1 \in Nat /\ 0 \in Nat
    OBVIOUS
  <2>2. CASE EndOfPart
    <3>1. Reading(i + 1, 0)' /\ Content(i + 1, 0)'
      BY <1>2, <2>2, ReadingEndOfPart, ContentEndOfPart
    <3> QED  BY <2>1, <3>1
  <2>3. CASE ReadHeader
    <3>1. Reading(i, o + 1)' /\ Content(i, o + 1)'
      BY <1>2, <2>3, ReadingHeader, ContentHeader
    <3> QED  BY <2>1, <3>1
  <2>4. CASE ReadText
    <3>1. Reading(i, o + 1)' /\ Content(i, o + 1)'
      BY <1>2, <2>4, ReadingText, ContentText
    <3> QED  BY <2>1, <3>1
  <2>5. CASE ReadFile
    <3>1. Reading(i, o + 1)' /\ Content(i, o + 1)'
      BY <1>2, <2>5, ReadingFile, ContentFile
    <3> QED  BY <2>1, <3>1
  <2> QED  BY <2>2, <2>3, <2>4, <2>5
<1> QED  BY <1>1, <1>2, LoopContent

LEMMA ContentHeadersEnd == ASSUME TInv, SInv, CInv, EndOfHeaders  PROVE CInv'
<1>1. Getline /\ phase' \in {"parts", "failed"}
  BY GetlineIs DEF EndOfHeaders, Getline
<1>2. ASSUME NEW i \in Nat, NEW o \in Nat, Reading(i, o), Content(i, o), phase' = "parts"
      PROVE  \E k, l \in Nat : Reading(k, l)' /\ Content(k, l)'
  <2>1. Reading(i, o + 1)' /\ Content(i, o + 1)'
    BY <1>2, ReadingEndOfHeaders, ContentEndOfHeaders
  <2>2. o + 1 \in Nat
    OBVIOUS
  <2> QED  BY <2>1, <2>2
<1> QED  BY <1>1, <1>2, LoopContent

LEMMA ContentEndOfForm == ASSUME TInv, SInv, CInv, EndOfForm  PROVE CInv'
<1>1. /\ phase = "parts" /\ phase' = "loaded" /\ UNCHANGED <<server, store, disk>>
      /\ form' = form /\ form \in Forms /\ form.encoding = "multipart"
      /\ ~eof => total_bytes >= post_content_length
  BY DEF EndOfForm, server, loading, files, TInv, TypeOK, Phases
<1>2. ASSUME ~eof, Posted, NEW j \in DOMAIN form.fields  PROVE Kept(j)'
  <2>1. PICK i \in Nat, o \in Nat : Reading(i, o) /\ Content(i, o)
    BY <1>1, <1>2 DEF CInv, PartsRead
  <2>2. i = Len(form.fields)
    BY <1>1, <1>2, <2>1, AtEnd DEF Posted, Reading
  <2>3. j \in 1..i
    BY <1>1, <2>2, FormIs
  <2>4. Kept(j)
    BY <2>1, <2>3 DEF Content
  <2> QED  BY <1>1, <2>4, SameKept
<1>3. ~UrlPosted
  BY <1>1 DEF UrlPosted
<1> QED  BY <1>1, <1>2, <1>3, ScriptContent

LEMMA ContentExit ==
    ASSUME CInv, NEW no_cleanup \in BOOLEAN, exit(no_cleanup)
    PROVE  CInv'
<1>1. phase' \in {"kept", "exited"} /\ UNCHANGED <<server, stdin>>
  BY DEF exit
<1> QED  BY <1>1, ScriptContent

LEMMA ContentStutter == ASSUME CInv, UNCHANGED vars  PROVE CInv'
<1>1. UNCHANGED <<form, written, stdin, eof, phase, total_bytes, part, store, disk>>
      /\ UNCHANGED server
  BY DEF vars, loading, files, server
<1>2. phase' \in {"starting", "first line"} => post_values' = NoFiles
  BY <1>1 DEF CInv, Fresh, store
<1>3. ~eof /\ Posted /\ phase' = "parts" => \E i, o \in Nat : Reading(i, o)' /\ Content(i, o)'
  BY <1>1, SamePlace DEF CInv, PartsRead
<1>4. /\ ~eof /\ Posted /\ phase' = "loaded" => \A j \in DOMAIN form.fields : Kept(j)'
      /\ ~eof /\ UrlPosted /\ phase' = "loaded" /\ Len(Body(form)) <= PipeSize =>
            \A j \in DOMAIN form.fields : Understood(j)'
  BY <1>1, SameKept DEF CInv, PartsKept, PairsKept
<1> QED  BY <1>1, <1>2, <1>3, <1>4, ScriptContent

LEMMA ContentNext == TInv /\ SInv /\ CInv /\ [Next]_vars => CInv'
<1>1. ASSUME TInv, SInv, CInv, Script  PROVE CInv'
  BY <1>1, ContentInitialize, ContentLoadUrl, ContentReadSeparator, ContentLoop,
     ContentHeadersEnd, ContentEndOfForm, ContentExit
  DEF Script, Load
<1> QED  BY <1>1, ContentStarted, ContentDies, ContentKill, ContentStutter DEF Next

(* A field of a form as it was sent, from what the script knows of it.     *)
LEMMA UniqueIs ==
    ASSUME NEW i
    PROVE  /\ Unique(i, NameOf) => Alone(i)
           /\ form.fields[i].kind = "file" /\ Unique(i, FilenameOf) => OneFile(i)
  BY DEF Unique, NameOf, FilenameOf, Alone, OneFile, FileOf

LEMMA NotInSet ==
    ASSUME NEW text \in Text, NEW c
    PROVE  /\ c \notin ToSet(text) => \A n \in 1..Len(text) : text[n] # c
           /\ ToSet(text) \subseteq Digits \cup Letters => Plain(text)
<1>1. DOMAIN text = 1..Len(text)
  BY LenProperties DEF Text
<1>2. ToSet(text) = {text[i] : i \in 1..Len(text)}
  BY <1>1 DEF ToSet
<1> QED  BY <1>2 DEF Plain

LEMMA PartsAsSent ==
    ASSUME TInv, SInv, CInv, phase = "loaded", ~eof, Posted,
           NEW i \in DOMAIN form.fields, Unique(i, NameOf)
    PROVE  LET f == form.fields[i] IN
           /\ f.name \in DOMAIN post_values
           /\ post_filenames[f.name] = (f.kind = "file")
           /\ f.kind = "file" =>
                 /\ post_values[f.name] = f.filename
                 /\ Unique(i, FilenameOf) => disk[f.filename] = f.content
           /\ f.kind # "file" /\ 0 \notin ToSet(f.content) =>
                 /\ Visible(post_values[f.name]) = Visible(f.content)
                 /\ LF \notin ToSet(f.content) => post_values[f.name] = Simplified(f.content)
<1> DEFINE f == form.fields[i]
<1>1. form \in Forms /\ DOMAIN post_filenames = DOMAIN post_values
  BY DEF TInv, TypeOK
<1>2. i \in 1..Len(form.fields) /\ f \in Field
  BY <1>1, FormIs
<1>3. f.kind \in {"text", "file"} /\ f.content \in Text
  BY <1>2 DEF Field
<1>4. Alone(i) /\ (f.kind = "file" /\ Unique(i, FilenameOf) => OneFile(i))
  BY UniqueIs
<1>5. Noted(i)
  BY <1>2 DEF SInv, Progress, Processed
<1>6. Kept(i)
  BY DEF CInv, PartsKept
<1>7. /\ 0 \notin ToSet(f.content) => Clean(f)
      /\ LF \notin ToSet(f.content) => OneLine(f)
  BY <1>3, NotInSet DEF Clean, OneLine
<1>8. /\ f.name \in DOMAIN post_values
      /\ f.kind = "file" => post_filenames[f.name] = TRUE /\ post_values[f.name] = f.filename
      /\ f.kind # "file" => post_filenames[f.name] = FALSE
  BY <1>1, <1>4, <1>5 DEF Noted
<1>9. /\ f.kind = "file" /\ Unique(i, FilenameOf) => disk[f.filename] = f.content
      /\ f.kind # "file" /\ Clean(f) =>
           /\ Visible(post_values[f.name]) = Visible(f.content)
           /\ OneLine(f) => post_values[f.name] = Simplified(f.content)
  BY <1>3, <1>4, <1>6 DEF Kept
<1> HIDE DEF f
<1>10. post_filenames[f.name] = (f.kind = "file")
  BY <1>8
<1> QED  BY <1>7, <1>8, <1>9, <1>10 DEF f

LEMMA PairsAsSent ==
    ASSUME TInv, CInv, phase = "loaded", ~eof, UrlPosted, Len(Body(form)) <= PipeSize,
           NEW i \in DOMAIN form.fields, Unique(i, NameOf),
           ToSet(form.fields[i].name) \subseteq Digits \cup Letters
    PROVE  LET f == form.fields[i] IN
           /\ f.name \in DOMAIN post_values
           /\ f.kind = "text" /\ post_filenames[f.name] = FALSE
           /\ post_values[f.name] = f.content
<1>1. form \in Forms /\ form.encoding = "url"
  BY DEF TInv, TypeOK, UrlPosted
<1>2. i \in 1..Len(form.fields) /\ form.fields[i] \in Field
  BY <1>1, FormIs
<1>3. form.fields[i].kind = "text"
  BY <1>1, UrlAssumption
<1>4. form.fields[i].name \in Text
  BY <1>2 DEF Field
<1>5. Alone(i) /\ Plain(form.fields[i].name)
  BY <1>4, UniqueIs, NotInSet
<1>6. Understood(i)
  BY DEF CInv, PairsKept
<1> QED  BY <1>3, <1>5, <1>6 DEF Understood

LEMMA AsSent == TInv /\ SInv /\ CInv => FormAsSent
<1> SUFFICES ASSUME TInv, SInv, CInv, phase = "loaded", ~eof, form.method = "POST",
                    form.encoding # "other",
                    form.encoding = "url" => Len(Body(form)) <= PipeSize,
                    NEW i \in DOMAIN form.fields, Unique(i, NameOf),
                    form.encoding = "url" =>
                       ToSet(form.fields[i].name) \subseteq Digits \cup Letters
             PROVE  LET f == form.fields[i] IN
                    /\ f.name \in DOMAIN post_values
                    /\ post_filenames[f.name] = (f.kind = "file")
                    /\ CASE f.kind = "file" ->
                              /\ post_values[f.name] = f.filename
                              /\ Unique(i, FilenameOf) => disk[f.filename] = f.content
                         [] f.kind = "text" /\ form.encoding = "url" ->
                              post_values[f.name] = f.content
                         [] OTHER ->
                              0 \notin ToSet(f.content) =>
                              /\ Visible(post_values[f.name]) = Visible(f.content)
                              /\ LF \notin ToSet(f.content) =>
                                    post_values[f.name] = Simplified(f.content)
  BY DEF FormAsSent
<1> DEFINE f == form.fields[i]
           unique == Unique(i, FilenameOf)
           seen == Visible(post_values[f.name]) = Visible(f.content)
           simple == post_values[f.name] = Simplified(f.content)
<1>1. form.encoding \in {"url", "multipart"}
  BY FormIs DEF TInv, TypeOK
<1>2. CASE form.encoding = "url"
  <2>1. /\ f.name \in DOMAIN post_values
        /\ f.kind = "text" /\ post_filenames[f.name] = FALSE
        /\ post_values[f.name] = f.content
    BY <1>2, PairsAsSent DEF UrlPosted
  <2> HIDE DEF f, unique, seen, simple
  <2>2. /\ f.name \in DOMAIN post_values
        /\ post_filenames[f.name] = (f.kind = "file")
        /\ f.kind = "text" /\ post_values[f.name] = f.content
    BY <2>1
  <2> QED  BY <1>2, <2>2 DEF f
<1>3. CASE form.encoding = "multipart"
  <2>1. /\ f.name \in DOMAIN post_values
        /\ post_filenames[f.name] = (f.kind = "file")
        /\ f.kind = "file" =>
              /\ post_values[f.name] = f.filename
              /\ unique => disk[f.filename] = f.content
        /\ f.kind # "file" /\ 0 \notin ToSet(f.content) =>
              /\ seen
              /\ LF \notin ToSet(f.content) => simple
    BY <1>3, PartsAsSent DEF Posted
  <2>2. CASE f.kind = "file"
    BY <2>1, <2>2
  <2>3. CASE f.kind # "file"
    BY <1>3, <2>1, <2>3
  <2> QED  BY <2>2, <2>3
<1> QED  BY <1>1, <1>2, <1>3

(* A script that has loaded a form has each field of it as it was entered: *)
(* a file byte for byte, a text of a URL-encoded form also, and of a text  *)
(* in a multipart form every visible character (LoadUrlEncoding(),         *)
(* UrlDecode(), LoadMultipartEncoding()); with the exceptions that         *)
(* FormAsSent names.                                                       *)
THEOREM FormArrives == Spec => []FormAsSent
  BY AsSent, TypeInit, TypeNext, StructureInit, StructureNext, ContentInit, ContentNext, PTL
  DEF Spec
=============================================================================
