--------------------------- MODULE UserFile_proof ---------------------------
(***************************************************************************)
(* Proofs about UserFile, for every set of users and passwords, every      *)
(* bound on the sections and every collection of initial files: what the   *)
(* commands write says what it should, and the service has the users of    *)
(* the file.  What DeleteUser2() writes is defined by recursion; what it   *)
(* says follows by induction over the sections read.                       *)
(***************************************************************************)
EXTENDS UserFile, SequenceTheorems, WellFoundedInduction, TLAPS

-----------------------------------------------------------------------------
(* Induction over the numbers, for a set of them. *)
LEMMA NatSetInduction ==
    ASSUME NEW T, 0 \in T, \A n \in Nat : n \in T => n + 1 \in T
    PROVE  Nat \subseteq T
<1> DEFINE R == OpToRel(<, Nat)
           Rest == {n \in Nat : n \notin T}
<1>1. IsWellFoundedOn(R, Nat)
  BY NatLessThanWellFounded
<1>2. SUFFICES ASSUME Rest # {}  PROVE FALSE
  OBVIOUS
<1>3. Rest \subseteq Nat
  OBVIOUS
<1> HIDE DEF Rest, R
<1>4. PICK x \in Rest : \A y \in Rest : ~ (<<y, x>> \in R)
  BY <1>1, <1>2, <1>3, WFMin
<1>5. x \in Nat /\ x # 0 /\ x \notin T
  BY <1>4 DEF Rest
<1>6. x - 1 \in Nat /\ (x - 1) + 1 = x /\ x - 1 < x
  BY <1>5
<1>7. x - 1 \notin Rest
  BY <1>4, <1>5, <1>6 DEF R, OpToRel
<1>8. x - 1 \in T
  BY <1>6, <1>7 DEF Rest
<1> QED  BY <1>5, <1>6, <1>8

(* What a file is made of. *)
LEMMA FileIs ==
    ASSUME NEW f \in Files
    PROVE  /\ DOMAIN f \subseteq 1..MaxSections
           /\ \A i \in DOMAIN f : f[i] \in Section
  BY DEF Files

LEMMA IsFile ==
    ASSUME NEW n \in 0..MaxSections, NEW f \in [1..n -> Section]
    PROVE  f \in Files
<1>1. 1..n \in SUBSET (1..MaxSections)
  BY MaxSectionsAssumption
<1>2. [1..n -> Section] \in {[D -> Section] : D \in SUBSET (1..MaxSections)}
  BY <1>1
<1> QED
  BY <1>2 DEF Files

(* The sections of a file that are found are there. *)
LEMMA CountIs ==
    ASSUME NEW f \in Files
    PROVE  /\ Count(f) \in 0..MaxSections
           /\ 1..Count(f) \subseteq DOMAIN f
           /\ \A i \in 1..Count(f) : f[i] \in Section
<1> DEFINE T == {n \in Nat : 1..n \subseteq DOMAIN f}
<1>0. MaxSections \in Nat
  BY MaxSectionsAssumption
<1>1. \E n \in 0..MaxSections : 1..n \subseteq DOMAIN f /\ n + 1 \notin DOMAIN f
  <2> SUFFICES ASSUME \A n \in 0..MaxSections : 1..n \subseteq DOMAIN f => n + 1 \in DOMAIN f
               PROVE  FALSE
    OBVIOUS
  <2>1. 0 \in T
    OBVIOUS
  <2>2. ASSUME NEW n \in Nat, n \in T  PROVE n + 1 \in T
    <3>1. 1..n \subseteq 1..MaxSections
      BY <2>2, FileIs
    <3>2. n <= MaxSections
      <4>1. CASE n = 0
        BY <4>1, <1>0
      <4>2. CASE n # 0
        <5>1. n \in 1..n
          BY <4>2
        <5> QED  BY <5>1, <3>1
      <4> QED  BY <4>1, <4>2
    <3>3. n + 1 \in DOMAIN f
      BY <2>2, <3>2, <1>0
    <3>4. 1..(n + 1) = 1..n \cup {n + 1}
      OBVIOUS
    <3> QED  BY <2>2, <3>3, <3>4
  <2> HIDE DEF T
  <2>3. MaxSections + 1 \in T
    BY <2>1, <2>2, <1>0, NatSetInduction
  <2>4. MaxSections + 1 \in 1..(MaxSections + 1)
    BY <1>0
  <2>5. MaxSections + 1 \in 1..MaxSections
    BY <2>3, <2>4, FileIs DEF T
  <2> QED  BY <2>5, <1>0
<1>2. Count(f) \in 0..MaxSections /\ 1..Count(f) \subseteq DOMAIN f
  BY <1>1 DEF Count
<1> QED  BY <1>2, FileIs

-----------------------------------------------------------------------------
(* The last of the first n sections that are the user's has the password.  *)
Says(s, n, u, p) ==
    \E j \in 1..n : /\ s[j].user = u /\ s[j].passwd = p
                    /\ \A m \in (j + 1)..n : s[m].user # u

LEMMA SaysOnePassword ==
    ASSUME NEW s, NEW n \in Nat, NEW u, NEW p, NEW q, Says(s, n, u, p), Says(s, n, u, q)
    PROVE  p = q
<1>1. PICK i \in 1..n : s[i].user = u /\ s[i].passwd = p /\ \A m \in (i + 1)..n : s[m].user # u
  BY DEF Says
<1>2. PICK j \in 1..n : s[j].user = u /\ s[j].passwd = q /\ \A m \in (j + 1)..n : s[m].user # u
  BY DEF Says
<1>3. ~(i < j) /\ ~(j < i)
  BY <1>1, <1>2
<1>4. i = j
  BY <1>3
<1> QED  BY <1>1, <1>2, <1>4

LEMMA SaysNothing ==
    ASSUME NEW s, NEW u, NEW p
    PROVE  ~Says(s, 0, u, p)
  BY DEF Says

LEMMA SaysNext ==
    \A s, u, p : \A n \in Nat :
      /\ s[n + 1].user = u /\ s[n + 1].passwd = p => Says(s, n + 1, u, p)
      /\ s[n + 1].user = u /\ Says(s, n + 1, u, p) => s[n + 1].passwd = p
      /\ s[n + 1].user # u /\ Says(s, n, u, p) => Says(s, n + 1, u, p)
      /\ s[n + 1].user # u /\ Says(s, n + 1, u, p) => Says(s, n, u, p)
<1> TAKE s, u, p
<1> TAKE n \in Nat
<1>1. CASE s[n + 1].user = u
  <2>1. ASSUME s[n + 1].passwd = p  PROVE Says(s, n + 1, u, p)
    <3>1. n + 1 \in 1..(n + 1) /\ ((n + 1) + 1)..(n + 1) = {}
      OBVIOUS
    <3> QED  BY <1>1, <2>1, <3>1 DEF Says
  <2>2. ASSUME Says(s, n + 1, u, p)  PROVE s[n + 1].passwd = p
    <3>1. PICK j \in 1..(n + 1) : /\ s[j].user = u /\ s[j].passwd = p
                                  /\ \A m \in (j + 1)..(n + 1) : s[m].user # u
      BY <2>2 DEF Says
    <3>2. j = n + 1
      BY <1>1, <3>1
    <3> QED  BY <3>1, <3>2
  <2> QED  BY <1>1, <2>1, <2>2
<1>2. CASE s[n + 1].user # u
  <2>1. ASSUME Says(s, n, u, p)  PROVE Says(s, n + 1, u, p)
    <3>1. PICK j \in 1..n : /\ s[j].user = u /\ s[j].passwd = p
                            /\ \A m \in (j + 1)..n : s[m].user # u
      BY <2>1 DEF Says
    <3>2. j \in 1..(n + 1) /\ \A m \in (j + 1)..(n + 1) : s[m].user # u
      BY <1>2, <3>1
    <3> QED  BY <3>1, <3>2 DEF Says
  <2>2. ASSUME Says(s, n + 1, u, p)  PROVE Says(s, n, u, p)
    <3>1. PICK j \in 1..(n + 1) : /\ s[j].user = u /\ s[j].passwd = p
                                  /\ \A m \in (j + 1)..(n + 1) : s[m].user # u
      BY <2>2 DEF Says
    <3>2. j \in 1..n /\ \A m \in (j + 1)..n : s[m].user # u
      BY <1>2, <3>1
    <3> QED  BY <3>1, <3>2 DEF Says
  <2> QED  BY <1>2, <2>1, <2>2
<1> QED  BY <1>1, <1>2

LEMMA SaysAgree ==
    ASSUME NEW s, NEW t, NEW n \in Nat, \A i \in 1..n : s[i] = t[i], NEW u, NEW p
    PROVE  Says(s, n, u, p) <=> Says(t, n, u, p)
<1>1. \A j \in 1..n : \A m \in (j + 1)..n : m \in 1..n
  OBVIOUS
<1> QED  BY <1>1 DEF Says

(* A user that is named has a last section. *)
LEMMA NamedSays ==
    ASSUME NEW s, NEW u, NEW n \in Nat, NEW i \in 1..n, s[i].user = u
    PROVE  \E p : Says(s, n, u, p)
<1> DEFINE T == {m \in Nat : (\E k \in 1..m : s[k].user = u) => \E p : Says(s, m, u, p)}
<1>1. 0 \in T
  OBVIOUS
<1>2. ASSUME NEW m \in Nat, m \in T  PROVE m + 1 \in T
  <2> SUFFICES ASSUME NEW k \in 1..(m + 1), s[k].user = u
               PROVE  \E p : Says(s, m + 1, u, p)
    OBVIOUS
  <2>1. CASE s[m + 1].user = u
    <3>1. Says(s, m + 1, u, s[m + 1].passwd)
      BY <2>1, SaysNext
    <3> QED  BY <3>1
  <2>2. CASE s[m + 1].user # u
    <3>1. k \in 1..m
      BY <2>2
    <3>2. PICK p : Says(s, m, u, p)
      BY <1>2, <3>1
    <3>3. Says(s, m + 1, u, p)
      BY <2>2, <3>2, SaysNext
    <3> QED  BY <3>3
  <2> QED  BY <2>1, <2>2
<1> HIDE DEF T
<1>3. n \in T
  BY <1>1, <1>2, NatSetInduction
<1> QED  BY <1>3 DEF T

(* What is loaded from a file is what it says. *)
LEMMA LoadedSays ==
    ASSUME NEW f, Count(f) \in Nat
    PROVE  /\ \A u : u \in DOMAIN Loaded(f) <=> \E p : Says(f, Count(f), u, p)
           /\ \A u \in DOMAIN Loaded(f) : Says(f, Count(f), u, Loaded(f)[u])
<1> DEFINE n == Count(f)
           named(u) == {i \in 1..n : f[i].user = u}
           last(u) == CHOOSE i \in named(u) : \A j \in named(u) : j <= i
<1>1. Loaded(f) = [u \in {f[i].user : i \in 1..n} |-> f[last(u)].passwd]
  BY DEF Loaded
<1> HIDE DEF n
<1>2. n \in Nat
  BY DEF n
<1>3. ASSUME NEW u  PROVE  (\E i \in 1..n : f[i].user = u) <=> \E p : Says(f, n, u, p)
  <2>1. ASSUME NEW i \in 1..n, f[i].user = u  PROVE \E p : Says(f, n, u, p)
    BY <1>2, <2>1, NamedSays
  <2>2. ASSUME NEW p, Says(f, n, u, p)  PROVE \E i \in 1..n : f[i].user = u
    BY <2>2 DEF Says
  <2> QED  BY <2>1, <2>2
<1>4. ASSUME NEW u, \E p : Says(f, n, u, p)  PROVE Says(f, n, u, f[last(u)].passwd)
  <2>1. PICK p : Says(f, n, u, p)
    BY <1>4
  <2>2. PICK j \in 1..n : /\ f[j].user = u /\ f[j].passwd = p
                          /\ \A m \in (j + 1)..n : f[m].user # u
    BY <2>1 DEF Says
  <2>3. j \in named(u) /\ \A i \in named(u) : i <= j
    BY <1>2, <2>2
  <2>4. last(u) \in named(u) /\ \A i \in named(u) : i <= last(u)
    BY <2>3
  <2>5. last(u) = j
    BY <1>2, <2>3, <2>4
  <2> HIDE DEF last
  <2> QED  BY <2>1, <2>2, <2>5
<1> HIDE DEF last
<1> QED  BY <1>1, <1>3, <1>4 DEF n

LEMMA LoadedIsFunction ==
    ASSUME NEW f
    PROVE  Loaded(f) = [u \in DOMAIN Loaded(f) |-> Loaded(f)[u]]
BY DEF Loaded

LEMMA LoadedIs ==
    ASSUME NEW f, Count(f) \in Nat, NEW users, users = [u \in DOMAIN users |-> users[u]],
           \A u : u \in DOMAIN users <=> \E p : Says(f, Count(f), u, p),
           \A u \in DOMAIN users : Says(f, Count(f), u, users[u])
    PROVE  Loaded(f) = users
<1>1. DOMAIN Loaded(f) = DOMAIN users
  BY LoadedSays
<1>2. \A u \in DOMAIN users : Loaded(f)[u] = users[u]
  BY <1>1, LoadedSays, SaysOnePassword
<1> QED  BY <1>1, <1>2, LoadedIsFunction

-----------------------------------------------------------------------------
(* A file without a gap has as many sections as it has lines.              *)
LEMMA CountOfListing ==
    ASSUME NEW n \in 0..MaxSections, NEW f, DOMAIN f = 1..n
    PROVE  Count(f) = n
<1>1. MaxSections \in Nat
  BY MaxSectionsAssumption
<1>2. 1..n \subseteq DOMAIN f /\ n + 1 \notin DOMAIN f
  BY <1>1
<1>3. \A m \in 0..MaxSections :
        1..m \subseteq DOMAIN f /\ m + 1 \notin DOMAIN f => m = n
  <2> SUFFICES ASSUME NEW m \in 0..MaxSections, 1..m \subseteq 1..n, m + 1 \notin 1..n
               PROVE  m = n
    OBVIOUS
  <2>1. m <= n
    <3>1. CASE m = 0
      BY <3>1, <1>1
    <3>2. CASE m # 0
      <4>1. m \in 1..m
        BY <3>2, <1>1
      <4> QED
        BY <4>1, <1>1
    <3> QED
      BY <3>1, <3>2
  <2>2. ~(m < n)
    BY <1>1
  <2> QED
    BY <2>1, <2>2, <1>1
<1> QED
  BY <1>2, <1>3 DEF Count

(* A sequence of sections that is not too long is a file. *)
LEMMA SeqIsFile ==
    ASSUME NEW s \in Seq(Section), Len(s) <= MaxSections
    PROVE  s \in Files /\ Count(s) = Len(s)
<1>1. Len(s) \in 0..MaxSections /\ s \in [1..Len(s) -> Section] /\ DOMAIN s = 1..Len(s)
  BY MaxSectionsAssumption
<1> QED  BY <1>1, IsFile, CountOfListing

-----------------------------------------------------------------------------
(* DeleteUser2(): the sections that it writes after n sections were read.  *)
Copies(kept, f, user, n) ==
    kept = [i \in 0..n |-> IF i = 0 THEN <<>>
                           ELSE IF f[i].user = user THEN kept[i - 1]
                           ELSE Append(kept[i - 1], f[i])]

LEMMA CopiesExist ==
    \A f, user : \A n \in Nat : \E kept : Copies(kept, f, user, n)
<1> TAKE f, user
<1> DEFINE T == {n \in Nat : \E kept : Copies(kept, f, user, n)}
<1>1. 0 \in T
  <2> DEFINE kept == [i \in 0..0 |-> <<>>]
  <2>1. kept = [i \in 0..0 |-> IF i = 0 THEN <<>>
                               ELSE IF f[i].user = user THEN kept[i - 1]
                               ELSE Append(kept[i - 1], f[i])]
    OBVIOUS
  <2> HIDE DEF kept
  <2> QED  BY <2>1 DEF Copies
<1>2. ASSUME NEW n \in Nat, n \in T  PROVE n + 1 \in T
  <2>1. PICK old : Copies(old, f, user, n)
    BY <1>2
  <2> DEFINE last == IF f[n + 1].user = user THEN old[n] ELSE Append(old[n], f[n + 1])
             kept == [i \in 0..(n + 1) |-> IF i = n + 1 THEN last ELSE old[i]]
  <2>2. \A i \in 0..n : kept[i] = old[i]
    OBVIOUS
  <2>3. kept[n + 1] = last /\ (n + 1) - 1 = n /\ n + 1 # 0
    OBVIOUS
  <2>4. ASSUME NEW i \in 0..(n + 1)
        PROVE  kept[i] = IF i = 0 THEN <<>>
                         ELSE IF f[i].user = user THEN kept[i - 1]
                         ELSE Append(kept[i - 1], f[i])
    <3>1. CASE i = n + 1
      <4>1. kept[n] = old[n]
        BY <2>2
      <4> HIDE DEF kept
      <4> QED  BY <3>1, <2>3, <4>1
    <3>2. CASE i # n + 1
      <4>1. i \in 0..n /\ (i # 0 => i - 1 \in 0..n)
        BY <3>2
      <4>2. old[i] = IF i = 0 THEN <<>>
                     ELSE IF f[i].user = user THEN old[i - 1]
                     ELSE Append(old[i - 1], f[i])
        BY <2>1, <4>1 DEF Copies
      <4>3. kept[i] = old[i] /\ (i # 0 => kept[i - 1] = old[i - 1])
        BY <2>2, <4>1
      <4> HIDE DEF kept
      <4> QED  BY <4>2, <4>3
    <3> QED  BY <3>1, <3>2
  <2>5. Copies(kept, f, user, n + 1)
    <3>1. kept = [i \in 0..(n + 1) |-> kept[i]]
      OBVIOUS
    <3> HIDE DEF kept
    <3> QED  BY <2>4, <3>1 DEF Copies
  <2> QED  BY <2>5
<1> HIDE DEF T
<1>3. Nat \subseteq T
  BY <1>1, <1>2, NatSetInduction
<1> QED  BY <1>3 DEF T

LEMMA DeletedCopies ==
    ASSUME NEW f, NEW user, Count(f) \in Nat
    PROVE  \E kept : Copies(kept, f, user, Count(f)) /\ Deleted(f, user) = kept[Count(f)]
<1> DEFINE kept == CHOOSE k : k = [i \in 0..Count(f) |->
                                     IF i = 0 THEN <<>>
                                     ELSE IF f[i].user = user THEN k[i - 1]
                                     ELSE Append(k[i - 1], f[i])]
<1>1. Deleted(f, user) = kept[Count(f)]
  BY DEF Deleted
<1>2. \E k : k = [i \in 0..Count(f) |->
                                     IF i = 0 THEN <<>>
                                     ELSE IF f[i].user = user THEN k[i - 1]
                                     ELSE Append(k[i - 1], f[i])]
  <2>1. PICK k : Copies(k, f, user, Count(f))
    BY CopiesExist
  <2> HIDE DEF kept
  <2> QED  BY <2>1 DEF Copies
<1>3. kept = [i \in 0..Count(f) |-> IF i = 0 THEN <<>>
                                    ELSE IF f[i].user = user THEN kept[i - 1]
                                    ELSE Append(kept[i - 1], f[i])]
  BY <1>2
<1> HIDE DEF kept
<1> QED  BY <1>1, <1>3 DEF Copies

(* What it has written says of the other users what was read of them.      *)
LEMMA AppendSays ==
    ASSUME NEW s \in Seq(Section), NEW e \in Section
    PROVE  /\ Append(s, e) \in Seq(Section) /\ Len(Append(s, e)) = Len(s) + 1
           /\ Append(s, e)[Len(s) + 1] = e
           /\ \A u, p : Says(Append(s, e), Len(s), u, p) <=> Says(s, Len(s), u, p)
<1>1. /\ Append(s, e) \in Seq(Section) /\ Len(Append(s, e)) = Len(s) + 1
      /\ Append(s, e)[Len(s) + 1] = e
      /\ \A i \in 1..Len(s) : Append(s, e)[i] = s[i]
  OBVIOUS
<1>2. Len(s) \in Nat
  OBVIOUS
<1> QED  BY <1>1, <1>2, SaysAgree

KeepsOthers(s, f, user, n) ==
    /\ s \in Seq(Section) /\ Len(s) <= n
    /\ \A u, p : Says(s, Len(s), u, p) => u # user /\ Says(f, n, u, p)
    /\ \A u, p : u # user /\ Says(f, n, u, p) => Says(s, Len(s), u, p)

LEMMA CopyKeepsOthers ==
    ASSUME NEW f, NEW user, NEW n \in Nat, \A i \in 1..n : f[i] \in Section,
           NEW kept, Copies(kept, f, user, n)
    PROVE  KeepsOthers(kept[n], f, user, n)
<1> DEFINE T == {i \in Nat : i <= n => KeepsOthers(kept[i], f, user, i)}
<1>1. 0 \in T
  <2>1. kept[0] = <<>>
    BY DEF Copies
  <2>2. KeepsOthers(<<>>, f, user, 0)
    BY SaysNothing DEF KeepsOthers
  <2> QED  BY <2>1, <2>2
<1>2. ASSUME NEW i \in Nat, i \in T  PROVE i + 1 \in T
  <2> SUFFICES ASSUME i + 1 <= n  PROVE KeepsOthers(kept[i + 1], f, user, i + 1)
    OBVIOUS
  <2>1. KeepsOthers(kept[i], f, user, i)
    BY <1>2
  <2>2. kept[i + 1] = IF f[i + 1].user = user THEN kept[i] ELSE Append(kept[i], f[i + 1])
    <3>1. i + 1 \in 0..n /\ i + 1 # 0 /\ (i + 1) - 1 = i
      OBVIOUS
    <3> QED  BY <3>1 DEF Copies
  <2>3. kept[i] \in Seq(Section) /\ Len(kept[i]) \in Nat /\ Len(kept[i]) <= i
    BY <2>1 DEF KeepsOthers
  <2> HIDE DEF T
  <2>4. CASE f[i + 1].user = user
    <3>1. kept[i + 1] = kept[i]
      BY <2>2, <2>4
    <3>2. \A u, p : Says(kept[i], Len(kept[i]), u, p) => u # user /\ Says(f, i + 1, u, p)
      BY <2>1, <2>4, SaysNext DEF KeepsOthers
    <3>3. \A u, p : u # user /\ Says(f, i + 1, u, p) => Says(kept[i], Len(kept[i]), u, p)
      BY <2>1, <2>4, SaysNext DEF KeepsOthers
    <3>4. Len(kept[i]) <= i + 1
      BY <2>3
    <3> QED  BY <2>3, <3>1, <3>2, <3>3, <3>4 DEF KeepsOthers
  <2>5. CASE f[i + 1].user # user
    <3> DEFINE s == kept[i]
               e == f[i + 1]
               t == Append(s, e)
    <3>1. kept[i + 1] = t
      BY <2>2, <2>5
    <3>2. i + 1 \in 1..n
      OBVIOUS
    <3>3. s \in Seq(Section) /\ e \in Section /\ Len(s) \in Nat
      BY <2>3, <3>2
    <3> HIDE DEF s, e
    <3>4. /\ t \in Seq(Section) /\ Len(t) = Len(s) + 1
          /\ t[Len(s) + 1] = e
          /\ \A u, p : Says(t, Len(s), u, p) <=> Says(s, Len(s), u, p)
      BY <3>3, AppendSays
    <3> HIDE DEF t
    <3>5. ASSUME NEW u, NEW p, Says(t, Len(t), u, p)  PROVE u # user /\ Says(f, i + 1, u, p)
      <4>1. CASE e.user = u
        <5>0. Len(s) \in Nat
          BY <3>3
        <5>1. Says(t, Len(s) + 1, u, e.passwd)
          BY <3>4, <4>1, <5>0, SaysNext
        <5>2. e.passwd = p
          BY <3>4, <3>5, <5>0, <5>1, SaysOnePassword
        <5>3. f[i + 1].user = u /\ f[i + 1].passwd = p => Says(f, i + 1, u, p)
          BY SaysNext
        <5> QED  BY <2>5, <4>1, <5>2, <5>3 DEF e
      <4>2. CASE e.user # u
        <5>1. Says(s, Len(s), u, p)
          BY <3>3, <3>4, <3>5, <4>2, SaysNext
        <5>2. u # user /\ Says(f, i, u, p)
          BY <2>1, <5>1 DEF s, KeepsOthers
        <5> QED  BY <4>2, <5>2, SaysNext DEF e
      <4> QED  BY <4>1, <4>2
    <3>6. ASSUME NEW u, NEW p, u # user, Says(f, i + 1, u, p)  PROVE Says(t, Len(t), u, p)
      <4>1. CASE e.user = u
        <5>1. f[i + 1].user = u /\ Says(f, i + 1, u, p) => f[i + 1].passwd = p
          BY SaysNext
        <5>2. e.passwd = p
          BY <3>6, <4>1, <5>1 DEF e
        <5>0. Len(s) \in Nat
          BY <3>3
        <5>3. t[Len(s) + 1].user = u /\ t[Len(s) + 1].passwd = p => Says(t, Len(s) + 1, u, p)
          BY <5>0, SaysNext
        <5> QED  BY <3>4, <4>1, <5>2, <5>3
      <4>2. CASE e.user # u
        <5>1. Says(f, i, u, p)
          BY <3>6, <4>2, SaysNext DEF e
        <5>2. Says(s, Len(s), u, p)
          BY <2>1, <3>6, <5>1 DEF s, KeepsOthers
        <5> QED  BY <3>3, <3>4, <4>2, <5>2, SaysNext
      <4> QED  BY <4>1, <4>2
    <3>7. Len(t) <= i + 1
      BY <2>3, <3>3, <3>4 DEF s
    <3> QED  BY <3>1, <3>4, <3>5, <3>6, <3>7 DEF KeepsOthers
  <2> QED  BY <2>4, <2>5
<1> HIDE DEF T
<1>3. n \in T
  BY <1>1, <1>2, NatSetInduction
<1> QED  BY <1>3 DEF T

(* DeleteUser2() writes a file that has the other users as they were.      *)
LEMMA DeletedIs ==
    ASSUME NEW f \in Files, NEW user
    PROVE  /\ Deleted(f, user) \in Files
           /\ Loaded(Deleted(f, user)) = [u \in DOMAIN Loaded(f) \ {user} |-> Loaded(f)[u]]
<1> DEFINE s == Deleted(f, user)
           users == [u \in DOMAIN Loaded(f) \ {user} |-> Loaded(f)[u]]
<1>1. Count(f) \in Nat /\ Count(f) <= MaxSections /\ \A i \in 1..Count(f) : f[i] \in Section
  BY CountIs, MaxSectionsAssumption
<1>2. KeepsOthers(s, f, user, Count(f))
  <2>1. PICK kept : Copies(kept, f, user, Count(f)) /\ s = kept[Count(f)]
    BY <1>1, DeletedCopies
  <2> HIDE DEF s
  <2> QED  BY <1>1, <2>1, CopyKeepsOthers
<1> HIDE DEF s
<1>3. s \in Seq(Section) /\ Len(s) \in Nat /\ Len(s) <= Count(f)
  BY <1>2 DEF KeepsOthers
<1>4. s \in Files /\ Count(s) = Len(s)
  BY <1>1, <1>3, SeqIsFile, MaxSectionsAssumption
<1>5. users = [u \in DOMAIN users |-> users[u]] /\ DOMAIN users = DOMAIN Loaded(f) \ {user}
      /\ \A u \in DOMAIN users : users[u] = Loaded(f)[u]
  OBVIOUS
<1> HIDE DEF users
<1>6. ASSUME NEW u  PROVE u \in DOMAIN users <=> \E p : Says(s, Count(s), u, p)
  BY <1>1, <1>2, <1>4, <1>5, LoadedSays DEF KeepsOthers
<1>7. ASSUME NEW u \in DOMAIN users  PROVE Says(s, Count(s), u, users[u])
  BY <1>1, <1>2, <1>4, <1>5, LoadedSays DEF KeepsOthers
<1>8. Loaded(s) = users
  BY <1>3, <1>4, <1>5, <1>6, <1>7, LoadedIs
<1> QED  BY <1>4, <1>8 DEF s, users

(* AddUser2() writes one that has its user with the password besides.      *)
SetsUser(s, f, user, passwd) ==
    /\ \A u, p : u # user /\ Says(s, Len(s), u, p) => Says(f, Count(f), u, p)
    /\ \A u, p : u # user /\ Says(f, Count(f), u, p) => Says(s, Len(s), u, p)
    /\ Says(s, Len(s), user, passwd)

LEMMA AddedSets ==
    ASSUME NEW f \in Files, Count(f) < MaxSections, NEW user \in User, NEW passwd \in Password
    PROVE  LET s == Added(f, user, passwd)
           IN s \in Seq(Section) /\ Len(s) <= MaxSections /\ SetsUser(s, f, user, passwd)
<1> DEFINE n == Count(f)
           kept == [i \in 1..n |->
                      IF f[i].user = user THEN [f[i] EXCEPT !.passwd = passwd] ELSE f[i]]
           e == [user |-> user, passwd |-> passwd]
           t == Append(kept, e)
<1>1. n \in Nat /\ n < MaxSections /\ \A i \in 1..n : f[i] \in Section
  BY CountIs, MaxSectionsAssumption
<1>2. Added(f, user, passwd) = IF \E i \in 1..n : kept[i].user = user THEN kept ELSE t
  BY DEF Added, Sections
<1> HIDE DEF n
<1>3. /\ kept \in Seq(Section) /\ Len(kept) = n
      /\ \A i \in 1..n : f[i].user = user => kept[i] = [f[i] EXCEPT !.passwd = passwd]
      /\ \A i \in 1..n : f[i].user # user => kept[i] = f[i]
  <2>1. \A i \in 1..n : [f[i] EXCEPT !.passwd = passwd] \in Section
    BY <1>1 DEF Section
  <2>2. kept \in [1..n -> Section]
    BY <1>1, <2>1
  <2>3. kept \in Seq(Section) /\ Len(kept) = n
    <3> HIDE DEF kept
    <3> QED  BY <1>1, <2>2
  <2> QED  BY <2>3
<1> HIDE DEF kept
<1>4. \A i \in 1..n : /\ kept[i].user = f[i].user
                      /\ f[i].user = user => kept[i].passwd = passwd
                      /\ f[i].user # user => kept[i].passwd = f[i].passwd
  BY <1>1, <1>3 DEF Section
<1>5. ASSUME NEW u, NEW p, u # user
      PROVE  Says(kept, n, u, p) <=> Says(f, n, u, p)
  BY <1>1, <1>4, <1>5 DEF Says
<1>6. CASE \E i \in 1..n : kept[i].user = user
  <2>1. PICK p : Says(kept, n, user, p)
    BY <1>1, <1>6, NamedSays
  <2>2. p = passwd
    BY <1>1, <1>4, <2>1 DEF Says
  <2>3. SetsUser(kept, f, user, passwd)
    BY <1>3, <1>5, <2>1, <2>2 DEF SetsUser, n
  <2>4. n <= MaxSections
    BY <1>1, MaxSectionsAssumption
  <2>5. Added(f, user, passwd) = kept
    BY <1>2, <1>6
  <2> QED  BY <1>3, <2>3, <2>4, <2>5
<1>7. CASE ~ \E i \in 1..n : kept[i].user = user
  <2>1. e \in Section /\ e.user = user /\ e.passwd = passwd
    BY DEF Section
  <2> HIDE DEF e
  <2>2. /\ t \in Seq(Section) /\ Len(t) = n + 1
        /\ t[n + 1] = e
        /\ \A u, p : Says(t, n, u, p) <=> Says(kept, n, u, p)
    BY <1>3, <2>1, AppendSays
  <2> HIDE DEF t
  <2>3. Says(t, n + 1, user, passwd)
    BY <1>1, <2>1, <2>2, SaysNext
  <2>4. ASSUME NEW u, NEW p, u # user
        PROVE  /\ Says(t, n + 1, u, p) => Says(f, n, u, p)
               /\ Says(f, n, u, p) => Says(t, n + 1, u, p)
    <3>1. t[n + 1].user # u
      BY <2>1, <2>2, <2>4
    <3>2. /\ Says(t, n, u, p) => Says(t, n + 1, u, p)
          /\ Says(t, n + 1, u, p) => Says(t, n, u, p)
      BY <1>1, <3>1, SaysNext
    <3> QED  BY <1>5, <2>2, <2>4, <3>2
  <2>5. SetsUser(t, f, user, passwd)
    BY <2>2, <2>3, <2>4 DEF SetsUser, n
  <2>6. n + 1 <= MaxSections
    BY <1>1, MaxSectionsAssumption
  <2> QED  BY <1>2, <1>7, <2>2, <2>5, <2>6
<1> QED  BY <1>6, <1>7

LEMMA AddedIs ==
    ASSUME NEW f \in Files, Count(f) < MaxSections, NEW user \in User, NEW passwd \in Password
    PROVE  /\ Added(f, user, passwd) \in Files
           /\ Loaded(Added(f, user, passwd))
                = [u \in DOMAIN Loaded(f) \cup {user} |->
                     IF u = user THEN passwd ELSE Loaded(f)[u]]
<1> DEFINE s == Added(f, user, passwd)
           users == [u \in DOMAIN Loaded(f) \cup {user} |->
                       IF u = user THEN passwd ELSE Loaded(f)[u]]
<1>1. s \in Seq(Section) /\ Len(s) <= MaxSections /\ SetsUser(s, f, user, passwd)
  BY AddedSets
<1>2. Count(f) \in Nat
  BY CountIs, MaxSectionsAssumption
<1> HIDE DEF s
<1>3. s \in Files /\ Count(s) = Len(s) /\ Len(s) \in Nat
  BY <1>1, SeqIsFile
<1>4. /\ users = [u \in DOMAIN users |-> users[u]] /\ DOMAIN users = DOMAIN Loaded(f) \cup {user}
      /\ users[user] = passwd
      /\ \A u \in DOMAIN users : u # user => u \in DOMAIN Loaded(f) /\ users[u] = Loaded(f)[u]
  OBVIOUS
<1> HIDE DEF users
<1>5. ASSUME NEW u  PROVE u \in DOMAIN users <=> \E p : Says(s, Count(s), u, p)
  <2>1. CASE u = user
    BY <1>1, <1>3, <1>4, <2>1 DEF SetsUser
  <2>2. CASE u # user
    BY <1>1, <1>2, <1>3, <1>4, <2>2, LoadedSays DEF SetsUser
  <2> QED  BY <2>1, <2>2
<1>6. ASSUME NEW u \in DOMAIN users  PROVE Says(s, Count(s), u, users[u])
  <2>1. CASE u = user
    BY <1>1, <1>3, <1>4, <2>1 DEF SetsUser
  <2>2. CASE u # user
    BY <1>1, <1>2, <1>3, <1>4, <2>2, LoadedSays DEF SetsUser
  <2> QED  BY <2>1, <2>2
<1>7. Loaded(s) = users
  BY <1>3, <1>4, <1>5, <1>6, LoadedIs
<1> QED  BY <1>3, <1>7 DEF s, users

(* What is loaded are users. *)
LEMMA IsUsers ==
    ASSUME NEW users, users = [u \in DOMAIN users |-> users[u]],
           DOMAIN users \subseteq User, \A u \in DOMAIN users : users[u] \in Password
    PROVE  users \in Users
<1>1. users \in [DOMAIN users -> Password]
  OBVIOUS
<1>2. DOMAIN users \in SUBSET User
  OBVIOUS
<1> QED  BY <1>1, <1>2 DEF Users

LEMMA UsersAre ==
    ASSUME NEW users \in Users
    PROVE  /\ users = [u \in DOMAIN users |-> users[u]]
           /\ DOMAIN users \subseteq User
           /\ \A u \in DOMAIN users : users[u] \in Password
  BY DEF Users

LEMMA LoadedAreUsers ==
    ASSUME NEW f \in Files
    PROVE  Loaded(f) \in Users
<1>1. Count(f) \in Nat /\ \A i \in 1..Count(f) : f[i].user \in User /\ f[i].passwd \in Password
  BY CountIs, MaxSectionsAssumption DEF Section
<1>2. ASSUME NEW u \in DOMAIN Loaded(f)  PROVE u \in User /\ Loaded(f)[u] \in Password
  <2>1. Says(f, Count(f), u, Loaded(f)[u])
    BY <1>1, LoadedSays
  <2> QED  BY <1>1, <2>1 DEF Says
<1> QED  BY <1>2, LoadedIsFunction, IsUsers

(* saveUsers() and loadUsers() agree: what one wrote the other reads.      *)
LEMMA LoadedListing ==
    ASSUME NEW users, users = [u \in DOMAIN users |-> users[u]],
           Cardinality(DOMAIN users) \in 0..MaxSections,
           NEW f \in Listings(users)
    PROVE  Loaded(f) = users
<1> DEFINE n == Cardinality(DOMAIN users)
           named(u) == {i \in 1..Count(f) : f[i].user = u}
           last(u) == CHOOSE i \in named(u) : \A j \in named(u) : j <= i
<1>1. /\ f \in [1..n -> Section]
      /\ {f[i].user : i \in DOMAIN f} = DOMAIN users
      /\ \A i, j \in DOMAIN f : f[i].user = f[j].user => i = j
      /\ \A i \in DOMAIN f : f[i].passwd = users[f[i].user]
  BY DEF Listings
<1>2. DOMAIN f = 1..n
  BY <1>1
<1>3. Count(f) = n
  BY <1>2, CountOfListing
<1>4. {f[i].user : i \in 1..Count(f)} = DOMAIN users
  BY <1>1, <1>2, <1>3
<1>5. ASSUME NEW u \in DOMAIN users
      PROVE  f[last(u)].passwd = users[u]
  <2>1. PICK i \in 1..n : f[i].user = u
    BY <1>1, <1>2
  <2>2. named(u) = {i}
    BY <2>1, <1>1, <1>2, <1>3
  <2>3. i <= i
    BY <1>3, MaxSectionsAssumption
  <2>4. last(u) = i
    BY <2>2, <2>3
  <2> QED
    BY <2>1, <2>4, <1>1, <1>2
<1>6. Loaded(f) = [u \in DOMAIN users |-> f[last(u)].passwd]
  BY <1>4 DEF Loaded
<1>7. [u \in DOMAIN users |-> f[last(u)].passwd] = [u \in DOMAIN users |-> users[u]]
  BY <1>5
<1> QED
  BY <1>6, <1>7

-----------------------------------------------------------------------------
(* What a file becomes that is written from its start is a file; an empty  *)
(* one becomes what was written.                                           *)
LEMMA OverwrittenIsFile ==
    ASSUME NEW old \in Files, NEW new \in Files, NEW f \in Overwritten(old, new)
    PROVE  f \in Files
<1>1. PICK n \in 0..MaxSections :
        f = [i \in DOMAIN new \cup {j \in DOMAIN old : j > n} |->
               IF i \in DOMAIN new THEN new[i] ELSE old[i]]
  BY DEF Overwritten
<1> DEFINE D == DOMAIN new \cup {j \in DOMAIN old : j > n}
<1>2. D \in SUBSET (1..MaxSections)
  BY FileIs
<1>3. \A i \in D : (IF i \in DOMAIN new THEN new[i] ELSE old[i]) \in Section
  BY FileIs
<1>4. f \in [D -> Section]
  BY <1>1, <1>3
<1> QED  BY <1>2, <1>4 DEF Files

LEMMA OverwrittenEmpty ==
    ASSUME NEW new, new = [i \in DOMAIN new |-> new[i]], NEW f \in Overwritten(<<>>, new)
    PROVE  f = new
<1>1. DOMAIN <<>> = {}
  OBVIOUS
<1>2. PICK n \in 0..MaxSections :
        f = [i \in DOMAIN new \cup {j \in {} : j > n} |->
               IF i \in DOMAIN new THEN new[i] ELSE <<>>[i]]
  BY <1>1 DEF Overwritten
<1>3. f = [i \in DOMAIN new |-> new[i]]
  BY <1>2
<1> QED  BY <1>3

-----------------------------------------------------------------------------
(* The flags are flags, and the users of the service a function. *)
Flags ==
    /\ hup \in BOOLEAN /\ unheard \in BOOLEAN /\ running \in BOOLEAN /\ unsaved \in BOOLEAN
    /\ exists \in BOOLEAN /\ overlapped \in BOOLEAN
    /\ DOMAIN fd = Program
    /\ http_users = [u \in DOMAIN http_users |-> http_users[u]]

(* The same as ViewIsCurrent for a service in the middle of loadUsers():   *)
(* the file that it has open is the one that has the name.                 *)
SnapshotIsCurrent ==
    service = "loading" /\ ~hup /\ ~unheard /\ handler # "kill"
        => snapshot = file

(* Has the program the backup open? *)
HasOpen(w) == IF w = "webhostd" THEN handler \in {"read", "write"} ELSE saving = "write"

(* Unless two had it in work at one time, the program that has it in work  *)
(* is the only one: the backup is there under its name, and is empty until *)
(* the program closes it.                                                  *)
BackupIsOwn ==
    ~overlapped =>
        /\ ~(Writes("webhostd") /\ Writes("service"))
        /\ \A w \in Program : Writes(w) => exists
        /\ \A w \in Program : HasOpen(w) => fd[w] = "back" /\ back = <<>>

(* A service in the middle of saveUsers() writes its users.                *)
SaveIsExact ==
    /\ saving # "no" => service = "serving" /\ Cardinality(DOMAIN http_users) \in 0..MaxSections
    /\ saving = "rename" /\ ~overlapped => back \in Listings(http_users)

Views == ViewIsCurrent /\ SnapshotIsCurrent

UInv == Flags /\ Views /\ BackupIsOwn /\ SaveIsExact

(* A service that has ended has no view of the file, and writes none. *)
LEMMA EndHolds ==
    ASSUME UInv, ServiceEnds, UNCHANGED <<exists, overlapped, back>>, DOMAIN fd' = Program,
           \/ handler' = handler /\ fd'["webhostd"] = fd["webhostd"]
           \/ handler' = "idle"
    PROVE  UInv'
<1>1. NoUsers = [u \in DOMAIN NoUsers |-> NoUsers[u]]
  BY DEF NoUsers
<1>2. Flags' /\ Views' /\ SaveIsExact'
  BY <1>1 DEF ServiceEnds, UInv, Flags, Views, ViewIsCurrent, SnapshotIsCurrent, SaveIsExact
<1>3. BackupIsOwn'
  BY DEF ServiceEnds, UInv, BackupIsOwn, Writes, HasOpen, Program
<1> QED
  BY <1>2, <1>3 DEF UInv

(* At the start there is none either. *)
LEMMA InitHolds == Init => UInv
<1>1. NoUsers = [u \in DOMAIN NoUsers |-> NoUsers[u]]
  BY DEF NoUsers
<1> QED
  BY <1>1 DEF Init, UInv, Flags, Views, ViewIsCurrent, SnapshotIsCurrent, SaveIsExact,
              BackupIsOwn, Writes, HasOpen, Program

(* A program that closes its backup while no other has it in work leaves   *)
(* the user file alone, and its text in the backup.                        *)
LEMMA CloseOwn ==
    ASSUME UInv, ~overlapped, NEW w \in Program, HasOpen(w), NEW new,
           new = [i \in DOMAIN new |-> new[i]], CloseBack(w, new)
    PROVE  file' = file /\ back' = new /\ exists
<1>1. fd[w] = "back" /\ back = <<>>
  BY DEF UInv, BackupIsOwn
<1>2. back' \in Overwritten(<<>>, new) /\ file' = file
  BY <1>1 DEF CloseBack
<1>3. Writes(w)
  BY DEF HasOpen, Writes
<1> QED  BY <1>2, <1>3, OverwrittenEmpty DEF UInv, BackupIsOwn

(* Whatever is written and renamed, the flags of who has the backup open   *)
(* stay flags.                                                             *)
LEMMA CloseKeepsDomain ==
    ASSUME DOMAIN fd = Program, NEW w, NEW new, CloseBack(w, new) \/ OpenBack(w)
    PROVE  DOMAIN fd' = Program
  BY DEF CloseBack, OpenBack

(* One that opens it knows whether the other has it in work.               *)
LEMMA OpensOverlapped ==
    /\ OpenBack("webhostd") => overlapped' = Writes("service")
    /\ OpenBack("service") => overlapped' = Writes("webhostd")
<1>1. Program \ {"webhostd"} = {"service"} /\ Program \ {"service"} = {"webhostd"}
  BY DEF Program
<1>2. Writes("service") \in BOOLEAN /\ Writes("webhostd") \in BOOLEAN
  BY DEF Writes
<1> QED  BY <1>1, <1>2 DEF OpenBack

LEMMA RenameKeepsDomain ==
    ASSUME RenameBack
    PROVE  DOMAIN fd' = Program
  BY DEF RenameBack

(* The steps of a handler in webhostd keep the invariant.                  *)
LEMMA OpenHolds ==
    ASSUME UInv, ProcessCommand
    PROVE  UInv'
<1>1. /\ handler = "idle" /\ handler' = "read" /\ OpenBack("webhostd")
      /\ UNCHANGED <<file, serviceVars>>
  BY DEF ProcessCommand, Open
<1>2. overlapped' = Writes("service")
  BY <1>1, OpensOverlapped
<1>3. Flags' /\ SaveIsExact'
  BY <1>1, <1>2, CloseKeepsDomain
  DEF UInv, Flags, SaveIsExact, OpenBack, serviceVars, Writes
<1>4. Views'
  BY <1>1 DEF UInv, Views, ViewIsCurrent, SnapshotIsCurrent, serviceVars
<1>5. BackupIsOwn'
  BY <1>1, <1>2 DEF UInv, Flags, BackupIsOwn, OpenBack, Writes, HasOpen, Program, serviceVars
<1> QED
  BY <1>3, <1>4, <1>5 DEF UInv

LEMMA ReadHolds ==
    ASSUME UInv, Read
    PROVE  UInv'
  BY DEF UInv, Read, Flags, Views, ViewIsCurrent, SnapshotIsCurrent, SaveIsExact, BackupIsOwn,
         Writes, HasOpen, serviceVars

LEMMA WriteHolds ==
    ASSUME UInv, Write
    PROVE  UInv'
<1> DEFINE new == IF command.verb = "ADDUSER2"
                  THEN Added(source, command.user, command.passwd)
                  ELSE Deleted(source, command.user)
<1>1. /\ handler = "write" /\ handler' = "rename" /\ CloseBack("webhostd", new)
      /\ unheard' = (unheard \/ fd["webhostd"] = "file")
      /\ UNCHANGED <<exists, overlapped, service, running, snapshot, http_users, unsaved,
                     saving, hup>>
  BY DEF Write
<1> HIDE DEF new
<1>2. Flags'
  BY <1>1, CloseKeepsDomain DEF UInv, Flags
<1>3. fd["webhostd"] # "file" => file' = file
  BY <1>1 DEF CloseBack
<1>4. Views'
  BY <1>1, <1>3 DEF UInv, Flags, Views, ViewIsCurrent, SnapshotIsCurrent
<1>5. BackupIsOwn' /\ SaveIsExact'
  BY <1>1 DEF UInv, BackupIsOwn, SaveIsExact, Writes, HasOpen, Program
<1> QED
  BY <1>2, <1>4, <1>5 DEF UInv

LEMMA RenameHolds ==
    ASSUME UInv, Rename
    PROVE  UInv'
<1>1. /\ handler = "rename" /\ handler' = "kill" /\ RenameBack
      /\ UNCHANGED <<overlapped, serviceVars>>
  BY DEF Rename
<1>2. Flags' /\ Views'
  BY <1>1, RenameKeepsDomain
  DEF UInv, Flags, Views, ViewIsCurrent, SnapshotIsCurrent, RenameBack, serviceVars
<1>3. ~overlapped => saving = "no"
  BY <1>1 DEF UInv, BackupIsOwn, Writes
<1>4. BackupIsOwn' /\ SaveIsExact'
  BY <1>1, <1>3 DEF UInv, BackupIsOwn, SaveIsExact, Writes, HasOpen, Program, serviceVars
<1> QED
  BY <1>2, <1>4 DEF UInv

LEMMA HangUpHolds ==
    ASSUME UInv, HangUp
    PROVE  UInv'
<1>1. UNCHANGED <<file, back, backup>> /\ handler = "kill" /\ handler' = "idle"
  BY DEF HangUp
<1>2. CASE running /\ service = "booting"
  BY <1>1, <1>2, EndHolds DEF HangUp, UInv, Flags, backup
<1>3. CASE ~(running /\ service = "booting")
  <2>1. /\ hup' = (hup \/ (running /\ service # "down"))
        /\ unheard' = (unheard \/ ~running)
        /\ UNCHANGED <<service, running, snapshot, http_users, unsaved, saving>>
    BY <1>3 DEF HangUp
  <2>2. service \in {"serving", "loading"} => hup' \/ unheard'
    BY <2>1 DEF UInv, Flags
  <2>3. Flags'
    BY <1>1, <2>1 DEF UInv, Flags, backup
  <2>4. Views'
    BY <1>1, <2>1, <2>2 DEF UInv, Views, ViewIsCurrent, SnapshotIsCurrent
  <2>5. BackupIsOwn' /\ SaveIsExact'
    BY <1>1, <2>1 DEF UInv, BackupIsOwn, SaveIsExact, Writes, HasOpen, backup
  <2> QED
    BY <2>3, <2>4, <2>5 DEF UInv
<1> QED
  BY <1>2, <1>3

(* So do the steps in which the service comes up and loads its users.      *)
LEMMA BootHolds ==
    ASSUME UInv, Start \/ Execute \/ started \/ BeginLoad
    PROVE  UInv'
<1> USE DEF UInv, Flags, Views, ViewIsCurrent, SnapshotIsCurrent, SaveIsExact, BackupIsOwn,
            Writes, HasOpen, daemonVars, backup
<1>1. CASE Start
  BY <1>1 DEF Start
<1>2. CASE Execute
  BY <1>2 DEF Execute
<1>3. CASE started
  BY <1>3 DEF started
<1>4. CASE BeginLoad
  BY <1>4 DEF BeginLoad
<1> QED
  BY <1>1, <1>2, <1>3, <1>4

LEMMA LoadHolds ==
    ASSUME UInv, loadUsers
    PROVE  UInv'
<1>1. /\ UNCHANGED <<handler, file, back, exists, fd, overlapped>>
      /\ service = "loading" /\ service' = "serving"
      /\ UNCHANGED <<hup, unheard, running, saving>>
      /\ unsaved' = FALSE
      /\ http_users' = Loaded(snapshot)
  BY DEF loadUsers, daemonVars, backup
<1>2. http_users' = [u \in DOMAIN http_users' |-> http_users'[u]]
  BY <1>1, LoadedIsFunction
<1>3. Flags'
  BY <1>1, <1>2 DEF UInv, Flags
<1>4. ~hup' /\ ~unheard' /\ handler' # "kill" => http_users' = Loaded(file)
  BY <1>1 DEF UInv, Views, SnapshotIsCurrent
<1>5. Loaded(file') = Loaded(file)
  BY <1>1
<1>6. Views'
  BY <1>1, <1>4, <1>5 DEF Views, ViewIsCurrent, SnapshotIsCurrent
<1>7. saving' = "no"
  BY <1>1 DEF UInv, SaveIsExact
<1>8. BackupIsOwn' /\ SaveIsExact'
  BY <1>1, <1>7 DEF UInv, BackupIsOwn, SaveIsExact, Writes, HasOpen
<1> QED
  BY <1>3, <1>6, <1>8 DEF UInv

(* So do those in which it changes and saves them.                         *)
LEMMA ChangeHolds ==
    ASSUME UInv, NEW users, users = [u \in DOMAIN users |-> users[u]], Changed(users)
    PROVE  UInv'
  BY DEF Changed, Serving, UInv, Flags, Views, ViewIsCurrent, SnapshotIsCurrent, SaveIsExact,
         BackupIsOwn, Writes, HasOpen, daemonVars, backup

LEMMA SaveOpenHolds ==
    ASSUME UInv, SaveOpen
    PROVE  UInv'
<1>1. /\ service = "serving" /\ saving = "no" /\ saving' = "write" /\ OpenBack("service")
      /\ Cardinality(DOMAIN http_users) \in 0..MaxSections
      /\ UNCHANGED <<handler, file, service, running, unheard, snapshot, http_users, unsaved,
                     hup>>
  BY DEF SaveOpen, Serving
<1>2. overlapped' = Writes("webhostd")
  BY <1>1, OpensOverlapped
<1>3. Flags'
  BY <1>1, <1>2, CloseKeepsDomain DEF UInv, Flags, OpenBack, Writes
<1>4. Views' /\ SaveIsExact'
  BY <1>1 DEF UInv, Views, ViewIsCurrent, SnapshotIsCurrent, SaveIsExact
<1>5. BackupIsOwn'
  BY <1>1, <1>2 DEF UInv, Flags, BackupIsOwn, OpenBack, Writes, HasOpen, Program
<1> QED
  BY <1>3, <1>4, <1>5 DEF UInv

LEMMA SaveWriteHolds ==
    ASSUME UInv, SaveWrite
    PROVE  UInv'
<1>1. PICK listing \in Listings(http_users) : CloseBack("service", listing)
  BY DEF SaveWrite
<1>2. /\ saving = "write" /\ saving' = "rename"
      /\ unsaved' = (unsaved \/ fd["service"] = "file")
      /\ UNCHANGED <<handler, exists, overlapped, service, running, unheard, snapshot,
                     http_users, hup>>
  BY DEF SaveWrite
<1>3. Flags'
  BY <1>1, <1>2, CloseKeepsDomain DEF UInv, Flags
<1>4. fd["service"] # "file" => file' = file
  BY <1>1 DEF CloseBack
<1>5. Views'
  BY <1>2, <1>4 DEF UInv, Flags, Views, ViewIsCurrent, SnapshotIsCurrent, SaveIsExact
<1>6. BackupIsOwn'
  BY <1>2 DEF UInv, BackupIsOwn, Writes, HasOpen, Program
<1>7. listing = [i \in DOMAIN listing |-> listing[i]]
  BY DEF Listings
<1>8. ~overlapped => back' = listing
  BY <1>1, <1>2, <1>7, CloseOwn DEF HasOpen, Program
<1>9. SaveIsExact'
  BY <1>2, <1>8 DEF UInv, SaveIsExact
<1> QED
  BY <1>3, <1>5, <1>6, <1>9 DEF UInv

(* A service that saved its users while nobody else wrote has put them in  *)
(* the file.                                                               *)
LEMMA SavedAreThere ==
    ASSUME UInv, SaveRename, ~overlapped
    PROVE  Loaded(file') = http_users
<1>1. saving = "rename" /\ RenameBack
  BY DEF SaveRename
<1>2. back \in Listings(http_users) /\ Cardinality(DOMAIN http_users) \in 0..MaxSections
  BY <1>1 DEF UInv, SaveIsExact
<1>3. Writes("service") /\ "service" \in Program
  BY <1>1 DEF Writes, Program
<1>4. file' = back
  BY <1>1, <1>3 DEF RenameBack, UInv, BackupIsOwn
<1> QED  BY <1>2, <1>4, LoadedListing DEF UInv, Flags

LEMMA SaveRenameHolds ==
    ASSUME UInv, SaveRename
    PROVE  UInv'
<1>1. /\ saving = "rename" /\ saving' = "no" /\ RenameBack
      /\ unsaved' = overlapped
      /\ UNCHANGED <<handler, overlapped, service, running, unheard, snapshot, http_users, hup>>
  BY DEF SaveRename
<1>2. Flags'
  BY <1>1, RenameKeepsDomain DEF UInv, Flags, RenameBack
<1>3. service' # "loading"
  BY <1>1 DEF UInv, SaveIsExact
<1>4. ~unsaved' => Loaded(file') = http_users'
  BY <1>1, SavedAreThere
<1>5. Views'
  BY <1>3, <1>4 DEF Views, ViewIsCurrent, SnapshotIsCurrent
<1>6. ~overlapped => handler \notin {"read", "write", "rename"}
  BY <1>1 DEF UInv, BackupIsOwn, Writes
<1>7. BackupIsOwn' /\ SaveIsExact'
  BY <1>1, <1>6 DEF UInv, BackupIsOwn, SaveIsExact, Writes, HasOpen, Program
<1> QED
  BY <1>2, <1>5, <1>7 DEF UInv

(* Every step keeps the invariant. *)
LEMMA StepHolds == UInv /\ [Next]_vars => UInv'
<1> SUFFICES ASSUME UInv, [Next]_vars
             PROVE  UInv'
  OBVIOUS
<1>1. CASE Die
  BY <1>1, EndHolds DEF Die, UInv, Flags, Program
<1>2. CASE Crash
  BY <1>2, EndHolds DEF Crash
<1>3. ASSUME NEW user \in User, NEW passwd \in Password, addUser(user, passwd)
      PROVE  UInv'
  BY <1>3, ChangeHolds DEF addUser
<1>4. ASSUME NEW user \in User, removeUser(user)
      PROVE  UInv'
  BY <1>4, ChangeHolds DEF removeUser
<1>5. CASE UNCHANGED vars
  BY <1>5 DEF UInv, Flags, vars, daemonVars, backup, serviceVars, Views, ViewIsCurrent,
              SnapshotIsCurrent, SaveIsExact, BackupIsOwn, Writes, HasOpen
<1> QED
  BY <1>1, <1>2, <1>3, <1>4, <1>5, OpenHolds, ReadHolds, WriteHolds, RenameHolds, HangUpHolds,
     BootHolds, LoadHolds, SaveOpenHolds, SaveWriteHolds, SaveRenameHolds DEF Next

(* No service that was told of the last change serves with users that are  *)
(* not those of the file, however often webhostd and the service die, and  *)
(* wherever the signal meets the service (AddUser2(), DeleteUser2()), nor  *)
(* one that has saved its own (saveUsers()) while no command wrote.        *)
THEOREM NoStaleUsers == Spec => []ViewIsCurrent
<1>1. UInv => ViewIsCurrent
  BY DEF UInv, Views
<1> QED
  BY <1>1, InitHolds, StepHolds, PTL DEF Spec

-----------------------------------------------------------------------------
(* A command that was taken is carried out on the file as it was read,     *)
(* which is the one with the name unless two write at one time, and what   *)
(* then waits to be put in its place has exactly the users that the        *)
(* command makes of those in it.                                           *)
ToRewrite == IF unread THEN NoUsers ELSE Loaded(file)

RewriteIsReady ==
    /\ handler # "idle" => command \in Command
    /\ handler = "write" /\ command.verb = "ADDUSER2" => Count(source) < MaxSections
    /\ handler = "write" /\ ~overlapped => Loaded(source) = ToRewrite
    /\ handler = "rename" /\ ~overlapped => Loaded(back) = Commanded(ToRewrite)

FInv == TypeOK /\ RewriteIsReady

LEMMA EmptyFile == <<>> \in Files
<1>1. <<>> \in Seq(Section) /\ Len(<<>>) <= MaxSections
  BY MaxSectionsAssumption
<1> QED  BY <1>1, SeqIsFile

LEMMA LoadedEmpty == Loaded(<<>>) = NoUsers
<1>1. Count(<<>>) = 0
  BY MaxSectionsAssumption, CountOfListing
<1>2. DOMAIN Loaded(<<>>) = {}
  BY <1>1 DEF Loaded
<1>3. Loaded(<<>>) = [u \in {} |-> Loaded(<<>>)[u]]
  BY <1>2, LoadedIsFunction
<1> QED  BY <1>3 DEF NoUsers

LEMMA NobodyIsUsers == NoUsers \in Users
  BY IsUsers DEF NoUsers

LEMMA FInitHolds == Init => FInv
  BY EmptyFile, NobodyIsUsers, InitialFilesAssumption
  DEF Init, FInv, TypeOK, RewriteIsReady, Program

LEMMA CommandIs ==
    ASSUME NEW cmd \in Command
    PROVE  /\ cmd.user \in User
           /\ cmd.verb = "ADDUSER2" => cmd.passwd \in Password
           /\ cmd # Nothing
  BY DEF Command, Nothing

(* Opening, closing and renaming leave files behind. *)
LEMMA OpenKeepsFiles ==
    ASSUME FInv, NEW w, OpenBack(w)
    PROVE  /\ back' \in Files /\ exists' \in BOOLEAN /\ overlapped' \in BOOLEAN
           /\ fd' \in [Program -> {"none", "back", "file", "gone"}]
  BY EmptyFile DEF FInv, TypeOK, OpenBack

LEMMA CloseKeepsFiles ==
    ASSUME FInv, NEW w, NEW new \in Files, CloseBack(w, new)
    PROVE  /\ back' \in Files /\ file' \in Files
           /\ fd' \in [Program -> {"none", "back", "file", "gone"}]
<1>1. back' \in Files
  BY OverwrittenIsFile DEF FInv, TypeOK, CloseBack
<1>2. file' \in Files
  BY OverwrittenIsFile DEF FInv, TypeOK, CloseBack
<1> QED  BY <1>1, <1>2 DEF FInv, TypeOK, CloseBack

LEMMA RenameKeepsFiles ==
    ASSUME FInv, RenameBack
    PROVE  /\ back' \in Files /\ file' \in Files /\ exists' \in BOOLEAN
           /\ fd' \in [Program -> {"none", "back", "file", "gone"}]
<1>1. \A w \in Program : fd[w] \in {"none", "back", "file", "gone"}
  BY DEF FInv, TypeOK
<1>2. back' \in Files /\ file' \in Files /\ exists' \in BOOLEAN
  BY EmptyFile DEF FInv, TypeOK, RenameBack
<1>3. \A w \in Program : (IF ~exists THEN fd[w]
                          ELSE CASE fd[w] = "back" -> "file"
                                 [] fd[w] = "file" -> "gone"
                                 [] OTHER -> fd[w]) \in {"none", "back", "file", "gone"}
  BY <1>1
<1> QED  BY <1>2, <1>3 DEF RenameBack

(* What a handler writes is what its command makes of what it read. *)
Rewritten == IF command.verb = "ADDUSER2" THEN Added(source, command.user, command.passwd)
             ELSE Deleted(source, command.user)

LEMMA RewrittenIs ==
    ASSUME FInv, handler = "write"
    PROVE  Rewritten \in Files /\ Loaded(Rewritten) = Commanded(Loaded(source))
<1>1. command \in Command /\ source \in Files
  BY DEF FInv, TypeOK, RewriteIsReady
<1>2. CASE command.verb = "ADDUSER2"
  <2>1. Count(source) < MaxSections /\ command.user \in User /\ command.passwd \in Password
    BY <1>1, <1>2, CommandIs DEF FInv, RewriteIsReady
  <2> QED  BY <1>1, <1>2, <2>1, AddedIs DEF Commanded, Rewritten
<1>3. CASE command.verb # "ADDUSER2"
  BY <1>1, <1>3, DeletedIs DEF Commanded, Rewritten
<1> QED  BY <1>2, <1>3

LEMMA FOpenHolds ==
    ASSUME FInv, ProcessCommand
    PROVE  FInv'
<1>1. PICK cmd \in Command :
        /\ command' = cmd /\ handler' = "read" /\ OpenBack("webhostd")
        /\ UNCHANGED <<file, source, unread, serviceVars>>
  BY DEF ProcessCommand, Open
<1> QED
  BY <1>1, OpenKeepsFiles DEF FInv, TypeOK, RewriteIsReady, serviceVars

LEMMA FReadHolds ==
    ASSUME FInv, Read
    PROVE  FInv'
<1>1. /\ handler = "read" /\ handler' = "write"
      /\ \/ source' = file /\ unread' = FALSE
         \/ source' = <<>> /\ unread' = TRUE
      /\ command.verb = "ADDUSER2" => Count(source') < MaxSections
      /\ UNCHANGED <<command, file, back, exists, fd, overlapped, serviceVars>>
  BY DEF Read
<1>2. source' \in Files /\ unread' \in BOOLEAN
  BY <1>1, EmptyFile DEF FInv, TypeOK
<1>3. Loaded(source') = IF unread' THEN NoUsers ELSE Loaded(file')
  BY <1>1, LoadedEmpty
<1>4. (Count(source))' = Count(source') /\ (Loaded(source))' = Loaded(source')
  OBVIOUS
<1>5. RewriteIsReady'
  BY <1>1, <1>3, <1>4 DEF FInv, RewriteIsReady, ToRewrite
<1> QED  BY <1>1, <1>2, <1>5 DEF FInv, TypeOK, serviceVars

LEMMA FWriteHolds ==
    ASSUME UInv, FInv, Write
    PROVE  FInv'
<1>1. /\ handler = "write" /\ handler' = "rename" /\ CloseBack("webhostd", Rewritten)
      /\ source' = <<>> /\ unheard' = (unheard \/ fd["webhostd"] = "file")
      /\ UNCHANGED <<command, exists, unread, overlapped, service, running, snapshot,
                     http_users, unsaved, saving, hup>>
  BY DEF Write, Rewritten
<1>2. Rewritten \in Files /\ Loaded(Rewritten) = Commanded(Loaded(source))
  BY <1>1, RewrittenIs
<1>3. back' \in Files /\ file' \in Files /\ fd' \in [Program -> {"none", "back", "file", "gone"}]
  BY <1>1, <1>2, CloseKeepsFiles
<1>4. TypeOK'
  BY <1>1, <1>3, EmptyFile DEF FInv, TypeOK
<1>5. Rewritten = [i \in DOMAIN Rewritten |-> Rewritten[i]]
  BY <1>2 DEF Files
<1>6. ~overlapped => file' = file /\ back' = Rewritten
  BY <1>1, <1>5, CloseOwn DEF HasOpen, Program
<1>7. ~overlapped => Loaded(source) = ToRewrite
  BY <1>1 DEF FInv, RewriteIsReady
<1>8. ASSUME ~overlapped  PROVE Loaded(back)' = Commanded(ToRewrite)'
  <2>1. file' = file /\ unread' = unread /\ command' = command
    BY <1>1, <1>6, <1>8
  <2>2. Commanded(ToRewrite)' = Commanded(ToRewrite)
    BY <2>1 DEF Commanded, ToRewrite
  <2>3. Loaded(back') = Loaded(Rewritten)
    BY <1>6, <1>8
  <2>4. Loaded(Rewritten) = Commanded(ToRewrite)
    BY <1>2, <1>7, <1>8
  <2>5. Loaded(back)' = Loaded(back')
    OBVIOUS
  <2> QED  BY <2>2, <2>3, <2>4, <2>5
<1>9. RewriteIsReady'
  BY <1>1, <1>8 DEF FInv, RewriteIsReady
<1> QED  BY <1>4, <1>9 DEF FInv

LEMMA FRenameHolds ==
    ASSUME FInv, Rename
    PROVE  FInv'
  BY RenameKeepsFiles DEF FInv, TypeOK, RewriteIsReady, Rename, serviceVars

(* A service that ends leaves the handler and its files alone. *)
LEMMA FEndHolds ==
    ASSUME FInv, ServiceEnds, UNCHANGED <<file, back, exists, overlapped>>,
           fd' \in [Program -> {"none", "back", "file", "gone"}],
           \/ UNCHANGED <<handler, command, source, unread>>
           \/ /\ handler' = "idle" /\ command' = Nothing
              /\ source' \in Files /\ unread' \in BOOLEAN
    PROVE  FInv'
<1>1. TypeOK'
  BY EmptyFile, NobodyIsUsers DEF FInv, TypeOK, ServiceEnds
<1>2. RewriteIsReady'
  BY DEF FInv, RewriteIsReady, ToRewrite, Commanded
<1> QED  BY <1>1, <1>2 DEF FInv

LEMMA FHangUpHolds ==
    ASSUME FInv, HangUp
    PROVE  FInv'
<1>1. handler' = "idle" /\ command' = Nothing /\ UNCHANGED <<file, back, backup>>
  BY DEF HangUp
<1>2. CASE running /\ service = "booting"
  BY <1>1, <1>2, FEndHolds DEF HangUp, FInv, TypeOK, backup
<1>3. CASE ~(running /\ service = "booting")
  BY <1>1, <1>3 DEF FInv, TypeOK, RewriteIsReady, HangUp, backup
<1> QED  BY <1>2, <1>3

LEMMA FLoadHolds ==
    ASSUME FInv, Start \/ Execute \/ started \/ BeginLoad \/ loadUsers
    PROVE  FInv'
<1>1. UNCHANGED <<handler, command, file, back, backup>>
  BY DEF Start, Execute, started, BeginLoad, loadUsers, daemonVars
<1>2. RewriteIsReady'
  BY <1>1 DEF FInv, RewriteIsReady, ToRewrite, Commanded, backup
<1>3. CASE loadUsers
  <2>1. /\ service' = "serving" /\ http_users' = Loaded(snapshot) /\ snapshot' = <<>>
        /\ unsaved' = FALSE /\ UNCHANGED <<running, unheard, saving, hup>>
    BY <1>3 DEF loadUsers
  <2>2. http_users' \in Users
    BY <2>1, LoadedAreUsers DEF FInv, TypeOK
  <2> QED  BY <1>1, <1>2, <2>1, <2>2, EmptyFile DEF FInv, TypeOK, backup
<1>4. CASE Start \/ Execute \/ started \/ BeginLoad
  <2>1. /\ service' \in {"starting", "booting", "loading", "serving"} \cup {service}
        /\ running' \in BOOLEAN /\ unheard' \in BOOLEAN /\ hup' \in BOOLEAN
        /\ snapshot' \in {snapshot, file}
        /\ UNCHANGED <<http_users, unsaved, saving>>
    BY <1>4 DEF FInv, TypeOK, Start, Execute, started, BeginLoad
  <2> QED  BY <1>1, <1>2, <2>1 DEF FInv, TypeOK, backup
<1> QED  BY <1>3, <1>4

LEMMA FChangeHolds ==
    ASSUME FInv,
           \/ \E user \in User, passwd \in Password : addUser(user, passwd)
           \/ \E user \in User : removeUser(user)
    PROVE  FInv'
<1>1. ASSUME NEW users \in Users, Changed(users)
      PROVE  FInv'
  BY <1>1 DEF FInv, TypeOK, RewriteIsReady, ToRewrite, Commanded, Changed, daemonVars, backup
<1>2. http_users \in Users
  BY DEF FInv, TypeOK
<1>3. ASSUME NEW user \in User, NEW passwd \in Password, addUser(user, passwd)
      PROVE  FInv'
  <2> DEFINE users == [u \in DOMAIN http_users \cup {user} |->
                         IF u = user THEN passwd ELSE http_users[u]]
  <2>1. users \in Users
    <3>1. /\ users = [u \in DOMAIN users |-> users[u]]
          /\ DOMAIN users \subseteq User
          /\ \A u \in DOMAIN users : users[u] \in Password
      BY <1>2, UsersAre
    <3> HIDE DEF users
    <3> QED  BY <3>1, IsUsers
  <2>2. Changed(users)
    BY <1>3 DEF addUser
  <2> QED  BY <1>1, <2>1, <2>2
<1>4. ASSUME NEW user \in User, removeUser(user)
      PROVE  FInv'
  <2> DEFINE users == [u \in DOMAIN http_users \ {user} |-> http_users[u]]
  <2>1. users \in Users
    <3>1. /\ users = [u \in DOMAIN users |-> users[u]]
          /\ DOMAIN users \subseteq User
          /\ \A u \in DOMAIN users : users[u] \in Password
      BY <1>2, UsersAre
    <3> HIDE DEF users
    <3> QED  BY <3>1, IsUsers
  <2>2. Changed(users)
    BY <1>4 DEF removeUser
  <2> QED  BY <1>1, <2>1, <2>2
<1> QED  BY <1>3, <1>4

(* A service that opens, writes or renames its backup while a command is   *)
(* carried out does so in an overlap, of which nothing is said.            *)
LEMMA FSaveHolds ==
    ASSUME UInv, FInv, SaveOpen \/ SaveWrite \/ SaveRename
    PROVE  FInv'
<1>1. /\ UNCHANGED <<handler, command, source, unread, service, running, unheard, snapshot,
                     http_users, hup>>
      /\ saving' \in {"no", "write", "rename"} /\ unsaved' \in BOOLEAN
  BY DEF SaveOpen, SaveWrite, SaveRename, FInv, TypeOK
<1>2. /\ back' \in Files /\ file' \in Files /\ exists' \in BOOLEAN /\ overlapped' \in BOOLEAN
      /\ fd' \in [Program -> {"none", "back", "file", "gone"}]
  <2>1. CASE SaveOpen
    BY <2>1, OpenKeepsFiles DEF SaveOpen, FInv, TypeOK
  <2>2. CASE SaveWrite
    <3>1. PICK listing \in Listings(http_users) : CloseBack("service", listing)
      BY <2>2 DEF SaveWrite
    <3>2. Cardinality(DOMAIN http_users) \in 0..MaxSections
      BY <2>2 DEF UInv, SaveIsExact, SaveWrite
    <3>3. listing \in Files
      BY <3>2, IsFile DEF Listings
    <3> QED  BY <2>2, <3>1, <3>3, CloseKeepsFiles DEF SaveWrite, FInv, TypeOK
  <2>3. CASE SaveRename
    BY <2>3, RenameKeepsFiles DEF SaveRename, FInv, TypeOK
  <2> QED  BY <2>1, <2>2, <2>3
<1>3. TypeOK'
  BY <1>1, <1>2 DEF FInv, TypeOK
<1>4. handler \in {"write", "rename"} => overlapped'
  <2>1. CASE SaveOpen
    BY <2>1, OpensOverlapped DEF SaveOpen, Writes
  <2>2. CASE SaveWrite \/ SaveRename
    BY <2>2 DEF SaveWrite, SaveRename, UInv, BackupIsOwn, Writes
  <2> QED  BY <2>1, <2>2
<1>5. RewriteIsReady'
  BY <1>1, <1>4 DEF FInv, RewriteIsReady
<1> QED  BY <1>3, <1>5 DEF FInv

LEMMA FStepHolds == UInv /\ FInv /\ [Next]_vars => FInv'
<1> SUFFICES ASSUME UInv, FInv, [Next]_vars
             PROVE  FInv'
  OBVIOUS
<1>1. CASE Die
  BY <1>1, FEndHolds DEF Die, FInv, TypeOK
<1>2. CASE Crash
  BY <1>2, FEndHolds, EmptyFile DEF Crash
<1>3. CASE UNCHANGED vars
  BY <1>3 DEF FInv, TypeOK, RewriteIsReady, ToRewrite, Commanded, vars, daemonVars, backup,
              serviceVars
<1> QED
  BY <1>1, <1>2, <1>3, FOpenHolds, FReadHolds, FWriteHolds, FRenameHolds, FHangUpHolds,
     FLoadHolds, FChangeHolds, FSaveHolds DEF Next

(* Every file that is written has sections that are a user's, and no more  *)
(* than the bound, also when two programs write into one; what the service *)
(* loads are users with passwords.                                         *)
THEOREM TypeCorrect == Spec => []TypeOK
<1>1. FInv => TypeOK
  BY DEF FInv
<1> QED
  BY <1>1, InitHolds, StepHolds, FInitHolds, FStepHolds, PTL DEF Spec

(* Whenever the user file changes, the users that a program loads from it  *)
(* are those that the command makes of the ones before, and no other user  *)
(* is lost or changed (AddUser2(), DeleteUser2()), or those of the service *)
(* (saveUsers()): for files of any length, users that are named more than  *)
(* once, gaps in the numbers and deaths of both programs.  It asks this of *)
(* a command that could read the file; one that could not leaves nobody    *)
(* but its own user.  It asks nothing of a change while both programs have *)
(* the backup in work, or after they had, until it is opened again.        *)
THEOREM CommandsAreExact == Spec => RewriteIsExact
<1>1. UInv /\ FInv /\ [Next]_vars =>
        [file' # file /\ ~overlapped =>
           Loaded(file') = IF saving = "rename" THEN http_users
                           ELSE Commanded(IF unread THEN NoUsers ELSE Loaded(file))]_vars
  <2> SUFFICES ASSUME UInv, FInv, Next, file' # file, ~overlapped
               PROVE  Loaded(file') = IF saving = "rename" THEN http_users
                                      ELSE Commanded(ToRewrite)
    BY DEF ToRewrite
  <2>1. ~Write
    <3>1. SUFFICES ASSUME Write  PROVE FALSE
      OBVIOUS
    <3>2. CloseBack("webhostd", Rewritten) /\ handler = "write"
      BY <3>1 DEF Write, Rewritten
    <3>3. fd["webhostd"] = "back"
      BY <3>2 DEF UInv, BackupIsOwn, HasOpen, Program
    <3> QED  BY <3>2, <3>3 DEF CloseBack
  <2>2. ~SaveWrite
    <3>1. SUFFICES ASSUME SaveWrite  PROVE FALSE
      OBVIOUS
    <3>2. PICK listing \in Listings(http_users) : CloseBack("service", listing)
      BY <3>1 DEF SaveWrite
    <3>3. fd["service"] = "back"
      BY <3>1 DEF SaveWrite, UInv, BackupIsOwn, HasOpen, Program
    <3> QED  BY <3>2, <3>3 DEF CloseBack
  <2>3. Rename \/ SaveRename
    BY <2>1, <2>2
    DEF Next, ProcessCommand, Open, Read, HangUp, Start, Execute, started, BeginLoad,
        loadUsers, Die, addUser, removeUser, Changed, SaveOpen, Crash, daemonVars
  <2>4. CASE Rename
    <3>1. handler = "rename" /\ RenameBack /\ Writes("webhostd")
      BY <2>4 DEF Rename, Writes
    <3>2. saving = "no" /\ file' = back
      BY <3>1 DEF UInv, BackupIsOwn, Writes, RenameBack
    <3> QED  BY <3>1, <3>2 DEF FInv, RewriteIsReady
  <2>5. CASE SaveRename
    BY <2>5, SavedAreThere DEF SaveRename
  <2> QED  BY <2>3, <2>4, <2>5
<1> QED
  BY <1>1, InitHolds, StepHolds, FInitHolds, FStepHolds, PTL DEF Spec, RewriteIsExact
=============================================================================
