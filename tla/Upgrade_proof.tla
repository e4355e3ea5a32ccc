---------------------------- MODULE Upgrade_proof ----------------------------
(* The two processes that share the directory of a package agree on it,    *)
(* for every number of CGI processes and of polls.                         *)
EXTENDS Upgrade, SequenceTheorems, TLAPS

Over == {"abandoned", "installed", "failed"}

(* A datagram is in the socket once, its command has not been handled, and *)
(* a process that has not sent its command is not known to webhostd.       *)
Queue ==
    /\ \A i, j \in 1..Len(socket) : socket[i] = socket[j] => i = j
    /\ \A i \in 1..Len(socket) :
          cgi[socket[i]] # "send" /\ socket[i] # job /\ rpm[socket[i]] = "none"

Unsent(c) == cgi[c] = "send" => job # c /\ rpm[c] = "none"

Counted(c) ==
    /\ cgi[c] = "send" => polls[c] = 0
    /\ cgi[c] = "wait" => polls[c] < MaxPolls

(* webhostd works on one package from the command to its exit. *)
Work ==
    /\ daemon \in {"idle", "down"} => job = NoCgi
    /\ daemon # "idle" => ~accum
    /\ daemon \in {"rpm", "signal", "unlink done", "rmdir"} => job \in Cgi /\ kind[job] = "word"
    /\ daemon = "rpm" => rpm[job] # "none"
    /\ daemon = "signal" => rpm[job] \in Over
    /\ daemon = "unlink" /\ TwoWords(job) => rpm[job] \in Over

(* "done" stands for a package that webhostd no longer waits for. *)
Signalled(c) == done[c] \/ heard[c] => rpm[c] \in Over

(* Nobody removes a package before webhostd's wait for it is over, except  *)
(* a process that has polled to the last; only a package whose path is one *)
(* word of the command has an rpm.                                         *)
Cleaning == {"unlink", "unlink done", "rmdir", "destroy", "destroy dir"}

Kept(c) ==
    /\ rpm[c] # "none" => kind[c] = "word"
    /\ cgi[c] \in Cleaning => polls[c] = MaxPolls \/ rpm[c] \in Over
    /\ kind[c] = "word" /\ ~pkg[c] => polls[c] = MaxPolls \/ rpm[c] \in Over

(* The process has unlinked the package; "done"; everything. *)
PastPkg(c) == (IF kind[c] = "wide" THEN {} ELSE {"unlink done", "rmdir", "destroy"})
              \cup {"destroy dir", "exited"}
PastDone == {"rmdir", "destroy", "destroy dir", "exited"}

AtWork(c, where) == job = c /\ kind[c] = "word" /\ daemon \in where

(* What a process has removed is gone, or webhostd has put it back and is  *)
(* about to remove it; what webhostd has removed stays away.               *)
Cleaned(c) ==
    /\ kind[c] # "pair" =>
        /\ cgi[c] \in PastPkg(c) => ~pkg[c]
        /\ cgi[c] \in PastDone /\ done[c] => AtWork(c, {"unlink", "unlink done"})
        /\ cgi[c] = "exited" /\ dir[c] => AtWork(c, {"unlink", "unlink done", "rmdir"})
    /\ AtWork(c, {"unlink done", "rmdir"}) => ~pkg[c]
    /\ AtWork(c, {"rmdir"}) => ~done[c]

Processes ==
    \A c \in Cgi : Unsent(c) /\ Counted(c) /\ Signalled(c) /\ Kept(c) /\ Cleaned(c)

IInv == TypeOK /\ Queue /\ Work /\ Processes

USE PollsAssumption, NoCgiAssumption

-----------------------------------------------------------------------------
LEMMA InitInv == Init => IInv
<1> SUFFICES ASSUME Init PROVE IInv
  OBVIOUS
<1>1. TypeOK
  <2>1. socket \in Seq(Cgi)
    BY EmptySeq DEF Init
  <2>2. polls \in [Cgi -> 0..MaxPolls]
    <3>1. 0 \in 0..MaxPolls
      OBVIOUS
    <3> QED  BY <3>1 DEF Init
  <2>3. /\ kind \in [Cgi -> Kind] /\ heard \in [Cgi -> BOOLEAN]
        /\ pkg \in [Cgi -> BOOLEAN] /\ done \in [Cgi -> BOOLEAN] /\ dir \in [Cgi -> BOOLEAN]
        /\ accum \in BOOLEAN
    BY DEF Init
  <2>4. /\ daemon \in {"idle", "rpm", "signal", "unlink", "unlink done", "rmdir", "kill", "down"}
        /\ job \in Cgi \cup {NoCgi}
    BY DEF Init
  <2> QED  BY <2>1, <2>2, <2>3, <2>4 DEF Init, TypeOK
<1>2. Queue
  BY DEF Init, Queue
<1>3. Work
  BY DEF Init, Work, TwoWords
<1>4. Processes
  BY DEF Init, Processes, Unsent, Counted, Signalled, Kept, Cleaning, Cleaned, PastPkg,
         PastDone, AtWork
<1> QED  BY <1>1, <1>2, <1>3, <1>4 DEF IInv

(* What is taken from the socket, and what is put in it. *)
LEMMA Received ==
    ASSUME TypeOK, socket # <<>>
    PROVE  /\ Head(socket) = socket[1] /\ socket[1] \in Cgi
           /\ Tail(socket) \in Seq(Cgi)
           /\ Len(socket) \in Nat \ {0} /\ Len(Tail(socket)) = Len(socket) - 1
           /\ \A i \in 1..Len(Tail(socket)) : Tail(socket)[i] = socket[i + 1]
<1>1. socket \in Seq(Cgi)
  BY DEF TypeOK
<1>2. /\ Tail(socket) \in Seq(Cgi) /\ Len(Tail(socket)) = Len(socket) - 1
      /\ \A i \in 1..Len(Tail(socket)) : Tail(socket)[i] = socket[i + 1]
  BY <1>1, HeadTailProperties
<1>3. Len(socket) \in Nat \ {0} /\ Head(socket) = socket[1]
  BY <1>1, EmptySeq
<1>4. socket[1] \in Cgi
  BY <1>1, <1>3, ElementOfSeq
<1> QED  BY <1>2, <1>3, <1>4

LEMMA Queued ==
    ASSUME TypeOK, NEW c \in Cgi
    PROVE  /\ Append(socket, c) \in Seq(Cgi) /\ Len(socket) \in Nat
           /\ Len(Append(socket, c)) = Len(socket) + 1
           /\ \A i \in 1..Len(socket) : Append(socket, c)[i] = socket[i] /\ socket[i] \in Cgi
           /\ Append(socket, c)[Len(socket) + 1] = c
<1>1. socket \in Seq(Cgi)
  BY DEF TypeOK
<1>2. \A i \in 1..Len(socket) : socket[i] \in Cgi
  BY <1>1, ElementOfSeq
<1>3. Len(socket) \in Nat
  BY <1>1
<1> QED  BY <1>1, <1>2, <1>3, AppendProperties

-----------------------------------------------------------------------------
LEMMA SendKeeps ==
    ASSUME IInv, NEW c \in Cgi, SendCommand(c)
    PROVE  IInv'
<1> USE DEF SendCommand, Goto, CgiOnly, files
<1>1. TypeOK'
  BY Queued DEF IInv, TypeOK
<1>2. Queue'
  <2>1. CASE socket' = socket
    <3>1. \A i \in 1..Len(socket) : socket[i] \in Cgi /\ socket[i] # c
      BY Queued DEF IInv, Queue
    <3>2. \A d \in Cgi \ {c} : cgi'[d] = cgi[d]
      BY DEF IInv, TypeOK
    <3> QED  BY <2>1, <3>1, <3>2 DEF IInv, Queue
  <2>2. CASE socket' = Append(socket, c)
    <3>1. \A i \in 1..Len(socket) : socket[i] # c
      BY DEF IInv, Queue
    <3>2. \A i \in 1..Len(socket') :
             \/ i \in 1..Len(socket) /\ socket'[i] = socket[i]
             \/ i = Len(socket) + 1 /\ socket'[i] = c
      BY <2>2, Queued DEF IInv
    <3>3. \A i, j \in 1..Len(socket') : socket'[i] = socket'[j] => i = j
      BY <3>1, <3>2 DEF IInv, Queue
    <3>4. job # c /\ rpm[c] = "none"
      BY DEF IInv, Processes, Unsent
    <3>5. \A i \in 1..Len(socket') :
             cgi'[socket'[i]] # "send" /\ socket'[i] # job /\ rpm[socket'[i]] = "none"
      <4> TAKE i \in 1..Len(socket')
      <4>1. CASE i \in 1..Len(socket) /\ socket'[i] = socket[i]
        <5>1. socket[i] \in Cgi /\ socket[i] # c
          BY <3>1, <4>1, Queued DEF IInv
        <5> QED  BY <4>1, <5>1 DEF IInv, Queue, TypeOK
      <4>2. CASE socket'[i] = c
        <5>1. cgi'[c] # "send"
          BY DEF IInv, TypeOK
        <5> QED  BY <3>4, <4>2, <5>1
      <4> QED  BY <3>2, <4>1, <4>2
    <3> QED  BY <3>3, <3>5 DEF Queue
  <2> QED  BY <2>1, <2>2
<1>3. Work'
  BY DEF IInv, Work, TwoWords
<1>4. Processes'
  <2> SUFFICES ASSUME NEW d \in Cgi
               PROVE  (Unsent(d) /\ Counted(d) /\ Signalled(d) /\ Kept(d) /\ Cleaned(d))'
    BY DEF Processes
  <2>1. Unsent(d) /\ Counted(d) /\ Signalled(d) /\ Kept(d) /\ Cleaned(d)
    BY DEF IInv, Processes
  <2>2. Unsent(d)' /\ Signalled(d)'
    BY <2>1 DEF IInv, TypeOK, Unsent, Signalled
  <2>c. Counted(d)'
    <3>1. cgi[d] = "send" => polls[d] < MaxPolls
      BY <2>1 DEF Counted
    <3>2. cgi'[d] = cgi[d] \/ (d = c /\ cgi'[d] # "send")
      BY DEF IInv, TypeOK
    <3> QED  BY <2>1, <3>1, <3>2 DEF Counted
  <2>3. Cleaned(d)'
    BY <2>1 DEF IInv, TypeOK, Cleaned, PastPkg, PastDone, AtWork
  <2>k. Kept(d)'
    BY <2>1 DEF IInv, TypeOK, Kept, Cleaning, Over, Signalled, Counted, Work, TwoWords
  <2> QED  BY <2>2, <2>c, <2>3, <2>k
<1> QED  BY <1>1, <1>2, <1>3, <1>4 DEF IInv

LEMMA PollKeeps ==
    ASSUME IInv, NEW c \in Cgi, Poll(c)
    PROVE  IInv'
<1> USE DEF Poll, CgiOnly, files
<1>0. polls[c] < MaxPolls /\ (done[c] => rpm[c] \in Over)
  BY DEF IInv, Processes, Counted, Signalled
<1>1. TypeOK'
  <2>0. polls[c] \in 0..MaxPolls
    BY DEF IInv, TypeOK
  <2>1. polls[c] + 1 \in 0..MaxPolls
    BY SMT, <1>0, <2>0
  <2>2. polls' \in [Cgi -> 0..MaxPolls]
    BY <2>1 DEF IInv, TypeOK
  <2>3. heard' \in [Cgi -> BOOLEAN]
    BY DEF IInv, TypeOK
  <2> QED  BY <2>2, <2>3 DEF IInv, TypeOK
<1>2. Queue'
  <2>1. \A i \in 1..Len(socket) : socket[i] \in Cgi
    BY Queued DEF IInv
  <2> QED  BY <2>1 DEF IInv, Queue, TypeOK
<1>3. Work'
  BY DEF IInv, Work, TwoWords
<1>4. Processes'
  <2> SUFFICES ASSUME NEW d \in Cgi
               PROVE  (Unsent(d) /\ Counted(d) /\ Signalled(d) /\ Kept(d) /\ Cleaned(d))'
    BY DEF Processes
  <2>1. Unsent(d) /\ Counted(d) /\ Signalled(d) /\ Kept(d) /\ Cleaned(d)
    BY DEF IInv, Processes
  <2>2. Unsent(d)' /\ Signalled(d)'
    BY <1>0, <2>1 DEF IInv, TypeOK, Unsent, Signalled
  <2>3. Counted(d)'
    <3>1. CASE d # c
      BY <2>1, <3>1 DEF IInv, TypeOK, Counted
    <3>2. CASE d = c
      <4>1. polls[c] \in 0..MaxPolls /\ polls'[c] = polls[c] + 1
        BY DEF IInv, TypeOK
      <4>2. cgi'[c] = IF done[c] \/ polls[c] + 1 = MaxPolls THEN "unlink" ELSE "wait"
        BY DEF IInv, TypeOK
      <4>3. polls[c] + 1 # MaxPolls => polls[c] + 1 < MaxPolls
        BY SMT, <1>0, <4>1
      <4> HIDE DEF Poll
      <4> QED  BY <3>2, <4>1, <4>2, <4>3 DEF Counted
    <3> QED  BY <3>1, <3>2
  <2>4. Cleaned(d)'
    BY <2>1 DEF IInv, TypeOK, Cleaned, PastPkg, PastDone, AtWork
  <2>k. Kept(d)'
    <3>1. CASE d # c
      BY <2>1, <3>1 DEF IInv, TypeOK, Kept
    <3>2. CASE d = c
      <4>1. cgi[c] = "wait" /\ polls[c] < MaxPolls /\ polls[c] \in 0..MaxPolls
        BY <1>0 DEF IInv, TypeOK
      <4>2. polls[c] # MaxPolls
        BY <4>1
      <4>3. cgi'[c] \in Cleaning => done[c] \/ polls'[c] = MaxPolls
        BY DEF IInv, TypeOK, Cleaning
      <4>4. UNCHANGED <<kind, pkg, rpm>>
        OBVIOUS
      <4> HIDE DEF Poll
      <4> QED  BY <1>0, <2>1, <3>2, <4>2, <4>3, <4>4 DEF Kept, Over
    <3> QED  BY <3>1, <3>2
  <2> QED  BY <2>2, <2>3, <2>4, <2>k
<1> QED  BY <1>1, <1>2, <1>3, <1>4 DEF IInv

LEMMA CleanupKeeps ==
    ASSUME IInv, NEW c \in Cgi, Cleanup(c)
    PROVE  IInv'
<1> USE DEF Cleanup, Goto, CgiOnly, UnlinkPkg, UnlinkDone, Rmdir, files
<1>1. TypeOK'
  BY DEF IInv, TypeOK
<1>2. Queue'
  <2>1. \A i \in 1..Len(socket) : socket[i] \in Cgi
    BY Queued DEF IInv
  <2> QED  BY <2>1 DEF IInv, Queue, TypeOK
<1>3. Work'
  BY DEF IInv, Work, TwoWords
<1>4. Processes'
  <2> SUFFICES ASSUME NEW d \in Cgi
               PROVE  (Unsent(d) /\ Counted(d) /\ Signalled(d) /\ Kept(d) /\ Cleaned(d))'
    BY DEF Processes
  <2>1. Unsent(d) /\ Counted(d) /\ Signalled(d) /\ Kept(d) /\ Cleaned(d)
    BY DEF IInv, Processes
  <2>2. Unsent(d)' /\ Counted(d)' /\ Signalled(d)'
    BY <2>1 DEF IInv, TypeOK, Unsent, Counted, Signalled
  <2>3. Cleaned(d)'
    <3>1. CASE d # c
      BY <2>1, <3>1 DEF IInv, TypeOK, Cleaned, PastPkg, PastDone, AtWork
    <3>2. CASE d = c
      BY <2>1, <3>2 DEF IInv, TypeOK, Cleaned, PastPkg, PastDone, AtWork
    <3> QED  BY <3>1, <3>2
  <2>k. Kept(d)'
    BY <2>1 DEF IInv, TypeOK, Kept, Cleaning, Over, Signalled, Counted, Work, TwoWords
  <2> QED  BY <2>2, <2>3, <2>k
<1> QED  BY <1>1, <1>2, <1>3, <1>4 DEF IInv

LEMMA KilledKeeps ==
    ASSUME IInv, NEW c \in Cgi, CgiKilled(c)
    PROVE  IInv'
<1> USE DEF CgiKilled, Goto, CgiOnly, files
<1>1. TypeOK'
  BY DEF IInv, TypeOK
<1>2. Queue'
  <2>1. \A i \in 1..Len(socket) : socket[i] \in Cgi
    BY Queued DEF IInv
  <2> QED  BY <2>1 DEF IInv, Queue, TypeOK
<1>3. Work'
  BY DEF IInv, Work, TwoWords
<1>4. Processes'
  <2> SUFFICES ASSUME NEW d \in Cgi
               PROVE  (Unsent(d) /\ Counted(d) /\ Signalled(d) /\ Kept(d) /\ Cleaned(d))'
    BY DEF Processes
  <2>1. Unsent(d) /\ Counted(d) /\ Signalled(d) /\ Kept(d) /\ Cleaned(d)
    BY DEF IInv, Processes
  <2>2. Unsent(d)' /\ Counted(d)' /\ Signalled(d)'
    BY <2>1 DEF IInv, TypeOK, Unsent, Counted, Signalled
  <2>3. Cleaned(d)'
    BY <2>1 DEF IInv, TypeOK, Cleaned, PastPkg, PastDone, AtWork
  <2>k. Kept(d)'
    BY <2>1 DEF IInv, TypeOK, Kept, Cleaning, Over, Signalled, Counted, Work, TwoWords
  <2> QED  BY <2>2, <2>3, <2>k
<1> QED  BY <1>1, <1>2, <1>3, <1>4 DEF IInv

-----------------------------------------------------------------------------
LEMMA RpmKeeps ==
    ASSUME IInv, NEW c \in Cgi, RpmEnds(c)
    PROVE  IInv'
<1> USE DEF RpmEnds, DaemonOnly, files, web, Over
<1>1. rpm' \in {[rpm EXCEPT ![c] = "failed"], [rpm EXCEPT ![c] = "installed"]}
  OBVIOUS
<1>2. TypeOK'
  BY <1>1 DEF IInv, TypeOK
<1>3. Queue'
  <2>1. \A i \in 1..Len(socket) : socket[i] \in Cgi /\ socket[i] # c
    BY Queued DEF IInv, Queue
  <2> QED  BY <1>1, <2>1 DEF IInv, Queue, TypeOK
<1>4. Work'
  BY <1>1 DEF IInv, Work, TypeOK, TwoWords
<1>5. Processes'
  <2> SUFFICES ASSUME NEW d \in Cgi
               PROVE  (Unsent(d) /\ Counted(d) /\ Signalled(d) /\ Kept(d) /\ Cleaned(d))'
    BY DEF Processes
  <2>1. Unsent(d) /\ Counted(d) /\ Signalled(d) /\ Kept(d) /\ Cleaned(d)
    BY DEF IInv, Processes
  <2>2. Unsent(d)' /\ Counted(d)' /\ Signalled(d)'
    BY <1>1, <2>1 DEF IInv, TypeOK, Unsent, Counted, Signalled
  <2>3. Cleaned(d)'
    BY <2>1 DEF Cleaned, PastPkg, AtWork
  <2>k. Kept(d)'
    BY <1>1, <2>1 DEF IInv, TypeOK, Kept, Cleaning, Over, Signalled, Counted, Work, TwoWords
  <2> QED  BY <2>2, <2>3, <2>k
<1> QED  BY <1>2, <1>3, <1>4, <1>5 DEF IInv

LEMMA ReadKeeps ==
    ASSUME IInv, readDatagram
    PROVE  IInv'
<1> DEFINE c == Head(socket)
<1> USE DEF readDatagram, DaemonOnly, files, web, TwoWords
<1>1. /\ c \in Cgi /\ c # NoCgi /\ c = socket[1] /\ rpm[c] = "none" /\ cgi[c] # "send"
      /\ ~done[c] /\ ~heard[c]
  BY Received DEF IInv, Queue, Processes, Signalled, Over
<1>2. /\ socket' \in Seq(Cgi) /\ Len(socket') \in Nat /\ Len(socket') = Len(socket) - 1
      /\ Len(socket) \in Nat \ {0}
      /\ \A i \in 1..Len(socket') : socket'[i] = socket[i + 1] /\ socket'[i] \in Cgi
  BY Received, LenProperties, ElementOfSeq DEF IInv
<1>3. job = NoCgi
  BY DEF IInv, Work, TwoWords
<1>4. \/ accum' = TRUE /\ UNCHANGED <<rpm, daemon, job>>
      \/ /\ accum' = FALSE /\ job' \in {NoCgi, c} /\ daemon' = "unlink" /\ UNCHANGED rpm
         /\ job' = c => kind[c] # "word"
      \/ /\ accum' = FALSE /\ job' = c /\ kind[c] = "word" /\ daemon' = "rpm"
         /\ rpm' = [rpm EXCEPT ![c] = "running"]
  BY <1>1
<1> HIDE DEF c, readDatagram
<1>u. daemon = "idle" /\ UNCHANGED <<kind, cgi, polls, heard, pkg, done, dir>>
  BY DEF readDatagram
<1>5. TypeOK'
  <2>1. rpm' \in [Cgi -> {"none", "running", "abandoned", "installed", "failed"}]
    BY <1>1, <1>4 DEF IInv, TypeOK
  <2>2. /\ accum' \in BOOLEAN /\ job' \in Cgi \cup {NoCgi}
        /\ daemon' \in {"idle", "rpm", "unlink"}
    BY <1>1, <1>3, <1>4, <1>u DEF IInv, TypeOK
  <2> QED  BY <1>2, <1>u, <2>1, <2>2 DEF IInv, TypeOK
<1>6. Queue'
  <2>1. \A i \in 1..Len(socket') :
          /\ i + 1 \in 1..Len(socket) /\ socket'[i] = socket[i + 1] /\ socket'[i] \in Cgi
    BY <1>2
  <2>2. \A i \in 1..Len(socket') : socket'[i] # c
    BY <1>1, <1>2, <2>1 DEF IInv, Queue
  <2>3. \A i, j \in 1..Len(socket') : socket'[i] = socket'[j] => i = j
    BY <1>2, <2>1 DEF IInv, Queue
  <2>4. \A i \in 1..Len(socket') :
          cgi'[socket'[i]] # "send" /\ socket'[i] # job' /\ rpm'[socket'[i]] = "none"
    <3> TAKE i \in 1..Len(socket')
    <3>1. /\ cgi[socket'[i]] # "send" /\ rpm[socket'[i]] = "none" /\ socket'[i] \in Cgi
          /\ socket'[i] # c /\ socket'[i] # NoCgi
      BY <2>1, <2>2 DEF IInv, Queue
    <3> QED  BY <1>3, <1>4, <1>u, <3>1 DEF IInv, TypeOK
  <2> QED  BY <2>3, <2>4 DEF Queue
<1>7. Work'
  BY <1>1, <1>3, <1>4, <1>u DEF IInv, Work, TypeOK, TwoWords
<1>8. Processes'
  <2> SUFFICES ASSUME NEW d \in Cgi
               PROVE  (Unsent(d) /\ Counted(d) /\ Signalled(d) /\ Kept(d) /\ Cleaned(d))'
    BY DEF Processes
  <2>1. Unsent(d) /\ Counted(d) /\ Signalled(d) /\ Kept(d) /\ Cleaned(d)
    BY DEF IInv, Processes
  <2>2. Unsent(d)' /\ Counted(d)'
    BY <1>1, <1>3, <1>4, <1>u, <2>1 DEF IInv, TypeOK, Unsent, Counted
  <2>3. Signalled(d)'
    BY <1>1, <1>4, <1>u, <2>1 DEF IInv, TypeOK, Signalled
  <2>4. Cleaned(d)'
    BY <1>3, <1>4, <1>u, <2>1 DEF Cleaned, PastPkg, AtWork
  <2>k. Kept(d)'
    BY <1>1, <1>3, <1>4, <1>u, <2>1 DEF IInv, TypeOK, Kept, Cleaning, Over, Signalled, Counted, Work, TwoWords
  <2> QED  BY <2>2, <2>3, <2>4, <2>k
<1> QED  BY <1>5, <1>6, <1>7, <1>8 DEF IInv

LEMMA EndKeeps ==
    ASSUME IInv, EndOfRead
    PROVE  IInv'
<1> USE DEF EndOfRead, DaemonOnly, files, web
<1>1. TypeOK'
  BY DEF IInv, TypeOK
<1>q. Queue' /\ Work'
  BY DEF IInv, Queue, Work, TwoWords
<1>2. Processes'
  BY DEF IInv, Processes, Unsent, Counted, Signalled, Kept, Cleaned, PastPkg, AtWork
<1> QED  BY <1>1, <1>q, <1>2 DEF IInv

LEMMA WaitKeeps ==
    ASSUME IInv, waitForFinished
    PROVE  IInv'
<1> USE DEF waitForFinished, DaemonOnly, files, web
<1>0. job \in Cgi /\ rpm[job] # "none"
  BY DEF IInv, Work, TwoWords
<1>1. TypeOK'
  BY <1>0 DEF IInv, TypeOK
<1>2. Queue'
  <2>1. \A i \in 1..Len(socket) : socket[i] \in Cgi /\ socket[i] # job
    BY Queued, <1>0 DEF IInv, Queue
  <2> QED  BY <1>0, <2>1 DEF IInv, Queue, TypeOK
<1>3. Work'
  BY <1>0 DEF IInv, Work, TypeOK, Over, TwoWords
<1>4. Processes'
  <2> SUFFICES ASSUME NEW d \in Cgi
               PROVE  (Unsent(d) /\ Counted(d) /\ Signalled(d) /\ Kept(d) /\ Cleaned(d))'
    BY DEF Processes
  <2>1. Unsent(d) /\ Counted(d) /\ Signalled(d) /\ Kept(d) /\ Cleaned(d)
    BY DEF IInv, Processes
  <2>2. Unsent(d)' /\ Counted(d)' /\ Signalled(d)'
    BY <1>0, <2>1 DEF IInv, TypeOK, Unsent, Counted, Signalled, Over
  <2>3. Cleaned(d)'
    BY <2>1 DEF Cleaned, PastPkg, AtWork
  <2>k. Kept(d)'
    BY <1>0, <2>1 DEF IInv, TypeOK, Kept, Cleaning, Over, Signalled, Counted, Work, TwoWords
  <2> QED  BY <2>2, <2>3, <2>k
<1> QED  BY <1>1, <1>2, <1>3, <1>4 DEF IInv

LEMMA ApplyKeeps ==
    ASSUME IInv, Apply
    PROVE  IInv'
<1> USE DEF Apply, DaemonOnly, web, CreateDone, UnlinkPkg, UnlinkDone, Rmdir
<1>0. job \in Cgi /\ kind[job] = "word" /\ (daemon = "signal" => rpm[job] \in Over)
  BY DEF IInv, Work, TypeOK, TwoWords
<1>1. TypeOK'
  BY <1>0 DEF IInv, TypeOK
<1>2. Queue'
  BY DEF IInv, Queue
<1>3. Work'
  BY <1>0 DEF IInv, Work, TwoWords
<1>4. Processes'
  <2> SUFFICES ASSUME NEW d \in Cgi
               PROVE  (Unsent(d) /\ Counted(d) /\ Signalled(d) /\ Kept(d) /\ Cleaned(d))'
    BY DEF Processes
  <2>1. Unsent(d) /\ Counted(d) /\ Signalled(d) /\ Kept(d) /\ Cleaned(d)
    BY DEF IInv, Processes
  <2>2. Unsent(d)' /\ Counted(d)' /\ Signalled(d)'
    BY <1>0, <2>1 DEF IInv, TypeOK, Unsent, Counted, Signalled
  <2>3. Cleaned(d)'
    BY <1>0, <2>1 DEF IInv, TypeOK, Cleaned, AtWork, PastPkg, PastDone
  <2>k. Kept(d)'
    BY <1>0, <2>1 DEF IInv, TypeOK, Kept, Cleaning, Over, Signalled, Counted, Work, TwoWords
  <2> QED  BY <2>2, <2>3, <2>k
<1> QED  BY <1>1, <1>2, <1>3, <1>4 DEF IInv

LEMMA SkipKeeps ==
    ASSUME IInv, Skip
    PROVE  IInv'
<1> USE DEF Skip, DaemonOnly, web, files, UnlinkPkg
<1>0. ~accum /\ (job \in Cgi => kind[job] # "word")
  BY DEF IInv, Work, TwoWords
<1>1. TypeOK'
  BY DEF IInv, TypeOK
<1>2. Queue' /\ Work'
  BY DEF IInv, Queue, Work, TwoWords
<1>3. Processes'
  <2> SUFFICES ASSUME NEW d \in Cgi
               PROVE  (Unsent(d) /\ Counted(d) /\ Signalled(d) /\ Kept(d) /\ Cleaned(d))'
    BY DEF Processes
  <2>1. Unsent(d) /\ Counted(d) /\ Signalled(d) /\ Kept(d) /\ Cleaned(d)
    BY DEF IInv, Processes
  <2>2. Unsent(d)' /\ Counted(d)' /\ Signalled(d)'
    BY <2>1 DEF Unsent, Counted, Signalled
  <2>3. Cleaned(d)'
    BY <1>0, <2>1 DEF IInv, TypeOK, Cleaned, PastPkg, AtWork
  <2>k. Kept(d)'
    BY <1>0, <2>1 DEF IInv, TypeOK, Kept, Cleaning, Over, Signalled, Counted, Work, TwoWords
  <2> QED  BY <2>2, <2>3, <2>k
<1> QED  BY <1>1, <1>2, <1>3 DEF IInv

LEMMA ExitKeeps ==
    ASSUME IInv, Exit
    PROVE  IInv'
<1> USE DEF Exit, DaemonOnly, web, files
<1>1. TypeOK'
  <2>1. socket' \in Seq(Cgi)
    BY EmptySeq
  <2>2. rpm' \in [Cgi -> {"none", "running", "abandoned", "installed", "failed"}]
    BY DEF IInv, TypeOK
  <2> QED  BY <2>1, <2>2 DEF IInv, TypeOK
<1>2. Queue' /\ Work'
  BY DEF IInv, Queue, Work, TwoWords
<1>3. Processes'
  <2> SUFFICES ASSUME NEW d \in Cgi
               PROVE  (Unsent(d) /\ Counted(d) /\ Signalled(d) /\ Kept(d) /\ Cleaned(d))'
    BY DEF Processes
  <2>1. Unsent(d) /\ Counted(d) /\ Signalled(d) /\ Kept(d) /\ Cleaned(d)
    BY DEF IInv, Processes
  <2>2. Unsent(d)' /\ Counted(d)' /\ Signalled(d)'
    BY <2>1 DEF IInv, TypeOK, Unsent, Counted, Signalled, Over
  <2>3. Cleaned(d)'
    BY <2>1 DEF Cleaned, PastPkg, AtWork
  <2>k. Kept(d)'
    BY <2>1 DEF IInv, TypeOK, Kept, Cleaning, Over, Signalled, Counted, Work, TwoWords
  <2> QED  BY <2>2, <2>3, <2>k
<1> QED  BY <1>1, <1>2, <1>3 DEF IInv

LEMMA RestartKeeps ==
    ASSUME IInv, SystemdRestarts
    PROVE  IInv'
<1> USE DEF SystemdRestarts, DaemonOnly, files, web
<1>1. TypeOK' /\ Queue' /\ Work'
  BY DEF IInv, TypeOK, Queue, Work, TwoWords
<1>2. Processes'
  BY DEF IInv, Processes, Unsent, Counted, Signalled, Kept, Cleaned, PastPkg, AtWork
<1> QED  BY <1>1, <1>2 DEF IInv

LEMMA StutterKeeps ==
    ASSUME IInv, UNCHANGED vars
    PROVE  IInv'
<1> USE DEF vars, web, files
<1>1. TypeOK' /\ Queue' /\ Work'
  BY DEF IInv, TypeOK, Queue, Work, TwoWords
<1>2. Processes'
  BY DEF IInv, Processes, Unsent, Counted, Signalled, Kept, Cleaned, PastPkg, AtWork
<1> QED  BY <1>1, <1>2 DEF IInv

LEMMA NextInv == IInv /\ [Next]_vars => IInv'
<1> SUFFICES ASSUME IInv, [Next]_vars PROVE IInv'
  OBVIOUS
<1>1. ASSUME NEW c \in Cgi, Web(c) \/ CgiKilled(c) \/ RpmEnds(c)  PROVE  IInv'
  BY <1>1, SendKeeps, PollKeeps, CleanupKeeps, KilledKeeps, RpmKeeps DEF Web
<1>2. CASE Daemon
  BY <1>2, ReadKeeps, EndKeeps, WaitKeeps, ApplyKeeps, SkipKeeps, ExitKeeps, RestartKeeps
  DEF Daemon
<1>3. CASE UNCHANGED vars
  BY <1>3, StutterKeeps
<1> QED  BY <1>1, <1>2, <1>3 DEF Next

-----------------------------------------------------------------------------
LEMMA SpecInv == Spec => []IInv
  BY InitInv, NextInv, PTL DEF Spec

(* Every variable holds values of its kind, with any number of processes:  *)
(* no process polls more often than the loop allows.                       *)
THEOREM UpgradeTypes == Spec => []TypeOK
<1>1. IInv => TypeOK
  BY DEF IInv
<1> QED  BY <1>1, SpecInv, PTL

(* Whatever the processes do, a package stays in its place while webhostd  *)
(* waits for its rpm (MainObject::Upgrade()), unless the process that      *)
(* uploaded it polled to the last without an answer.  That an rpm which    *)
(* webhostd gave up on keeps its package is not said, and is not so.       *)
THEOREM PackageStays == Spec => []PackageIsKept
<1>1. IInv => PackageIsKept
  BY DEF IInv, Processes, Kept, Signalled, PackageIsKept, Over
<1> QED  BY <1>1, SpecInv, PTL

(* The process and webhostd remove the directory between them, in every    *)
(* interleaving of their six and four system calls.                        *)
THEOREM DirectoryIsRemoved == Spec => []NothingLeftBehind
<1>1. IInv => NothingLeftBehind
  BY DEF IInv, Processes, Cleaned, AtWork, NothingLeftBehind, TypeOK
<1> QED  BY <1>1, SpecInv, PTL
=============================================================================
