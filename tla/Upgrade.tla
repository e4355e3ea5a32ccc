------------------------------- MODULE Upgrade -------------------------------
(***************************************************************************)
(* The UPGRADE command: WHCgiPost::sendUpgradeCommand() in CGI processes,  *)
(* MainObject::Upgrade() in webhostd, and the files they share.            *)
(*                                                                         *)
(* Each CGI process has uploaded one package into a directory of its own.  *)
(* It sends the path to webhostd over UDP, polls for a file "done" next to *)
(* the package and cleans up; webhostd runs rpm, creates "done", cleans up *)
(* as well, and exits to be restarted by systemd.  Every system call on    *)
(* the shared directory is a step of its own.                              *)
(***************************************************************************)
EXTENDS Integers, Sequences, SequencesExt

CONSTANTS
    Cgi,        \* the CGI processes
    NoCgi,      \* webhostd handles no package
    MaxPolls,   \* polls for "done"; 31 in the code
    Kind        \* the kinds of path that are sent, of those below

(* "word"  a path that is one word of the command.                         *)
(* "words" a path with a space: the command has three words, the second    *)
(*         one names no file.                                              *)
(* "wide"  a path that is longer in UTF-8 than in characters: the datagram *)
(*         is cut short of its "!", and the package was saved under a name *)
(*         of one byte per character.                                      *)
(* "pair"  two paths, sent by a local program that does not wait: the      *)
(*         documented form, of which the first path is modelled.           *)
ASSUME KindAssumption == Kind \subseteq {"word", "words", "wide", "pair"}
ASSUME PollsAssumption == MaxPolls \in Nat \ {0}
ASSUME NoCgiAssumption == NoCgi \notin Cgi

VARIABLES
    kind,       \* what path each process sends
    cgi,        \* where each process is
    polls,      \* how often it looked for "done"
    heard,      \* it found "done"
    pkg, done, dir,   \* the package, "done" and the directory exist
    rpm,        \* what became of the package's rpm process
    socket,     \* datagrams in main_command_socket, by their sender
    accum,      \* readyReadData() has a command without an end
    daemon,     \* where webhostd is
    job         \* the sender of the command it handles

files == <<pkg, done, dir>>
web   == <<cgi, polls, heard>>
vars  == <<kind, web, files, rpm, socket, accum, daemon, job>>

Init ==
    /\ kind \in [Cgi -> Kind]
    /\ cgi = [c \in Cgi |-> "send"]
    /\ polls = [c \in Cgi |-> 0]
    /\ heard = [c \in Cgi |-> FALSE]
    /\ pkg = [c \in Cgi |-> TRUE]
    /\ done = [c \in Cgi |-> FALSE]
    /\ dir = [c \in Cgi |-> TRUE]
    /\ rpm = [c \in Cgi |-> "none"]
    /\ socket = <<>>
    /\ accum = FALSE
    /\ daemon = "idle"
    /\ job = NoCgi

-----------------------------------------------------------------------------
(* System calls on the directory of c. *)
UnlinkPkg(c)  == pkg' = [pkg EXCEPT ![c] = FALSE] /\ UNCHANGED <<done, dir>>
UnlinkDone(c) == done' = [done EXCEPT ![c] = FALSE] /\ UNCHANGED <<pkg, dir>>
CreateDone(c) == done' = [done EXCEPT ![c] = dir[c]] /\ UNCHANGED <<pkg, dir>>
Rmdir(c)      == dir' = [dir EXCEPT ![c] = dir[c] /\ (pkg[c] \/ done[c])]
                 /\ UNCHANGED <<pkg, done>>

-----------------------------------------------------------------------------
(* sendUpgradeCommand() and the end of the CGI process.                    *)
CgiOnly == UNCHANGED <<kind, rpm, accum, daemon, job>>
Goto(c, next) == cgi' = [cgi EXCEPT ![c] = next] /\ UNCHANGED <<polls, heard>>

(* A datagram to a port that nobody has bound is lost. *)
SendCommand(c) ==
    /\ cgi[c] = "send"
    /\ Goto(c, IF kind[c] = "pair" THEN "exited" ELSE "wait")
    /\ socket' = IF daemon = "down" THEN socket ELSE Append(socket, c)
    /\ UNCHANGED files /\ CgiOnly

(* Mutant: "done" alone ends the loop. *)
PatientPoll(c) ==
    /\ cgi[c] = "wait"
    /\ heard' = [heard EXCEPT ![c] = done[c]]
    /\ polls' = [polls EXCEPT ![c] = IF @ < MaxPolls THEN @ + 1 ELSE @]
    /\ cgi' = [cgi EXCEPT ![c] = IF done[c] THEN "unlink" ELSE "wait"]
    /\ UNCHANGED <<files, socket>> /\ CgiOnly

(* Mutant: the polls are counted one too late. *)
LatePoll(c) ==
    /\ cgi[c] = "wait"
    /\ heard' = [heard EXCEPT ![c] = done[c]]
    /\ polls' = [polls EXCEPT ![c] = @ + 1]
    /\ cgi' = [cgi EXCEPT ![c] = IF done[c] \/ polls[c] = MaxPolls THEN "unlink" ELSE "wait"]
    /\ UNCHANGED <<files, socket>> /\ CgiOnly

(* do { sleep; open } while(...) *)
Poll(c) ==
    /\ cgi[c] = "wait"
    /\ heard' = [heard EXCEPT ![c] = done[c]]
    /\ polls' = [polls EXCEPT ![c] = @ + 1]
    /\ cgi' = [cgi EXCEPT ![c] =
                 IF done[c] \/ polls[c] + 1 = MaxPolls THEN "unlink" ELSE "wait"]
    /\ UNCHANGED <<files, socket>> /\ CgiOnly

(* The three calls that end sendUpgradeCommand(), then ~WHCgiPost(), which *)
(* unlinks the uploads and removes the directory.  The first unlink takes  *)
(* the path in UTF-8, which names no file if that is not how it was saved. *)
Cleanup(c) ==
    /\ \/ /\ cgi[c] = "unlink" /\ Goto(c, "unlink done")
          /\ IF kind[c] = "wide" THEN UNCHANGED files ELSE UnlinkPkg(c)
       \/ cgi[c] = "unlink done" /\ UnlinkDone(c) /\ Goto(c, "rmdir")
       \/ cgi[c] = "rmdir" /\ Rmdir(c) /\ Goto(c, "destroy")
       \/ cgi[c] = "destroy" /\ UnlinkPkg(c) /\ Goto(c, "destroy dir")
       \/ cgi[c] = "destroy dir" /\ Rmdir(c) /\ Goto(c, "exited")
    /\ UNCHANGED socket /\ CgiOnly

(* The browser goes away and the web server kills the script. *)
CgiKilled(c) ==
    /\ kind[c] # "pair" /\ cgi[c] # "exited" /\ cgi[c] # "killed"
    /\ Goto(c, "killed")
    /\ UNCHANGED <<files, socket>> /\ CgiOnly

-----------------------------------------------------------------------------
(* webhostd *)
DaemonOnly == UNCHANGED <<kind, web>>

(* The command has two words: the path is taken for a package and its      *)
(* directory for the temporary one.                                        *)
TwoWords(c) == c # NoCgi /\ kind[c] = "word" /\ ~accum

(* readyReadData(), ProcessCommand() and the test at the head of Upgrade():*)
(* a command cut short is continued by the next datagram of the same read. *)
readDatagram ==
    /\ daemon = "idle" /\ socket # <<>>
    /\ socket' = Tail(socket)
    /\ LET c == Head(socket)
       IN IF kind[c] = "wide" THEN accum' = TRUE /\ UNCHANGED <<rpm, daemon, job>>
          ELSE /\ job' = IF accum THEN NoCgi ELSE c
               /\ accum' = FALSE
               /\ daemon' = IF TwoWords(c) THEN "rpm" ELSE "unlink"
               /\ rpm' = IF TwoWords(c) THEN [rpm EXCEPT ![c] = "running"] ELSE rpm
    /\ UNCHANGED files /\ DaemonOnly

(* readyReadData() returns and forgets what it accumulated. *)
EndOfRead ==
    /\ daemon = "idle" /\ socket = <<>> /\ accum
    /\ accum' = FALSE
    /\ UNCHANGED <<files, rpm, socket, daemon, job>> /\ DaemonOnly

(* rpm ends; it can succeed only while the package is there. *)
RpmEnds(c) ==
    /\ rpm[c] \in {"running", "abandoned"}
    /\ \E result \in {"failed"} \cup (IF pkg[c] THEN {"installed"} ELSE {}) :
         rpm' = [rpm EXCEPT ![c] = result]
    /\ UNCHANGED <<files, socket, accum, daemon, job>> /\ DaemonOnly

(* Mutant: completion is signalled before rpm has run. *)
HastyWaitForFinished ==
    /\ daemon = "rpm"
    /\ daemon' = "signal"
    /\ UNCHANGED <<rpm, files, socket, accum, job>> /\ DaemonOnly

(* waitForFinished() returns when rpm has ended, or gives up after 30 s.   *)
waitForFinished ==
    /\ daemon = "rpm"
    /\ daemon' = "signal"
    /\ rpm' = [rpm EXCEPT ![job] = IF @ = "running" THEN "abandoned" ELSE @]
    /\ UNCHANGED <<files, socket, accum, job>> /\ DaemonOnly

(* Mutant: the directory is removed before the file in it. *)
SwappedApply ==
    /\ TwoWords(job)
    /\ \/ daemon = "signal" /\ CreateDone(job) /\ daemon' = "unlink"
       \/ daemon = "unlink" /\ UnlinkPkg(job) /\ daemon' = "rmdir"
       \/ daemon = "rmdir" /\ Rmdir(job) /\ daemon' = "unlink done"
       \/ daemon = "unlink done" /\ UnlinkDone(job) /\ daemon' = "kill"
    /\ UNCHANGED <<rpm, socket, accum, job>> /\ DaemonOnly

(* Upgrade() from the signal on, for a package that was applied. *)
Apply ==
    /\ TwoWords(job)
    /\ \/ daemon = "signal" /\ CreateDone(job) /\ daemon' = "unlink"
       \/ daemon = "unlink" /\ UnlinkPkg(job) /\ daemon' = "unlink done"
       \/ daemon = "unlink done" /\ UnlinkDone(job) /\ daemon' = "rmdir"
       \/ daemon = "rmdir" /\ Rmdir(job) /\ daemon' = "kill"
    /\ UNCHANGED <<rpm, socket, accum, job>> /\ DaemonOnly

(* The same for another number of words: the second word is unlinked, the  *)
(* directory is the empty string.                                          *)
Skip ==
    /\ daemon = "unlink" /\ ~TwoWords(job)
    /\ daemon' = "kill"
    /\ IF job # NoCgi /\ kind[job] = "pair" THEN UnlinkPkg(job) ELSE UNCHANGED files
    /\ UNCHANGED <<rpm, socket, accum, job>> /\ DaemonOnly

(* The service is killed and webhostd exits: its socket is closed with     *)
(* what is in it, and systemd kills an rpm process that is still running.  *)
Exit ==
    /\ daemon = "kill"
    /\ daemon' = "down"
    /\ job' = NoCgi
    /\ socket' = <<>> /\ accum' = FALSE
    /\ rpm' = [c \in Cgi |-> IF rpm[c] = "abandoned" THEN "failed" ELSE rpm[c]]
    /\ UNCHANGED files /\ DaemonOnly

(* Restart=always in webhost.service. *)
SystemdRestarts ==
    /\ daemon = "down"
    /\ daemon' = "idle"
    /\ UNCHANGED <<files, rpm, socket, accum, job>> /\ DaemonOnly

-----------------------------------------------------------------------------
Web(c) == SendCommand(c) \/ Poll(c) \/ Cleanup(c)
Daemon == \/ readDatagram \/ EndOfRead \/ waitForFinished
          \/ Apply \/ Skip \/ Exit \/ SystemdRestarts

Next ==
    \/ \E c \in Cgi : Web(c) \/ CgiKilled(c) \/ RpmEnds(c)
    \/ Daemon

(* Processes that are not killed run on; webhostd's wait is bounded. *)
Fairness == WF_vars(Daemon) /\ \A c \in Cgi : WF_vars(Web(c))

Spec == Init /\ [][Next]_vars /\ Fairness

-----------------------------------------------------------------------------
(* Every variable holds values of its kind. *)
TypeOK ==
    /\ kind \in [Cgi -> Kind]
    /\ cgi \in [Cgi -> {"send", "wait", "unlink", "unlink done", "rmdir",
                        "destroy", "destroy dir", "exited", "killed"}]
    /\ polls \in [Cgi -> 0..MaxPolls]
    /\ heard \in [Cgi -> BOOLEAN]
    /\ pkg \in [Cgi -> BOOLEAN] /\ done \in [Cgi -> BOOLEAN] /\ dir \in [Cgi -> BOOLEAN]
    /\ rpm \in [Cgi -> {"none", "running", "abandoned", "installed", "failed"}]
    /\ socket \in Seq(Cgi)
    /\ accum \in BOOLEAN
    /\ daemon \in {"idle", "rpm", "signal", "unlink", "unlink done", "rmdir", "kill", "down"}
    /\ job \in Cgi \cup {NoCgi}

(* While webhostd waits for a package's rpm, the package is not taken from *)
(* it: not by webhostd, and by the process that uploaded it only when that *)
(* one has polled to the last without an answer: its 31 polls outlast one  *)
(* wait of webhostd, but the command may have come late.                   *)
PackageIsKept ==
    \A c \in Cgi : rpm[c] = "running" /\ ~pkg[c] => ~heard[c] /\ polls[c] = MaxPolls

(* "Wait for webhostd to signal completion": when a process finds "done",  *)
(* rpm has ended with its package.                                         *)
HeardMeansComplete ==
    \A c \in Cgi : heard[c] => rpm[c] \in {"installed", "failed"}

(* What a process that ended by itself leaves behind webhostd removes: the *)
(* two clean up the same files in any interleaving, and the directory is   *)
(* not left to exist because each found it not yet empty.                  *)
NothingLeftBehind ==
    \A c \in Cgi : cgi[c] = "exited" /\ kind[c] # "pair" /\ job # c => ~dir[c]

(* webhostd removes the directory of a package that it applied, also when  *)
(* the process that uploaded it is killed.                                 *)
AppliedIsReclaimed ==
    \A c \in Cgi : rpm[c] = "running" ~> ~dir[c]

(* sendUpgradeCommand() returns, though the datagram be lost or cut short  *)
(* or webhostd be down or busy with another package.                       *)
CgiFinishes ==
    \A c \in Cgi : cgi[c] = "wait" ~> cgi[c] \in {"exited", "killed"}

(* "Will delete <pkg-path> after applying upgrade": webhostd deletes a     *)
(* package only when it has run rpm on it.                                 *)
DeletedAfterApplying ==
    [][\A c \in Cgi : job = c /\ UNCHANGED cgi /\ pkg'[c] # pkg[c]
                        => rpm[c] # "none"]_vars
=============================================================================
