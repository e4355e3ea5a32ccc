------------------------------ MODULE UserFile ------------------------------
(***************************************************************************)
(* ADDUSER2 and DELETEUSER2: webhostd rewrites the user file and tells the *)
(* service, which loads it with WHHttpServer::loadUsers().  The service    *)
(* may also change its users itself and write them with saveUsers().       *)
(*                                                                         *)
(* A user is a realm and a name together.  The file is a function from     *)
(* section numbers to what the section says: the [WebHostUser<n>] sections *)
(* are read from 1 to the first number that is missing.  Each call that    *)
(* touches a file or sends a signal is a step, since webhostd may die      *)
(* between two of them and the service reads and writes whenever it likes. *)
(*                                                                         *)
(* Both write the new file under the name <filename>.back and rename it.   *)
(* Nothing keeps them apart: both may have the same file open, and one may *)
(* rename what the other still writes.  What is written reaches the disk   *)
(* with fclose(), as it does for a file that fits the buffer of stdio.     *)
(***************************************************************************)
EXTENDS Integers, Sequences, FiniteSets

CONSTANTS
    User,       \* pairs of a realm and a name
    Password,
    MaxSections,    \* bound on the sections of a file
    InitialFiles    \* the files that an administrator may have written

ASSUME MaxSectionsAssumption == MaxSections \in Nat \ {0}

Section == [user : User, passwd : Password]
Command == [verb : {"ADDUSER2"}, user : User, passwd : Password]
           \cup [verb : {"DELETEUSER2"}, user : User]
Nothing == [verb |-> "none"]

Files == UNION {[D -> Section] : D \in SUBSET (1..MaxSections)}
Users == UNION {[U -> Password] : U \in SUBSET User}
NoUsers == [u \in {} |-> CHOOSE p \in Password : TRUE]

ASSUME InitialFilesAssumption == InitialFiles \subseteq Files

VARIABLES
    handler,    \* the step at which webhostd's command handler is
    command,    \* the user command it carries out, or Nothing
    file,       \* the user file; a missing file is an empty one
    back,       \* what the file with the suffix .back holds
    exists,     \* there is such a file
    fd,         \* where the file is now that each program writes
    source,     \* the file as setSource() read it in webhostd
    unread,     \* it could not read it, and took it for an empty one
    overlapped, \* history: the two had the backup in work at one time
    service,    \* how far the service process is
    running,    \* main_service_process->state() is QProcess::Running
    unheard,    \* it was not told of a change since it opened the file,
                \* or could not open it
    snapshot,   \* the file as the service has it open
    http_users, \* WHHttpServer::http_users in the service
    unsaved,    \* it has changed them since it loaded or saved them
    saving,     \* the step of saveUsers() at which the service is
    hup         \* a SIGHUP is pending for it

backup      == <<exists, fd, source, unread, overlapped>>
daemonVars  == <<command, file, back, backup>>
serviceVars == <<service, running, unheard, snapshot, http_users,
                 unsaved, saving, hup>>
vars        == <<handler, daemonVars, serviceVars>>

Program == {"webhostd", "service"}

Init ==
    /\ handler = "idle"
    /\ command = Nothing
    /\ file \in InitialFiles
    /\ back = <<>> /\ exists = FALSE
    /\ fd = [w \in Program |-> "none"]
    /\ source = <<>> /\ unread = FALSE
    /\ overlapped = FALSE
    /\ service = "down"
    /\ running = FALSE /\ unheard = FALSE
    /\ snapshot = <<>>
    /\ http_users = NoUsers
    /\ unsaved = FALSE /\ saving = "no"
    /\ hup = FALSE

-----------------------------------------------------------------------------
(* The sections that are found: those before the first missing number.     *)
Count(f) == CHOOSE n \in 0..MaxSections : 1..n \subseteq DOMAIN f /\ n + 1 \notin DOMAIN f

Sections(f) == [i \in 1..Count(f) |-> f[i]]

(* loadUsers(): of several sections for one user the last one counts.      *)
Loaded(f) ==
    LET named(u) == {i \in 1..Count(f) : f[i].user = u}
    IN [u \in {f[i].user : i \in 1..Count(f)} |->
          f[CHOOSE i \in named(u) : \A j \in named(u) : j <= i].passwd]

(* AddUser2(): every section of the user is given the password; a new one  *)
(* is written if there was none.                                           *)
Added(f, user, passwd) ==
    LET kept == [i \in DOMAIN Sections(f) |->
                   IF f[i].user = user THEN [f[i] EXCEPT !.passwd = passwd] ELSE f[i]]
    IN IF \E i \in DOMAIN kept : kept[i].user = user THEN kept
       ELSE Append(kept, [user |-> user, passwd |-> passwd])

(* Mutant: the sections keep the numbers they had. *)
GappyDeleted(f, user) ==
    LET rest == {i \in 1..Count(f) : f[i].user # user}
    IN [i \in rest |-> f[i]]

(* Mutant: the sections that remain are numbered from zero. *)
ZeroDeleted(f, user) ==
    LET rest == SelectSeq(Sections(f), LAMBDA section : section.user # user)
    IN [i \in {k - 1 : k \in DOMAIN rest} |-> rest[i + 1]]

(* DeleteUser2(): section after section is copied, or is left out if it is *)
(* the user's; those that remain are numbered anew.                        *)
Deleted(f, user) ==
    LET kept[i \in 0..Count(f)] ==
          IF i = 0 THEN <<>>
          ELSE IF f[i].user = user THEN kept[i - 1] ELSE Append(kept[i - 1], f[i])
    IN kept[Count(f)]

-----------------------------------------------------------------------------
(* The service process ends, and what it held goes with it. *)
ServiceEnds ==
    /\ service' = "down"
    /\ running' = FALSE /\ unheard' = FALSE
    /\ snapshot' = <<>> /\ http_users' = NoUsers
    /\ unsaved' = FALSE /\ saving' = "no"
    /\ hup' = FALSE

-----------------------------------------------------------------------------
(* The file with the suffix .back, which either program opens, writes and  *)
(* renames whatever the other one is about.                                *)
Writes(w) == IF w = "webhostd" THEN handler \in {"read", "write", "rename"}
             ELSE saving # "no"

(* fopen(".back","w"): a file that is there is truncated, and stays the    *)
(* file of the program that has it open.                                   *)
OpenBack(w) ==
    /\ back' = <<>> /\ exists' = TRUE
    /\ fd' = [fd EXCEPT ![w] = "back"]
    /\ overlapped' = \E v \in Program \ {w} : Writes(v)

(* What a file becomes that is written from its start: behind the new      *)
(* text the rest of a longer old one stays, from some section on, and a    *)
(* section that is there twice is read at its first place.                 *)
Overwritten(old, new) ==
    {[i \in DOMAIN new \cup {j \in DOMAIN old : j > n} |->
        IF i \in DOMAIN new THEN new[i] ELSE old[i]] : n \in 0..MaxSections}

(* fclose(), with the text going where the open file is now.               *)
CloseBack(w, new) ==
    /\ fd' = [fd EXCEPT ![w] = "none"]
    /\ back' \in IF fd[w] = "back" THEN Overwritten(back, new) ELSE {back}
    /\ file' \in IF fd[w] = "file" THEN Overwritten(file, new) ELSE {file}

(* rename(): nothing happens if the other program was faster.              *)
RenameBack ==
    /\ file' = IF exists THEN back ELSE file
    /\ back' = <<>> /\ exists' = FALSE
    /\ fd' = [w \in Program |->
                IF ~exists THEN fd[w]
                ELSE CASE fd[w] = "back" -> "file"
                       [] fd[w] = "file" -> "gone"
                       [] OTHER -> fd[w]]

-----------------------------------------------------------------------------
(* If fopen() fails, or the command has not the words it needs, the        *)
(* handler returns and nothing was changed.                                *)
Open(cmd) ==
    /\ handler = "idle"
    /\ command' = cmd
    /\ handler' = "read"
    /\ OpenBack("webhostd")
    /\ UNCHANGED <<file, source, unread, serviceVars>>

(* One command at a time is taken from the socket; those for other files   *)
(* and other things leave this one alone.                                  *)
ProcessCommand == \E cmd \in Command : Open(cmd)

(* Nobody looks whether setSource() could open the file.                   *)
Read ==
    /\ handler = "read"
    /\ handler' = "write"
    /\ \/ source' = file /\ unread' = FALSE
       \/ source' = <<>> /\ unread' = TRUE
    /\ command.verb = "ADDUSER2" => Count(source') < MaxSections
    /\ UNCHANGED <<command, file, back, exists, fd, overlapped, serviceVars>>

(* The sections that were read are written, up to fclose().                *)
Write ==
    /\ handler = "write"
    /\ handler' = "rename"
    /\ CloseBack("webhostd", IF command.verb = "ADDUSER2"
                             THEN Added(source, command.user, command.passwd)
                             ELSE Deleted(source, command.user))
    /\ source' = <<>>
    /\ unheard' = (unheard \/ fd["webhostd"] = "file")
    /\ UNCHANGED <<command, exists, unread, overlapped, service, running, snapshot,
                   http_users, unsaved, saving, hup>>

(* Mutant: the file is put in place before it was closed. *)
HastyRename ==
    /\ handler = "write"
    /\ handler' = "kill"
    /\ RenameBack
    /\ source' = <<>> /\ unread' = FALSE
    /\ UNCHANGED <<command, overlapped, serviceVars>>

Rename ==
    /\ handler = "rename"
    /\ handler' = "kill"
    /\ RenameBack
    /\ unread' = FALSE
    /\ UNCHANGED <<command, source, overlapped, serviceVars>>

(* Mutant: a service that is still loading is not told. *)
LazyHangUp ==
    /\ handler = "kill"
    /\ handler' = "idle"
    /\ command' = Nothing
    /\ hup' = (hup \/ (running /\ service = "serving"))
    /\ unheard' = (unheard \/ ~running)
    /\ UNCHANGED <<file, back, backup, service, running, snapshot, http_users, unsaved, saving>>

(* kill(SIGHUP), if the QProcess is running as far as it knows.  Before    *)
(* the service has its handler for the signal, the signal ends it.         *)
HangUp ==
    /\ handler = "kill"
    /\ handler' = "idle"
    /\ command' = Nothing
    /\ IF running /\ service = "booting" THEN ServiceEnds
       ELSE /\ hup' = (hup \/ (running /\ service # "down"))
            /\ unheard' = (unheard \/ ~running)
            /\ UNCHANGED <<service, running, snapshot, http_users, unsaved, saving>>
    /\ UNCHANGED <<file, back, backup>>

-----------------------------------------------------------------------------
(* The service.  It takes the signal as the request to load its users      *)
(* again, and loads them when it starts.                                   *)

(* The event loop starts a service that has ended, the kernel executes it, *)
(* and the event loop learns that it runs: it is busy during a command.    *)
Start ==
    /\ handler = "idle" /\ service = "down"
    /\ service' = "starting"
    /\ UNCHANGED <<handler, daemonVars, running, unheard, snapshot, http_users,
                   unsaved, saving, hup>>

Execute ==
    /\ service = "starting"
    /\ service' = "booting"
    /\ UNCHANGED <<handler, daemonVars, running, unheard, snapshot, http_users,
                   unsaved, saving, hup>>

started ==
    /\ handler = "idle" /\ service \notin {"down", "starting"} /\ ~running
    /\ running' = TRUE
    /\ UNCHANGED <<handler, daemonVars, service, unheard, snapshot, http_users,
                   unsaved, saving, hup>>

(* loadUsers() opens the file that has the name now; if it cannot, it      *)
(* leaves the users alone.                                                 *)
BeginLoad ==
    /\ service = "booting" \/ (service = "serving" /\ hup /\ saving = "no")
    /\ hup' = FALSE
    /\ \/ service' = "loading" /\ snapshot' = file /\ unheard' = FALSE
       \/ service' = "serving" /\ unheard' = TRUE /\ UNCHANGED snapshot
    /\ UNCHANGED <<handler, daemonVars, running, http_users, unsaved, saving>>

loadUsers ==
    /\ service = "loading"
    /\ service' = "serving"
    /\ http_users' = Loaded(snapshot)
    /\ snapshot' = <<>>
    /\ unsaved' = FALSE
    /\ UNCHANGED <<handler, daemonVars, running, unheard, saving, hup>>

(* The service changes its users, and writes them when it likes.           *)
Serving == service = "serving" /\ saving = "no"

Changed(users) ==
    /\ Serving
    /\ http_users' = users
    /\ unsaved' = TRUE
    /\ UNCHANGED <<handler, daemonVars, service, running, unheard, snapshot, saving, hup>>

addUser(user, passwd) ==
    Changed([u \in DOMAIN http_users \cup {user} |->
               IF u = user THEN passwd ELSE http_users[u]])

removeUser(user) ==
    Changed([u \in DOMAIN http_users \ {user} |-> http_users[u]])

(* The files that hold the users, in some order: by realm, and in a realm  *)
(* as they came.                                                           *)
Listings(users) ==
    {f \in [1..Cardinality(DOMAIN users) -> Section] :
        /\ {f[i].user : i \in DOMAIN f} = DOMAIN users
        /\ \A i, j \in DOMAIN f : f[i].user = f[j].user => i = j
        /\ \A i \in DOMAIN f : f[i].passwd = users[f[i].user]}

(* saveUsers(), in the same steps as above; no signal is needed.           *)
SaveOpen ==
    /\ Serving
    /\ Cardinality(DOMAIN http_users) \in 0..MaxSections
    /\ saving' = "write"
    /\ OpenBack("service")
    /\ UNCHANGED <<handler, command, file, source, unread, service, running, unheard,
                   snapshot, http_users, unsaved, hup>>

SaveWrite ==
    /\ saving = "write"
    /\ saving' = "rename"
    /\ \E listing \in Listings(http_users) : CloseBack("service", listing)
    /\ unsaved' = (unsaved \/ fd["service"] = "file")
    /\ UNCHANGED <<handler, command, exists, source, unread, overlapped, service, running,
                   unheard, snapshot, http_users, hup>>

SaveRename ==
    /\ saving = "rename"
    /\ saving' = "no"
    /\ RenameBack
    /\ unsaved' = overlapped
    /\ UNCHANGED <<handler, command, source, unread, overlapped, service, running, unheard,
                   snapshot, http_users, hup>>

Die ==
    /\ service \notin {"down", "starting"}
    /\ ServiceEnds
    /\ fd' = [fd EXCEPT !["service"] = "none"]
    /\ UNCHANGED <<handler, command, file, back, exists, source, unread, overlapped>>

(* webhostd dies at any step, and systemd ends the service with it. *)
Crash ==
    /\ handler' = "idle"
    /\ command' = Nothing
    /\ source' = <<>> /\ unread' = FALSE
    /\ fd' = [w \in Program |-> "none"]
    /\ ServiceEnds
    /\ UNCHANGED <<file, back, exists, overlapped>>

Next ==
    \/ ProcessCommand
    \/ Read \/ Write \/ Rename \/ HangUp
    \/ Start \/ Execute \/ started \/ BeginLoad \/ loadUsers \/ Die
    \/ \E user \in User, passwd \in Password : addUser(user, passwd)
    \/ \E user \in User : removeUser(user)
    \/ SaveOpen \/ SaveWrite \/ SaveRename
    \/ Crash

Spec == Init /\ [][Next]_vars

-----------------------------------------------------------------------------
(* Every variable holds values of its kind. *)
TypeOK ==
    /\ handler \in {"idle", "read", "write", "rename", "kill"}
    /\ command \in Command \cup {Nothing}
    /\ file \in Files /\ back \in Files /\ source \in Files
    /\ exists \in BOOLEAN /\ unread \in BOOLEAN /\ overlapped \in BOOLEAN
    /\ fd \in [Program -> {"none", "back", "file", "gone"}]
    /\ service \in {"down", "starting", "booting", "loading", "serving"}
    /\ running \in BOOLEAN /\ unheard \in BOOLEAN
    /\ snapshot \in Files
    /\ http_users \in Users
    /\ unsaved \in BOOLEAN /\ saving \in {"no", "write", "rename"}
    /\ hup \in BOOLEAN

(* What the users become by a command. *)
Commanded(users) ==
    IF command.verb = "ADDUSER2"
    THEN [u \in DOMAIN users \cup {command.user} |->
            IF u = command.user THEN command.passwd ELSE users[u]]
    ELSE [u \in DOMAIN users \ {command.user} |-> users[u]]

(* Whenever the user file changes, exactly what the command says of its    *)
(* user becomes true of the users that a program loads from it, and no     *)
(* other user is lost or changed: also when sections are given twice, when *)
(* the service loads the file meanwhile, and when an earlier rewrite was   *)
(* cut off half-way or met another one.  A file that the service writes    *)
(* has exactly the users of the service.  There are two exceptions: of a   *)
(* file that setSource() could not read all users are lost, and so they    *)
(* may be when AddUser2() or DeleteUser2() and saveUsers() have the backup *)
(* in work at one time.                                                    *)
RewriteIsExact ==
    [][file' # file /\ ~overlapped =>
         Loaded(file') = IF saving = "rename" THEN http_users
                         ELSE Commanded(IF unread THEN NoUsers ELSE Loaded(file))]_vars

(* A service that serves, has not changed its users itself, is not about   *)
(* to load them again and is not about to be told to, has the users of the *)
(* file: no change is missed by one that loads, saves, starts or ends      *)
(* while the file is replaced, also by both programs at one time.  It is   *)
(* not told when webhostd does not know yet that it runs, and while the    *)
(* file with the name is written to, the other program having renamed it.  *)
ViewIsCurrent ==
    service = "serving" /\ ~unsaved /\ ~hup /\ ~unheard /\ handler # "kill"
        => http_users = Loaded(file)
=============================================================================
