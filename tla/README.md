# webhost: a verification development in TLA+

webhost is a small C++/Qt kit for putting web pages on an appliance.  It has two
halves that run as separate processes:

* **libwh** (`src/wh/`): an HTTP/1.1 and WebSocket server class (`WHHttpServer`), and
  the classes a CGI script is written with (`WHCgiPost`, `WHCgiPage`, `WHCgiApplication`).
* **webhostd** (`src/webhostd/`): a daemon that runs as root.  It keeps one configured
  service command running and carries out a handful of commands (`UPGRADE`, `RESTART`,
  `REBOOT`, `IP`, `NTP`, `ADDUSER`, ...) that CGI scripts send it over UDP on the loopback
  interface.

All code paths below are relative to the root of the repository; `src/wh/x.cpp:n` is a line.

## 1. Inventory

| Component | State it keeps | Operations | Talks to |
|---|---|---|---|
| HTTP server core: `whhttpserver.cpp`, `whhttpconnection.cpp` | the table `http_connections`, the single-shot garbage timer, per connection: parse state, request, socket | one slot per Qt signal: `newConnectionData`, `readyReadData`, `disconnectedData`, `garbageData`; `sendSocketMessage`, `closeSocketConnection` for the application | clients over TCP, the application by virtual calls and signals, CGI relay |
| CGI relay: the `cgi...Data` slots of `WHHttpConnection` | a `QProcess`, the header phase, the headers collected | `startCgiScript` and four slots | the CGI process through pipes, the client's socket |
| WebSocket frames: `whsocketmessage.cpp`, `ReadWebsocket`, `sendSocketMessage` | the message under assembly | encode and decode a frame | HTTP server core |
| Service supervision: `webhostd.cpp`, `restart.cpp` | `main_service_process`, the respawn timer, the kill timer | start, respawn, `RESTART`, kill | the service process by signals |
| Package upgrade: `upgrade.cpp`, `WHCgiPost::sendUpgradeCommand` | an upload directory, the file `done`, the rpm process | `UPGRADE`, poll, clean up on both sides | UDP, the file system, systemd |
| Command channel: `readyReadData`, `ProcessCommand` | the socket's queue, an accumulator | split datagrams at `!`, dispatch | every command |
| User files: `users.cpp`, `loadUsers`, `saveUsers` | password files, a backup name, the users of the service | `ADDUSER2`, `DELETEUSER2`, load, change, save | the service (SIGHUP), the file system |
| Network commands: `ip.cpp`, `wifi.cpp`, `ntp.cpp` | the list of WiFi processes; NetworkManager, configuration files | `IP`, `WIFI`, `NTP` | helper programs, the file system |
| CGI request parsing: `whcgipost.cpp` | the decoded form, the upload directory | decode, upload, clean up, send commands | the web server (standard input), the file system, webhostd |
| CGI framework: `whcgiapplication.cpp`, `whcgipage.cpp` | the post data of one request | start, `exit`, `redirect`, render | CGI request parsing |
| Settings, build files, test programs | none that outlives a request | rendering, parsing of INI files | - |

### What is hard about it

* **Deferred deletion.**  A connection object is not deleted where its socket ends
  but in a later pass of a zero-delay timer, and the application names connections by
  the index of their slot.  Between the end, the pass and the next `newConnectionData()`
  an index may mean a living connection, a dying one, nothing, or somebody else.
* **One handler, many ways to end.**  A WebSocket connection ends by a close frame, a
  malformed frame, the peer's FIN or RST, or from within the destructor of its socket.
* **A parse state that is not reset.**  A second blank line processes the same headers
  again, and so may start a second CGI script or upgrade a connection whose script runs.
* **Output in chunks.**  The relay reads one header line per `readyRead` signal, while
  the pipe decides how the output of the script is cut.
* **Two timers and a process.**  RESTART, the death of the service, its respawn and the
  kill timer come in any order, and none runs while a command handler blocks.
* **Two processes cleaning up the same files**, of which one may be killed and the other
  exits at the end of each upgrade, over a channel that loses, cuts and merges commands.
* **Reads that are taken for messages.**  `ReadWebsocket()` takes whatever has arrived for exactly
  one frame, `LoadUrlEncoding()` one `read()` for the whole body.
* **An input that never ends.**  The server does not close the input of a script: the script
  waits for one line more than the form has, and only a line end that the server adds lets it go on.
* **Files that belong to nobody.**  A script saves the files of a form while it reads it, and may
  fail or be killed at any line; what it did not note down it does not delete.
* **A file replaced under its reader.**  The service opens the user file whenever it
  starts or is sent SIGHUP, while webhostd writes a new one beside it, renames it and
  sends the signal, and either may die between two of these calls.
* **Settings that take several programs.**  An IP command is up to eight calls of nmcli, each
  of which may fail; WiFi programs run in the background and end in any order.

`PROJECT.json` lists the hazards, each at the line where it bites, with the properties that
would catch it going wrong.

### What would make each component correct

* HTTP server core: the table and the connections agree; an announced identifier selects
  the client it was announced for; the application hears of each upgrade and each end
  exactly once; whatever was closed is deleted.
* CGI relay: the client sees the script's output once, in order and without a hole; a
  failure is reported, as the last thing; the connection ends; a well-behaved script is answered.
* Supervision: one service at a time; a service that ended comes back; RESTART replaces the
  service.
* Upgrade: the package is deleted only after it was applied; nothing is left behind; the script
  returns; the completion it waits for is a completion, and it is heard.
* Frames: what is sent is decoded as sent, at each limit of the length encoding; a
  message is delivered once, whatever was swallowed before it.
* Forms: the script finds what the user entered, leaves nothing on the disk, and ends.
* User files: a rewrite changes its user and no other, also after one that was cut off; the
  service does not go on with users that were changed; a save writes the users of the service.
* Network commands: whatever failed before, a command that runs through takes full effect and is
  shown so; a program at work is not killed.

## 2. Modules

| Module | Models | Checked by | Proved in |
|---|---|---|---|
| `HttpServer` | `WHHttpServer` with its connections | `MCHttpServer` | `HttpServer_proof` |
| `SocketSessions` | what the server promises an application (abstract) | as `SessionsRefined` | `HttpServer_proof` |
| `CgiRelay` | one CGI script and the slots of its `QProcess` | `MCCgiRelay`, two configurations | `CgiRelay_proof` |
| `FrameCodec` | the bytes of one frame, in both directions (operators) | through `WebSocketFrames` | `WebSocketFrames_proof` |
| `WebSocketFrames` | one WebSocket connection, byte by byte | `MCWebSocketFrames` | `WebSocketFrames_proof` |
| `CgiPost` | a form on its way into a CGI script, and the files it leaves | `MCCgiPost` | `CgiPost_proof` |
| `ServiceSupervisor` | the service process and its two timers | one configuration | `Webhostd_proof` |
| `Upgrade` | CGI scripts, webhostd, rpm, systemd and the files they share | three configurations | `Upgrade_proof` |
| `UserFile` | `ADDUSER2`, `DELETEUSER2`, the user file and the service that loads and saves it | `MCUserFile` | `UserFile_proof` |
| `IpCommand` | the `IP` command, with NetworkManager and without, and what a CGI script shows of it | `MCIpCommand` | `IpCommand_proof` |
| `WifiCommands` | the `WIFI` command, its background programs | one configuration | `Webhostd_proof` |

### HttpServer

The server is single-threaded, so an action is one slot run by the Qt event loop, whole.
`http_connections` is the table, `conn` the `WHHttpConnection` objects, `sock` the state
of each `QTcpSocket` (`closing` is Qt's ClosingState: `disconnectFromHost()` with bytes
still to write), `inbuf` and `unsent` its two buffers; `app_log` is the history of the
signals the application received.  Data is cut down to what control depends on.
A token is one complete line or one frame, as read by `readLine()` under
`canReadLine()`; a request line names the table of sources that has its URI; a header is
its name and whether its value is acceptable; passwords, MIME types, dates and the
digest of the handshake are left out.  The parse states keep the code's numbers: 0 for
the method line, 1 for headers, 2 for the body, 10 for WebSocket.

Some outcomes that the code has and that surprise a reader are kept as they are:

* `parse` stays 1 after a request without a body, so a later blank line processes the
  request again: scripts `Script` and `MixedScripts`; `conn[c].cgi` counts the processes.
* After closing for a malformed frame `ReadWebsocket()` goes on with the frame, so that
  `message` may follow `closed` in `app_log`.
* Deleting a socket in ClosingState aborts it: the bytes it had not written are dropped
  and `disconnected()` is emitted from the destructor, which arms the timer once more.
* Output of a CGI script may be relayed into a connection that was upgraded meanwhile.
* The server's own slot for the end of a script (`whhttpserver.cpp:449`) is never called: the
  signal mapper is given a mapping for the socket at `:409`, not for the connection.

`Frame` here is what a frame does to the connection; `WebSocketFrames` has its bytes.

The refinement mapping of `SessionsRefined` takes the sessions to be the pairs of an
identifier and a client for which `open` and not `closed` is in `app_log`.

### CgiRelay

The output of a script is a sequence of pieces: complete header lines, halves of lines,
empty lines, text.  Each `readyRead` brings any number of further pieces; the relay reads
one line, or all, by the code's condition.  `sent` is what was written to the socket.
`error()` is emitted before `finished()` when a script crashes and alone when it does not
start, or when the body of a POST cannot be written to it.

### FrameCodec and WebSocketFrames

`FrameCodec` has the two ways a length is written side by side: `LengthBytes` is the code's, with
one case for each branch of `sendSocketMessage()`; `RfcLengthBytes` and `Encoded` are a client's, who may write
a length longer than needed.  `OpCode`, `Extension`, `PayloadLength`, `Offset` and `Payload` are the
expressions of `ReadWebsocket()`.  The operator `^` of the language is a constant of which only
`XorAssumption` is known; TLC takes it from `Bitwise`.

In `WebSocketFrames` a read brings any number of the bytes that the client has sent.
`app` and `cntl` are the two `WHSocketMessage` objects of a connection; both begin with the operation
Close, so a continuation that comes first closes the connection.  Of the frames in one read the first is looked at and the
rest is lost.  A read that ends inside a frame is followed for one step: bytes past the end of the buffer
are taken for zeros, which is what `QByteArray::operator[]` gives for it; then `inStep` is
false and the connection rests.  What the application hears of a close is in `closing`; its body is cut at
a zero byte, since it is handed on as a C string (`CString`).

### CgiPost

The model joins `cgiStartedData()` in the server, `WHCgiPost` in the script, and the life of the
two processes.  The actions `ReadSeparator`, `EndOfPart`, `ReadHeader`, `EndOfHeaders`, `ReadText`, `ReadFile` and `EndOfForm` are the
passages of `LoadMultipartEncoding()`, one for each kind of line that `getline()` may return; `disk` is the
content of the temporary directory, byte for byte, with the position of the open file in `part`.
`exit` is that of `WHCgiApplication`, which deletes the post data: also where its constructor, after an error, calls
`exit(0)`, which is the member function.  `Kill` is the destructor of the connection, `ServerDies` the end of the
server, after which the script reads what the pipe still holds and then the end of the input.

Data: characters are ASCII codes; a URL-encoded form holds texts only, since a browser sends the name of a file, a text, for the file; the names of files are a parameter, `Filenames`; the quoting in header lines is left out, a header line is
the field it describes; a text is not longer than its field; the end of the input falls between two lines; `write()` to a
file succeeds, as the code does not look.  A URL-encoded body that does not fit the pipe is cut, and the rest
of the buffer, uninitialised, is empty or holds a character.

Kept as they are: the name of a URL-encoded field is not decoded, so that one with a space in it is found under another;
a zero ends a line of a text, which is handed on as a C string (`CString`); a text in several lines loses its line ends and with them the space between words;
two files with one name overwrite each other, without being truncated first; a file field without a file makes
the whole form fail.  Texts are 7-bit: what `UrlDecode()` makes of a character of several bytes is not modelled.

### ServiceSupervisor

`service` is the daemon's view of its `QProcess`, `alive` that of the kernel; the two
differ between the death and `serviceFinishedData()`.  Timers count ticks and time passes
with `Tick`, which stops at an armed timer that is due unless the loop is blocked.
`RunCommand` is the start of any command handler that waits for a helper program.

### Upgrade

Every system call on the shared directory is a step of its own, in both processes, since
nothing orders them.  `socket` holds datagrams by their sender; a datagram to a daemon that
is down is lost.  The kinds of path are those that the code treats differently: one word,
a path with a space, a path with characters of several bytes (`SendCommand()` passes the
number of characters as the number of bytes, so that the final `!` is cut off), and the form
with two packages that `docs/webroot_commands.txt` describes.  Of a path with characters of several bytes the script's own `unlink()`
names another file than the one that was saved (`whcgipost.cpp:470`, `:947`); only the destructor removes it.
`waitForFinished()` gives up after 30 s while rpm goes on: the rpm is then *abandoned*, and *failed* when the exit of webhostd ends it.

### UserFile

A user is a realm and a name together; the file is a function from section numbers to
sections, so that `[WebHostUser<n>]` sections with a number missing, which `loadUsers()`
ends at, and several sections for one user can be said.  The handler in webhostd is the steps
`Open` (of the file with the suffix `.back`), `Read` (of the user file), `Write`, `Rename` and `HangUp`; `Crash` may
come between any two.  `AddUser2()` and `DeleteUser2()` differ in what they write
(`Added`, `Deleted`) and share the steps.  `Read` may fail, as nobody looks at the result of `setSource()`
(`users.cpp:91`, `:141`): the file is then taken for an empty one and all users are lost, which `RewriteIsExact` excepts (`unread`).
The service is outside `src/`: that it loads the file
when it starts and on SIGHUP, and has no handler for the signal before that, is assumed: it is what a SIGHUP after a rewrite
asks of it.  `BeginLoad` opens the file, `loadUsers` ends the reading: a rename in
between leaves the reader with the old file.  `running` is what webhostd's `QProcess` believes;
it changes only in the event loop, so a service that has started during a command is not sent
the signal.  `unheard` marks that case, which `ViewIsCurrent` excepts.

The service changes its users (`addUser`, `removeUser`) and writes them (`SaveOpen`, `SaveWrite`, `SaveRename`)
whenever it likes; `unsaved` marks users that the file does not have yet.  A save replaces what a command
wrote that the service has not loaded: the code does that, and `RewriteIsExact` says only that a save
writes the users of the service.

webhostd and the service write their new file under the one name `<filename>.back`, and nothing keeps them apart.
`OpenBack`, `CloseBack` and `RenameBack` are what either does to it, whatever the other is about: `fopen()` truncates a file that the
other has open, a rename takes the file away that the other still writes (`fd` says where it is now), and the second rename
finds nothing.  Two texts in one file leave behind the shorter one the rest of the longer (`Overwritten`); that text reaches the disk with `fclose()`
is what stdio does with a file that fits its buffer.  Users may be lost when the two overlap: `overlapped` is a history variable that
marks a rewrite for which that was so, and `RewriteIsExact` excepts it.  `ViewIsCurrent` holds also then, with two
cases that no signal can repair marked as such: a service whose own save overlapped has users that the file may not have (`unsaved`), and one is not told
when webhostd writes on in a file that was renamed meanwhile (`unheard`).

Assumed: the disk is not full (no return value of `fprintf` or `fclose` is looked at).

### IpCommand

With NetworkManager `Program(o)` is the list of nmcli programs that `Ip()` runs for a command; `RunCommand` runs the
next, which takes effect or fails.  nmcli and NetworkManager are external: `con mod` changes the stored
settings and refuses those that make no connection (`Valid`), `con up` makes them the active ones.
`ReadIpConfig` is what a CGI script puts together from four programs of its own, or from the file.  `clean`
is a history variable: every program of the last command was run and none failed.
`Ip()` always uses the first configured interface; a second one is not modelled.

Without NetworkManager the list has the steps of a rewrite (`Rewriting`), and `Rewrite` takes one: opening the
backup file, reading the old file and writing the new one, renaming it, restarting the network.
`Configured` is what is written, from `Seeded` and `Pruned` (`IpSeedEntry`, `IpPruneEntry`).  A file is a
function from parameters to values in which each may be missing; an address and its mask are one parameter.
`ZeroAssumption`: no interface, gateway or name server has the address `0.0.0.0`, which is the placeholder of
`IpSeedEntry`; a name server given so would be pruned.  `Fits` says which values a parameter may have in a file; the placeholder is none of them.

### WifiCommands

`main_wifi_processes` holds the `QProcess` objects.  It is a list in the code, but nothing depends on its
order, so the model numbers the programs instead.  A process has ended before the event loop learns of it.  `Block` is another command that waits for a program of its own,
during which no slot runs.  A process that failed to start emits no `finished()` and stays on
the list until another one ends.  Without NetworkManager (`useNetworkManager`) a command does nothing (`wifi.cpp:51`).
`clear` is a history variable: no program that the last command met works against it (`Against`: it deletes the SSID that is
wanted, or connects to one that is not), and none of its own has failed.  Programs of earlier commands that do something
else may run on, as when deletions of other networks go on while a connection is made.  `busy` is what `blocked` is in `ServiceSupervisor`; the names `WifiInit`, `WifiNext`, `WifiSpec`
and so on differ from those of that module because one module has the proofs of both.

## 3. Runs

| Run | Shows |
|---|---|
| `http` | types, the table, live identifiers, an armed garbage timer, the application told once, refinement of `SocketSessions`; closed connections are deleted; a connection that ran a script is closed |
| `frames` | messages are delivered once and as they were sent; a client reads what was sent |
| `forms` | the script finds what was entered, cleans up, and ends |
| `cgi_relay` | order, completeness once the headers are out, reporting of failures, the end of the connection |
| `cgi_answer` | *violated*: the output of `WHCgiApplication::exit()` gets no response |
| `supervisor` | one service, SIGTERM followed up, respawn, replacement |
| `upgrade` | a package is not taken from its rpm, nothing is left behind, applied packages are reclaimed, scripts return |
| `upgrade_signal` | *violated*: completion is signalled while rpm runs |
| `upgrade_delete` | *violated*: a package is deleted that was not applied |
| `users` | a rewrite changes its user only, unless it overlaps a save; the service has the users of the file, also then |
| `ip` | a command without a failure takes full effect, is shown so, and is refused nowhere |
| `wifi` | a command that no other program works against takes effect; no running program is killed |

The three violated properties are statements of the repository's own documents or comments;
section 6 says what each shows.

### Bounds

* **HttpServer**: two clients.  A slot has to be freed and given away for an identifier to
  go stale, which takes one client that ends and one that comes; a third would repeat the
  second.  The theorems cover any number.  Ten scripts of up to nine tokens: each branch
  of the parser is taken by one of them, and the chunks in which a script arrives are
  arbitrary.  The realm protects the CGI sources.  No symmetry is used, since liveness is checked in the same run (595,324 states, two to three minutes).
* **CgiRelay**: eight outputs of up to seven pieces, cut in all ways.  A piece that the
  relay might skip or repeat is seen with two headers and three texts.
* **WebSocketFrames**: six scripts of up to seven frames: a message in three fragments around a ping, each form of a
  length with a payload of 126 bytes at the limit, stray and doubled continuations, and each frame that must be refused.
  They arrive cut at every byte.  The application sends or closes twice, with 2, 126 and 300 bytes; the limit 65536
  is left to the theorems.
* **CgiPost**: sixteen forms, with one to four fields.  A hazard of the code needs two fields, of one name
  or one file name or with an error in the second.  The pipe holds 16 characters, of which one form has more.
* **ServiceSupervisor**: `KillInterval = 3` and `RespawnDelay = 1` stand for 5 s and the
  configured delay: what matters is that the kill timer outlives a respawn.
  `MaxRestarts = 3`: one for the running service, one while the timer runs, one between
  death and respawn.  Without the bound a client that sends RESTART more often than every
  5 s would postpone the kill for ever; that is the code's behaviour and the bound hides it.
* **Upgrade**: two scripts, since the daemon handles one package and may hold, lose or
  swallow the command of one other.  `MaxPolls = 2` instead of 31: the interesting
  cases are a `done` found at the first look, at the last, and at none (148,521 states).
* **UserFile**: two users with two passwords, up to three sections, and four files to begin with: none,
  one for each user, one with a user given twice around another, one with a number missing.
  The service changes its users to any of theirs.  The length of a run is not bounded (4.9 million states, about a minute).
* **IpCommand**: two addresses and six commands: off, DHCP, and static settings with each choice of
  name servers.  Any sequence of them, with failures anywhere (1.8 million states).
* **WifiCommands**: two SSIDs and three programs on the list: one that ends, one that does not and
  one that failed to start; with NetworkManager and without (98,398 states).

`CHECK_DEADLOCK FALSE` is given for HttpServer, CgiRelay, WebSocketFrames, CgiPost and Upgrade, where clients,
scripts and uploads are finite and the system rightly comes to rest.  The other
modules never do and are checked for deadlock.

### Fairness

* The Qt event loop runs a zero-delay timer that is armed (`WF(garbageData)`) and sees
  every child process end (`WF(cgiFinishedData)`).  A write buffer empties or TCP gives
  the peer up (`Drain`).  Nothing is assumed of clients: they may stop at any token.
* A script that has started produces its output and ends (`CgiRelay`); a script that
  hangs keeps its connection, and the code has no timeout against it.
* In `CgiPost` the server's event loop calls `cgiStartedData()` for a process that has started, and the script
  goes on while it can: it is not assumed that it can, since it may wait for input.
* In the supervisor the slots are strongly fair: a command handler that blocks disables
  them again and again, but commands come one at a time and the loop serves what
  became due before it reads the next.  Exit of the service is fair only after SIGKILL.
* In `Upgrade` the daemon's waits are bounded (`waitForFinished()` gives up after 30 s)
  and processes that are not killed run on.  rpm need not end.

## 4. Proofs

TLAPS checks eight modules; every theorem holds for all values of the constants allowed by
the named assumptions.

* **`HttpServer_proof`**, from `NoClientAssumption` (NULL is no client) and
  `ScriptsAssumption` (scripts are token sequences).  The inductive invariant is
  `IInv == TypeOK /\ TableSound /\ GarbageArmed /\ ApplicationToldOnce /\ ParserMode`.
  `ParserMode` is the strengthening: the application is told of an upgrade where `parse`
  becomes 10 and of the end where the `websocket` mark is read, so the two must agree, and an
  unmade connection must have neither.  `TableSound` carries the argument for identifiers:
  a slot that is not NULL holds a connection that exists, `newConnectionData()` takes only NULL
  slots, and only `garbageData()` frees them.  `AnnouncedIdIsLive` then follows without an
  induction of its own: an open session belongs to a connection that exists.
  `ServerImplementsSessions` is the refinement: the initial states agree, each step of a
  client opens or closes at most one session, and `garbageData` closes those whose sockets
  end in their destructors.  The parser operators share one lemma: whatever the request,
  a handler either leaves `app_log` alone or appends `open` and sets both marks.
* **`Webhostd_proof`**, about `ServiceSupervisor`, from `DelayAssumption` and `MaxRestartsAssumption`.  The
  inductive invariant is `SInv == TypeOK /\ IdleHasNoChild /\ SingleService /\
  TermIsFollowedUp`.  `IdleHasNoChild` says that a `QProcess` in no running state has no child;
  without it the step that arms the respawn timer could be taken beside a living one.
* **`UserFile_proof`**, from `MaxSectionsAssumption` and `InitialFilesAssumption` (the files to begin with are files).
  `NoStaleUsers` has the inductive invariant
  `UInv == Flags /\ Views /\ BackupIsOwn /\ SaveIsExact`.  `Views`: a service that serves got its users
  from a file that it had open, and a rename while it was open is followed by `HangUp`,
  which makes `hup` or `unheard` true.  `BackupIsOwn`: as long as the two have not overlapped, one of them at most is about to write,
  and its file is the one with the suffix, and empty.  A save puts a listing of the service's users in place, and
  such a listing, loaded, gives these users back (a lemma about `Loaded` and `Listings`).
  `TypeCorrect` and `CommandsAreExact` add `FInv == TypeOK /\ RewriteIsReady`: what was read, and then what was written
  to the backup file, loaded, is what the command makes of the users in the file.  `CommandsAreExact` has the two exceptions of the
  property: a file that could not be read, and a rewrite that overlapped a save.  That `Added` and `Deleted` are right is shown for each
  verb by induction over the sections: `CopyKeepsOthers` follows the copy of the old file section by section, which renumbers the ones
  that are kept, and `CopiesExist` and `CountIs` say what numbers they get.
* **`WebSocketFrames_proof`**, from `XorAssumption` (a byte combined twice with the same byte is itself) and the types of the
  scripts and of what the application sends; no payload has 4 GB or more, since a `QByteArray` holds less than 2 GB.
  *The bytes*: `WrittenLengthIsRead`: for every length a `QByteArray` can have, what `sendSocketMessage()` writes is
  read back by the RFC.  `FrameIsRead`: of every masked frame below 2^32 bytes, in any of the three forms of its length, and whatever
  follows it in the same read, `ReadWebsocket()` finds the operation, the flags and the payload.  Both rest on
  the lemma that a number is the sum of its bytes.
  *The connection, towards the server*: `MessagesAreDelivered`, with the inductive invariant `DInv`: as long as every read ended where a frame ends,
  each message that was delivered is the one whose last fragment caused it, they are in order, and (`AppIsSent`) what lies in `app` is
  what the client has sent of the unfinished message in frames that were seen.  `DeliveredAsSent` is not inductive without the
  last part, nor without `NoneCloses`: on an open connection no frame was a close or malformed.
  *The connection, towards the client*: `MessagesAreReceived`, with `RInv`: the bytes on the wire can be read by the RFC as a sequence of
  messages, and they are those that were promised (`Written`, which says where each packet stands).  `AppHasKind`, that a message under assembly has a kind of its own
  unless it was begun by a stray continuation, is needed for the answer to a close.

* **`CgiPost_proof`**, from `FormsAssumption` (what is submitted are forms) and `PipeAssumption`; for `FormArrives` also
  `UrlAssumption` (a URL-encoded form holds texts only).  `TypeCorrect` has the inductive invariant `TInv == TypeOK /\ Phases`: a part has a file name exactly while its file is open, and what
  is read is written where the file is long enough.  The lines of a form are typed first: a text that ends with a line end is the
  sequence of its lines (`TextHasLines`, by induction over the text), and a form is its parts one after the other (`LinesOfBody`).
  `NothingLeft` has `SInv`: as long as the server lives there are `i` and `o` (`Reading`) such that `i` parts and `o`
  lines of the next were read (`Place`), what the script knows of the part is what the form has there (`InPart`), each
  field of which a line was read is in both maps (`Noted`), and each file on the disk belongs to one of the parts that were
  begun.  From a boundary it follows that the part is over, and so that its field was noted: a part has a line of content, if only an
  empty one.  `NothingLeftOnDisk` is not inductive, since it speaks of the end only.
  `FormArrives` has `CInv`, on top of the two.  *Multipart*: `Content(i, o)` says of the `i` parts that were read that each is
  stored as it should be at the end (`Kept`), and of the part that is being read what the `k` lines of content
  read of it so far have made (`Growing`): of a file, its bytes up to the end of the `k`th line; of a text, a value in which the same
  characters are visible as in those lines.  The rest is lemmas about the data: `Simplified` keeps what is visible
  (`SimplifiedVisible`), visible characters of a concatenation are those of its halves (`VisibleConcat`), and in
  the text of a field with the line end behind it the same is visible as in the field (`VisibleSent`).  *URL-encoded*: the body splits at `&` and `=` into the pairs of
  the form, since an encoded text has neither (`BodySplits`); `UrlDecode()` is then shown to undo the encoding of the
  browser, by induction over the text (`DecodeEncode`); and what is entered under a name
  that no other field has stays (`EnteredKeeps`).

* **`CgiRelay_proof`**, from `OutputsAssumption`.  The inductive invariant is
  `IInv == Typed /\ Bounds /\ Ending /\ Closing /\ Relayed /\ Marked`.  `RelayedOnce` is not inductive, since it says nothing of the
  headers that are kept.  `Relayed` does: what was sent, and what is kept, has the pieces in their
  order, and as long as the headers are not complete everything that was read is kept; once they are, everything that was
  read was sent, but for one empty line.  `Closing`: a connection that is closed was told of an error, or the last relay has run and
  left nothing out.  `OutputIsRelayedOnce` does not say that headers are ever sent, which `ScriptIsAnswered` refutes.  `Marked` says that a status 200 is first and a 500 last, and that the latter
  comes with the end of the connection.
* **`Upgrade_proof`**, from `PollsAssumption` and `NoCgiAssumption`.  The inductive invariant is
  `IInv == TypeOK /\ Queue /\ Work /\ Processes`.  `Queue`: a command is in the socket once, and before it is handled.
  `Work`: where webhostd is between a command and its exit, and that it no longer waits for the rpm of a package from the signal on.
  `Processes` has, for each CGI process, that `done` stands for a package that webhostd no longer waits for, (`Kept`) that the package is
  removed only after that or when the process has polled to the last, and (`Cleaned`) that what one of the two cleaners has removed is gone, or
  was put back by webhostd, which is then about to remove it.
* **`IpCommand_proof`**, from the assumptions on `Orders`, `None` and `Zero`.  The inductive invariant is
  `IInv`: the types, and for a command of which nothing has failed, what is left of its programs together with what the ones that were
  run have achieved (`NmcliProgress`, `FileProgress`).  It starts with no fact about what was stored before, which
  is why any history is allowed.  The list of programs is a concatenation, taken apart with the
  associativity of `\o`; `Written` says of a file that a placeholder is never left in it.
* **`Webhostd_proof`**, about `WifiCommands`, from `NoSsidAssumption`.  The inductive invariant is `IInv == WifiTypeOK /\ Pending`: as long as none works against
  the command, no program that runs makes another connection or deletes the one that is wanted, and each connection that is to be deleted has a program left that will.
  `RunningAreKept` is an action property and needs the types only.

Only model-checked: liveness (`EveryCloseReclaimed`, `CgiEndsConnection`, `ConnectionEnds`,
`Respawned`, `RestartReplaces`, `AppliedIsReclaimed`, `CgiFinishes`, `FormIsProcessed`), which is beyond the
proof system.  Every safety property that a passing run checks is a theorem.

Induction over the data.  The induction rules of the library take an operator as a parameter, which the installed provers
cannot instantiate.  A *set* of numbers can be given instead: `NatSetInduction`, from the well-foundedness of the
natural numbers, is what the proofs about sections, bytes and packets use.  What a recursive function is at a
number is shown in the same way.  For texts there is `SeqInduction`, over a set of sequences that holds the empty one and
each that is longer by one element.  Operators that are declared recursive, and `SelectSeq`, for which
the prover has no definition, are out of reach; modules with theorems use recursive functions.

## 5. Not modelled

* `ADDUSER` and `DELETEUSER`, one call of htpasswd each: as commands that block the daemon they are
  `RunCommand` of `ServiceSupervisor`.
* `NTP` (`ntp.cpp`): runs timedatectl, writes the configuration of NTP anew through a backup file and a rename, as `Rewrite` of
  `IpCommand` does but without reading the old one, and restarts a service.
* The typed accessors `getValue()` and the senders that format a command: conversions without state.
* `whnetwork.cpp`, `whwificonnection.cpp`: parse the output of system tools, no state.
* `WHCgiPage`, `WHCgiObject`, the rendering of `WHCgiApplication`, `WHProfile`, `WHConfig`, `WHSettings`, `WHCmdSwitch`:
  straight-line rendering and start-up parsing.  What they produce appears as constants or inputs.
* The test programs are applications of the library, read for how it is used.
* In `ServiceSupervisor` the exit of the daemon by `UPGRADE` and its restart by systemd is one
  step back to the initial state; `Upgrade` has the steps in between.

## 6. What the violated properties show

* `ScriptIsAnswered` (`whhttpconnection.cpp:526`): two header lines, an empty line and a page in one
  write are read as one header, then as a second one when the script has finished: no
  response at all.  This is what `WHCgiApplication::exit()` prints.
* `DeletedAfterApplying` (`upgrade.cpp:71`): with several packages the first is deleted, none applied.
* `HeardMeansComplete` (`upgrade.cpp:55`): an rpm that takes longer than 30 s is given up, and `done`, which "signals completion"
  (`whcgipost.cpp:451`, `upgrade.cpp:59`), is created while it runs.  The package is deleted under it, and the exit of webhostd ends it.

Met while modelling and kept in the models as they are, without a run of their own:

* `protocolAtLeast()` (`whhttpconnection.cpp:84`) compares the wrong way round, so
  `StartWebsocket()` lets HTTP/1.0 requests pass.
* `Upgrade()` (`upgrade.cpp:62-72`) removes `done` right after it has created it; the script that
  looks once a second for it hardly ever sees it and waits out its 31 polls.  Uploads that were sent meanwhile
  are thrown away by its `exit(0)` (`:81`).
* Every response says `Connection: close` (`whhttpconnection.cpp:450`, with a FIXME); for static files and errors no
  code closes, and connections stay in the table until the clients leave.
* A RESTART between the death of a service and its respawn (`restart.cpp:27`) arms the kill timer for a process that
  has ended; it then hits the next one, which was not asked to terminate.
* `ReadWebsocket()` loses all but the first of the frames that share a read (`whhttpserver.cpp:616`).
* A file field in which no file was chosen makes `WHCgiPost` fail (`whcgipost.cpp:944-950`): it opens the directory.
* `AddUser2()`, `DeleteUser2()` (`users.cpp:89`, `:139`) and `saveUsers()` (`whhttpserver.cpp:246`) write one backup file without a
  lock: at one time they may lose users.  The first two also make an empty file of one that they cannot read (`:91`, `:141`).
* `Wifi()` (`wifi.cpp:57`) waits for none of its programs: a deletion of an earlier command may remove the connection that a later
  one has made to the same SSID, and of two connections the one whose program ends last stays.
* `LoadUrlEncoding()` (`whcgipost.cpp:871`) takes one `read()` for the whole body: of a body larger than the pipe the rest is lost.
* `Ip()` (`ip.cpp:41`) changes the first interface, whatever number the command gives.

## 7. Plan

Done: the server with its sessions, the relay, the frames, the forms, the supervisor, the upgrade, the user files and the
IP and WiFi commands, with a proof of every safety property that is checked.  Left:

* **`ntp.cpp`**, with a failure or a death between its steps.
