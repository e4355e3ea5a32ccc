------------------------------- MODULE CgiPost -------------------------------
(***************************************************************************)
(* How a form reaches a CGI script: cgiStartedData() writes the body of    *)
(* the request to the input of the script and leaves that input open;      *)
(* WHCgiPost, in the script, reads it, saves the files that are in it to a *)
(* directory of its own, and deletes them when WHCgiApplication exits.     *)
(*                                                                         *)
(* Characters are ASCII codes.  The body of a multipart form is a sequence *)
(* of lines, and its length is counted in lines; that of any other form is *)
(* a sequence of characters.                                               *)
(***************************************************************************)
EXTENDS Integers, Sequences, SequencesExt, FiniteSets

CONSTANTS
    Forms,      \* what a browser may submit
    Filenames,  \* the names of the files in them
    PipeSize    \* what the pipe to the script holds, in characters

Text  == Seq(0..127)
Field == [name : Text, kind : {"text", "file"}, filename : Filenames \cup {""},
          content : Text]

(* "ended": a line end follows the last boundary. *)
Form  == [method : {"GET", "POST"}, encoding : {"url", "multipart", "other"},
          fields : Seq(Field), ended : BOOLEAN]

ASSUME FormsAssumption == Forms \subseteq Form
ASSUME PipeAssumption == PipeSize \in Nat \ {0}

(* A form that is URL-encoded holds texts only: the browser sends the name *)
(* of a file, which is a text, for the file.                               *)
ASSUME UrlAssumption ==
    \A f \in Forms : f.encoding = "url" => \A i \in DOMAIN f.fields : f.fields[i].kind = "text"

VARIABLES
    form,
    written,    \* cgiStartedData() was called
    stdin,      \* what the script can read
    eof,        \* the server has died: there is nothing more to come
    phase,      \* of the script
    post_error,
    post_values, post_filenames,
    total_bytes,
    part,       \* the local variables of LoadMultipartEncoding()
    disk,       \* the files in post_tempdir
    post_tempdir    \* it exists

store   == <<post_values, post_filenames>>
files   == <<disk, post_tempdir>>
loading == <<post_error, store, total_bytes, part>>
vars    == <<form, written, stdin, eof, phase, loading, files>>

-----------------------------------------------------------------------------
(* The browser.                                                            *)

CR == 13
LF == 10
Space == 32
White == {9, LF, CR, Space}

Boundary       == [t |-> "boundary"]
Disposition(f) == [t |-> "header", field |-> <<f>>]
OtherHeader    == [t |-> "header", field |-> <<>>]
Data(text)     == [t |-> "data", text |-> text]
EmptyLine      == Data(<<CR, LF>>)

(* The numbers up to n of a set, in their order. *)
Ascending(S, n) ==
    LET upTo[k \in 0..n] ==
          IF k = 0 THEN <<>> ELSE IF k \in S THEN Append(upTo[k - 1], k) ELSE upTo[k - 1]
    IN upTo[n]

(* The places of some characters in a text, and what a text has at places. *)
Where(text, chars)   == Ascending({i \in DOMAIN text : text[i] \in chars}, Len(text))
Chosen(text, places) == [k \in DOMAIN places |-> text[places[k]]]

(* What a text holds between the places in a sequence. *)
Pieces(text, places, after) ==
    [k \in 1..(Len(places) - 1) |-> SubSeq(text, places[k] + 1, places[k + 1] - after)]

(* The lines of a text, with their ends. *)
Lines(text) == Pieces(text, <<0>> \o Where(text, {LF}), 0)

Part(f) ==
    LET lines == Lines(f.content \o <<CR, LF>>)
    IN <<Disposition(f)>> \o (IF f.kind = "file" THEN <<OtherHeader>> ELSE <<>>)
       \o <<EmptyLine>> \o [i \in DOMAIN lines |-> Data(lines[i])] \o <<Boundary>>

Digits   == 48..57
Letters  == (65..90) \cup (97..122)
HexDigit == [n \in 0..15 |-> IF n < 10 THEN 48 + n ELSE 55 + n]

Code(c) == CASE c = Space -> <<43>>
             [] c \in Digits \cup Letters -> <<c>>
             [] OTHER -> <<37, HexDigit[c \div 16], HexDigit[c % 16]>>

UrlEncode(text) == FlattenSeq([i \in DOMAIN text |-> Code(text[i])])

Pair(f) == UrlEncode(f.name) \o <<61>> \o UrlEncode(f.content)

Body(f) ==
    IF f.encoding = "multipart"
    THEN <<Boundary>> \o FlattenSeq([i \in DOMAIN f.fields |-> Part(f.fields[i])])
    ELSE FlattenSeq([i \in DOMAIN f.fields |->
                        (IF i = 1 THEN <<>> ELSE <<38>>) \o Pair(f.fields[i])])

post_content_length == IF form.method = "POST" THEN Len(Body(form)) ELSE 0

-----------------------------------------------------------------------------
(* Strings.                                                                *)

(* QString::simplified(): white space at the ends is dropped, and between  *)
(* two words it is one space.                                              *)
Simplified(text) ==
    LET IsGap(i) == /\ i > 1 /\ text[i - 1] \notin White
                    /\ \E j \in i..Len(text) : text[j] \notin White
        kept == Ascending({i \in DOMAIN text : text[i] \notin White \/ IsGap(i)}, Len(text))
    IN [k \in DOMAIN kept |-> IF text[kept[k]] \in White THEN Space ELSE text[kept[k]]]

(* QString::fromUtf8() of a C string: a zero ends it. *)
CString(text) ==
    LET zeros == Where(text, {0})
    IN IF zeros = <<>> THEN text ELSE SubSeq(text, 1, zeros[1] - 1)

(* QString::split() *)
Split(text, sep) ==
    Pieces(text, <<0>> \o Where(text, {sep}) \o <<Len(text) + 1>>, 1)

IsHex(c) == c \in Digits \cup (65..70) \cup (97..102)
Hex(c)   == IF c \in Digits THEN c - 48 ELSE IF c < 97 THEN c - 55 ELSE c - 87

(* QString::toInt(&ok, 16) of two characters. *)
ToInt(c, d) == IF IsHex(c) /\ IsHex(d) THEN 16 * Hex(c) + Hex(d) ELSE 0

(* The variables of UrlDecode(); code is the first digit of an escape. *)
Decoder == [istate : 0..2, code : 0..127, ret : Seq(0..255)]

(* Mutant: the tests for a decimal digit after a "%" take effect. *)
DecimalDecode ==
  [s \in Decoder |-> [c \in 0..127 |->
    CASE s.istate = 0 /\ c = 43 -> [s EXCEPT !.ret = Append(@, Space)]
      [] s.istate = 0 /\ c = 37 -> [s EXCEPT !.istate = 1]
      [] s.istate = 0 /\ c \notin {43, 37} -> [s EXCEPT !.ret = Append(@, c)]
      [] s.istate = 1 -> [s EXCEPT !.istate = IF c \in Digits THEN 2 ELSE 0, !.code = c]
      [] s.istate = 2 ->
           IF c \in Digits THEN [s EXCEPT !.istate = 0, !.ret = Append(@, ToInt(s.code, c))]
           ELSE [s EXCEPT !.istate = 0]]]

(* One character.  The tests for a decimal digit have no effect: both      *)
(* states set istate again below the test.                                 *)
Decode ==
  [s \in Decoder |-> [c \in 0..127 |->
    CASE s.istate = 0 /\ c = 43 -> [s EXCEPT !.ret = Append(@, Space)]
      [] s.istate = 0 /\ c = 37 -> [s EXCEPT !.istate = 1]
      [] s.istate = 0 /\ c \notin {43, 37} -> [s EXCEPT !.ret = Append(@, c)]
      [] s.istate = 1 -> [s EXCEPT !.istate = 2, !.code = c]
      [] s.istate = 2 -> [s EXCEPT !.istate = 0, !.ret = Append(@, ToInt(s.code, c))]]]

UrlDecode(text) ==
    LET after[i \in 0..Len(text)] ==
            IF i = 0 THEN [istate |-> 0, code |-> 0, ret |-> <<>>]
            ELSE Decode[after[i - 1]][text[i]]
    IN after[Len(text)].ret

-----------------------------------------------------------------------------
NewPart == [header |-> TRUE, disposition |-> <<>>, name |-> <<>>, filename |-> "",
            open |-> FALSE, pos |-> 0]

Assign(f, x, v) == [y \in DOMAIN f \cup {x} |-> IF y = x THEN v ELSE f[y]]
NoFiles         == [x \in {} |-> <<>>]

Init ==
    /\ form \in Forms
    /\ written = FALSE /\ stdin = <<>> /\ eof = FALSE
    /\ phase = "starting"
    /\ post_error = "NotInitialized"
    /\ post_values = NoFiles /\ post_filenames = NoFiles
    /\ total_bytes = 0
    /\ part = NewPart
    /\ disk = NoFiles /\ post_tempdir = FALSE

(***************************************************************************)
(* The server.                                                             *)
(***************************************************************************)
script == <<phase, loading, files>>

(* Mutant: the body is written as it came. *)
BareStartedData ==
    /\ ~written /\ ~eof /\ phase # "killed"
    /\ written' = TRUE
    /\ stdin' = IF form.method = "POST" THEN Body(form) ELSE <<>>
    /\ UNCHANGED <<form, eof, script>>

(* cgiStartedData(): the line end that it adds is one more line, or ends   *)
(* the last one.                                                           *)
cgiStartedData ==
    /\ ~written /\ ~eof /\ phase # "killed"
    /\ written' = TRUE
    /\ stdin' = CASE form.method = "GET" -> <<>>
                  [] form.method = "POST" /\ form.encoding = "multipart" ->
                       Body(form) \o IF form.ended THEN <<EmptyLine>> ELSE <<>>
                  [] OTHER -> Body(form) \o <<CR, LF>>
    /\ UNCHANGED <<form, eof, script>>

(* The server dies, as webhostd has it do to be started again; what it did *)
(* not write is lost.  It is taken to be cut between two lines.            *)
ServerDies ==
    /\ ~eof /\ phase # "killed"
    /\ eof' = TRUE
    /\ \E n \in 0..Len(stdin) : stdin' = SubSeq(stdin, 1, n)
    /\ UNCHANGED <<form, written, script>>

(* ~WHHttpConnection() deletes the QProcess, which kills the script. *)
Kill ==
    /\ ~eof /\ phase \notin {"exited", "killed"}
    /\ phase' = "killed"
    /\ UNCHANGED <<form, written, stdin, eof, loading, files>>

(***************************************************************************)
(* The script.                                                             *)
(***************************************************************************)
server == <<form, written, eof>>

(* Initialize() and the rest of the constructor, up to the body. *)
Initialize ==
    /\ phase = "starting"
    /\ \/ /\ post_tempdir' = TRUE
          /\ post_error' = "Ok"
          /\ phase' = CASE form.encoding = "url" -> "reading"
                        [] form.encoding = "multipart" -> "first line"
                        [] OTHER -> "loaded"
       \/ /\ post_error' = "NoTempDir"
          /\ phase' = "failed"
          /\ UNCHANGED post_tempdir
    /\ UNCHANGED <<server, stdin, store, total_bytes, part, disk>>

(* What one read() gives: no more than the pipe holds.  The rest of the    *)
(* buffer has whatever was in it.                                          *)
BufferAfterRead ==
    LET n == CHOOSE m \in {Len(stdin), post_content_length, PipeSize} :
                \A k \in {Len(stdin), post_content_length, PipeSize} : m <= k
    IN {SubSeq(stdin, 1, n)} \cup
       IF n < post_content_length THEN {Append(SubSeq(stdin, 1, n), 88)} ELSE {}

(* Each line that is a pair is entered, with the name as it came. *)
Entered(lines) ==
    LET entered[k \in 0..Len(lines)] ==
            IF k = 0 THEN post_values
            ELSE IF Len(lines[k]) = 2
            THEN Assign(entered[k - 1], lines[k][1], UrlDecode(lines[k][2]))
            ELSE entered[k - 1]
    IN entered[Len(lines)]

(* LoadUrlEncoding(): read() returns when something is there, or nothing   *)
(* is asked for.                                                           *)
LoadUrlEncoding ==
    /\ phase = "reading"
    /\ stdin # <<>> \/ eof \/ post_content_length = 0
    /\ \E data \in IF stdin = <<>> \/ post_content_length = 0 THEN {<<>>} ELSE BufferAfterRead :
       \E lines \in {[i \in DOMAIN Split(data, 38) |-> Split(Split(data, 38)[i], 61)]} :
         post_values' = Entered(lines)
    /\ post_filenames' = [name \in DOMAIN post_values' |-> FALSE]
    /\ phase' = "loaded"
    /\ UNCHANGED <<server, stdin, post_error, total_bytes, part, files>>

(* LoadMultipartEncoding() reads the separator, or finds nothing. *)
ReadSeparator ==
    /\ phase = "first line"
    /\ \/ stdin # <<>> /\ stdin' = Tail(stdin) /\ total_bytes' = 1 /\ phase' = "parts"
       \/ stdin = <<>> /\ eof /\ phase' = "loaded" /\ UNCHANGED <<stdin, total_bytes>>
    /\ UNCHANGED <<server, post_error, store, part, files>>

(* getline() returns a line of the form. *)
Getline ==
    /\ phase = "parts"
    /\ stdin # <<>> /\ total_bytes < post_content_length
    /\ stdin' = Tail(stdin)
    /\ total_bytes' = total_bytes + 1
    /\ UNCHANGED server

line == Head(stdin)

(* The loop ends with the line after the last, or with the input. *)
EndOfForm ==
    /\ phase = "parts"
    /\ \/ stdin # <<>> /\ total_bytes >= post_content_length /\ stdin' = Tail(stdin)
       \/ stdin = <<>> /\ eof /\ UNCHANGED stdin
    /\ phase' = "loaded"
    /\ UNCHANGED <<server, loading, files>>

(* The line end before the boundary is cut off the file. *)
EndOfPart ==
    /\ Getline /\ line.t = "boundary"
    /\ disk' = IF part.open
               THEN [disk EXCEPT ![part.filename] = SubSeq(@, 1, part.pos - 2)]
               ELSE disk
    /\ part' = NewPart
    /\ UNCHANGED <<phase, post_error, store, post_tempdir>>

ReadHeader ==
    /\ Getline /\ line.t = "header" /\ part.header
    /\ part' = IF line.field = <<>> THEN part ELSE [part EXCEPT !.disposition = line.field]
    /\ UNCHANGED <<phase, post_error, store, files>>

Named == [part EXCEPT !.header = FALSE, !.name = part.disposition[1].name]

(* The empty line after the headers.  The file is opened as it is: it is   *)
(* not truncated.  That may fail, and does if the file has no name: it is  *)
(* the directory that is opened then.                                      *)
EndOfHeaders ==
    /\ Getline /\ line.t = "data" /\ part.header /\ part.disposition # <<>>
    /\ LET field == part.disposition[1]
       IN \/ /\ field.kind = "text"
             /\ part' = Named
             /\ UNCHANGED <<phase, post_error, disk>>
          \/ /\ field.kind = "file" /\ field.filename # ""
             /\ part' = [Named EXCEPT !.filename = field.filename, !.open = TRUE]
             /\ disk' = IF field.filename \in DOMAIN disk THEN disk
                        ELSE Assign(disk, field.filename, <<>>)
             /\ UNCHANGED <<phase, post_error>>
          \/ /\ field.kind = "file"
             /\ post_error' = "CannotSaveFile"
             /\ phase' = "failed"
             /\ UNCHANGED <<part, disk>>
    /\ UNCHANGED <<store, post_tempdir>>

(* Mutant: a text is not entered in post_filenames. *)
UnregisteredText ==
    /\ Getline /\ line.t = "data" /\ ~part.header /\ part.filename = ""
    /\ LET old == IF part.name \in DOMAIN post_values THEN post_values[part.name] ELSE <<>>
       IN post_values' = Assign(post_values, part.name, Simplified(old \o CString(line.text)))
    /\ UNCHANGED <<phase, post_error, part, post_filenames, files>>

(* A line is added to what is there of the text, without its line end. *)
ReadText ==
    /\ Getline /\ line.t = "data" /\ ~part.header /\ part.filename = ""
    /\ LET old == IF part.name \in DOMAIN post_values THEN post_values[part.name] ELSE <<>>
       IN post_values' = Assign(post_values, part.name, Simplified(old \o CString(line.text)))
    /\ post_filenames' = Assign(post_filenames, part.name, FALSE)
    /\ UNCHANGED <<phase, post_error, part, files>>

(* write() at the position of the file. *)
Overwritten(old, pos, text) ==
    SubSeq(old, 1, pos) \o text \o SubSeq(old, pos + Len(text) + 1, Len(old))

ReadFile ==
    /\ Getline /\ line.t = "data" /\ ~part.header /\ part.filename # ""
    /\ post_filenames' = Assign(post_filenames, part.name, TRUE)
    /\ post_values' = Assign(post_values, part.name, part.filename)
    /\ disk' = [disk EXCEPT ![part.filename] = Overwritten(@, part.pos, line.text)]
    /\ part' = [part EXCEPT !.pos = @ + Len(line.text)]
    /\ UNCHANGED <<phase, post_error, post_tempdir>>

Registered == {post_values[name] : name \in {n \in DOMAIN post_filenames : post_filenames[n]}}

(* Mutant: the directory is removed before the files. *)
HastyDestructor ==
    /\ post_tempdir' = (post_tempdir /\ disk # NoFiles)
    /\ disk' = [x \in DOMAIN disk \ Registered |-> disk[x]]

(* ~WHCgiPost(): rmdir() fails when a file is left. *)
Destructor ==
    /\ disk' = [x \in DOMAIN disk \ Registered |-> disk[x]]
    /\ post_tempdir' = (post_tempdir /\ disk' # NoFiles)

(* WHCgiApplication: it exits at once after an error; else renderData() or *)
(* a page does, or redirects, and may ask to keep what was saved.          *)
exit(no_cleanup) ==
    /\ \/ phase = "failed" /\ ~no_cleanup
       \/ phase = "loaded"
    /\ phase' = IF no_cleanup THEN "kept" ELSE "exited"
    /\ IF no_cleanup THEN UNCHANGED files ELSE Destructor
    /\ UNCHANGED <<server, stdin, loading>>

Load ==
    \/ LoadUrlEncoding \/ ReadSeparator
    \/ EndOfPart \/ ReadHeader \/ EndOfHeaders \/ ReadText \/ ReadFile \/ EndOfForm

Script == Initialize \/ Load \/ \E no_cleanup \in BOOLEAN : exit(no_cleanup)

Next == cgiStartedData \/ ServerDies \/ Kill \/ Script

(* The event loop of the server and the script both go on. *)
Spec == Init /\ [][Next]_vars /\ WF_vars(cgiStartedData) /\ WF_vars(Script)

-----------------------------------------------------------------------------
Line ==
    {Boundary} \cup [t : {"header"}, field : Seq(Field)] \cup [t : {"data"}, text : Text]

PartState == [header : BOOLEAN, disposition : Seq(Field), name : Text,
              filename : Filenames \cup {""}, open : BOOLEAN, pos : Nat]

(* Every variable holds values of its kind; a value is entered in both     *)
(* maps of WHCgiPost, which the destructor relies on; and the open file is *)
(* there, as far as it was written.                                        *)
TypeOK ==
    /\ form \in Forms
    /\ written \in BOOLEAN /\ eof \in BOOLEAN /\ post_tempdir \in BOOLEAN
    /\ stdin \in Seq(IF form.encoding = "multipart" THEN Line ELSE 0..127)
    /\ phase \in {"starting", "reading", "first line", "parts", "loaded", "failed",
                  "exited", "kept", "killed"}
    /\ post_error \in {"NotInitialized", "Ok", "NoTempDir", "CannotSaveFile"}
    /\ total_bytes \in 0..post_content_length
    /\ part \in PartState
    /\ post_filenames \in [DOMAIN post_values -> BOOLEAN]
    /\ disk \in [DOMAIN disk -> Text]
    /\ disk # NoFiles => post_tempdir
    /\ phase = "parts" /\ part.open =>
          part.filename \in DOMAIN disk /\ part.pos <= Len(disk[part.filename])

Unique(i, what(_)) ==
    \A j \in DOMAIN form.fields : j # i => what(form.fields[j]) # what(form.fields[i])

NameOf(f)     == f.name
FilenameOf(f) == <<f.kind, f.filename>>

Visible(text) == Chosen(text, Where(text, (0..127) \ White))

(* What the script finds is what the user entered: a file byte for byte, a *)
(* text of a URL-encoded form also, and of a text in several lines every   *)
(* visible character, in its order.  Two fields with one name, or files    *)
(* with one name, are not told apart; the name of a URL-encoded field is   *)
(* not decoded, and such a form must fit the pipe; and a zero ends a line  *)
(* of a text.                                                              *)
FormAsSent ==
    /\ phase = "loaded" /\ ~eof /\ form.method = "POST" /\ form.encoding # "other"
    /\ form.encoding = "url" => Len(Body(form)) <= PipeSize
    =>
    \A i \in DOMAIN form.fields :
        LET f == form.fields[i] IN
        Unique(i, NameOf) /\ (form.encoding = "url" => ToSet(f.name) \subseteq Digits \cup Letters) =>
            /\ f.name \in DOMAIN post_values
            /\ post_filenames[f.name] = (f.kind = "file")
            /\ CASE f.kind = "file" ->
                      /\ post_values[f.name] = f.filename
                      /\ Unique(i, FilenameOf) => disk[f.filename] = f.content
                 [] f.kind = "text" /\ form.encoding = "url" ->
                      post_values[f.name] = f.content
                 [] OTHER ->
                      0 \notin ToSet(f.content) =>
                      /\ Visible(post_values[f.name]) = Visible(f.content)
                      /\ LF \notin ToSet(f.content) =>
                            post_values[f.name] = Simplified(f.content)

(* A script that ends by itself leaves neither a file nor the directory    *)
(* behind, also after an error: unless two fields with one name hold       *)
(* files, or the input ended early.                                        *)
NothingLeftOnDisk ==
    phase = "exited" /\ ~eof /\ (\A i \in DOMAIN form.fields : Unique(i, NameOf)) =>
        disk = NoFiles /\ ~post_tempdir

(* A form that was posted is processed, although the script waits for a    *)
(* line more than the form has and its input is never closed: if a line    *)
(* end follows the last boundary.                                          *)
FormIsProcessed ==
    form.method = "POST" /\ form.ended ~> phase \in {"exited", "kept", "killed"}
=============================================================================
