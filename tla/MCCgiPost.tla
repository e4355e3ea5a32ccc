------------------------------ MODULE MCCgiPost ------------------------------
(* Forms for checking CgiPost with TLC. *)
EXTENDS CgiPost

TextField(name, content)           == [name |-> <<name>>, kind |-> "text",
                                       filename |-> "", content |-> content]
FileField(name, filename, content) == [name |-> <<name>>, kind |-> "file",
                                       filename |-> filename, content |-> content]

Form0(method, encoding, fields) ==
    [method |-> method, encoding |-> encoding, fields |-> fields, ended |-> TRUE]

(* "A /+z", with a letter in its code for "/"; and an empty text. *)
Words  == <<65, 32, 47, 43, 122>>
(* " a b" CR LF "c d" *)
TwoLines == <<32, 97, 32, 98, 13, 10, 99, 32, 32, 100>>
(* A file that ends with a line end, and lines without CR. *)
Upload == <<0, 10, 13, 10, 5, 13, 10>>
Longer == <<1, 2, 3, 4, 10, 6, 7, 8, 9>>

Simple == <<TextField(97, Words), TextField(98, <<>>)>>
Mixed  == <<TextField(97, TwoLines), FileField(98, "one", Upload), TextField(99, Words),
            FileField(100, "two", <<>>)>>
(* The same file, first longer. *)
SameFile == <<FileField(97, "one", Longer), FileField(98, "one", Upload)>>
(* One field, two files. *)
SameName == <<FileField(97, "one", <<1>>), FileField(97, "two", <<2>>)>>
(* A name that is not sent as it is. *)
Spaced == <<TextField(32, <<65>>), TextField(97, <<66>>)>>
Repeated == <<TextField(97, <<65>>), TextField(97, <<66>>), TextField(98, <<67>>)>>
(* A file that is not chosen, after one that is. *)
NotChosen == <<FileField(97, "one", <<1, 2>>), FileField(98, "", <<>>), TextField(99, <<65>>)>>
Big       == <<TextField(97, [i \in 1..20 |-> 65]), TextField(98, <<66>>)>>

SomeForms ==
    { Form0("POST", "url", fields) : fields \in {Simple, Repeated, Big, <<>>} }
    \cup { Form0("POST", "multipart", fields) :
             fields \in {Simple, Mixed, SameFile, SameName, Repeated, NotChosen} }
    \cup { Form0("GET", encoding, Simple) : encoding \in {"url", "multipart", "other"} }
    \cup { Form0("POST", "other", Simple) }
    \cup { [Form0("POST", "multipart", Simple) EXCEPT !.ended = FALSE],
            Form0("POST", "url", Spaced) }
=============================================================================
