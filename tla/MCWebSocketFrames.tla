-------------------------- MODULE MCWebSocketFrames -------------------------
(* Frames for checking WebSocketFrames with TLC. *)
EXTENDS WebSocketFrames, Bitwise

BitXor(a, b) == a ^^ b

Key == <<55, 0, 255, 130>>

F(op, fin, payload)       == [op |-> op, fin |-> fin, ext |-> 0, form |-> 0,
                              key |-> Key, payload |-> payload]
Long(form, op, payload)   == [F(op, TRUE, payload) EXCEPT !.form = form]
Extended(op, payload)     == [F(op, TRUE, payload) EXCEPT !.ext = 4]
Unmasked(op, payload)     == [F(op, TRUE, payload) EXCEPT !.key = <<>>]

Status == <<3, 232>>

(* A message in three fragments with a ping between them, another message, *)
(* and a close with a body that holds a zero.                              *)
Fragmented == << F(1, FALSE, <<72>>), F(9, TRUE, <<1, 128>>), F(0, FALSE, <<255, 3>>),
                 F(0, TRUE, <<200, 5, 6, 7, 8>>), F(2, TRUE, <<9>>), F(8, TRUE, Status \o <<65, 0, 66>>) >>
(* Lengths in two and in eight bytes, one that needs two, an empty message, *)
(* a reserved operation, a pong, and a close without a status.             *)
Lengths    == << Long(2, 2, [i \in 1..126 |-> i]), Long(8, 1, <<7, 8>>), F(2, TRUE, <<>>),
                 F(5, TRUE, <<4>>), F(10, TRUE, <<2>>), Long(2, 9, <<3>>), F(8, TRUE, <<5>>) >>
(* A continuation first, and one after a message that is complete.         *)
Stray      == << F(9, TRUE, <<>>), F(0, TRUE, <<1, 2, 3>>), F(1, TRUE, <<4>>) >>
Again      == << F(1, TRUE, <<1>>), F(0, TRUE, <<2>>), F(2, FALSE, <<3>>), F(0, TRUE, <<4>>) >>
(* Frames that a server must refuse. *)
Refused    == << F(1, TRUE, <<1>>), Extended(2, <<2>>), F(1, TRUE, <<3>>) >>
Bare       == << F(1, FALSE, <<1>>), Unmasked(9, <<2, 3, 4, 5, 6>>), F(0, TRUE, <<3>>) >>

SomeScripts == {Fragmented, Lengths, Stray, Again, Refused, Bare}

SomeMessages == { [op |-> 1, payload |-> <<33, 44>>],
                  [op |-> 2, payload |-> [i \in 1..126 |-> 2]],
                  [op |-> 2, payload |-> [i \in 1..300 |-> 3]] }

SomeReasons == { [status |-> 1001, body |-> <<66, 67>>] }
=============================================================================
