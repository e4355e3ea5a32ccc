----------------------------- MODULE MCCgiRelay -----------------------------
(* Outputs for checking CgiRelay with TLC. *)
EXTENDS CgiRelay

(* What WHCgiApplication::exit() prints; a page; a page whose only header  *)
(* is written in two parts; one whose line end comes late; several headers *)
(* of which one is split; a script without an empty line; a silent one.    *)
AllOutputs ==
    { <<"header", "header", "blank", "text">>,
      <<"header", "blank", "text", "text", "text">>,
      <<"part", "rest", "blank", "text", "text">>,
      <<"part", "newline", "header", "blank", "text">>,
      <<"header", "part", "rest", "blank", "text", "blank", "text">>,
      <<"header", "header">>,
      <<"blank">>,
      <<>> }

(* WHCgiApplication::exit() alone. *)
ExitOutput == {<<"header", "header", "blank", "text">>}
=============================================================================
