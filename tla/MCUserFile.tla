----------------------------- MODULE MCUserFile -----------------------------
(* User files for checking UserFile with TLC. *)
EXTENDS UserFile, TLC

CONSTANTS u1, u2, p1, p2

S(user, passwd) == [user |-> user, passwd |-> passwd]

(* None; two users; one user twice, with another one between; a number     *)
(* that is missing.                                                        *)
SomeFiles == { <<>>, <<S(u1, p1), S(u2, p1)>>, <<S(u1, p1), S(u2, p2), S(u1, p2)>>,
               (1 :> S(u1, p1)) @@ (3 :> S(u2, p2)) }
=============================================================================
