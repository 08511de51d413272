----------------------------- MODULE MCPrograms -----------------------------
(***************************************************************************)
(* Instances of Programs for TLC.  The draws hold the ends of what each    *)
(* inner loop lets through and of what it refuses.                         *)
(***************************************************************************)
EXTENDS Programs

FewDraws ==
  [bits \in 3..7 |-> CASE bits = 3 -> {0, 4, 5}
                       [] bits = 4 -> {0, 13, 15}
                       [] bits = 5 -> {1, 2}
                       [] bits = 6 -> {0, 31, 63}
                       [] bits = 7 -> {0, 33, 65}]
=============================================================================
