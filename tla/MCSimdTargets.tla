---------------------------- MODULE MCSimdTargets ----------------------------
(* An instance of SimdTargets for TLC.                                     *)
EXTENDS SimdTargets

o(name, with) == [name |-> name, with |-> with]

(* Cells that all differ; and a table of range, whose index passes 15.     *)
TwoTables == <<<<240, 1, 130, 3, 196, 5, 22, 7, 56, 9, 10, 171, 12, 13, 14, 99>>,
               <<0, 3, 0, 0, 0, 4, 0, 0, 0, 0, 0, 0, 0, 0, 0, 0>>>>

(* The operations that the algorithms call, with operands of theirs.       *)
AllOperations ==
  {o("prev", n) : n \in 1..3}
    \cup {o("shr", 4), o("&", 15), o("max", 0)}
    \cup {o("lookup_16", n) : n \in 1..2}
    \cup {o("saturating_sub", n) : n \in {1, 191, 239}}
    \cup {o("saturating_add", 112), o("+", 100), o("-", 239), o("==", 237)}
    \cup {o(">", n) : n \in {0, 143}} \cup {o("<", n) : n \in {0, 192}}
    \cup {o("must_be_continuation", 0), o("must_be_2_3_continuation", 0)}

(* Bytes all different; and characters that the ends of registers and of   *)
(* halves of registers cut, at all of their bytes in turn.                 *)
Distinct == [k \in 0..63 |-> (67 * k + 5) % 256]
Others == [k \in 0..63 |-> (151 * k + 84) % 256]

Character == <<240, 159, 146, 169, 195, 191, 237, 159, 191, 127, 128>>

Text(shift) == [k \in 0..63 |-> Character[((k + shift) % 11) + 1]]

(* One byte among ASCII.                                                   *)
Stray(at, byte) == [k \in 0..63 |-> IF k = at THEN byte ELSE 97]

AllBlocks ==
  {<<Distinct, Others>>, <<Others, Distinct>>}
    \cup {<<Text(s), Text(s + 9)>> : s \in 0..3}
    \cup {<<Stray(63, 240), Stray(at, 192)>> : at \in {0, 15, 16, 31, 32, 47, 63}}
=============================================================================
