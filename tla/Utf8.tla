-------------------------------- MODULE Utf8 --------------------------------
(***************************************************************************)
(* The language every validator of the repository decides: the table of    *)
(* legal byte sequences that heads each algorithm                          *)
(* (src/src/generic/utf8_lookup3_algorithm.h, "Legal utf-8 byte            *)
(* sequences").  Nothing here is taken from the algorithms themselves.     *)
(*                                                                         *)
(* Positions in a sequence are TLA+ positions, from 1.                     *)
(***************************************************************************)
EXTENDS Integers, Sequences

Byte == 0..255

Ascii == 0..127
Continuation == 128..191
Lead2 == 194..223
Lead3 == 224..239
Lead4 == 240..244

(***************************************************************************)
(* The second byte of a row of the table: its range depends on the lead.   *)
(***************************************************************************)
SecondBytes(lead) ==
  CASE lead = 224 -> 160..191     \* U+0800..U+0FFF      E0  A0..BF
    [] lead = 237 -> 128..159     \* U+D000..U+D7FF      ED  80..9F
    [] lead = 240 -> 144..191     \* U+10000..U+3FFFF    F0  90..BF
    [] lead = 244 -> 128..143     \* U+100000..U+10FFFF  F4  80..8F
    [] OTHER      -> Continuation

(* s holds a legal character of n bytes that starts at position i.         *)
LegalChar(s, i, n) ==
  \/ /\ n = 1
     /\ s[i] \in Ascii
  \/ /\ n = 2
     /\ s[i] \in Lead2
     /\ s[i+1] \in Continuation
  \/ /\ n = 3
     /\ s[i] \in Lead3
     /\ s[i+1] \in SecondBytes(s[i])
     /\ s[i+2] \in Continuation
  \/ /\ n = 4
     /\ s[i] \in Lead4
     /\ s[i+1] \in SecondBytes(s[i])
     /\ s[i+2] \in Continuation
     /\ s[i+3] \in Continuation

(***************************************************************************)
(* A sequence is well formed when each of its bytes lies in a legal        *)
(* character.  UTF-8 is self-synchronising: two legal characters that      *)
(* overlap are the same one, so this is the same as being a concatenation  *)
(* of legal characters (Decodes below, which runs compare), and it needs   *)
(* no recursion.                                                           *)
(***************************************************************************)
WellFormed(s) ==
  \A j \in 1..Len(s) :
    \E i \in 1..j, n \in 1..4 :
      /\ j < i + n
      /\ i + n <= Len(s) + 1
      /\ LegalChar(s, i, n)

(* The textbook definition: s can be cut into legal characters from 1 on.  *)
Decodes(s) ==
  LET decodes[i \in 1..(Len(s) + 1)] ==
        \/ i = Len(s) + 1
        \/ \E n \in 1..4 : /\ i + n <= Len(s) + 1
                           /\ LegalChar(s, i, n)
                           /\ decodes[i + n]
  IN  decodes[1]

(***************************************************************************)
(* What a reader of a prefix cannot condemn yet: the last n bytes open a   *)
(* character that the bytes so far may still complete.  A lone lead byte   *)
(* is always pending, whatever its value: the tables of the algorithms     *)
(* reject C0, C1 and F5..FF through the byte that follows.                 *)
(***************************************************************************)
Pending(s, n) ==
  LET i == Len(s) - n + 1
  IN  \/ /\ n = 1
         /\ s[i] \in 192..255
      \/ /\ n = 2
         /\ s[i] \in Lead3 \cup Lead4
         /\ s[i+1] \in SecondBytes(s[i])
      \/ /\ n = 3
         /\ s[i] \in Lead4
         /\ s[i+1] \in SecondBytes(s[i])
         /\ s[i+2] \in Continuation

(* s is well formed, up to a pending character at its very end.            *)
WellFormedSoFar(s) ==
  \/ WellFormed(s)
  \/ \E n \in 1..3 :
       /\ n <= Len(s)
       /\ Pending(s, n)
       /\ WellFormed(SubSeq(s, 1, Len(s) - n))

=============================================================================
