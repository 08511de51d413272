------------------------------ MODULE Verdicts ------------------------------
(***************************************************************************)
(* What the validators answer, as far as the programs that call them can   *)
(* tell.  Each line is a property of the validator's own module.           *)
(***************************************************************************)
EXTENDS Utf8

(***************************************************************************)
(* s with each F0 8F BF BF, the overlong form of U+FFFF, replaced by four  *)
(* bytes of ASCII.                                                         *)
(***************************************************************************)
Overlong_FFFF == <<240, 143, 191, 191>>

OverlongAt(s, i) ==
  /\ i \in 1..(Len(s) - 3)
  /\ SubSeq(s, i, i + 3) = Overlong_FFFF

OverlongReplaced(s) ==
  [j \in 1..Len(s) |->
     IF \E i \in (j - 3)..j : OverlongAt(s, i) THEN 97 ELSE s[j]]

Lookups == {"lookup2", "lookup3", "lookup4"}
Shiftless == {"dfa", "dfa_double", "dfa_three", "dfa_quad"}
Validators == {"fidl"} \cup Lookups \cup Shiftless

(* Mutant: the program calls validate_dfa_utf8, which accepts prefixes.    *)
accepting_prefixes(s) ==
  IF WellFormed(s) THEN Validators
  ELSE IF WellFormedSoFar(s) THEN {"dfa"} ELSE {}

(***************************************************************************)
(* The validators that accept a text: the lookup validators and the        *)
(* shiftless automata, if it is well formed (VerdictCorrect of             *)
(* LookupChecker and of Hoehrmann); fidl_validate_string even if it is so  *)
(* but for the overlong form (VerdictButOverlong of Fushia).               *)
(***************************************************************************)
accepting(s) ==
  IF WellFormed(s) THEN Validators
  ELSE IF WellFormed(OverlongReplaced(s)) THEN {"fidl"} ELSE {}
=============================================================================
