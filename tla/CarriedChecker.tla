--------------------------- MODULE CarriedChecker ---------------------------
(***************************************************************************)
(* The validators that carry what a vector leaves due to the next one:     *)
(* validate<utf8_checker> with the checker of the range, the basic or the  *)
(* zwegner algorithm (utf8_range_algorithm.h,                              *)
(* utf8_fastvalidate_algorithm.h, utf8_zwegner_algorithm.h), each in its   *)
(* own namespace.  Modules Range, Basic and Zwegner describe the checkers; *)
(* this one lets validate drive them.                                      *)
(*                                                                         *)
(* In all three check_eof() does nothing.                                  *)
(***************************************************************************)
EXTENDS Validate, Simd

CONSTANT Algorithms   \* the namespaces whose validate may be called

ASSUME BlockAssumption == STEP_SIZE = NUM_CHUNKS * W
ASSUME AlgorithmsAssumption ==
  /\ Algorithms \subseteq {"range", "basic", "zwegner"}
  /\ "zwegner" \in Algorithms => Arch = "x86"

VARIABLES
  algorithm,  \* the namespace whose validate was called
  checker     \* its utf8_checker

vars == <<reader, algorithm, checker>>

R == INSTANCE Range
B == INSTANCE Basic
Z == INSTANCE Zwegner

fresh(name) == CASE name = "range"   -> R!fresh
                 [] name = "basic"   -> B!fresh
                 [] name = "zwegner" -> Z!fresh

check_next_input(block) ==
  /\ checker' = CASE algorithm = "range"   -> R!check_next_input(block, checker)
                  [] algorithm = "basic"   -> B!check_next_input(block, checker)
                  [] algorithm = "zwegner" -> Z!check_next_input(block, checker)
  /\ UNCHANGED algorithm

check_eof == UNCHANGED <<algorithm, checker>>

erroneous == CASE algorithm = "range"   -> R!erroneous(checker)
               [] algorithm = "basic"   -> B!erroneous(checker)
               [] algorithm = "zwegner" -> Z!erroneous(checker)

errors == IF erroneous THEN "UTF8_ERROR" ELSE "SUCCESS"
-----------------------------------------------------------------------------
(* validate<utf8_checker>(input, len).                                     *)
Init ==
  /\ ValidateInit
  /\ algorithm \in Algorithms
  /\ checker = fresh(algorithm)

CheckFullBlock == FullBlock /\ check_next_input(full_block)

CheckRemainder == Remainder /\ check_next_input(get_remainder)

SkipRemainder == NoRemainder /\ UNCHANGED <<algorithm, checker>>

CheckEof == check_eof /\ Return(errors)

Next == CheckFullBlock \/ CheckRemainder \/ SkipRemainder \/ CheckEof

Spec == Init /\ [][Next]_vars /\ WF_vars(Next)
-----------------------------------------------------------------------------
(* Types; the counts of basic and the mask of zwegner keep to the bounds   *)
(* that their modules state.                                               *)
TypeOK ==
  /\ ValidateTypeOK
  /\ algorithm \in Algorithms
  /\ CASE algorithm = "range"   -> R!utf8_checker(checker)
       [] algorithm = "basic"   -> B!utf8_checker(checker)
       [] algorithm = "zwegner" -> Z!utf8_checker(checker)

(***************************************************************************)
(* The bytes that an algorithm condemns on sight, where others wait for    *)
(* the byte behind: range tests a lead itself, basic only against F4.      *)
(***************************************************************************)
Condemned ==
  CASE algorithm = "range"   -> {192, 193} \cup (245..255)
    [] algorithm = "basic"   -> 245..255
    [] algorithm = "zwegner" -> {}

OnTrack(s) ==
  /\ WellFormedSoFar(s)
  /\ Len(s) > 0 => s[Len(s)] \notin Condemned

(***************************************************************************)
(* Between two blocks an error is recorded exactly when no continuation    *)
(* could make the bytes consumed so far well formed (but for a last byte   *)
(* that is Condemned).  The vector kept by the ASCII fast path may be many *)
(* blocks old, the counts of basic are added to in two rounds, and zwegner *)
(* argues (lines 150 to 161) that the carries of its sums never let an     *)
(* ill-formed sequence pass.                                               *)
(***************************************************************************)
ErrorIsExact ==
  pc = "loop" => (erroneous <=> ~OnTrack(SubSeq(input, 1, idx)))

(* m is in here if the byte m places behind the vectors seen so far is     *)
(* demanded to be a continuation.                                          *)
demanded ==
  CASE algorithm = "range"   ->
         {m \in 0..2 : \E n \in 1..(3 - m) :
                         checker.previous.first_len[W - n] >= n + m}
    [] algorithm = "basic"   ->
         {m \in 0..2 : checker.previous.carried_continuations[W - 1] >= m + 2}
    [] algorithm = "zwegner" -> checker.last_cont

(***************************************************************************)
(* While no error is recorded, the checker demands of the next bytes just  *)
(* what the character cut by the cursor still needs: the vector it kept is *)
(* the last one, or an older one that demands nothing.                     *)
(***************************************************************************)
DemandIsDue ==
  LET consumed(n) == IF n <= idx THEN input[idx - n + 1] ELSE 0
      due == {m \in 0..2 : \E n \in 1..(3 - m) :
                             consumed(n) >= <<192, 224, 240>>[n + m]}
  IN  pc = "loop" /\ ~erroneous => demanded = due

(***************************************************************************)
(* What the answer means, given that check_eof() does nothing: a character *)
(* cut by the end of the input is noticed only through the padding, so     *)
(* only when the last block has some.                                      *)
(***************************************************************************)
VerdictUpToCut ==
  pc = "returned" =>
    (result = "SUCCESS" <=> IF len % STEP_SIZE = 0 THEN OnTrack(input)
                                                   ELSE WellFormed(input))

(***************************************************************************)
(* The promise of the header of range, "legal utf-8 byte sequence": the    *)
(* validator accepts nothing but the sequences of its table (lines 5 to    *)
(* 14).                                                                    *)
(***************************************************************************)
AcceptsOnlyLegal == result = "SUCCESS" => WellFormed(input)

(***************************************************************************)
(* The header of zwegner on TOO_SHORT, a multibyte character with too few  *)
(* bytes: "We detect this by looking for new characters (lead bytes)       *)
(* inside the range of a multibyte character" (lines 31 to 33).            *)
(***************************************************************************)
TooShortIsDetected ==
  result = "SUCCESS" => \A n \in 1..3 : n <= len => ~Pending(input, n)
=============================================================================
