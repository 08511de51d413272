------------------------------- MODULE Utf8Cpp -------------------------------
(***************************************************************************)
(* utf8::is_valid of the utf8cpp library                                   *)
(* (src/dependencies/utf8_v2_3_4/source/utf8/core.h), the baseline of      *)
(* benchmarks/benchmark.cpp: find_invalid calls validate_next until it     *)
(* fails, and the text is valid if the iterator got to the end.            *)
(*                                                                         *)
(* validate_next works on the iterator of its caller: it moves it through  *)
(* the trail bytes, adding up the code point, and moves it back when the   *)
(* character is refused.  A step is one move of the iterator or one of the *)
(* checks behind them.  Iterators are offsets from 0.                      *)
(***************************************************************************)
EXTENDS Utf8

CONSTANT Inputs   \* the texts that may be passed

ASSUME InputsAssumption == \A s \in Inputs : s \in Seq(Byte)

VARIABLES
  input,        \* [start, end)
  pc,           \* "find_invalid", "get_sequence", "checks" or "returned"
  it,           \* the iterator, which is result in find_invalid
  original_it,  \* where the character being read begins
  length,       \* the bytes that its lead announces
  cp,           \* what the bytes read so far add to the code point
  err           \* the last utf_error

vars == <<input, pc, it, original_it, length, cp, err>>

utf_error == {"UTF8_OK", "NOT_ENOUGH_ROOM", "INVALID_LEAD",
              "INCOMPLETE_SEQUENCE", "OVERLONG_SEQUENCE", "INVALID_CODE_POINT"}

end == Len(input)
octet(i) == input[i + 1]
-----------------------------------------------------------------------------
is_trail(oc) == oc \div 64 = 2

is_surrogate(code) == code >= 55296 /\ code <= 57343

(* Mutant: only the high surrogates are looked for.                        *)
is_code_point_valid_lead(code) ==
  code <= 1114111 /\ ~(code >= 55296 /\ code <= 56319)

is_code_point_valid(code) == code <= 1114111 /\ ~is_surrogate(code)

sequence_length(lead) == CASE lead < 128       -> 1
                           [] lead \div 32 = 6  -> 2
                           [] lead \div 16 = 14 -> 3
                           [] lead \div 8 = 30  -> 4
                           [] OTHER             -> 0

(* Mutant: the boundary belongs to the shorter form.                       *)
is_overlong_sequence_edge(code, n) ==
  \/ code < 128 /\ n # 1
  \/ code >= 128 /\ code <= 2048 /\ n # 2
  \/ code > 2048 /\ code <= 65536 /\ n # 3

is_overlong_sequence(code, n) ==
  \/ code < 128 /\ n # 1
  \/ code >= 128 /\ code < 2048 /\ n # 2
  \/ code >= 2048 /\ code < 65536 /\ n # 3

(* What increase_safely answers, with i the iterator already increased.    *)
increase_safely(i) == CASE i = end            -> "NOT_ENOUGH_ROOM"
                        [] i # end /\ ~is_trail(octet(i)) -> "INCOMPLETE_SEQUENCE"
                        [] OTHER              -> "UTF8_OK"

(* What get_sequence_<n> keeps of the lead: all that the mask leaves of    *)
(* the byte, shifted.  7ff, ffff and 1fffff cut off the length bits.       *)
lead_bits(n, byte) == CASE n = 1 -> byte
                        [] n = 2 -> (byte * 64) % 2048
                        [] n = 3 -> (byte * 4096) % 65536
                        [] n = 4 -> (byte * 262144) % 2097152

(* Mutant: the second byte of four is not masked to its six bits.          *)
trail_bits_unmasked(left, byte) ==
  CASE left = 0 -> byte % 64
    [] left = 1 -> (byte * 64) % 4096
    [] left = 2 -> byte * 4096

(* What a trail byte adds when left of them are still to come.             *)
trail_bits(left, byte) ==
  CASE left = 0 -> byte % 64
    [] left = 1 -> (byte * 64) % 4096
    [] left = 2 -> (byte * 4096) % 262144
-----------------------------------------------------------------------------
Init ==
  /\ input \in Inputs
  /\ pc = "find_invalid"
  /\ it = 0
  /\ original_it = 0
  /\ length = 0
  /\ cp = 0
  /\ err = "UTF8_OK"

(* The test of the while loop, and validate_next up to its switch.         *)
Lead ==
  /\ pc = "find_invalid"
  /\ it # end
  /\ sequence_length(octet(it)) # 0
  /\ pc' = "get_sequence"
  /\ original_it' = it
  /\ length' = sequence_length(octet(it))
  /\ cp' = lead_bits(length', octet(it))
  /\ UNCHANGED <<input, it, err>>

InvalidLead ==
  /\ pc = "find_invalid"
  /\ it # end
  /\ sequence_length(octet(it)) = 0
  /\ err' = "INVALID_LEAD"
  /\ pc' = "returned"
  /\ UNCHANGED <<input, it, original_it, length, cp>>

last_it == original_it + length - 1

Trail ==
  /\ pc = "get_sequence"
  /\ it # last_it
  /\ increase_safely(it + 1) = "UTF8_OK"
  /\ it' = it + 1
  /\ cp' = cp + trail_bits(last_it - it', octet(it'))
  /\ UNCHANGED <<input, pc, original_it, length, err>>

GotSequence ==
  /\ pc = "get_sequence"
  /\ it = last_it
  /\ pc' = "checks"
  /\ UNCHANGED <<input, it, original_it, length, cp, err>>

Accept ==
  /\ pc = "checks"
  /\ is_code_point_valid(cp)
  /\ ~is_overlong_sequence(cp, length)
  /\ it' = it + 1
  /\ pc' = "find_invalid"
  /\ UNCHANGED <<input, original_it, length, cp, err>>

(* Mutant: the iterator stays on the byte that failed.                     *)
fail_unrestored(error) ==
  /\ err' = error
  /\ pc' = "returned"
  /\ UNCHANGED <<input, it, original_it, length, cp>>

(* The failure branch, and the return of find_invalid.                     *)
fail(error) ==
  /\ err' = error
  /\ it' = original_it
  /\ pc' = "returned"
  /\ UNCHANGED <<input, original_it, length, cp>>

CutShort ==
  /\ pc = "get_sequence"
  /\ it # last_it
  /\ increase_safely(it + 1) # "UTF8_OK"
  /\ fail(increase_safely(it + 1))

Refuse ==
  /\ pc = "checks"
  /\ \/ ~is_code_point_valid(cp) /\ fail("INVALID_CODE_POINT")
     \/ /\ is_code_point_valid(cp)
        /\ is_overlong_sequence(cp, length)
        /\ fail("OVERLONG_SEQUENCE")

Finish ==
  /\ pc = "find_invalid"
  /\ it = end
  /\ pc' = "returned"
  /\ UNCHANGED <<input, it, original_it, length, cp, err>>

Next ==
  \/ Lead \/ InvalidLead \/ Trail \/ CutShort \/ GotSequence
  \/ Accept \/ Refuse \/ Finish

Spec == Init /\ [][Next]_vars /\ WF_vars(Next)

(* What is_valid answers, as benchmark.cpp translates it.                  *)
is_valid == CASE pc # "returned"           -> "none"
              [] pc = "returned" /\ it = end -> "SUCCESS"
              [] OTHER                     -> "UTF8_ERROR"
-----------------------------------------------------------------------------
bits21 == 2097151

(* Types; the iterator never leaves the text, nor the code point 21 bits.  *)
TypeOK ==
  /\ input \in Seq(Byte)
  /\ pc \in {"find_invalid", "get_sequence", "checks", "returned"}
  /\ it \in 0..end
  /\ original_it \in 0..end
  /\ length \in 0..4
  /\ cp \in 0..bits21
  /\ err \in utf_error

(***************************************************************************)
(* The iterator that find_invalid returns is where the first character     *)
(* that is not legal begins, whichever byte of it gave it away: what lies  *)
(* before is well formed, and no longer prefix of the text is.             *)
(***************************************************************************)
FoundIsFirstInvalid ==
  pc = "returned" =>
    /\ WellFormed(SubSeq(input, 1, it))
    /\ \A n \in (it + 1)..end : ~WellFormed(SubSeq(input, 1, n))

(***************************************************************************)
(* The checks of the code point (surrogates, 10FFFF, the shortest form)    *)
(* draw the same line as the table of legal bytes: the sums of masked bits *)
(* lose nothing that the two would have to disagree about.                 *)
(***************************************************************************)
JudgedByCodePoint ==
  pc = "checks" =>
    (is_code_point_valid(cp) /\ ~is_overlong_sequence(cp, length)
       <=> LegalChar(input, original_it + 1, length))

Abs == INSTANCE Utf8Validation WITH input <- input, result <- is_valid

(* is_valid is a single atomic, terminating decision of the language.      *)
ImplementsValidation == Abs!Spec
=============================================================================
