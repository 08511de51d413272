------------------------------- MODULE Lookup4 -------------------------------
(***************************************************************************)
(* One lane of the lookup4 algorithm                                       *)
(* (src/src/generic/utf8_lookup4_algorithm.h): three tables on nibbles,    *)
(* and'ed, find every error that two consecutive bytes show; bit 7 of the  *)
(* result, two continuations in a row, is xor'ed with whether a lead two   *)
(* or three places back asks for a second or third continuation.           *)
(***************************************************************************)
EXTENDS Simd

(* The bits of an error byte.  Bit 6 has two names.                        *)
TOO_SHORT      == 0
TOO_LONG       == 1
OVERLONG_3     == 2
TOO_LARGE      == 3
SURROGATE      == 4
OVERLONG_2     == 5
TOO_LARGE_1000 == 6
OVERLONG_4     == 6
TWO_CONTS      == 7

byte_1_high(nibble) ==
  CASE nibble \in 0..7   -> {TOO_LONG}
    [] nibble \in 8..11  -> {TWO_CONTS}
    [] nibble = 12       -> {TOO_SHORT, OVERLONG_2}
    [] nibble = 13       -> {TOO_SHORT}
    [] nibble = 14       -> {TOO_SHORT, OVERLONG_3, SURROGATE}
    [] nibble = 15       -> {TOO_SHORT, TOO_LARGE, TOO_LARGE_1000, OVERLONG_4}

CARRY == {TOO_SHORT, TOO_LONG, TWO_CONTS}

(* Mutant: U+100000..U+10FFFF taken for too large.                         *)
byte_1_low_f4(nibble) ==
  CARRY \cup
  CASE nibble = 0                -> {OVERLONG_3, OVERLONG_2, OVERLONG_4}
    [] nibble = 1                -> {OVERLONG_2}
    [] nibble \in 2..3           -> {}
    [] nibble \in 4..15 \ {13}   -> {TOO_LARGE, TOO_LARGE_1000}
    [] nibble = 13               -> {TOO_LARGE, TOO_LARGE_1000, SURROGATE}

byte_1_low(nibble) ==
  CARRY \cup
  CASE nibble = 0                -> {OVERLONG_3, OVERLONG_2, OVERLONG_4}
    [] nibble = 1                -> {OVERLONG_2}
    [] nibble \in 2..3           -> {}
    [] nibble = 4                -> {TOO_LARGE}
    [] nibble \in 5..15 \ {13}   -> {TOO_LARGE, TOO_LARGE_1000}
    [] nibble = 13               -> {TOO_LARGE, TOO_LARGE_1000, SURROGATE}

byte_2_high(nibble) ==
  CASE nibble \in 0..7   -> {TOO_SHORT}
    [] nibble = 8        -> {TOO_LONG, OVERLONG_2, TWO_CONTS, OVERLONG_3,
                             TOO_LARGE_1000, OVERLONG_4}
    [] nibble = 9        -> {TOO_LONG, OVERLONG_2, TWO_CONTS, OVERLONG_3,
                             TOO_LARGE}
    [] nibble \in 10..11 -> {TOO_LONG, OVERLONG_2, TWO_CONTS, SURROGATE,
                             TOO_LARGE}
    [] nibble \in 12..15 -> {TOO_SHORT}

(* The special-case byte of one lane, from its byte and the one before.    *)
check_special_cases(byte, prev1) ==
  byte_1_high(high_nibble(prev1)) \cap byte_1_low(low_nibble(prev1))
                                  \cap byte_2_high(high_nibble(byte))

(* must23 & 0x80, then ^ with the special-case byte.                       *)
check_multibyte_lengths(prev2, prev3, sc) ==
  Xor(IF must_be_2_3_continuation(prev2, prev3) THEN {7} ELSE {}, sc)

(* The error byte of one lane, which check_utf8_bytes ors into error.      *)
lane_errors(prev3, prev2, prev1, byte) ==
  check_multibyte_lengths(prev2, prev3, check_special_cases(byte, prev1))

=============================================================================
