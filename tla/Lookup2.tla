------------------------------- MODULE Lookup2 -------------------------------
(***************************************************************************)
(* One lane of the lookup2 algorithm                                       *)
(* (src/src/generic/utf8_lookup2_algorithm.h).  The tables know only the   *)
(* errors of value; the length check compares where a continuation is due  *)
(* with where there is one, in this lane alone.                            *)
(***************************************************************************)
EXTENDS Simd

(* The bits of an error byte.                                              *)
OVERLONG_2  == 0
OVERLONG_3  == 1
OVERLONG_4  == 2
SURROGATE   == 3
TOO_LARGE   == 4
TOO_LARGE_2 == 5

CARRY == {OVERLONG_2, TOO_LARGE_2}

byte_2_high(nibble) ==
  CARRY \cup
  CASE nibble = 8                   -> {OVERLONG_3, OVERLONG_4}
    [] nibble = 9                   -> {OVERLONG_3, TOO_LARGE}
    [] nibble \in 10..11            -> {TOO_LARGE, SURROGATE}
    [] nibble \in 0..7 \cup 12..15  -> {}

byte_1_high(nibble) ==
  CASE nibble \in 0..11  -> {}
    [] nibble = 12       -> {OVERLONG_2}
    [] nibble = 13       -> {}
    [] nibble = 14       -> {OVERLONG_3, SURROGATE}
    [] nibble = 15       -> {OVERLONG_4, TOO_LARGE, TOO_LARGE_2}

byte_1_low(nibble) ==
  CASE nibble = 0                -> {OVERLONG_2, OVERLONG_3, OVERLONG_4}
    [] nibble = 1                -> {OVERLONG_2}
    [] nibble \in 2..3           -> {}
    [] nibble = 4                -> {TOO_LARGE}
    [] nibble \in 5..15 \ {13}   -> {TOO_LARGE_2}
    [] nibble = 13               -> {TOO_LARGE_2, SURROGATE}

check_special_cases(byte, prev1) ==
  byte_1_high(high_nibble(prev1)) \cap byte_1_low(low_nibble(prev1))
                                  \cap byte_2_high(high_nibble(byte))

(* Mutant: a lead may stand where a continuation is due.                   *)
check_multibyte_lengths_leads(byte, prev1, prev2, prev3) ==
  LET is_continuation == int8(byte) < -64 \/ byte >= 192
  IN  IF must_be_continuation(prev1, prev2, prev3) # is_continuation
      THEN Bits ELSE {}

(* Every byte is 0xFF where the mask is set: any bit stands for them all.  *)
check_multibyte_lengths(byte, prev1, prev2, prev3) ==
  LET is_continuation == int8(byte) < -64
  IN  IF must_be_continuation(prev1, prev2, prev3) # is_continuation
      THEN Bits ELSE {}

(* The error byte of one lane, which check_utf8_bytes ors into error.      *)
lane_errors(prev3, prev2, prev1, byte) ==
  check_special_cases(byte, prev1)
    \cup check_multibyte_lengths(byte, prev1, prev2, prev3)

=============================================================================
