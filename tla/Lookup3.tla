------------------------------- MODULE Lookup3 -------------------------------
(***************************************************************************)
(* One lane of the lookup3 algorithm                                       *)
(* (src/src/generic/utf8_lookup3_algorithm.h).  The tables know the errors *)
(* of two bytes but not two continuations in a row; that is left to the    *)
(* length check.                                                           *)
(***************************************************************************)
EXTENDS Simd

(* The bits of an error byte.                                              *)
OVERLONG_2          == 0
OVERLONG_3          == 1
OVERLONG_4          == 2
SURROGATE           == 3
TOO_LARGE           == 4
TOO_LARGE_2         == 5
TOO_SHORT_2_3_4     == 6
LONELY_CONTINUATION == 7

CARRY == {OVERLONG_2, TOO_LARGE_2}

byte_2_high(nibble) ==
  CARRY \cup
  CASE nibble \in 0..7   -> {TOO_SHORT_2_3_4}
    [] nibble = 8        -> {OVERLONG_3, OVERLONG_4, LONELY_CONTINUATION}
    [] nibble = 9        -> {OVERLONG_3, TOO_LARGE, LONELY_CONTINUATION}
    [] nibble \in 10..11 -> {TOO_LARGE, SURROGATE, LONELY_CONTINUATION}
    [] nibble \in 12..15 -> {TOO_SHORT_2_3_4}

byte_1_high(nibble) ==
  CASE nibble \in 0..7   -> {LONELY_CONTINUATION}
    [] nibble \in 8..11  -> {}
    [] nibble = 12       -> {OVERLONG_2, TOO_SHORT_2_3_4}
    [] nibble = 13       -> {TOO_SHORT_2_3_4}
    [] nibble = 14       -> {OVERLONG_3, SURROGATE, TOO_SHORT_2_3_4}
    [] nibble = 15       -> {OVERLONG_4, TOO_LARGE, TOO_LARGE_2, TOO_SHORT_2_3_4}

byte_1_low(nibble) ==
  {TOO_SHORT_2_3_4, LONELY_CONTINUATION} \cup
  CASE nibble = 0                -> {OVERLONG_2, OVERLONG_3, OVERLONG_4}
    [] nibble = 1                -> {OVERLONG_2}
    [] nibble \in 2..3           -> {}
    [] nibble = 4                -> {TOO_LARGE}
    [] nibble \in 5..15 \ {13}   -> {TOO_LARGE_2}
    [] nibble = 13               -> {TOO_LARGE_2, SURROGATE}

check_special_cases(byte, prev1) ==
  byte_1_high(high_nibble(prev1)) \cap byte_1_low(low_nibble(prev1))
                                  \cap byte_2_high(high_nibble(byte))

(* Every byte is 0xFF where the mask is set: any bit stands for them all.  *)
check_multibyte_lengths(byte, prev1, prev2, prev3) ==
  LET larger == IF int8(byte) > int8(prev1) THEN int8(byte) ELSE int8(prev1)
      is_2_3_continuation == larger < -64
  IN  IF must_be_2_3_continuation(prev2, prev3) # is_2_3_continuation
      THEN Bits ELSE {}

(* The error byte of one lane, which check_utf8_bytes ors into error.      *)
lane_errors(prev3, prev2, prev1, byte) ==
  check_special_cases(byte, prev1)
    \cup check_multibyte_lengths(byte, prev1, prev2, prev3)

=============================================================================
