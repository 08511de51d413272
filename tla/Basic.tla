-------------------------------- MODULE Basic --------------------------------
(***************************************************************************)
(* The checker of the basic algorithm                                      *)
(* (src/src/generic/utf8_fastvalidate_algorithm.h).  Each lane counts the  *)
(* bytes that are still due, itself included, and a lane must be a         *)
(* continuation exactly when the lanes before it left something due.       *)
(*                                                                         *)
(* A checker is the record of the fields of utf8_checker: has_error, the   *)
(* lanes whose error byte is nonzero, and previous, raw_bytes and          *)
(* carried_continuations of the last vector of the last block with a byte  *)
(* >= 0x80.                                                                *)
(***************************************************************************)
EXTENDS Simd

check_smaller_than_0xF4(current_bytes) ==
  {k \in Lanes : saturating_sub(current_bytes[k], 244) # 0}

(* The bytes of the character that a byte opens, 0 for a continuation.     *)
continuation_length(byte) ==
  CASE byte \in 0..127   -> 1
    [] byte \in 128..191 -> 0
    [] byte \in 192..223 -> 2
    [] byte \in 224..239 -> 3
    [] byte \in 240..255 -> 4

initial_lengths(current_bytes) ==
  [k \in Lanes |-> continuation_length(current_bytes[k])]

(* Mutant: the second round starts from the lengths, not from the sum.     *)
carry_continuations_lengths(lengths, prev_carried) ==
  LET right1 == prev(1, lengths, prev_carried)
      sum    == [k \in Lanes |-> lengths[k] + saturating_sub(right1[k], 1)]
      right2 == prev(2, lengths, prev_carried)
  IN  [k \in Lanes |-> sum[k] + saturating_sub(right2[k], 2)]

(***************************************************************************)
(* The counts reach the lanes behind in two rounds, by one lane and by     *)
(* two.  utf8_checker bounds them far from the wrap of a byte.          *)
(***************************************************************************)
carry_continuations(lengths, prev_carried) ==
  LET right1 == prev(1, lengths, prev_carried)
      sum    == [k \in Lanes |-> lengths[k] + saturating_sub(right1[k], 1)]
      right2 == prev(2, sum, prev_carried)
  IN  [k \in Lanes |-> sum[k] + saturating_sub(right2[k], 2)]

(* Overlap or underlap.                                                    *)
check_continuations(lengths, carries) ==
  {k \in Lanes : (carries[k] > lengths[k]) <=> (lengths[k] > 0)}

last_1 == [k \in Lanes |-> IF k = W - 1 THEN 1 ELSE 9]

check_carried_continuations(checker) ==
  {k \in Lanes : checker.previous.carried_continuations[k] > last_1[k]}

(* ED is followed by at most 9F, and F4 by at most 8F.                     *)
check_first_continuation_max(current_bytes, off1_current_bytes) ==
  {k \in Lanes : \/ /\ off1_current_bytes[k] = 237
                    /\ int8(current_bytes[k]) > int8(159)
                 \/ /\ off1_current_bytes[k] = 244
                    /\ int8(current_bytes[k]) > int8(143)}

initial_min(off1_high_nibble) ==
  CASE off1_high_nibble = 12 -> int8(194)
    [] off1_high_nibble = 14 -> int8(225)
    [] off1_high_nibble = 15 -> int8(241)
    [] OTHER                 -> -128

second_min(off1_high_nibble) ==
  CASE off1_high_nibble \in 12..13 -> 127
    [] off1_high_nibble = 14       -> int8(160)
    [] off1_high_nibble = 15       -> int8(144)
    [] OTHER                       -> -128

(* previous.high_nibbles is what previous.raw_bytes gives.                 *)
check_overlong(current_bytes, off1_current_bytes) ==
  LET nibble(k) == high_nibble(off1_current_bytes[k])
  IN  {k \in Lanes :
         /\ initial_min(nibble(k)) > int8(off1_current_bytes[k])
         /\ second_min(nibble(k)) > int8(current_bytes[k])}

(* The processed_utf_bytes of a vector, pb the ones of the vector before.  *)
processed(current_bytes, pb) ==
  [raw_bytes |-> current_bytes,
   carried_continuations |->
     carry_continuations(initial_lengths(current_bytes),
                         pb.carried_continuations)]

(* The lanes that check_utf8_bytes adds, pb as above.                      *)
check_utf8_bytes(current_bytes, pb) ==
  LET off1_current_bytes == prev(1, current_bytes, pb.raw_bytes)
  IN  check_smaller_than_0xF4(current_bytes)
      \cup check_continuations(initial_lengths(current_bytes),
             processed(current_bytes, pb).carried_continuations)
      \cup check_first_continuation_max(current_bytes, off1_current_bytes)
      \cup check_overlong(current_bytes, off1_current_bytes)
-----------------------------------------------------------------------------
(* A checker as it is declared.                                            *)
fresh == [has_error |-> {},
          previous  |-> [raw_bytes |-> [k \in Lanes |-> 0],
                         carried_continuations |-> [k \in Lanes |-> 0]]]

check_ascii_block(checker) ==
  [checker EXCEPT !.has_error = @ \cup check_carried_continuations(checker)]

(* seen[i] is previous before vector i of the block.                       *)
check_nonascii_block(block, checker) ==
  LET seen[i \in 0..NUM_CHUNKS] ==
        IF i = 0 THEN checker.previous
                 ELSE processed(chunks(block)[i - 1], seen[i - 1])
  IN  [has_error |-> checker.has_error \cup
         UNION {check_utf8_bytes(chunks(block)[i], seen[i])
                  : i \in 0..(NUM_CHUNKS - 1)},
       previous |-> seen[NUM_CHUNKS]]

(* The checker that check_next_input leaves.                               *)
check_next_input(block, checker) ==
  IF is_ascii(block) THEN check_ascii_block(checker)
                     ELSE check_nonascii_block(block, checker)

erroneous(checker) == checker.has_error # {}

(***************************************************************************)
(* The counts of a vector that is full of overlapping leads add up, but    *)
(* never near the sign of an int8_t.  (31 is what CarriedChecker_proofs    *)
(* shows for vectors of five lanes or more.)                               *)
(***************************************************************************)
utf8_checker(checker) ==
  checker \in [has_error: SUBSET Lanes,
               previous: [raw_bytes: [Lanes -> 0..255],
                          carried_continuations: [Lanes -> 0..31]]]

=============================================================================
