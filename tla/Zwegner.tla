------------------------------- MODULE Zwegner -------------------------------
(***************************************************************************)
(* The checker of the zwegner algorithm                                    *)
(* (src/src/generic/utf8_zwegner_algorithm.h), which exists on x86 only.   *)
(* Continuations are checked with scalar masks, one bit to a lane, that    *)
(* are added and not or-ed: overlapping characters produce carries.  A     *)
(* mask is the set of its bits.                                            *)
(*                                                                         *)
(* A vector of ASCII, not a whole block, takes the fast path, which leaves *)
(* last_cont and prev_bytes as they were.  A checker is the record of the  *)
(* fields of utf8_checker:                                                 *)
(*   special_case_errors  the lanes whose error byte is nonzero            *)
(*   prev_bytes           the last vector with a byte >= 0x80              *)
(*   last_cont            vmask2_t, the continuations it demands           *)
(*   length_errors        vmask_t, the lanes that failed the length check  *)
(***************************************************************************)
EXTENDS Simd

vmask_bits == 0..(W - 1)
vmask2_bits == 0..(2 * W - 1)

vmask_t(mask) == mask \cap vmask_bits

(* Mutant: shifted before it is widened.                                   *)
shift_left_narrow(mask, n) == {i + n : i \in mask} \cap vmask_bits

shift_left(mask, n) == {i + n : i \in mask} \cap vmask2_bits

shift_right(mask, n) == {i - n : i \in {j \in mask : j >= n}}

(***************************************************************************)
(* The sum of two masks as vmask2_t.  A carry comes into bit i from a      *)
(* lower bit that is set in both, through bits that are set in one; what   *)
(* is carried out of the mask is lost.                                     *)
(***************************************************************************)
plus(a, b) ==
  LET carry(i) == \E g \in 0..(i - 1) : /\ g \in a /\ g \in b
                                       /\ \A h \in (g + 1)..(i - 1) : h \in a \/ h \in b
  IN  {i \in vmask2_bits : (i \in a) # ((i \in b) # carry(i))}

(* Which bytes are required to be continuation bytes.                      *)
cont_required(bytes, demanded) ==
  LET lead(min) == {k \in Lanes : bytes[k] >= min}
  IN  plus(plus(plus(demanded, shift_left(lead(192), 1)),
                shift_left(lead(224), 2)),
           shift_left(lead(240), 3))

(* The bits that check_length_errors adds to length_errors.                *)
check_length_errors(bytes, demanded) ==
  Xor({k \in Lanes : bytes[k] \in 128..191},
      vmask_t(cont_required(bytes, demanded)))

(* Mutant: the bits of the next vector are not brought down.               *)
carried_unshifted(bytes, demanded) == cont_required(bytes, demanded)

(* What check_length_errors leaves in last_cont.                           *)
carried(bytes, demanded) == shift_right(cont_required(bytes, demanded), W)
-----------------------------------------------------------------------------
(* The bits of an error byte.                                              *)
OVERLONG_2  == 0
OVERLONG_3  == 1
SURROGATE   == 2
TOO_LARGE   == 3
TOO_LARGE_2 == 4
OVERLONG_4  == 5

nibble_1_error(nibble) ==
  CASE nibble = 12 -> {OVERLONG_2}
    [] nibble = 14 -> {OVERLONG_3, SURROGATE}
    [] nibble = 15 -> {OVERLONG_4, TOO_LARGE, TOO_LARGE_2}
    [] OTHER       -> {}

nibble_2_error(nibble) ==
  CASE nibble = 0              -> {OVERLONG_2, OVERLONG_3, OVERLONG_4}
    [] nibble = 1              -> {OVERLONG_2}
    [] nibble \in 2..3         -> {}
    [] nibble = 4              -> {TOO_LARGE}
    [] nibble \in 5..15 \ {13} -> {TOO_LARGE_2}
    [] nibble = 13             -> {TOO_LARGE_2, SURROGATE}

CARRY == {OVERLONG_2, TOO_LARGE_2}

nibble_3_error(nibble) ==
  CARRY \cup
  CASE nibble = 8        -> {OVERLONG_3, OVERLONG_4}
    [] nibble = 9        -> {OVERLONG_3, TOO_LARGE}
    [] nibble \in 10..11 -> {SURROGATE, TOO_LARGE}
    [] OTHER             -> {}

(* The lanes that check_special_cases adds, before the vector before.      *)
check_special_cases(bytes, before) ==
  LET shifted_bytes == prev(1, bytes, before)
  IN  {k \in Lanes : nibble_1_error(high_nibble(shifted_bytes[k]))
                       \cap nibble_2_error(low_nibble(shifted_bytes[k]))
                       \cap nibble_3_error(high_nibble(bytes[k])) # {}}
-----------------------------------------------------------------------------
(***************************************************************************)
(* check_next_input of one vector, from the fields of the checker to the   *)
(* fields of the checker.                                                  *)
(***************************************************************************)
check_utf8_bytes(bytes, checker) ==
  [special_case_errors |-> checker.special_case_errors
                             \cup check_special_cases(bytes, checker.prev_bytes),
   prev_bytes          |-> bytes,
   last_cont           |-> carried(bytes, checker.last_cont),
   length_errors       |-> checker.length_errors
                             \cup check_length_errors(bytes, checker.last_cont)]

check_ascii(checker) ==
  [checker EXCEPT !.length_errors = @ \cup vmask_t(checker.last_cont)]

check_chunk(bytes, checker) ==
  IF is_ascii(bytes) THEN check_ascii(checker)
                     ELSE check_utf8_bytes(bytes, checker)

(* A checker as it is declared.                                            *)
fresh == [special_case_errors |-> {}, prev_bytes |-> [k \in Lanes |-> 0],
          last_cont |-> {}, length_errors |-> {}]

(* The checker that check_next_input leaves.                               *)
check_next_input(block, checker) ==
  LET checked[i \in 0..NUM_CHUNKS] ==
        IF i = 0 THEN checker
                 ELSE check_chunk(chunks(block)[i - 1], checked[i - 1])
  IN  checked[NUM_CHUNKS]

erroneous(checker) ==
  checker.special_case_errors # {} \/ checker.length_errors # {}

(***************************************************************************)
(* The mask carried to the next vector never reaches beyond the three      *)
(* bytes a character can still need, or a carry.                           *)
(***************************************************************************)
utf8_checker(checker) ==
  checker \in [special_case_errors: SUBSET Lanes, prev_bytes: [Lanes -> 0..255],
               last_cont: SUBSET (0..3), length_errors: SUBSET vmask_bits]

=============================================================================
