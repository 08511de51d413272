-------------------------------- MODULE Range --------------------------------
(***************************************************************************)
(* The checker of the range algorithm                                      *)
(* (src/src/generic/utf8_range_algorithm.h).  Each byte gets a range index *)
(* from the lengths announced by the three bytes before it, corrected      *)
(* after E0, ED, F0 and F4, and must lie in the range of that index.       *)
(*                                                                         *)
(* A checker is the record of the fields of utf8_checker: has_error, the   *)
(* lanes whose error mask is set, and previous, raw_bytes and first_len of *)
(* the last vector of the last block with a byte >= 0x80.                  *)
(***************************************************************************)
EXTENDS Simd

(* The legal length of the character that a byte opens, minus 1.           *)
first_len(byte) == CASE byte \in 0..191   -> 0
                     [] byte \in 192..223 -> 1
                     [] byte \in 224..239 -> 2
                     [] byte \in 240..255 -> 3

(* The indices that are or-ed together, each of them below 4 but the 8.    *)
range(len3, len2, len1, byte) ==
  LET ored == {len1, saturating_sub(len2, 1), saturating_sub(len3, 2)}
  IN  (IF byte >= 192 THEN 8 ELSE 0)
      + (IF ored \cap {2, 3} # {} THEN 2 ELSE 0)
      + (IF ored \cap {1, 3} # {} THEN 1 ELSE 0)

(* What a byte of E0, ED, F0 or F4 adds to the index of the next one.      *)
range2(shift1) ==
  LET pos == (shift1 - 239) % 256
  IN  lookup_16(<<0, 2, 0, 0, 0, 0, 0, 0, 0, 0, 0, 0, 0, 0, 3, 0>>,
                saturating_sub(pos, 240))
      + lookup_16(<<0, 3, 0, 0, 0, 4, 0, 0, 0, 0, 0, 0, 0, 0, 0, 0>>,
                  saturating_add(pos, 112))

minv(index) ==
  lookup_16(<<0, 128, 128, 128, 160, 128, 144, 128,
              194, 127, 127, 127, 127, 127, 127, 127>>, index)

maxv(index) ==
  lookup_16(<<127, 191, 191, 191, 191, 159, 191, 143,
              244, 128, 128, 128, 128, 128, 128, 128>>, index)

(* The vector that previous keeps of current_bytes.                        *)
processed(current_bytes) ==
  [raw_bytes |-> current_bytes,
   first_len |-> [k \in Lanes |-> first_len(current_bytes[k])]]

(* The lanes that check_utf8_bytes adds, with prev the vector before.      *)
check_utf8_bytes(current_bytes, prev_bytes) ==
  LET lens   == processed(current_bytes).first_len
      len1   == prev(1, lens, prev_bytes.first_len)
      len2   == prev(2, lens, prev_bytes.first_len)
      len3   == prev(3, lens, prev_bytes.first_len)
      shift1 == prev(1, current_bytes, prev_bytes.raw_bytes)
      index(k) == (range(len3[k], len2[k], len1[k], current_bytes[k])
                     + range2(shift1[k])) % 256
  IN  {k \in Lanes : \/ int8(minv(index(k))) > int8(current_bytes[k])
                     \/ int8(current_bytes[k]) > int8(maxv(index(k)))}

(* Mutant: only the last lane is looked at.                                *)
last_len_one == [k \in Lanes |-> IF k = W - 1 THEN 0 ELSE 9]

last_len == [k \in Lanes |-> CASE k = W - 3 -> 2
                               [] k = W - 2 -> 1
                               [] k = W - 1 -> 0
                               [] OTHER     -> 9]

check_carried_continuations(checker) ==
  {k \in Lanes : checker.previous.first_len[k] > last_len[k]}
-----------------------------------------------------------------------------
(* A checker as it is declared.                                            *)
fresh == [has_error |-> {}, previous |-> processed([k \in Lanes |-> 0])]

check_ascii_block(checker) ==
  [checker EXCEPT !.has_error = @ \cup check_carried_continuations(checker)]

check_nonascii_block(block, checker) ==
  LET before(i) ==
        IF i = 0 THEN checker.previous ELSE processed(chunks(block)[i - 1])
  IN  [has_error |-> checker.has_error \cup
         UNION {check_utf8_bytes(chunks(block)[i], before(i))
                  : i \in 0..(NUM_CHUNKS - 1)},
       previous |-> processed(chunks(block)[NUM_CHUNKS - 1])]

(* The checker that check_next_input leaves.                               *)
check_next_input(block, checker) ==
  IF is_ascii(block) THEN check_ascii_block(checker)
                     ELSE check_nonascii_block(block, checker)

erroneous(checker) == checker.has_error # {}

utf8_checker(checker) ==
  checker \in [has_error: SUBSET Lanes,
               previous: [raw_bytes: [Lanes -> 0..255],
                          first_len: [Lanes -> 0..3]]]

=============================================================================
