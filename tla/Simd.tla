-------------------------------- MODULE Simd --------------------------------
(***************************************************************************)
(* The vector layer: simd8<uint8_t>, a vector of W bytes, and              *)
(* simd8x64<uint8_t>, the NUM_CHUNKS vectors of one block                  *)
(* (src/src/{sse,avx2,neon}/simd.h), with the helpers that each            *)
(* implementations.h gives to lookup2, lookup3 and lookup4.                *)
(*                                                                         *)
(* A vector of bytes is a function on Lanes.  Where a byte is a set of     *)
(* flags it is the set of the numbers of its bits that are set, so that &  *)
(* is \cap, | is \cup and ^ is Xor.  An accumulator that is only or-ed     *)
(* into and tested for zero is the set of its nonzero lanes.               *)
(***************************************************************************)
EXTENDS Integers

CONSTANTS
  W,           \* lanes of a vector: 16 on SSE and NEON, 32 on AVX2
  NUM_CHUNKS,  \* vectors of a block: 64 / W
  Arch         \* the target the code is compiled for

ASSUME WidthAssumption == W \in Nat /\ W >= 3
ASSUME NumChunksAssumption == NUM_CHUNKS \in Nat \ {0}
ASSUME ArchAssumption == Arch \in {"x86", "arm64"}

Lanes == 0..(W - 1)

Bits == 0..7

Xor(a, b) == (a \ b) \cup (b \ a)

(* The simd8x64 constructor: the block's bytes, W to a vector.             *)
chunks(block) ==
  [i \in 0..(NUM_CHUNKS - 1) |-> [k \in Lanes |-> block[i * W + k]]]

(* Mutant: zeros are shifted in.                                           *)
prev_zeros(n, chunk, prev_chunk) ==
  [k \in Lanes |-> IF k >= n THEN chunk[k - n] ELSE 0]

(* chunk.prev<n>(prev_chunk): the bytes n places before each lane.         *)
prev(n, chunk, prev_chunk) ==
  [k \in Lanes |-> IF k >= n THEN chunk[k - n] ELSE prev_chunk[W - n + k]]

(* shr<4>() and & 0x0F of one byte.                                        *)
high_nibble(byte) == byte \div 16
low_nibble(byte) == byte % 16

saturating_sub(a, b) == IF a > b THEN a - b ELSE 0
saturating_add(a, b) == IF a + b > 255 THEN 255 ELSE a + b

(***************************************************************************)
(* index.lookup_16(table) of one byte.  For an index above 15 pshufb keeps *)
(* the low four bits, or gives 0 when the sign bit is set; tbl gives 0.    *)
(***************************************************************************)
lookup_16(table, index) ==
  IF index < 16 \/ (Arch = "x86" /\ index < 128)
  THEN table[(index % 16) + 1]
  ELSE 0

(* simd8<int8_t>(a | b | ...) > 0: some bit set, and no sign bit.          *)
or_positive(bytes) == (\E a \in bytes : a # 0) /\ (\A a \in bytes : a < 128)

(* The lanes where gt_bits leaves a bit.                                   *)
gt_bits(chunk, max) == {k \in Lanes : saturating_sub(chunk[k], max[k]) # 0}

is_ascii(block) == \A k \in DOMAIN block : block[k] < 128

(* simd8<int8_t>(byte): the same bits, read as a signed byte.              *)
int8(byte) == IF byte < 128 THEN byte ELSE byte - 256

(***************************************************************************)
(* must_be_continuation and must_be_2_3_continuation of one lane.  x86 ors *)
(* saturating subtractions; NEON compares, and combines the answers with   *)
(* ^, so that two overlapping leads cancel.                                *)
(***************************************************************************)
must_be_continuation(prev1, prev2, prev3) ==
  LET is_second_byte == prev1 >= 192
      is_third_byte  == prev2 >= 224
      is_fourth_byte == prev3 >= 240
  IN  IF Arch = "arm64"
      THEN (is_second_byte # is_third_byte) # is_fourth_byte
      ELSE or_positive({saturating_sub(prev1, 191), saturating_sub(prev2, 223),
                        saturating_sub(prev3, 239)})

must_be_2_3_continuation(prev2, prev3) ==
  IF Arch = "arm64"
  THEN (prev2 >= 224) # (prev3 >= 240)
  ELSE or_positive({saturating_sub(prev2, 223), saturating_sub(prev3, 239)})

=============================================================================
