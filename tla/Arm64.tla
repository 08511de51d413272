-------------------------------- MODULE Arm64 --------------------------------
(***************************************************************************)
(* The vectors of src/src/neon/simd.h, registers of 16 bytes and four to a *)
(* block, and the helpers of src/src/neon/implementations.h.  Registers of *)
(* signed bytes hold the same bits.                                        *)
(***************************************************************************)
EXTENDS Intrinsics

SIZE == 16
NUM_CHUNKS == 4

load(values, at) == [k \in 0..15 |-> values[at + k]]

simd8x64(block) == [i \in 0..3 |-> load(block, 16 * i)]

splat(value) == [k \in 0..15 |-> value]

repeat_16(values) == [k \in 0..15 |-> values[k + 1]]

bit_or(this, other) == or_si(this, other)
bit_and(this, other) == and_si(this, other)
bit_xor(this, other) == xor_si(this, other)

eq(this, other) == cmpeq_epi8(this, other)

prev(n, this, prev_chunk) == vextq(prev_chunk, this, 16 - n)

saturating_add(this, other) == adds_epu8(this, other)
saturating_sub(this, other) == subs_epu8(this, other)

plus(this, other) == add_epi8(this, other)
minus(this, other) == sub_epi8(this, other)

max(this) == vmaxvq(this)

le(this, other) == vcgeq(other, this)
ge(this, other) == vcgeq(this, other)
lt(this, other) == vcgtq(other, this)
gt(this, other) == vcgtq(this, other)
gt_bits(this, other) == gt(this, other)

any_bits_set_anywhere(this, bits) == max(bit_and(this, bits)) # 0

shr(n, this) == vshrq_n(this, n)

lookup_16(this, table) == vqtbl1q(repeat_16(table), this)

(* simd8<int8_t>.                                                          *)
max_signed(this, other) == max_epi8(this, other)
gt_signed(this, other) == cmpgt_epi8(this, other)
lt_signed(this, other) == cmpgt_epi8(other, this)

reduce(f(_, _), v) == f(f(v[0], v[1]), f(v[2], v[3]))

reduce_or(v) == bit_or(bit_or(v[0], v[1]), bit_or(v[2], v[3]))

(* A bit to each byte of a group of eight, added up in three rounds.       *)
bit_mask == [k \in 0..15 |-> 2^(k % 8)]

to_bitmask(v) ==
  LET masked(i) == bit_and(v[i], bit_mask)
      sum0 == vpaddq(masked(0), masked(1))
      sum1 == vpaddq(masked(2), masked(3))
      sum  == vpaddq(sum0, sum1)
  IN  lane_bits(vpaddq(sum, sum), 8)

is_ascii(v) == max(reduce(bit_or, v)) < 128

must_be_continuation(prev1, prev2, prev3) ==
  bit_xor(bit_xor(ge(prev1, splat(192)), ge(prev2, splat(224))),
          ge(prev3, splat(240)))

must_be_2_3_continuation(prev2, prev3) ==
  bit_xor(ge(prev2, splat(224)), ge(prev3, splat(240)))

=============================================================================
