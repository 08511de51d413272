------------------------------ MODULE Westmere ------------------------------
(***************************************************************************)
(* The vectors of src/src/sse/simd.h, registers of 16 bytes and four to a  *)
(* block, and the helpers of src/src/sse/implementations.h.  Registers of  *)
(* signed bytes hold the same bits.                                        *)
(***************************************************************************)
EXTENDS Intrinsics

SIZE == 16
NUM_CHUNKS == 4

load(values, at) == [k \in 0..15 |-> values[at + k]]

(* Mutant: the block cut as for AVX2.                                     *)
simd8x64_two(block) == [i \in 0..1 |-> load(block, 32 * i)]

simd8x64(block) == [i \in 0..3 |-> load(block, 16 * i)]

splat(value) == [k \in 0..15 |-> value]

repeat_16(values) == [k \in 0..15 |-> values[k + 1]]

bit_or(this, other) == or_si(this, other)
bit_and(this, other) == and_si(this, other)
bit_xor(this, other) == xor_si(this, other)

eq(this, other) == cmpeq_epi8(this, other)

prev(n, this, prev_chunk) == alignr_epi8(this, prev_chunk, 16 - n)

plus(this, other) == add_epi8(this, other)
minus(this, other) == sub_epi8(this, other)

lookup_16(this, table) == shuffle_epi8(repeat_16(table), this)

(* simd8<int8_t>.                                                          *)
max_signed(this, other) == max_epi8(this, other)
gt_signed(this, other) == cmpgt_epi8(this, other)
lt_signed(this, other) == cmpgt_epi8(other, this)

saturating_add(this, other) == adds_epu8(this, other)
saturating_sub(this, other) == subs_epu8(this, other)

gt_bits(this, other) == saturating_sub(this, other)
le(this, other) == eq(max_epu8(other, this), other)
ge(this, other) == eq(min_epu8(other, this), other)

bits_not_set(this) == eq(this, splat(0))
any_bits_set(this) == bit_xor(bits_not_set(this), splat(255))

gt(this, other) == any_bits_set(gt_bits(this, other))

(* operator<: the header calls gt_bits, as in operator>, not lt_bits.      *)
lt(this, other) == any_bits_set(gt_bits(this, other))

any_bits_set_anywhere(this, bits) == ~testz_si(this, bits)

is_ascii_bits(this) == movemask_epi8(this) = {}

shr(n, this) == bit_and(srli_epi16(this, n), splat(255 \div 2^n))

get_bit(n, this) == movemask_epi8(slli_epi16(this, 7 - n))

reduce(f(_, _), v) == f(f(v[0], v[1]), f(v[2], v[3]))

reduce_or(v) == bit_or(bit_or(v[0], v[1]), bit_or(v[2], v[3]))

to_bitmask(v) ==
  LET r(i) == shifted(sign_extended(movemask_epi8(v[i])), 16 * i)
  IN  r(0) \cup r(1) \cup r(2) \cup r(3)

is_ascii(v) == ~any_bits_set_anywhere(reduce(bit_or, v), splat(128))

is_ascii_lookup3(v) == is_ascii_bits(reduce_or(v))

must_be_continuation(prev1, prev2, prev3) ==
  gt_signed(bit_or(bit_or(saturating_sub(prev1, splat(191)),
                          saturating_sub(prev2, splat(223))),
                   saturating_sub(prev3, splat(239))), splat(0))

must_be_2_3_continuation(prev2, prev3) ==
  gt_signed(bit_or(saturating_sub(prev2, splat(223)),
                   saturating_sub(prev3, splat(239))), splat(0))

=============================================================================
