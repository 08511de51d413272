------------------------------- MODULE Haswell -------------------------------
(***************************************************************************)
(* The vectors of src/src/avx2/simd.h, registers of 32 bytes and two to a  *)
(* block, and the helpers of src/src/avx2/implementations.h.  Registers of *)
(* signed bytes hold the same bits.                                        *)
(***************************************************************************)
EXTENDS Intrinsics

SIZE == 32
NUM_CHUNKS == 2

load(values, at) == [k \in 0..31 |-> values[at + k]]

simd8x64(block) == [i \in 0..1 |-> load(block, 32 * i)]

splat(value) == [k \in 0..31 |-> value]

(* The 16 values twice, once for each half.                                *)
repeat_16(values) == [k \in 0..31 |-> values[(k % 16) + 1]]

bit_or(this, other) == or_si(this, other)
bit_and(this, other) == and_si(this, other)
bit_xor(this, other) == xor_si(this, other)

eq(this, other) == cmpeq_epi8(this, other)

(* Mutant: each half takes the bytes before it from the same half.         *)
prev_halves(n, this, prev_chunk) == alignr_epi8(this, prev_chunk, 16 - n)

(* The bytes before each half: the high half of the register before, and   *)
(* the low half of this one.                                               *)
prev(n, this, prev_chunk) ==
  alignr_epi8(this, permute2x128_0x21(prev_chunk, this), 16 - n)

plus(this, other) == add_epi8(this, other)
minus(this, other) == sub_epi8(this, other)

lookup_16(this, table) == shuffle_epi8(repeat_16(table), this)

(* simd8<int8_t>.                                                          *)
max_signed(this, other) == max_epi8(this, other)
gt_signed(this, other) == cmpgt_epi8(this, other)
lt_signed(this, other) == cmpgt_epi8(other, this)

saturating_add(this, other) == adds_epu8(this, other)
saturating_sub(this, other) == subs_epu8(this, other)

gt_bits(this, other) == saturating_sub(this, other)

(* Mutant: as gt_bits.                                                     *)
lt_bits_greater(this, other) == saturating_sub(this, other)

lt_bits(this, other) == saturating_sub(other, this)
le(this, other) == eq(max_epu8(other, this), other)
ge(this, other) == eq(min_epu8(this, other), other)

bits_not_set(this) == eq(this, splat(0))
any_bits_set(this) == bit_xor(bits_not_set(this), splat(255))

gt(this, other) == any_bits_set(gt_bits(this, other))
lt(this, other) == any_bits_set(lt_bits(this, other))

any_bits_set_anywhere(this, bits) == ~testz_si(this, bits)

is_ascii_bits(this) == movemask_epi8(this) = {}

shr(n, this) == bit_and(srli_epi16(this, n), splat(255 \div 2^n))

get_bit(n, this) == movemask_epi8(slli_epi16(this, 7 - n))

reduce(f(_, _), v) == f(v[0], v[1])

(* Mutant: one register is looked at twice.                                *)
reduce_or_first(v) == bit_or(v[0], v[0])

reduce_or(v) == bit_or(v[0], v[1])

(* Mutant: the low half is not made unsigned before it is widened.         *)
to_bitmask_signed(v) ==
  sign_extended(movemask_epi8(v[0]))
    \cup shifted(sign_extended(movemask_epi8(v[1])), 32)

(* The low half is cast to uint32_t; the sign of the other is shifted out. *)
to_bitmask(v) ==
  movemask_epi8(v[0]) \cup shifted(sign_extended(movemask_epi8(v[1])), 32)

is_ascii(v) == ~any_bits_set_anywhere(reduce(bit_or, v), splat(128))

is_ascii_lookup4(v) == is_ascii_bits(reduce_or(v))

must_be_continuation(prev1, prev2, prev3) ==
  gt_signed(bit_or(bit_or(saturating_sub(prev1, splat(191)),
                          saturating_sub(prev2, splat(223))),
                   saturating_sub(prev3, splat(239))), splat(0))

must_be_2_3_continuation(prev2, prev3) ==
  gt_signed(bit_or(saturating_sub(prev2, splat(223)),
                   saturating_sub(prev3, splat(239))), splat(0))

=============================================================================
