----------------------------- MODULE Intrinsics -----------------------------
(***************************************************************************)
(* The instructions that sse/simd.h, avx2/simd.h and neon/simd.h are       *)
(* written with, as the manuals of the processors define them; they are no *)
(* part of the repository.  A register is a function from its bytes, 16 or *)
(* 32 from 0 on, to 0..255.  Many instructions of AVX2 work on the two     *)
(* halves of 16 bytes of a register apart, and the shifts of x86 on words  *)
(* of two bytes.                                                           *)
(***************************************************************************)
EXTENDS Integers, FiniteSetsExt

Bit == [byte \in 0..255 |-> {i \in 0..7 : (byte \div 2^i) % 2 = 1}]

ByteOf ==
  [bits \in SUBSET (0..7) |->
     LET weight(i) == IF i \in bits THEN 2^i ELSE 0
     IN  weight(0) + weight(1) + weight(2) + weight(3)
           + weight(4) + weight(5) + weight(6) + weight(7)]

Lanewise(f(_, _), a, b) == [k \in DOMAIN a |-> f(a[k], b[k])]

mask(condition) == IF condition THEN 255 ELSE 0

signed(byte) == IF byte < 128 THEN byte ELSE byte - 256

set1(a, byte) == [k \in DOMAIN a |-> byte]

and_si(a, b) == Lanewise(LAMBDA x, y : ByteOf[Bit[x] \cap Bit[y]], a, b)
or_si(a, b) == Lanewise(LAMBDA x, y : ByteOf[Bit[x] \cup Bit[y]], a, b)
xor_si(a, b) ==
  Lanewise(LAMBDA x, y : ByteOf[(Bit[x] \ Bit[y]) \cup (Bit[y] \ Bit[x])], a, b)

adds_epu8(a, b) == Lanewise(LAMBDA x, y : IF x + y > 255 THEN 255 ELSE x + y, a, b)
subs_epu8(a, b) == Lanewise(LAMBDA x, y : IF x > y THEN x - y ELSE 0, a, b)
add_epi8(a, b) == Lanewise(LAMBDA x, y : (x + y) % 256, a, b)
sub_epi8(a, b) == Lanewise(LAMBDA x, y : (x - y) % 256, a, b)
max_epu8(a, b) == Lanewise(LAMBDA x, y : IF x > y THEN x ELSE y, a, b)
min_epu8(a, b) == Lanewise(LAMBDA x, y : IF x < y THEN x ELSE y, a, b)
max_epi8(a, b) == Lanewise(LAMBDA x, y : IF signed(x) > signed(y) THEN x ELSE y, a, b)
cmpeq_epi8(a, b) == Lanewise(LAMBDA x, y : mask(x = y), a, b)
cmpgt_epi8(a, b) == Lanewise(LAMBDA x, y : mask(signed(x) > signed(y)), a, b)
-----------------------------------------------------------------------------
(* x86.                                                                    *)

half(k) == k \div 16

(* In each half, bytes n..n+15 of the 32 bytes that b and then a make.     *)
alignr_epi8(a, b, n) ==
  [k \in DOMAIN a |-> IF (k % 16) + n < 16 THEN b[k + n] ELSE a[k + n - 16]]

(* _mm256_permute2x128_si256(a, b, 0x21): the high half of a, the low of b.*)
permute2x128_0x21(a, b) == [k \in 0..31 |-> IF k < 16 THEN a[k + 16] ELSE b[k - 16]]

shuffle_epi8(table, index) ==
  [k \in DOMAIN index |->
     IF index[k] < 128 THEN table[(16 * half(k)) + (index[k] % 16)] ELSE 0]

word(a, k) == LET low == k - (k % 2) IN a[low] + 256 * a[low + 1]

byte_of_word(w, k) == IF k % 2 = 0 THEN w % 256 ELSE (w \div 256) % 256

srli_epi16(a, n) == [k \in DOMAIN a |-> byte_of_word(word(a, k) \div 2^n, k)]
slli_epi16(a, n) == [k \in DOMAIN a |-> byte_of_word(word(a, k) * 2^n, k)]

(* An int, as the set of its bits; bit 31 is its sign.                     *)
movemask_epi8(a) == {k \in DOMAIN a : a[k] >= 128}

testz_si(a, b) == \A k \in DOMAIN a : Bit[a[k]] \cap Bit[b[k]] = {}

(* An int assigned to a uint64_t; a uint64_t shifted left.                 *)
sign_extended(int) == int \cup (IF 31 \in int THEN 32..63 ELSE {})
shifted(m, n) == {i + n : i \in m} \cap (0..63)
-----------------------------------------------------------------------------
(* NEON.                                                                   *)

(* Bytes n..n+15 of the 32 bytes that a and then b make.                   *)
vextq(a, b, n) == [k \in 0..15 |-> IF k + n < 16 THEN a[k + n] ELSE b[k + n - 16]]

vqtbl1q(table, index) ==
  [k \in 0..15 |-> IF index[k] < 16 THEN table[index[k]] ELSE 0]

vshrq_n(a, n) == [k \in 0..15 |-> a[k] \div 2^n]

vmaxvq(a) == Max({a[k] : k \in 0..15})

(* Neighbours added, those of a in the low half and those of b in the high.*)
vpaddq(a, b) ==
  [k \in 0..15 |-> LET from == IF k < 8 THEN a ELSE b
                       at   == 2 * (k % 8)
                   IN  (from[at] + from[at + 1]) % 256]

vcgeq(a, b) == Lanewise(LAMBDA x, y : mask(x >= y), a, b)
vcgtq(a, b) == Lanewise(LAMBDA x, y : mask(x > y), a, b)

(* The low n bytes as one number, as the set of its bits.                  *)
lane_bits(a, n) == UNION {{8 * k + i : i \in Bit[a[k]]} : k \in 0..(n - 1)}

=============================================================================
