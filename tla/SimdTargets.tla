----------------------------- MODULE SimdTargets -----------------------------
(***************************************************************************)
(* simd8x64<uint8_t> as each target builds it from its registers: the      *)
(* headers simd.h and implementations.h of westmere (SSE), haswell (AVX2)  *)
(* and arm64 (NEON).  A behaviour loads two consecutive blocks and applies *)
(* operations to the registers of the second, one after the other, as the  *)
(* checkers of src/src/generic do.                                         *)
(***************************************************************************)
EXTENDS Integers, Sequences

CONSTANTS
  Targets,     \* the targets the code is compiled for
  Operations,  \* the operations, each with its operand
  Tables,      \* the tables of lookup_16, by their operands
  Blocks,      \* pairs of consecutive blocks of 64 bytes
  MaxOps       \* bound: operations applied to one block

ASSUME TargetsAssumption == Targets \subseteq {"westmere", "haswell", "arm64"}
ASSUME OperationsAssumption ==
  Operations \subseteq
    [name : {"prev"}, with : 1..3]
      \cup [name : {"shr"}, with : {4}]
      \cup [name : {"&"}, with : {15}]
      \cup [name : {"saturating_sub", "saturating_add", "+", "-", "==", ">", "<"},
            with : 0..255]
      \cup [name : {"lookup_16"}, with : DOMAIN Tables]
      \cup [name : {"max", "must_be_continuation", "must_be_2_3_continuation"},
            with : {0}]
ASSUME TablesAssumption == \A i \in DOMAIN Tables : Tables[i] \in [1..16 -> 0..255]
ASSUME BlocksAssumption ==
  \A pair \in Blocks : /\ pair[1] \in [0..63 -> 0..255]
                       /\ pair[2] \in [0..63 -> 0..255]
ASSUME MaxOpsAssumption == MaxOps \in Nat

VARIABLES
  target,   \* the target
  op,       \* the last operation
  ops,      \* how many there have been
  chunks,   \* the registers of the block
  before    \* the registers of the block before

vectors == <<target, op, ops, chunks, before>>

S == INSTANCE Westmere
H == INSTANCE Haswell
N == INSTANCE Arm64

SIZE == CASE target = "westmere" -> S!SIZE
          [] target = "haswell"  -> H!SIZE
          [] target = "arm64"    -> N!SIZE

NUM_CHUNKS == CASE target = "westmere" -> S!NUM_CHUNKS
                [] target = "haswell"  -> H!NUM_CHUNKS
                [] target = "arm64"    -> N!NUM_CHUNKS

load(t, block) == CASE t = "westmere" -> S!simd8x64(block)
                    [] t = "haswell"  -> H!simd8x64(block)
                    [] t = "arm64"    -> N!simd8x64(block)

(***************************************************************************)
(* The result of an operation on one register, left being the register     *)
(* before it.  One operator to a target, the same calls in each.           *)
(***************************************************************************)
westmere(o, this, left) ==
  LET prev(n)  == S!prev(n, this, left)
      operand  == S!splat(o.with)
  IN  CASE o.name = "prev"           -> prev(o.with)
        [] o.name = "shr"            -> S!shr(o.with, this)
        [] o.name = "&"              -> S!bit_and(this, operand)
        [] o.name = "saturating_sub" -> S!saturating_sub(this, operand)
        [] o.name = "saturating_add" -> S!saturating_add(this, operand)
        [] o.name = "+"              -> S!plus(this, operand)
        [] o.name = "-"              -> S!minus(this, operand)
        [] o.name = "=="             -> S!eq(this, operand)
        [] o.name = ">"              -> S!gt_signed(this, operand)
        [] o.name = "<"              -> S!lt_signed(this, operand)
        [] o.name = "lookup_16"      -> S!lookup_16(this, Tables[o.with])
        [] o.name = "max"            -> S!max_signed(this, prev(1))
        [] o.name = "must_be_continuation" ->
             S!must_be_continuation(prev(1), prev(2), prev(3))
        [] o.name = "must_be_2_3_continuation" ->
             S!must_be_2_3_continuation(prev(2), prev(3))

haswell(o, this, left) ==
  LET prev(n)  == H!prev(n, this, left)
      operand  == H!splat(o.with)
  IN  CASE o.name = "prev"           -> prev(o.with)
        [] o.name = "shr"            -> H!shr(o.with, this)
        [] o.name = "&"              -> H!bit_and(this, operand)
        [] o.name = "saturating_sub" -> H!saturating_sub(this, operand)
        [] o.name = "saturating_add" -> H!saturating_add(this, operand)
        [] o.name = "+"              -> H!plus(this, operand)
        [] o.name = "-"              -> H!minus(this, operand)
        [] o.name = "=="             -> H!eq(this, operand)
        [] o.name = ">"              -> H!gt_signed(this, operand)
        [] o.name = "<"              -> H!lt_signed(this, operand)
        [] o.name = "lookup_16"      -> H!lookup_16(this, Tables[o.with])
        [] o.name = "max"            -> H!max_signed(this, prev(1))
        [] o.name = "must_be_continuation" ->
             H!must_be_continuation(prev(1), prev(2), prev(3))
        [] o.name = "must_be_2_3_continuation" ->
             H!must_be_2_3_continuation(prev(2), prev(3))

arm64(o, this, left) ==
  LET prev(n)  == N!prev(n, this, left)
      operand  == N!splat(o.with)
  IN  CASE o.name = "prev"           -> prev(o.with)
        [] o.name = "shr"            -> N!shr(o.with, this)
        [] o.name = "&"              -> N!bit_and(this, operand)
        [] o.name = "saturating_sub" -> N!saturating_sub(this, operand)
        [] o.name = "saturating_add" -> N!saturating_add(this, operand)
        [] o.name = "+"              -> N!plus(this, operand)
        [] o.name = "-"              -> N!minus(this, operand)
        [] o.name = "=="             -> N!eq(this, operand)
        [] o.name = ">"              -> N!gt_signed(this, operand)
        [] o.name = "<"              -> N!lt_signed(this, operand)
        [] o.name = "lookup_16"      -> N!lookup_16(this, Tables[o.with])
        [] o.name = "max"            -> N!max_signed(this, prev(1))
        [] o.name = "must_be_continuation" ->
             N!must_be_continuation(prev(1), prev(2), prev(3))
        [] o.name = "must_be_2_3_continuation" ->
             N!must_be_2_3_continuation(prev(2), prev(3))

apply(o, this, left) == CASE target = "westmere" -> westmere(o, this, left)
                          [] target = "haswell"  -> haswell(o, this, left)
                          [] target = "arm64"    -> arm64(o, this, left)
-----------------------------------------------------------------------------
VectorsInit ==
  /\ target \in Targets
  /\ \E pair \in Blocks : /\ before = load(target, pair[1])
                          /\ chunks = load(target, pair[2])
  /\ op = [name |-> "load", with |-> 0]
  /\ ops = 0

(* o applied to the registers one by one, the first behind the last one of *)
(* the block before.                                                       *)
Apply(o) ==
  /\ ops < MaxOps
  /\ ops' = ops + 1
  /\ op' = o
  /\ chunks' = [i \in 0..(NUM_CHUNKS - 1) |->
                  apply(o, chunks[i], IF i = 0 THEN before[NUM_CHUNKS - 1]
                                               ELSE chunks[i - 1])]
  /\ UNCHANGED <<target, before>>

VectorsNext == \E o \in Operations : Apply(o)

VectorsSpec == VectorsInit /\ [][VectorsNext]_vectors
-----------------------------------------------------------------------------
(* The registers keep their number and their width.                        *)
VectorsTypeOK ==
  /\ target \in Targets
  /\ ops \in 0..MaxOps
  /\ chunks \in [0..(NUM_CHUNKS - 1) -> [0..(SIZE - 1) -> 0..255]]
  /\ before \in [0..(NUM_CHUNKS - 1) -> [0..(SIZE - 1) -> 0..255]]

(* The bytes of registers, in the order they have in memory.               *)
bytes(registers) ==
  [k \in 0..63 |-> registers[k \div SIZE][k % SIZE]]

V == INSTANCE Vector64 WITH block <- bytes(chunks), before <- bytes(before)

(***************************************************************************)
(* On each target the registers together act as one block of 64 bytes:     *)
(* operations that instructions do on halves of registers (the alignment,  *)
(* the shuffle) or on words (the shift) do not show where a register ends. *)
(***************************************************************************)
ImplementsVector64 == V!Spec

(***************************************************************************)
(* Every is_ascii of every implementations.h, by an or of all registers    *)
(* and a test, a mask or a maximum, answers for the 64 bytes.              *)
(***************************************************************************)
AsciiIsAscii ==
  LET ascii == \A k \in 0..63 : bytes(chunks)[k] < 128
  IN  CASE target = "westmere" -> /\ S!is_ascii(chunks) = ascii
                                  /\ S!is_ascii_lookup3(chunks) = ascii
        [] target = "haswell"  -> /\ H!is_ascii(chunks) = ascii
                                  /\ H!is_ascii_lookup4(chunks) = ascii
        [] target = "arm64"    -> N!is_ascii(chunks) = ascii

(***************************************************************************)
(* The scalar masks have the bit of each lane at its place: get_bit<4..7>, *)
(* which zwegner calls, though the shift moves words of two bytes; and     *)
(* to_bitmask of a comparison over the whole block, whatever the width and *)
(* the sign of the parts it is put together from.                          *)
(***************************************************************************)
MasksAreLanes ==
  LET lanes(a, n) == {k \in 0..(SIZE - 1) : (a[k] \div 2^n) % 2 = 1}
      high == {k \in 0..63 : bytes(chunks)[k] >= 128}
  IN  CASE target = "westmere" ->
             /\ \A n \in 4..7, i \in 0..3 : S!get_bit(n, chunks[i]) = lanes(chunks[i], n)
             /\ S!to_bitmask([i \in 0..3 |-> S!ge(chunks[i], S!splat(128))]) = high
        [] target = "haswell"  ->
             /\ \A n \in 4..7, i \in 0..1 : H!get_bit(n, chunks[i]) = lanes(chunks[i], n)
             /\ H!to_bitmask([i \in 0..1 |-> H!ge(chunks[i], H!splat(128))]) = high
        [] target = "arm64"    ->
             N!to_bitmask([i \in 0..3 |-> N!ge(chunks[i], N!splat(128))]) = high

(***************************************************************************)
(* gt_bits leaves something in just the lanes that are greater, and the    *)
(* comparisons of unsigned bytes, which x86 has no instructions for, are   *)
(* all ones or nothing.  (operator< of westmere is left out: as written it *)
(* is operator>, and nothing calls it.)                                    *)
(***************************************************************************)
ComparisonsAgree ==
  \A i \in 0..(NUM_CHUNKS - 1) :
    LET a == chunks[i]
        b == before[i]
        are(m, R(_, _)) == \A k \in 0..(SIZE - 1) :
                             m[k] = IF R(a[k], b[k]) THEN 255 ELSE 0
        nonzero(m) == \A k \in 0..(SIZE - 1) : m[k] # 0 <=> a[k] > b[k]
        Lt(x, y) == x < y
        Gt(x, y) == x > y
        Le(x, y) == x <= y
        Ge(x, y) == x >= y
    IN  CASE target = "westmere" ->
               /\ nonzero(S!gt_bits(a, b)) /\ are(S!gt(a, b), Gt)
               /\ are(S!le(a, b), Le) /\ are(S!ge(a, b), Ge)
          [] target = "haswell"  ->
               /\ nonzero(H!gt_bits(a, b)) /\ are(H!gt(a, b), Gt)
               /\ are(H!le(a, b), Le) /\ are(H!ge(a, b), Ge)
               /\ are(H!lt(a, b), Lt)
          [] target = "arm64"    ->
               /\ nonzero(N!gt_bits(a, b)) /\ are(N!gt(a, b), Gt)
               /\ are(N!le(a, b), Le) /\ are(N!ge(a, b), Ge)
               /\ are(N!lt(a, b), Lt)
=============================================================================
