------------------------------ MODULE Vector64 ------------------------------
(***************************************************************************)
(* What the algorithms take a simd8x64<uint8_t> for: a block of 64 bytes,  *)
(* whichever registers it is cut into.  Each operation acts on every byte  *)
(* as module Simd says, and prev sees the block before.                    *)
(***************************************************************************)
EXTENDS Integers

CONSTANTS
  Operations,  \* the operations that may be called, each with an operand
  Tables       \* the tables of lookup_16, by their operands

VARIABLES
  target,  \* "westmere", "haswell" or "arm64"
  op,      \* the last operation
  block,   \* the bytes
  before   \* the bytes of the block before

vars == <<target, op, block, before>>

Places == 0..63

S(arch) == INSTANCE Simd WITH W <- 64, NUM_CHUNKS <- 1, Arch <- arch

arch == IF target = "arm64" THEN "arm64" ELSE "x86"

mask(condition) == IF condition THEN 255 ELSE 0

prev(n) == S(arch)!prev(n, block, before)

greater(a, b) == S(arch)!int8(a) > S(arch)!int8(b)

follows(prev1, prev2, prev3) ==
  S(arch)!must_be_continuation(prev1, prev2, prev3)

follows_2_3(prev2, prev3) == S(arch)!must_be_2_3_continuation(prev2, prev3)

(* One byte of the result of an operation that looks at no other byte.     *)
byte(o, a) ==
  CASE o.name = "shr"            -> S(arch)!high_nibble(a)
    [] o.name = "&"              -> S(arch)!low_nibble(a)
    [] o.name = "saturating_sub" -> S(arch)!saturating_sub(a, o.with)
    [] o.name = "saturating_add" -> S(arch)!saturating_add(a, o.with)
    [] o.name = "+"              -> (a + o.with) % 256
    [] o.name = "-"              -> (a - o.with) % 256
    [] o.name = "=="             -> mask(a = o.with)
    [] o.name = ">"              -> mask(greater(a, o.with))
    [] o.name = "<"              -> mask(greater(o.with, a))
    [] o.name = "lookup_16"      -> S(arch)!lookup_16(Tables[o.with], a)

result(o) ==
  CASE o.name = "prev" -> prev(o.with)
    [] o.name = "max"  ->
         [k \in Places |->
            IF greater(block[k], prev(1)[k]) THEN block[k] ELSE prev(1)[k]]
    [] o.name = "must_be_continuation" ->
         [k \in Places |-> mask(follows(prev(1)[k], prev(2)[k], prev(3)[k]))]
    [] o.name = "must_be_2_3_continuation" ->
         [k \in Places |-> mask(follows_2_3(prev(2)[k], prev(3)[k]))]
    [] OTHER -> [k \in Places |-> byte(o, block[k])]

Apply(o) ==
  /\ op' = o
  /\ block' = result(o)
  /\ UNCHANGED <<target, before>>

Init ==
  /\ target \in {"westmere", "haswell", "arm64"}
  /\ op = [name |-> "load", with |-> 0]
  /\ block \in [Places -> 0..255]
  /\ before \in [Places -> 0..255]

Next == \E o \in Operations : Apply(o)

Spec == Init /\ [][Next]_vars

=============================================================================
