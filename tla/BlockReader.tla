---------------------------- MODULE BlockReader ----------------------------
(***************************************************************************)
(* buf_block_reader<STEP_SIZE> (src/src/block_buf_reader.h): the cursor    *)
(* that cuts the caller's buffer into blocks of STEP_SIZE bytes and copies *)
(* what is left into a block padded with spaces.                           *)
(*                                                                         *)
(* The buffer never changes during a call.  Offsets count from 0, as in    *)
(* the code, and live in a size_t: STEP_SIZE and SIZE_MAX are parameters,  *)
(* 64 and 2^64 - 1 in the program.                                         *)
(***************************************************************************)
EXTENDS Utf8

CONSTANTS
  STEP_SIZE,  \* bytes in a block
  SIZE_MAX,   \* the largest size_t
  Inputs      \* the buffers a caller may pass

ASSUME StepSizeAssumption == STEP_SIZE \in Nat \ {0}
ASSUME SizeMaxAssumption == SIZE_MAX \in Nat /\ STEP_SIZE <= SIZE_MAX
ASSUME InputsAssumption ==
  \A s \in Inputs : s \in Seq(Byte) /\ Len(s) <= SIZE_MAX

VARIABLES
  input,      \* the buffer
  idx         \* offset of the next block

size_t(n) == n % (SIZE_MAX + 1)

Offsets == 0..(STEP_SIZE - 1)

SPACE == 32

len == Len(input)

lenminusstep == IF len < STEP_SIZE THEN 0 ELSE len - STEP_SIZE

(* Mutant: the sum in place of the difference, and it wraps.               *)
has_full_block_by_sum == size_t(idx + STEP_SIZE) < len

has_full_block == idx < lenminusstep

(* Mutant: a buffer of whole blocks leaves no remainder.                   *)
has_remainder_partial == len % STEP_SIZE # 0

has_remainder == idx < len

full_block == [k \in Offsets |-> input[idx + k + 1]]

(* memset the whole block to 0x20, then memcpy the len - idx bytes left.   *)
get_remainder == [k \in Offsets |-> IF k < len - idx THEN input[idx + k + 1]
                                                     ELSE SPACE]

advance == idx' = size_t(idx + STEP_SIZE)

=============================================================================
