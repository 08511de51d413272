---------------------------- MODULE LookupChecker ----------------------------
(***************************************************************************)
(* The lookup validators: validate<utf8_checker> with the checker that     *)
(* src/src/generic/utf8_lookup{2,3,4}_algorithm.h define, each in its own  *)
(* namespace.  The three differ in the error byte of a lane (lane_errors)  *)
(* and in nothing else.                                                    *)
(*                                                                         *)
(* A block of pure ASCII takes a fast path that only looks at              *)
(* prev_incomplete and leaves prev_input_block and prev_incomplete as they *)
(* were: from then on they describe an older block than the last one.      *)
(***************************************************************************)
EXTENDS Validate, Simd

CONSTANT Algorithms   \* the namespaces whose validate may be called

ASSUME BlockAssumption == STEP_SIZE = NUM_CHUNKS * W
ASSUME AlgorithmsAssumption == Algorithms \subseteq {"lookup2", "lookup3", "lookup4"}

VARIABLES
  algorithm,         \* the namespace whose validate was called
  error,             \* the lanes whose error byte is nonzero
  prev_input_block,  \* the last vector of the last block with a byte >= 0x80
  prev_incomplete    \* the lanes of it that open an unfinished character

utf8_checker == <<algorithm, error, prev_input_block, prev_incomplete>>

vars == <<reader, utf8_checker>>

L2 == INSTANCE Lookup2
L3 == INSTANCE Lookup3
L4 == INSTANCE Lookup4

lane_errors(prev3, prev2, prev1, byte) ==
  CASE algorithm = "lookup2" -> L2!lane_errors(prev3, prev2, prev1, byte)
    [] algorithm = "lookup3" -> L3!lane_errors(prev3, prev2, prev1, byte)
    [] OTHER                 -> L4!lane_errors(prev3, prev2, prev1, byte)

(* The lanes of one vector that check_utf8_bytes adds to error.            *)
check_utf8_bytes(chunk, prev_chunk) ==
  LET prev1 == prev(1, chunk, prev_chunk)
      prev2 == prev(2, chunk, prev_chunk)
      prev3 == prev(3, chunk, prev_chunk)
  IN  {k \in Lanes : lane_errors(prev3[k], prev2[k], prev1[k], chunk[k]) # {}}

(* Mutant: the thresholds one lane early.                                  *)
max_array_early == [k \in Lanes |-> CASE k = W - 3 -> 223
                                      [] k = W - 2 -> 191
                                      [] k = W - 1 -> 191
                                      [] OTHER     -> 255]

max_array == [k \in Lanes |-> CASE k = W - 3 -> 239
                                [] k = W - 2 -> 223
                                [] k = W - 1 -> 191
                                [] OTHER     -> 255]

is_incomplete(chunk) == gt_bits(chunk, max_array)
-----------------------------------------------------------------------------
(* Methods of utf8_checker.                                                *)

(* Mutant: the whole block saved as if it were a vector.                   *)
last_chunk_block(block) == block

(* Mutant: the first vector saved in place of the last.                    *)
last_chunk_first(block) == chunks(block)[0]

last_chunk(block) == chunks(block)[NUM_CHUNKS - 1]

(* The lanes that check_utf8_bytes adds over the vectors of one block.     *)
check_chunks(block) ==
  UNION {check_utf8_bytes(chunks(block)[i],
                          IF i = 0 THEN prev_input_block
                                   ELSE chunks(block)[i - 1])
           : i \in 0..(NUM_CHUNKS - 1)}

(* Mutant: an ASCII block hides what was incomplete.                       *)
check_ascii_block_hides(block) ==
  /\ is_ascii(block)
  /\ UNCHANGED utf8_checker

check_ascii_block(block) ==
  /\ is_ascii(block)
  /\ error' = error \cup prev_incomplete
  /\ UNCHANGED <<algorithm, prev_input_block, prev_incomplete>>

check_nonascii_block(block) ==
  /\ ~is_ascii(block)
  /\ error' = error \cup check_chunks(block)
  /\ prev_incomplete' = is_incomplete(last_chunk(block))
  /\ prev_input_block' = last_chunk(block)
  /\ UNCHANGED algorithm

check_next_input(block) ==
  check_ascii_block(block) \/ check_nonascii_block(block)

check_eof ==
  /\ error' = error \cup prev_incomplete
  /\ UNCHANGED <<algorithm, prev_input_block, prev_incomplete>>

errors(lanes) == IF lanes # {} THEN "UTF8_ERROR" ELSE "SUCCESS"
-----------------------------------------------------------------------------
(* validate<utf8_checker>(input, len).                                     *)
Init ==
  /\ ValidateInit
  /\ algorithm \in Algorithms
  /\ error = {}
  /\ prev_input_block = [k \in Lanes |-> 0]
  /\ prev_incomplete = {}

CheckFullBlock == FullBlock /\ check_next_input(full_block)

CheckRemainder == Remainder /\ check_next_input(get_remainder)

SkipRemainder == NoRemainder /\ UNCHANGED utf8_checker

CheckEof == check_eof /\ Return(errors(error'))

Next == CheckFullBlock \/ CheckRemainder \/ SkipRemainder \/ CheckEof

Spec == Init /\ [][Next]_vars /\ WF_vars(Next)
-----------------------------------------------------------------------------
(* Each variable has its type: the fields of the checker are vectors of W  *)
(* lanes whatever blocks it was fed.                                       *)
TypeOK ==
  /\ ValidateTypeOK
  /\ algorithm \in Algorithms
  /\ error \subseteq Lanes
  /\ prev_input_block \in [Lanes -> Byte]
  /\ prev_incomplete \subseteq Lanes

(* SUCCESS is returned for the well-formed inputs and for no other.        *)
VerdictCorrect ==
  pc = "returned" => (result = "SUCCESS" <=> WellFormed(input))

(***************************************************************************)
(* Between two blocks the error vector is neither late nor hasty: it is    *)
(* nonzero exactly when no continuation could make the bytes consumed so   *)
(* far well formed.  A character cut by a block boundary is not condemned, *)
(* whichever of its bytes lie on either side.                              *)
(***************************************************************************)
ErrorIsExact ==
  pc = "loop" => (error = {} <=> WellFormedSoFar(SubSeq(input, 1, idx)))

(* The n-th byte before the cursor, 0 before the start of the input.       *)
consumed(n) == IF n <= idx THEN input[idx - n + 1] ELSE 0

(* Three bytes, the last one first, that leave a character unfinished.     *)
OpensCharacter(last, last2, last3) ==
  last >= 192 \/ last2 >= 224 \/ last3 >= 240

(***************************************************************************)
(* The boundary state survives blocks that do not refresh it.  While no    *)
(* error is recorded, prev_incomplete tells whether the bytes just         *)
(* consumed leave a character unfinished, and prev_input_block ends either *)
(* with these bytes or, when it is older than them, with bytes that demand *)
(* nothing of the next block, as these bytes do not either.                *)
(***************************************************************************)
ContextIsCurrent ==
  pc = "loop" /\ error = {} =>
    LET open == OpensCharacter(consumed(1), consumed(2), consumed(3))
    IN  /\ prev_incomplete # {} <=> open
        /\ \/ \A n \in 1..3 : prev_input_block[W - n] = consumed(n)
           \/ /\ ~open
              /\ ~OpensCharacter(prev_input_block[W - 1],
                                 prev_input_block[W - 2],
                                 prev_input_block[W - 3])

(***************************************************************************)
(* The comment of must_be_continuation in neon/implementations.h: where    *)
(* two overlapping characters make the ^ of the lead masks cancel, the     *)
(* error is detected at another lane.  So on the block about to be read    *)
(* the checker finds an error whenever a lane has two leads that demand it *)
(* to be a continuation.                                                   *)
(***************************************************************************)
OverlappingLeads(block, p) ==
  LET leads(n) == (IF p >= n THEN block[p - n] ELSE prev_input_block[W + p - n])
                    >= << 192, 224, 240 >>[n]
  IN  \E m, n \in 1..3 : m < n /\ leads(m) /\ leads(n)

OverlapCaughtElsewhere ==
  pc = "loop" /\ has_remainder /\ error = {} =>
    LET block == IF has_full_block THEN full_block ELSE get_remainder
    IN  (\E p \in Offsets : OverlappingLeads(block, p)) => check_chunks(block) # {}

(* The same verdict against the textbook definition of the language, a     *)
(* concatenation of legal characters.                                      *)
VerdictDecodes ==
  pc = "returned" => (result = "SUCCESS" <=> Decodes(input))

Abs == INSTANCE Utf8Validation WITH input <- input, result <- result

(* validate() is a single atomic, terminating decision of the language.    *)
ImplementsValidation == Abs!Spec
=============================================================================
