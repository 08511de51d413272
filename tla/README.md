# Verification of the UTF-8 validators of validateutf8-experiments

The repository holds a family of UTF-8 validators and the program that compares
them. This directory models them in TLA+, checks the models with TLC, and proves
the invariants of every validator with TLAPS, for every input and every vector width.

Everything runs on one thread, nothing is persisted, and no message is lost: what
is hard here is *state carried across boundaries* (vectors, blocks, the end of the
input, the split points of the automata), *fast paths that skip the refresh of that
state*, *tables of bit flags*, *saturating and wrapping arithmetic on bytes*, and
*targets whose vector instructions differ*. An error in any of these shows only on
inputs where a particular byte falls on a particular offset.

## The system

| component | state | operations | correct when |
|---|---|---|---|
| block reader, `src/block_buf_reader.h` | `buf`, `len`, `lenminusstep`, `idx` (a `size_t`) | `has_full_block`, `full_block`, `has_remainder`, `get_remainder`, `advance` | each byte is delivered once and in order, padding is all that follows, no access leaves a buffer |
| `validate<checker>`, `src/generic/validator.h` | program counter, the checker | the loop over blocks, the remainder, `check_eof`, `errors` | it returns, and its answer is the language membership of the whole input |
| SIMD layer, `src/{sse,avx2,neon}/simd.h` | registers of 16 or 32 bytes, `simd8x64` | `prev<n>`, `shr`, `get_bit`, `lookup_16`, saturating arithmetic, comparisons, `reduce`, `to_bitmask` | the registers of a block act as 64 bytes, on each target alike |
| glue, `src/{sse,avx2,neon}/implementations.h` | none | `is_ascii`, `must_be_continuation`, `must_be_2_3_continuation` | `^` on NEON and `|` on x86 lead to the same verdict |
| lookup2, lookup3, lookup4, `src/generic/utf8_lookup{2,3,4}_algorithm.h` | `error`, `prev_input_block`, `prev_incomplete` | `check_utf8_bytes`, `is_incomplete`, `check_next_input`, `check_eof`, `errors` | verdict; exact error vector between blocks; the saved vectors are never stale in a way that matters |
| zwegner, `utf8_zwegner_algorithm.h` (x86) | `error`, `last_cont` bits, `prev_bytes` | `check_length_errors`, `check_special_cases`, `check_next_input` | masks carried across vectors complete the length check |
| range, `utf8_range_algorithm.h` | `error`, `prev.first_len`, `prev.input_block` | `check_block`, `check_next_input` | range index of a byte from the lengths of the three bytes before it |
| basic, `utf8_fastvalidate_algorithm.h` | `error`, `previous` (bytes, nibbles, carried continuations) | `check_smaller_than_0xF4`, `carry_continuations`, `check_overlap`, ... | as range, with counters of continuations still due |
| Hoehrmann automata, `benchmarks/hoehrmann.h` | DFA state(s), pointers into the buffer | `updatestate`, `validate_dfa*`, and the two-, three- and four-way variants | the splits lie on character boundaries, the parts together cover the input |
| fushia, `benchmarks/fushia.h` | offset, code point | four scalar validators | each accepts the language |
| utf8cpp, `dependencies/.../utf8/core.h` | an iterator that is moved and moved back | `is_valid`, `find_invalid`, `validate_next`, `get_sequence_x` | the iterator it returns is at the first fault, if there is one |
| generator, `benchmarks/random_utf8.cpp` | random engine, the text so far | `generate` | it ends, with well-formed text of at least the size asked for |
| unit tests, `tests/unit.cpp` | the text, with all flips so far | `brute_force_tests`, `twobytetest`, `test` | validators agree after every flip |
| stream benchmark, `benchmarks/benchstream.cpp` | two lengths of one text | the search for the cut, pairs of measurements | the cut is where a character starts |
| `benchmarks/benchmark.cpp`, `scripts/lookup4.py`, `cmake/`, results | - | - | drivers, build or data |

Interaction: a caller passes buffer and length to `validate`; the template builds a
reader on it and a checker of the compiled namespace, and feeds each block to
`check_next_input`; the checker keeps the tail of the block for the next call, and
`check_eof` settles what the last block left. The benchmarks call the same entry points, the scalar validators and utf8cpp on generated or loaded text; the unit
tests compare answers.

What is hard to test, component by component, is listed under `hazards` in
`PROJECT.json`, at the line where it bites and with the properties that cover it.

## The modules

`Utf8` is the language: the table "legal utf-8 byte sequence" that heads every
algorithm, `WellFormed` (every byte lies in a legal character), `Decodes` (the
textbook concatenation of characters, which the runs compare with it) and
`WellFormedSoFar` (a prefix that is not hopeless). `Utf8Validation` is the abstract
specification: a call is *one* step that answers `Verdict(input)`, and it is
eventually taken.

| module | models | state | actions |
|---|---|---|---|
| `BlockReader` | `buf_block_reader` | `input`, `idx` with the width of `size_t` as `SIZE_MAX` | `has_full_block`, `get_remainder`, `advance`, ... as operators |
| `Validate` | the template | `pc` (`loop`, `eof`, `returned`), `result` | `FullBlock`, `Remainder`, `NoRemainder`, `Return` |
| `Delivery` | reader and template with a checker that records | `delivered` | one for each of these |
| `Simd` | vector operations byte by byte, for width `W`, `NUM_CHUNKS` vectors to a block and target `Arch` | - | operators |
| `Westmere`, `Haswell`, `Arm64` | the three `simd.h` and `implementations.h` register by register, on `Intrinsics`, the instructions (external) | - | operators |
| `SimdTargets` | `simd8x64` of each target, with the registers of two blocks | `target`, `chunks`, `before` | `Apply(o)`, one operation on all registers |
| `Vector64` | what `SimdTargets` implements: a block of 64 bytes, operations from `Simd` | `block`, `before` | `Apply(o)` |
| `Lookup2`, `Lookup3`, `Lookup4` | the tables and the length check of a lane | - | `lane_errors` |
| `LookupChecker` | `validate<utf8_checker>` of the three | `error`, `prev_input_block`, `prev_incomplete` | `CheckFullBlock`, `CheckRemainder`, `SkipRemainder`, `CheckEof` |
| `Range`, `Basic`, `Zwegner` | tables, carried state and block check of the other three | - | `check_next_input` as an operator |
| `CarriedChecker` | `validate<utf8_checker>` of these three | `algorithm`, `checker` (the fields of its `utf8_checker`) | the same four |
| `Hoehrmann` | the seven functions of `hoehrmann.h` | `pc`, `starts`, `seek`, `i`, `part`, `state` | `Backtrack`, `NoLeadingByte`, `Cut`, `Lockstep`, `LockstepEnds`, `Tail_`, `PartEnds` |
| `Fushia` | the four functions of `fushia.h` | `pos` | `SkipAscii`, `AsciiByte`, `Character`, `Malformed`, `Finish` |
| `Utf8Cpp` | `utf8::is_valid` | `it`, `original_it`, `length`, `cp`, `err` | `Lead`, `InvalidLead`, `Trail`, `GotSequence`, `CutShort`, `Accept`, `Refuse`, `Finish` |
| `RandomUtf8` | `generate` | `result`, `at`, `length`, `candidate` | `Switch`, `Redraw`, `PushHead`, `PushSecond`, `PushEos` |
| `Verdicts` | what the validators answer, as their modules establish it | - | operators |
| `Programs` | `unit.cpp` and `benchstream.cpp`, composed with the generator | `pc`, `flip`, `s2` | `AcceptGenerated`, `Flip`, `FlipsDone`, `FixedTests`; `Measure`, `StepBack`, `RunDiff` |

Proofs, each about the modules it EXTENDS: `Utf8Local` (the language), `ReaderAndVectors_proofs`
(`Delivery` and `SimdTargets`, the two layers under the checkers), `LookupChecker_proofs`,
`CarriedChecker_proofs`, `Hoehrmann_proofs`, `Fushia_proofs`, `Utf8Cpp_proofs` and
`Programs_proofs`. `SimdTargets` calls its specification `VectorsSpec`, its variables `vectors`
and so on, so that one module can extend it along with `Delivery`.

`Validate` EXTENDS `BlockReader`; each checker EXTENDS `Validate` and `Simd`, as the
template is instantiated in each namespace. `LookupChecker` takes the three lookup
algorithms by INSTANCE, because they share everything but the error byte; `CarriedChecker` takes
`Range`, `Basic` and `Zwegner` the same way, because they share an empty `check_eof`. A behaviour
is one call on one buffer; a block is one step, because nothing can observe a checker
in the middle of `check_next_input`.

Abstractions. An error byte is the set of its bits, an error vector the set of the
lanes whose byte is nonzero: the code or-s lanes and asks only whether any is set. A
scalar mask of zwegner is the set of its bits, with the addition of masks defined bit
by bit (its carries matter). Lanes are bytes, 0..255; signed comparisons go through
`int8`. A block is a function from offsets to bytes. Where the target matters it is a
constant: `|` against `^` in `must_be_continuation`, and `lookup_16`, which out of
range gives the cell of the low nibble or 0 on x86 (`pshufb`) and 0 on NEON
(`vqtbl1q`). The automata's encodings of a state (times 16, times 256) are kept.

Refinements, each checked as a PROPERTY:

- `LookupChecker` and `Utf8Cpp` implement `Utf8Validation`: the abstract `result` is
  theirs (for `Utf8Cpp`, `is_valid` as an expression of `pc` and `it`), everything else
  stutters, and the call returns. The safety half of both is a theorem.
- `SimdTargets` implements `Vector64`: the abstract block is the bytes of the registers
  in the order of memory. `Vector64` uses `Simd` with `W` = 64, the very module that the
  models of the algorithms use, so what they assume of a vector is what each target's
  registers do. The whole refinement is a theorem (there is no fairness in it).

`Programs` composes the other way round: a validator enters by what its module
establishes of it (`Verdicts`), not by its code.

Definitions whose comment starts with "Mutant" are no part of the model: each is a
plausible slip in the definition under it, and substituting it makes the run named in
`PROJECT.json` fail.

## The runs

The specifications state `WF_vars(Next)` where a liveness property is checked. The code
justifies it: a call runs on one thread, waits for nothing, and its next step is always
determined; the operating system keeps running a runnable thread. `Programs` adds
`WF_vars(Generating /\ Push)`: a draw that fits, which is enabled as long as a loop of draws
lasts, is taken in the end. That is what uniform distributions give; without it,
`Redraw` may go on for ever. `SimdTargets` has no liveness. Deadlock is not checked, because
a call that has returned, or a program that has ended, has no further step.

| run | question |
|---|---|
| `delivery` | Is each byte delivered once, in order, inside the buffers, for every length up to `SIZE_MAX` = 511, which the cursor reaches and wraps at? |
| `lookup_x86` | For lookup2, 3 and 4: is the error vector exact and the saved state current at each block boundary (2 vectors of 3 lanes), with fragments at each offset, adjacent or with a block of ASCII between? Do the tables agree with the language? |
| `lookup_neon` | The same on NEON at the real width (4 vectors of 16), fragments around the ends of vectors and blocks; and the comment of `must_be_continuation`: where leads overlap and cancel, does another lane report the error? A call implements `Utf8Validation`, its liveness included. |
| `carried` | range, basic and zwegner: error and carried state at each block boundary, though ASCII leaves the state as it was; does the carried state demand just what is due (`DemandIsDue`)? Can a pile of overlapping characters carry its way to acceptance? The tables; what the answer means. |
| `simd` | Do the registers of SSE, AVX2 and NEON act as the vectors that the models of the algorithms use? |
| `hoehrmann` | Are the automata where their parts say, for all seven functions on inputs too short to be cut and on inputs cut where the program cuts? Does every call return the right answer? |
| `fushia` | Windows of 0, 8, 16 and 32 among fragments, and the range checks. |
| `utf8cpp` | Is the iterator at the first fault? Do checks of the code point draw the line of the table? Does the call implement `Utf8Validation`? |
| `programs` | Is generated text well formed, does generation end? After which flips does the harness abort? Where does the search of benchstream stop? |
| `range_arm64`, `zwegner_eof`, `unit_abort` | Disagreements, below. |

Why the bounds are enough to be interesting. A lane depends on four consecutive bytes,
so vectors of 3 lanes have every kind of boundary, and blocks of 2 vectors distinguish
the last vector of a block from the others; inputs of up to 4 blocks let a saved vector
grow old. `PairInputs` has every byte followed by the ends of each range of a high
nibble, so it reaches each cell of each table and each threshold. `lookup_neon` has
64-byte blocks, so the thresholds in the last three lanes are where the code has them.
For zwegner a sum of four masks cannot carry further than two lanes, and all sequences
of 7 bytes of the four kinds beyond ASCII let it cross a vector of 4 lanes. For the
automata, 32 and 35 bytes put the cut points and characters across them in every
relation, and another fragment makes any part the shortest. For the registers, blocks of
bytes that all differ show any byte out of place, and a text of period 11, shifted, puts
every byte of its characters at the end of a register and of a half. `FewDraws` has, for each
loop of draws, values it refuses, values it keeps, and the ends of both; `MaxFlips` = 2 (10000
in the code) lets a flip undo another or join it; `Sizes` up to 3 give texts with and
without a byte that stops the search.

## What the validators without `check_eof` promise

`range`, `basic` and `zwegner` have an empty `check_eof`. `VerdictUpToCut` says exactly
what their answer means: membership in the language when the last block has padding,
and "not hopeless so far" when the length is a multiple of 64. `validate_dfa_utf8` has no
check behind its loop either (`DfaAcceptsPrefixes`); its siblings feed a zero byte.

## Disagreements found

- `range` on NEON: the correction of the range index after F0 and F4 relies on what
  `pshufb` does out of range; `vqtbl1q` gives 0, and F0 80 80 80 is accepted
  (`range_arm64`). The comment in `neon/simd.h:146` excludes such an index.
- `range`, `basic`, `zwegner` accept a character cut by the end of an input whose length
  is a multiple of 64 (`zwegner_eof` shows it for the third, against its own comment;
  `VerdictUpToCut` says it of all three).
- `fushia` accepts F0 8F BF BF: the range check starts at 0xffff. The unit test aborts on
  any disagreement with lookup3, so it fails once its flips produce that sequence in an
  otherwise well-formed text: one flip of F0 9F BF BF (`unit_abort`). `AbortsOnlyOnOverlong`
  says that nothing else makes it abort.
- Read only, no run: the comment in `utf8_range_algorithm.h:117` gives F4 an index of
  4 + 4 = 8, the code gives 3 + 4 = 7, which is right; the comment in
  `utf8_zwegner_algorithm.h:246-250` numbers the error bits differently from the
  constants in lines 199-204; `hoehrmann.h:601` starts the search for the last of four
  parts at `len / 2`, as for the third, and `:644` ends the first part's tail loop
  `smallest_run` early. The two cancel: the third part is empty, so `smallest_run` is 0.
  Repairing the first alone makes the function skip bytes (a mutant of `hoehrmann`).
  `sse/simd.h:220`: `operator<` of unsigned bytes calls `gt_bits`, so it computes `>`; the AVX2
  header calls `lt_bits`. Nothing calls it, and `ComparisonsAgree` leaves it out.
  `benchstream.cpp:127` compares with 64 where -64 would find the nearest boundary: the
  cut is sound (`CutAtBoundary`) but may lie much further back, and a text without a byte
  from 0x40 to 0x7F before the cut would be searched beyond its start (`pc = "overrun"`).

## What is proved

Each theorem holds for every value of the constants that the named ASSUMEs of the modules
allow: any block of `STEP_SIZE` = `NUM_CHUNKS` times `W` bytes with `W` at least 3 (the
algorithms look three lanes back), any `SIZE_MAX` that holds a block, any set of inputs of
bytes that fit it; any `Windows`, and any `SMALL` of at least 4; any ranges of lengths and draws the
generator may be given (`val`, within the bits of each distribution), any number of flips
and any positive size of the stream; any set of targets, any pairs of blocks of 64 bytes, any operands
and tables, any number of operations. Three restrictions are hypotheses of theorems,
because they are none of the models:

- `Works` (`CarriedChecker_proofs`): if the algorithm is `range`, the target is x86. Without it
  the theorems are false, as the run `range_arm64` shows.
- `W >= 5` for the *type* of basic's counts: the proof bounds a count by 31, which a vector
  of three or four lanes has not been shown to keep. The code has 16 or 32.
- `zwegner` is compiled for x86 only (`AlgorithmsAssumption`).

| module | theorem | states |
|---|---|---|
| `Utf8Local` | `LocalCharacterization` | `WellFormed(s)` is a condition on each four consecutive bytes |
| | `DecodesIsWellFormed` | the definition by positions and the textbook one, cutting from the left, agree |
| `ReaderAndVectors_proofs` | `TypeCorrect`, `CopiesStayInBounds`, `DeliveryIsInOrder`, `CursorOnlyGrows` | `TypeOK`, `CopiesInBounds`, `DeliveredInOrder`, `CursorGrows` of `Delivery` |
| | `VectorsTypeCorrect`, `TargetsImplementVector64` | `VectorsTypeOK`, and the refinement `ImplementsVector64` |
| | `ComparisonsAreExact`, `AsciiTestsAreExact`, `MasksAreExact` | `ComparisonsAgree`, `AsciiIsAscii`, `MasksAreLanes` |
| `LookupChecker_proofs` | `TypeCorrect`, `VerdictIsCorrect`, `VerdictIsTextbook` | `TypeOK`, `VerdictCorrect`, `VerdictDecodes` |
| | `ContextIsNeverStale`, `ErrorsAreExact`, `OverlapIsCaught` | `ContextIsCurrent`, `ErrorIsExact`, `OverlapCaughtElsewhere` |
| | `RefinesValidation` | the safety half of the refinement of `Utf8Validation` |
| `CarriedChecker_proofs` | `TypeCorrect`, `ErrorsAreExact`, `DemandsAreDue`, `VerdictIsUpToCut` | `TypeOK`, `ErrorIsExact`, `DemandIsDue`, `VerdictUpToCut` |
| `Hoehrmann_proofs` | `TypeCorrect`, `AutomataStayOnTrack`, `VerdictIsCorrect`, `DfaVerdictIsPrefix` | `TypeOK`, `PartsOnTrack`, `VerdictCorrect`, `DfaAcceptsPrefixes` |
| `Fushia_proofs` | `TypeCorrect`, `LoopStaysAtBoundaries`, `VerdictIsButOverlong` | `TypeOK`, `PosAtBoundary`, `VerdictButOverlong` |
| `Utf8Cpp_proofs` | `TypeCorrect`, `CodePointJudgesLegality`, `FirstInvalidIsFound`, `RefinesValidation` | `TypeOK`, `JudgedByCodePoint`, `FoundIsFirstInvalid`, the safety half of the refinement |
| `Programs_proofs` | `ProgramsTypeCorrect`, `GeneratedTextIsWellFormed`, `AbortsOnOverlongAlone`, `CutIsAtBoundary` | `TypeOK`, `GeneratedIsWellFormed`, `AbortsOnlyOnOverlong`, `CutAtBoundary` |

Every invariant follows from an `IInv` of its module with `Init => IInv`,
`IInv /\ [Next]_vars => IInv'`; the properties themselves are seldom inductive, because they
speak of one value of `pc`, or of what has been read without saying how much that is.

**The language.** `Utf8Local` replaces membership by a local condition: `WellFormed(s)` holds
exactly when `WindowOK` holds of the four bytes that end at each position of the input and
at the three behind it, with zeros before and spaces behind, which is what a fresh checker
and the padding supply. `Clean(s, e)` says it of the positions before `e`, `Open(s, e)` that a
character is cut there. All that follows is about these two. (`Decodes` rests on a recursive
function; `DecodesExists` shows that there is one, without induction.)

**Reader and template.** Blocks hold the bytes from the cursor on and spaces behind the
input, and the cursor wraps only behind the last block (`FullBlockRead`, `RemainderRead`; the
proof modules of the checkers state the same lemmas for themselves, because `Delivery` has an
`Init` and a `Next` of its own). `Delivery` adds how long the record is for each place of the
cursor.

**Registers.** Bottom up. A byte is the sum of its bits' weights (`ByteOfBits`), which gives what
and, or, xor and the shift of words do to the bytes they are used on (`AndFifteen`, `HighBit`,
`XorMasks`, `WordShiftedRight`); an instruction is then a function of each lane (`OrSiLanes` and
its like), the alignment of AVX2 with its permutation is `Behind`, the bytes in front of a
register (`HaswellPrev`), and every operation of a target has one value for a byte and the three before it,
`lane` (`WestmereLane`, `HaswellLane`, `Arm64Lane`). `BehindAcross` says that the bytes before a
place are the same whether they are looked for in its register and the one before or in the 64 bytes, and
`VectorLane` that `Vector64` computes the same `lane`. So each step is a step of `Vector64`. The type
invariant is inductive by itself and all that the other three invariants rest on: the or of the
registers, the maximum and the mask answer for 64 bytes whatever these are; the subtraction leaves
something in just the greater lanes; and the parts of `to_bitmask`, of 16 or 32 bits, sit
side by side.

**lookup2, lookup3, lookup4.** `LaneTwo` and `LaneThreeFour` reduce the tables to conditions on
four bytes. A lane and `WindowOK` do *not* agree everywhere (on NEON masks cancel; `|` reports
twice), only where the windows before are clean; so `LaneStep` proves agreement behind a
clean prefix and `LanesAreClean` takes the *first* faulty window (`FirstFault`) to show
that some lane errs exactly when some window does. `LanesOfBlock` deals with a saved
vector that is older than the last block: old and new bytes demand nothing, so no lane
differs. `IInv`: at each block boundary the error vector is empty exactly when the windows
so far are clean, and then the saved vectors speak for the bytes consumed (`Context`);
behind the remainder, `error` and `prev_incomplete` together decide the input.
`OverlapIsCaught` is where the comment above `must_be_continuation` is proved.

**range, basic, zwegner.** The same plan, with three more obstacles. They condemn some bytes at
once that the language refuses only with the byte behind (`Condemned`), so they are compared
with `Track`, not `Clean`. Their vectors depend on each other, so a block is proved vector by
vector (`VectorsInTurn`). And each carries something that must be shown to mean what is due:

- range: the index of a lane in terms of the bytes before it, and the corrected lookup
  (`RangeLane`); the lengths of the last three bytes (`RangeCarried`).
- basic: the count of a lane in two rounds of addition (`CarryRound`, `CountsAfter`). Behind a
  fault a count is not what is due, but it stays below 32 (`BoundsAfter`), which is all that the
  type needs. The values of the recursive `seen` come from the existence of such a function
  (`SeenExists`).
- zwegner: behind clean bytes no two demands meet in a bit up to the first faulty one
  (`Apart`, `BitsInside`), so there the sum of the masks is their union (`PlusBits`,
  `ContRequired`); carries only run upwards from where bits meet, so they come too late to hide
  the fault. This is the argument that the comment in `utf8_zwegner_algorithm.h:150-161` closes
  with "QEDish". The bits brought down are those due in the next vector (`CarriedIsDue`).

`FirstLane` then joins lane and window for all three, and a block takes the checker from one
boundary to the next (`BlockChecked`). `IInv` has the cursor at a multiple of `STEP_SIZE`, which
`VerdictUpToCut` needs: behind the end of the input padding puts the condition of each window
that is left to the test (`TrackBehindTheEnd`), and without padding nothing does.

**Automata.** The state of an automaton is a function of the last three bytes it has read, as
long as these are in order (`Due`); a part is read as if it were a text of its own. `IInv`
says of the cut that each start is the last leading byte at or before its middle point, which
makes the shortest run of the four-way function empty (see the disagreements); of the loops
that each automaton is where its part says; of the tail that the parts behind are well formed
and end at a boundary.

**fushia.** What has been read is whole, after overlong forms of U+FFFF are replaced by a legal
character (`judged`), and no such form straddles the position.

**utf8cpp.** The sums of masked bits are the code point (`Value`), the comparisons of the code
point draw the line of the table, and between characters what has been read is whole.

**Generator and programs.** Between two draws the text is well formed, but for one lead whose
length and value bound what is drawn next (`WholeButLead`); a character behind a well-formed text
leaves it so (`OneMore`: each position is still covered). No character holds a zero, and
the loop leaves at most three bytes too many, so the text returned has the length it should and one zero. For
`unit.cpp`, a flip keeps a byte a byte, and that is enough: two validators disagree about a text only
if an overlong U+FFFF was replaced in it (`NothingReplaced`, `AgreeButOnOverlong`), and the fixed
sequences are decided one by one (`GoodSequences`, `BadSequences`, each rejected one at the
position where it is `Refused`). For `benchstream.cpp`, `IInv` says of every byte that the search
has passed that it is no ASCII from 0x40 on, and of the byte it stops at that it is; such a
byte is whole by itself, so the text is well formed on both sides (`CutAtAscii`).

### Model-checked only

- Liveness, in every module, with the fairness half of the refinements of `Utf8Validation`: outside of the
  prover's reach, as is ENABLED.
- That the models of the validators enter `Programs` by their verdicts (`Verdicts`) is licensed by
  the theorems about them, not derived from these in one proof.
- The expected violations, which are single behaviours.

## Not modelled

- Members of the SIMD classes that nothing calls (`store`, `map`, `compress`, `bit_andnot`,
  `operator&=` and the like), `block_index`, the pointer overloads, the overload of
  `generate` with a seed, the byte-order-mark functions of utf8cpp.
- `checked.h` and `unchecked.h` of utf8cpp: encoders, iterators and conversions, which the
  program includes and does not call.
- `benchmark.cpp`: reading of files, hardware counters, timing and printing are no subject
  of a model, and it keeps no state of its own between the calls. Of `benchstream.cpp` the
  text, the cut and the pairs of calls are modelled, one sample to a behaviour.
- The script that prints tables (the tables themselves are checked), CPM, sample files and
  results.
- The random engine: draws are choices. That 50000 texts and 10000 flips each make some
  event likely is a matter of probability, not of these models.

## Plan

1. *Done*: language, reader and template (`Delivery`), lookup2/3/4 with proofs, range,
   basic and zwegner, the automata, fushia, utf8cpp, the registers of each target, the
   generator and the programs that use it.
2. *Done*: the invariants of `Delivery`, of the six SIMD validators, the automata, fushia and
   utf8cpp as theorems, with the safety half of both refinements of `Utf8Validation`.
3. *Done*: the invariants of the generator and of the two programs, those of the registers, and
   the refinement of `Vector64`, as theorems. Every invariant and every safety property that a
   passing run checks is now a theorem.
4. Left: liveness, and the fairness half of the refinements, stay with TLC.
