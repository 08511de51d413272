------------------------------ MODULE Programs ------------------------------
(***************************************************************************)
(* The two programs that call the validators on generated text.            *)
(*                                                                         *)
(* tests/unit.cpp asks every validator to accept the text, then flips bits *)
(* of it, one upon the other, and after each compares the answers with the *)
(* one of fidl_validate_string; last come the sequences that are fixed.    *)
(*                                                                         *)
(* benchmarks/benchstream.cpp measures each validator on the whole text    *)
(* and on a part of it, cut somewhere before the last `size' bytes, and    *)
(* reports a bug unless both are accepted.                                 *)
(*                                                                         *)
(* A behaviour is one round of either program: a round leaves nothing to   *)
(* the next but the state of the random engine.                            *)
(***************************************************************************)
EXTENDS RandomUtf8, Verdicts

CONSTANTS
  Callers,     \* which of "unit" and "benchstream" is run
  UnitBytes,   \* the values that rand() % 256 may take
  Sizes,       \* the sizes that benchstream is run with: 1024 and more
  MaxFlips     \* 10000 in unit.cpp

ASSUME CallersAssumption == Callers \subseteq {"unit", "benchstream"}
ASSUME BoundsAssumption ==
  UnitBytes \subseteq Nat /\ Sizes \subseteq Nat \ {0} /\ MaxFlips \in Nat

VARIABLES
  program,
  pc,      \* "generate", "flip", "fixed", "search"; or how the program ended
  flip,    \* the bits flipped so far
  s2       \* where the text is cut, an index from 0

vars == <<generator, program, pc, flip, s2>>

(* The vector that generate filled is moved to its caller.                 *)
UTF8 == result

ended == {"done", "aborted", "bug", "overrun"}
-----------------------------------------------------------------------------
(* Mutant: the bit is added.                                               *)
with_bit_flipped_added(byte, bit) == byte + 2^bit

(* byte ^ (1 << bit)                                                       *)
with_bit_flipped(byte, bit) ==
  IF (byte \div 2^bit) % 2 = 0 THEN byte + 2^bit ELSE byte - 2^bit

(* test() and twobytetest(): the sequences and what is asked of them.      *)
goodsequences == {
  <<97>>, <<195, 177>>, <<226, 130, 161>>, <<240, 144, 140, 188>>,
  <<236, 149, 136, 235, 133, 149, 237, 149, 152, 236, 132, 184, 236, 154,
    148, 44, 32, 236, 132, 184, 236, 131, 129>>,
  <<194, 128>>, <<240, 144, 128, 128>>, <<238, 128, 128>>, <<239, 187, 191>>}

digits == <<49, 50, 51, 52, 53, 54, 55, 56, 57, 48, 49, 50, 51, 52, 53>>

badsequences == {
  <<195, 40>>, <<160, 161>>, <<226, 40, 161>>, <<226, 130, 40>>,
  <<240, 40, 140, 188>>, <<240, 144, 40, 188>>, <<240, 40, 140, 40>>,
  <<192, 159>>, <<245, 255, 255, 255>>, <<237, 160, 129>>,
  <<248, 144, 128, 128, 128>>, digits \o <<237>>, digits \o <<241>>,
  digits \o <<194>>, <<194, 127>>, <<206>>, <<206, 186, 225>>,
  <<206, 186, 225, 189>>, <<206, 186, 225, 189, 185, 207>>,
  <<206, 186, 225, 189, 185, 207, 131, 206>>,
  <<206, 186, 225, 189, 185, 207, 131, 206, 188, 206>>, <<223>>, <<239, 191>>,
  <<128>>, <<145, 133, 149, 158>>, <<108, 2, 142, 24>>}
  \cup {<<207, 207, 207>>}

fixed_tests_pass ==
  /\ \A s \in goodsequences : Lookups \subseteq accepting(s)
  /\ \A s \in badsequences : Lookups \cap accepting(s) = {}

(* The comparisons behind a flip; lookup2 is not asked.                    *)
compared == Validators \ {"lookup2"}
answers_agree(s) == compared \cap accepting(s) \in {{}, compared}
-----------------------------------------------------------------------------
Init ==
  /\ program \in Callers
  /\ \/ program = "unit" /\ \E n \in UnitBytes : generate(1..4, n)
     \/ program = "benchstream" /\ \E n \in Sizes : generate(1..2, 2 * n)
  /\ pc = "generate"
  /\ flip = 0
  /\ s2 = 0

Generating ==
  /\ pc = "generate"
  /\ Generate
  /\ UNCHANGED <<program, pc, flip, s2>>

(* The caller takes the text and writes to it as it likes.                 *)
take(by) ==
  /\ pc = "generate"
  /\ at = "returned"
  /\ program = by
  /\ at' = "taken"
  /\ UNCHANGED <<bytes_count, output_bytes, result, length, candidate>>

(* unit.cpp: the generated text has to be accepted by all.                 *)
AcceptGenerated ==
  /\ take("unit")
  /\ pc' = IF Validators \ {"fidl"} \subseteq accepting(UTF8)
           THEN "flip" ELSE "aborted"
  /\ UNCHANGED <<program, flip, s2>>

Flip ==
  /\ pc = "flip"
  /\ flip < MaxFlips
  /\ flip' = flip + 1
  /\ \E i \in DOMAIN UTF8, bit \in 0..7 :
       result' = [result EXCEPT ![i] = with_bit_flipped(@, bit)]
  /\ pc' = IF answers_agree(result') THEN "flip" ELSE "aborted"
  /\ UNCHANGED <<bytes_count, output_bytes, at, length, candidate, program, s2>>

FlipsDone ==
  /\ pc = "flip"
  /\ flip = MaxFlips
  /\ pc' = "fixed"
  /\ UNCHANGED <<generator, program, flip, s2>>

FixedTests ==
  /\ pc = "fixed"
  /\ pc' = IF fixed_tests_pass THEN "done" ELSE "aborted"
  /\ UNCHANGED <<generator, program, flip, s2>>
-----------------------------------------------------------------------------
(* Mutant: the bytes are compared without their sign.                      *)
int8_unsigned(byte) == byte

int8(byte) == IF byte > 127 THEN byte - 256 ELSE byte

size == output_bytes \div 2
s1 == Len(UTF8)

(* benchstream.cpp: s2 = s1 - volume.                                      *)
Measure ==
  /\ take("benchstream")
  /\ s2' = s1 - size
  /\ pc' = "search"
  /\ UNCHANGED <<program, flip>>

(* One step of the search.  Below 0 the index wraps and the read is out of *)
(* the buffer: nothing is known of what comes then.                        *)
StepBack ==
  /\ pc = "search"
  /\ int8(UTF8[s2 + 1]) < 64
  /\ IF s2 = 0 THEN pc' = "overrun" /\ s2' = s2
               ELSE pc' = pc /\ s2' = s2 - 1
  /\ UNCHANGED <<generator, program, flip>>

measured == {"fidl", "dfa_three", "lookup3", "lookup4"}

(* The search stops; every validator is run on s1 and on s2 bytes.         *)
RunDiff ==
  /\ pc = "search"
  /\ int8(UTF8[s2 + 1]) >= 64
  /\ pc' = IF \A n \in {s1, s2} : measured \subseteq accepting(SubSeq(UTF8, 1, n))
           THEN "done" ELSE "bug"
  /\ UNCHANGED <<generator, program, flip, s2>>

Next ==
  \/ Generating
  \/ AcceptGenerated \/ Flip \/ FlipsDone \/ FixedTests
  \/ Measure \/ StepBack \/ RunDiff

Spec ==
  /\ Init
  /\ [][Next]_vars
  /\ WF_vars(Next)
  /\ WF_vars(Generating /\ Push)
-----------------------------------------------------------------------------
(* Types: a flip leaves a byte a byte, and s2 stays in the text.           *)
TypeOK ==
  /\ program \in Callers
  /\ result \in Seq(Byte)
  /\ at \in {"while", "head", "second", "returned", "taken"}
  /\ candidate \in Byte
  /\ pc \in {"generate", "flip", "fixed", "search"} \cup ended
  /\ flip \in 0..MaxFlips
  /\ s2 \in 0..s1

(***************************************************************************)
(* unit.cpp aborts for one reason only: flips have made an F0 8F BF BF in  *)
(* an otherwise well-formed text.  No other text, however far from the     *)
(* generated one, and none of the fixed sequences sets the validators      *)
(* apart.                                                                  *)
(***************************************************************************)
AbortsOnlyOnOverlong ==
  pc = "aborted" =>
    /\ flip > 0
    /\ \E i \in DOMAIN UTF8 : OverlongAt(UTF8, i)

(* What unit.cpp is written to show (line 83): it never aborts.            *)
NeverAborts == pc # "aborted"

(***************************************************************************)
(* The search of benchstream.cpp stops only where a character starts, so   *)
(* no validator reports a bug and at least `size' bytes are measured; and  *)
(* it leaves the buffer only if all the text before the last `size' bytes  *)
(* is below 0x40 or beyond ASCII.                                          *)
(***************************************************************************)
CutAtBoundary ==
  /\ pc # "bug"
  /\ program = "benchstream" /\ pc = "done" =>
       /\ WellFormed(SubSeq(UTF8, 1, s2))
       /\ WellFormed(SubSeq(UTF8, s2 + 1, s1))
       /\ s1 - s2 >= size
  /\ pc = "overrun" => \A i \in 1..(s1 - size + 1) : UTF8[i] \notin 64..127

(* Generator, harness and search come to an end.                           *)
Terminates == <>(pc \in ended)
=============================================================================
