------------------------ MODULE LookupChecker_proofs ------------------------
(***************************************************************************)
(* Proofs about LookupChecker, for every block and vector width, every     *)
(* input, both kinds of target and the three algorithms.                   *)
(*                                                                         *)
(* The argument: the tables and the length check of a lane amount to a     *)
(* condition on four bytes (LaneTwo, LaneThreeFour); at the first window   *)
(* of the input that is not as Utf8Local wants it, and before it, lane and *)
(* window agree (LaneStep), so the lanes err exactly when some window does *)
(* (LanesAreClean); a saved vector that is older than the last block       *)
(* changes no lane (LanesOfBlock); from there block by block (BlockStep)   *)
(* to the end of the call (NextIInv).                                      *)
(***************************************************************************)
EXTENDS LookupChecker, Utf8Local

(***************************************************************************)
(* What the reader and the template give to a checker: the blocks that     *)
(* FullBlock and Remainder read hold the bytes from the cursor on, spaces  *)
(* behind the input, and the cursor does not wrap while the loop runs.     *)
(* (ReaderAndVectors_proofs has the same lemmas, under the names Init,     *)
(* Next and Spec of Delivery.)                                             *)
(***************************************************************************)
(* block holds the bytes of s from position e on.                          *)
Holds(block, s, e) == \A k \in Offsets : block[k] = ByteAt(s, e + k)

(* The type of a buffer.                                                   *)
LEMMA InputType ==
  ASSUME input \in Inputs
  PROVE  /\ input \in ByteSeq
         /\ Size(input) \in Nat
         /\ Size(input) <= SIZE_MAX
         /\ len = Size(input)
<1>1. input \in ByteSeq /\ Size(input) <= SIZE_MAX /\ len = Size(input)
  BY InputsAssumption DEF ByteSeq, Size, len
<1> QED
  BY <1>1, SizeType

(* What size_t keeps.                                                      *)
LEMMA SizeT ==
  /\ \A n \in Nat : size_t(n) \in 0..SIZE_MAX
  /\ \A n \in 0..SIZE_MAX : size_t(n) = n
  BY SizeMaxAssumption DEF size_t

(* The types of the reader and of the template around it.                  *)
ReaderOK ==
  /\ input \in Inputs
  /\ idx \in 0..SIZE_MAX
  /\ pc \in {"loop", "eof", "returned"}
  /\ result \in error_code \cup {"none"}
  /\ result # "none" <=> pc = "returned"

(* A full block lies in the input,                                         *)
LEMMA FullBlockHolds ==
  ASSUME ReaderOK, has_full_block
  PROVE  /\ Holds(full_block, input, idx)
         /\ DOMAIN full_block = Offsets
         /\ idx + STEP_SIZE < Size(input)
<1>1. /\ Size(input) \in Nat /\ len = Size(input)
      /\ idx \in Nat /\ STEP_SIZE \in Nat
  BY InputType, StepSizeAssumption, SizeMaxAssumption DEF ReaderOK
<1>2. idx + STEP_SIZE < Size(input)
  BY <1>1 DEF has_full_block, lenminusstep
<1>3. ASSUME NEW k \in Offsets
      PROVE  full_block[k] = ByteAt(input, idx + k)
  <2>1. k \in Nat /\ k < STEP_SIZE
    BY <1>1 DEF Offsets
  <2> QED
    BY <1>1, <1>2, <2>1 DEF full_block, ByteAt
<1> QED
  BY <1>2, <1>3 DEF Holds, full_block

(* and the copy of the remainder is padded as ByteAt is.                   *)
LEMMA RemainderHolds ==
  ASSUME ReaderOK
  PROVE  /\ Holds(get_remainder, input, idx)
         /\ DOMAIN get_remainder = Offsets
<1>1. /\ Size(input) \in Nat /\ len = Size(input)
      /\ idx \in Nat /\ STEP_SIZE \in Nat
  BY InputType, StepSizeAssumption, SizeMaxAssumption DEF ReaderOK
<1>2. ASSUME NEW k \in Offsets
      PROVE  get_remainder[k] = ByteAt(input, idx + k)
  <2>1. k \in Nat
    BY <1>1 DEF Offsets
  <2> QED
    BY <1>1, <2>1 DEF get_remainder, ByteAt, SPACE
<1> QED
  BY <1>2 DEF Holds, get_remainder

(* While the loop runs the cursor does not wrap.                           *)
LEMMA FullBlockRead ==
  ASSUME ReaderOK, FullBlock
  PROVE  /\ Holds(full_block, input, idx)
         /\ DOMAIN full_block = Offsets
         /\ idx' = idx + STEP_SIZE
         /\ idx' < Size(input)
<1>1. /\ Size(input) \in Nat /\ Size(input) <= SIZE_MAX
      /\ idx \in Nat /\ STEP_SIZE \in Nat /\ SIZE_MAX \in Nat
  BY InputType, StepSizeAssumption, SizeMaxAssumption DEF ReaderOK
<1>2. /\ Holds(full_block, input, idx)
      /\ DOMAIN full_block = Offsets
      /\ idx + STEP_SIZE < Size(input)
  BY FullBlockHolds DEF FullBlock
<1>3. idx' = idx + STEP_SIZE
  <2>1. idx + STEP_SIZE \in 0..SIZE_MAX
    BY <1>1, <1>2
  <2> QED
    BY <2>1, SizeT DEF FullBlock, advance
<1> QED
  BY <1>2, <1>3

(* The padded remainder, and where it leaves the cursor.                   *)
LEMMA RemainderRead ==
  ASSUME ReaderOK, Remainder
  PROVE  /\ Holds(get_remainder, input, idx)
         /\ DOMAIN get_remainder = Offsets
         /\ idx' \in 0..SIZE_MAX
         /\ Size(input) <= idx + STEP_SIZE
<1>1. /\ Size(input) \in Nat /\ len = Size(input)
      /\ idx \in Nat /\ STEP_SIZE \in Nat
  BY InputType, StepSizeAssumption, SizeMaxAssumption DEF ReaderOK
<1>2. Size(input) <= idx + STEP_SIZE
  BY <1>1 DEF Remainder, has_full_block, lenminusstep
<1>3. idx' \in 0..SIZE_MAX
  BY <1>1, SizeT DEF Remainder, advance
<1> QED
  BY <1>2, <1>3, RemainderHolds

-----------------------------------------------------------------------------
(***************************************************************************)
(* The special-case byte of lookup4 bit by bit, for a first byte of        *)
(* nibbles h and l and a second one of high nibble g: TOO_SHORT, TOO_LONG, *)
(* OVERLONG_3, TOO_LARGE, SURROGATE, OVERLONG_2, bit 6, TWO_CONTS.         *)
(***************************************************************************)
BitsOfFour(sc, h, l, g) ==
  /\ sc \subseteq 0..7
  /\ 0 \in sc <=> h >= 12 /\ (g < 8 \/ g >= 12)
  /\ 1 \in sc <=> h < 8 /\ g \in 8..11
  /\ 2 \in sc <=> h = 14 /\ l = 0 /\ g \in 8..9
  /\ 3 \in sc <=> h = 15 /\ l >= 4 /\ g \in 9..11
  /\ 4 \in sc <=> h = 14 /\ l = 13 /\ g \in 10..11
  /\ 5 \in sc <=> h = 12 /\ l < 2 /\ g \in 8..11
  /\ 6 \in sc <=> h = 15 /\ (l = 0 \/ l >= 5) /\ g = 8
  /\ 7 \in sc <=> h \in 8..11 /\ g \in 8..11

(***************************************************************************)
(* The same for lookup2 and lookup3: OVERLONG_2, OVERLONG_3, OVERLONG_4,   *)
(* SURROGATE, TOO_LARGE, TOO_LARGE_2.                                      *)
(***************************************************************************)
BitsOfTwo(sc, h, l, g) ==
  /\ 0 \in sc <=> h = 12 /\ l < 2
  /\ 1 \in sc <=> h = 14 /\ l = 0 /\ g \in 8..9
  /\ 2 \in sc <=> h = 15 /\ l = 0 /\ g = 8
  /\ 3 \in sc <=> h = 14 /\ l = 13 /\ g \in 10..11
  /\ 4 \in sc <=> h = 15 /\ l = 4 /\ g \in 9..11
  /\ 5 \in sc <=> h = 15 /\ l >= 5

(* The tables of lookup4, bit by bit.                                      *)
LEMMA TablesOfFour ==
  ASSUME NEW h \in 0..15, NEW l \in 0..15, NEW g \in 0..15
  PROVE  BitsOfFour(L4!byte_1_high(h) \cap L4!byte_1_low(l) \cap L4!byte_2_high(g),
                    h, l, g)
<1> USE DEF L4!TOO_SHORT, L4!TOO_LONG, L4!OVERLONG_3, L4!TOO_LARGE, L4!SURROGATE,
            L4!OVERLONG_2, L4!TOO_LARGE_1000, L4!OVERLONG_4, L4!TWO_CONTS, L4!CARRY
<1> DEFINE A == L4!byte_1_high(h)
           B == L4!byte_1_low(l)
           C == L4!byte_2_high(g)
           sc == A \cap B \cap C
<1>1. /\ A \subseteq 0..7
      /\ 0 \in A <=> h >= 12
      /\ 1 \in A <=> h < 8
      /\ 2 \in A <=> h = 14
      /\ 3 \in A <=> h = 15
      /\ 4 \in A <=> h = 14
      /\ 5 \in A <=> h = 12
      /\ 6 \in A <=> h = 15
      /\ 7 \in A <=> h \in 8..11
  BY DEF L4!byte_1_high
<1>2. /\ 0 \in B
      /\ 1 \in B
      /\ 2 \in B <=> l = 0
      /\ 3 \in B <=> l >= 4
      /\ 4 \in B <=> l = 13
      /\ 5 \in B <=> l < 2
      /\ 6 \in B <=> l = 0 \/ l >= 5
      /\ 7 \in B
  BY DEF L4!byte_1_low
<1>3. /\ 0 \in C <=> g < 8 \/ g >= 12
      /\ 1 \in C <=> g \in 8..11
      /\ 2 \in C <=> g \in 8..9
      /\ 3 \in C <=> g \in 9..11
      /\ 4 \in C <=> g \in 10..11
      /\ 5 \in C <=> g \in 8..11
      /\ 6 \in C <=> g = 8
      /\ 7 \in C <=> g \in 8..11
  BY DEF L4!byte_2_high
<1> HIDE DEF A, B, C
<1>4. \A e : e \in sc <=> e \in A /\ e \in B /\ e \in C
  OBVIOUS
<1> HIDE DEF sc
<1>5. sc \subseteq 0..7
  BY <1>1, <1>4
<1>6. BitsOfFour(sc, h, l, g)
  BY <1>1, <1>2, <1>3, <1>4, <1>5 DEF BitsOfFour
<1> QED
  BY <1>6 DEF sc, A, B, C

(* The tables of lookup3, bit by bit.                                      *)
LEMMA TablesOfThree ==
  ASSUME NEW h \in 0..15, NEW l \in 0..15, NEW g \in 0..15, NEW sc,
         sc = L3!byte_1_high(h) \cap L3!byte_1_low(l) \cap L3!byte_2_high(g)
  PROVE  /\ BitsOfTwo(sc, h, l, g)
         /\ 6 \in sc <=> h >= 12 /\ (g < 8 \/ g >= 12)
         /\ 7 \in sc <=> h < 8 /\ g \in 8..11
         /\ sc \subseteq 0..7
<1> USE DEF L3!OVERLONG_2, L3!OVERLONG_3, L3!OVERLONG_4, L3!SURROGATE, L3!TOO_LARGE,
            L3!TOO_LARGE_2, L3!TOO_SHORT_2_3_4, L3!LONELY_CONTINUATION, L3!CARRY
<1> DEFINE A == L3!byte_1_high(h)
           B == L3!byte_1_low(l)
           C == L3!byte_2_high(g)
<1>1. /\ A \subseteq 0..7
      /\ 0 \in A <=> h = 12
      /\ 1 \in A <=> h = 14
      /\ 2 \in A <=> h = 15
      /\ 3 \in A <=> h = 14
      /\ 4 \in A <=> h = 15
      /\ 5 \in A <=> h = 15
      /\ 6 \in A <=> h >= 12
      /\ 7 \in A <=> h < 8
  BY DEF L3!byte_1_high
<1>2. /\ 0 \in B <=> l < 2
      /\ 1 \in B <=> l = 0
      /\ 2 \in B <=> l = 0
      /\ 3 \in B <=> l = 13
      /\ 4 \in B <=> l = 4
      /\ 5 \in B <=> l >= 5
      /\ 6 \in B
      /\ 7 \in B
  BY DEF L3!byte_1_low
<1>3. /\ 0 \in C
      /\ 1 \in C <=> g \in 8..9
      /\ 2 \in C <=> g = 8
      /\ 3 \in C <=> g \in 10..11
      /\ 4 \in C <=> g \in 9..11
      /\ 5 \in C
      /\ 6 \in C <=> g < 8 \/ g >= 12
      /\ 7 \in C <=> g \in 8..11
  BY DEF L3!byte_2_high
<1> HIDE DEF A, B, C
<1>4. \A e : e \in sc <=> e \in A /\ e \in B /\ e \in C
  BY DEF A, B, C
<1>5. sc \subseteq 0..7
  BY <1>1, <1>4
<1>6. BitsOfTwo(sc, h, l, g)
  BY <1>1, <1>2, <1>3, <1>4 DEF BitsOfTwo
<1>7. /\ 6 \in sc <=> h >= 12 /\ (g < 8 \/ g >= 12)
      /\ 7 \in sc <=> h < 8 /\ g \in 8..11
  BY <1>1, <1>2, <1>3, <1>4
<1> QED
  BY <1>5, <1>6, <1>7

(* The tables of lookup2, bit by bit.                                      *)
LEMMA TablesOfTwo ==
  ASSUME NEW h \in 0..15, NEW l \in 0..15, NEW g \in 0..15, NEW sc,
         sc = L2!byte_1_high(h) \cap L2!byte_1_low(l) \cap L2!byte_2_high(g)
  PROVE  BitsOfTwo(sc, h, l, g) /\ sc \subseteq 0..5
<1> USE DEF L2!OVERLONG_2, L2!OVERLONG_3, L2!OVERLONG_4, L2!SURROGATE, L2!TOO_LARGE,
            L2!TOO_LARGE_2, L2!CARRY
<1> DEFINE A == L2!byte_1_high(h)
           B == L2!byte_1_low(l)
           C == L2!byte_2_high(g)
<1>1. /\ A \subseteq 0..5
      /\ 0 \in A <=> h = 12
      /\ 1 \in A <=> h = 14
      /\ 2 \in A <=> h = 15
      /\ 3 \in A <=> h = 14
      /\ 4 \in A <=> h = 15
      /\ 5 \in A <=> h = 15
  BY DEF L2!byte_1_high
<1>2. /\ 0 \in B <=> l < 2
      /\ 1 \in B <=> l = 0
      /\ 2 \in B <=> l = 0
      /\ 3 \in B <=> l = 13
      /\ 4 \in B <=> l = 4
      /\ 5 \in B <=> l >= 5
  BY DEF L2!byte_1_low
<1>3. /\ 0 \in C
      /\ 1 \in C <=> g \in 8..9
      /\ 2 \in C <=> g = 8
      /\ 3 \in C <=> g \in 10..11
      /\ 4 \in C <=> g \in 9..11
      /\ 5 \in C
  BY DEF L2!byte_2_high
<1> HIDE DEF A, B, C
<1>4. \A e : e \in sc <=> e \in A /\ e \in B /\ e \in C
  BY DEF A, B, C
<1>5. sc \subseteq 0..5
  BY <1>1, <1>4
<1>6. BitsOfTwo(sc, h, l, g)
  BY <1>1, <1>2, <1>3, <1>4 DEF BitsOfTwo
<1> QED
  BY <1>5, <1>6
-----------------------------------------------------------------------------
(* The nibbles of a pair of bytes.                                         *)
LEMMA Nibbles ==
  ASSUME NEW p \in 0..255, NEW b \in 0..255
  PROVE  /\ p \div 16 \in 0..15 /\ p % 16 \in 0..15
         /\ p = 16 * (p \div 16) + (p % 16)
         /\ b \div 16 \in 0..15 /\ 16 * (b \div 16) <= b /\ b < 16 * (b \div 16) + 16
  OBVIOUS

(* Which pairs of bytes the tables of lookup4 accept.                      *)
LEMMA PairsOfFour ==
  ASSUME NEW p \in 0..255, NEW b \in 0..255, NEW sc,
         sc = L4!check_special_cases(b, p)
  PROVE  /\ sc = {} <=> PairOK(p, b)
         /\ sc = {7} <=> p \in Continuation /\ b \in Continuation
<1> DEFINE h == p \div 16
           l == p % 16
           g == b \div 16
<1>1. /\ h \in 0..15 /\ l \in 0..15 /\ p = 16 * h + l
      /\ g \in 0..15 /\ 16 * g <= b /\ b < 16 * g + 16
  BY Nibbles, ZenonT(60)
<1>2. sc = L4!byte_1_high(h) \cap L4!byte_1_low(l) \cap L4!byte_2_high(g)
  BY DEF L4!check_special_cases, L4!high_nibble, L4!low_nibble
<1> HIDE DEF h, l, g
<1>3. BitsOfFour(sc, h, l, g)
  BY <1>1, <1>2, TablesOfFour
<1>4. /\ 0 \in sc <=> p >= 192 /\ b \notin Continuation
      /\ 1 \in sc <=> p < 128 /\ b \in Continuation
      /\ 7 \in sc <=> p \in Continuation /\ b \in Continuation
      /\ 5 \in sc <=> p \in 192..193 /\ b \in Continuation
      /\ 2 \in sc <=> p = 224 /\ b \in 128..159
      /\ 4 \in sc <=> p = 237 /\ b \in 160..191
      /\ 3 \in sc <=> p >= 244 /\ b \in 144..191
      /\ 6 \in sc <=> (p = 240 \/ p >= 245) /\ b \in 128..143
  BY <1>1, <1>3 DEF BitsOfFour, Continuation
<1>5. sc = {} <=> \A e \in 0..7 : e \notin sc
  BY <1>3 DEF BitsOfFour
<1>6. sc = {7} <=> /\ 7 \in sc /\ 0 \notin sc /\ 1 \notin sc /\ 2 \notin sc
                  /\ 3 \notin sc /\ 4 \notin sc /\ 5 \notin sc /\ 6 \notin sc
  <2>1. sc \subseteq {0, 1, 2, 3, 4, 5, 6, 7}
    BY <1>3 DEF BitsOfFour
  <2> QED
    BY <2>1
<1>7. sc = {} <=> PairOK(p, b)
  <2>1. sc = {} <=> /\ ~(p >= 192 /\ b \notin Continuation)
                    /\ ~(p < 128 /\ b \in Continuation)
                    /\ ~(p \in Continuation /\ b \in Continuation)
                    /\ ~(p \in 192..193 /\ b \in Continuation)
                    /\ ~(p = 224 /\ b \in 128..159)
                    /\ ~(p = 237 /\ b \in 160..191)
                    /\ ~(p >= 244 /\ b \in 144..191)
                    /\ ~((p = 240 \/ p >= 245) /\ b \in 128..143)
    BY <1>4, <1>5
  <2> QED
    BY <2>1 DEF PairOK, SecondBytes, Continuation, Lead2, Lead3, Lead4
<1>8. sc = {7} <=> p \in Continuation /\ b \in Continuation
  BY <1>4, <1>6 DEF Continuation
<1> QED
  BY <1>7, <1>8

(* Which pairs the tables of lookup3 accept: two continuations too.        *)
LEMMA PairsOfThree ==
  ASSUME NEW p \in 0..255, NEW b \in 0..255, NEW sc,
         sc = L3!check_special_cases(b, p)
  PROVE  sc = {} <=> PairOK(p, b) \/ (p \in Continuation /\ b \in Continuation)
<1> DEFINE h == p \div 16
           l == p % 16
           g == b \div 16
<1>1. /\ h \in 0..15 /\ l \in 0..15 /\ p = 16 * h + l
      /\ g \in 0..15 /\ 16 * g <= b /\ b < 16 * g + 16
  BY Nibbles, ZenonT(60)
<1>2. sc = L3!byte_1_high(h) \cap L3!byte_1_low(l) \cap L3!byte_2_high(g)
  BY DEF L3!check_special_cases, L3!high_nibble, L3!low_nibble
<1> HIDE DEF h, l, g
<1>3. /\ BitsOfTwo(sc, h, l, g)
      /\ 6 \in sc <=> h >= 12 /\ (g < 8 \/ g >= 12)
      /\ 7 \in sc <=> h < 8 /\ g \in 8..11
      /\ sc \subseteq 0..7
  BY <1>1, <1>2, TablesOfThree
<1>4. /\ 0 \in sc <=> p \in 192..193
      /\ 1 \in sc <=> p = 224 /\ b \in 128..159
      /\ 2 \in sc <=> p = 240 /\ b \in 128..143
      /\ 3 \in sc <=> p = 237 /\ b \in 160..191
      /\ 4 \in sc <=> p = 244 /\ b \in 144..191
      /\ 5 \in sc <=> p >= 245
      /\ 6 \in sc <=> p >= 192 /\ b \notin Continuation
      /\ 7 \in sc <=> p < 128 /\ b \in Continuation
  BY <1>1, <1>3 DEF BitsOfTwo, Continuation
<1>5. sc = {} <=> \A e \in 0..7 : e \notin sc
  BY <1>3
<1>6. sc = {} <=> /\ p \notin 192..193 /\ ~(p >= 245)
                  /\ ~(p >= 192 /\ b \notin Continuation)
                  /\ ~(p < 128 /\ b \in Continuation)
                  /\ ~(p = 224 /\ b \in 128..159)
                  /\ ~(p = 237 /\ b \in 160..191)
                  /\ ~(p = 240 /\ b \in 128..143)
                  /\ ~(p = 244 /\ b \in 144..191)
  BY <1>4, <1>5
<1> QED
  BY <1>6 DEF PairOK, SecondBytes, Continuation, Lead2, Lead3, Lead4

(* What the tables of lookup2 leave to its length check.                   *)
ValueOK(p, b) ==
  p >= 192 => /\ p \in Lead2 \cup Lead3 \cup Lead4
              /\ b \in Continuation => b \in SecondBytes(p)

(* Which pairs the tables of lookup2 accept.                               *)
LEMMA PairsOfTwo ==
  ASSUME NEW p \in 0..255, NEW b \in 0..255, NEW sc,
         sc = L2!check_special_cases(b, p)
  PROVE  sc = {} <=> ValueOK(p, b)
<1> DEFINE h == p \div 16
           l == p % 16
           g == b \div 16
<1>1. /\ h \in 0..15 /\ l \in 0..15 /\ p = 16 * h + l
      /\ g \in 0..15 /\ 16 * g <= b /\ b < 16 * g + 16
  BY Nibbles, ZenonT(60)
<1>2. sc = L2!byte_1_high(h) \cap L2!byte_1_low(l) \cap L2!byte_2_high(g)
  BY DEF L2!check_special_cases, L2!high_nibble, L2!low_nibble
<1> HIDE DEF h, l, g
<1>3. BitsOfTwo(sc, h, l, g) /\ sc \subseteq 0..5
  BY <1>1, <1>2, TablesOfTwo
<1>4. /\ 0 \in sc <=> p \in 192..193
      /\ 1 \in sc <=> p = 224 /\ b \in 128..159
      /\ 2 \in sc <=> p = 240 /\ b \in 128..143
      /\ 3 \in sc <=> p = 237 /\ b \in 160..191
      /\ 4 \in sc <=> p = 244 /\ b \in 144..191
      /\ 5 \in sc <=> p >= 245
  BY <1>1, <1>3 DEF BitsOfTwo
<1>5. sc = {} <=> \A e \in 0..5 : e \notin sc
  BY <1>3
<1>6. sc = {} <=> /\ p \notin 192..193 /\ ~(p >= 245)
                  /\ ~(p = 224 /\ b \in 128..159)
                  /\ ~(p = 237 /\ b \in 160..191)
                  /\ ~(p = 240 /\ b \in 128..143)
                  /\ ~(p = 244 /\ b \in 144..191)
  BY <1>4, <1>5
<1> QED
  BY <1>6 DEF ValueOK, SecondBytes, Continuation, Lead2, Lead3, Lead4
-----------------------------------------------------------------------------
(* One lane: its error byte is zero.                                       *)
LaneOK(p3, p2, p1, b) == lane_errors(p3, p2, p1, b) = {}

(* A lane of lookup4: the xor leaves zero where the special-case byte is   *)
(* exactly what the length check asks for.                                 *)
LEMMA LaneFour ==
  ASSUME algorithm \notin {"lookup2", "lookup3"},
         NEW p3 \in Byte, NEW p2 \in Byte, NEW p1 \in Byte, NEW b \in Byte
  PROVE  LaneOK(p3, p2, p1, b) <=>
           \/ must_be_2_3_continuation(p2, p3) /\ p1 \in Continuation /\ b \in Continuation
           \/ ~must_be_2_3_continuation(p2, p3) /\ PairOK(p1, b)
<1> USE DEF Byte
<1> DEFINE sc == L4!check_special_cases(b, p1)
           must == must_be_2_3_continuation(p2, p3)
<1>1. /\ sc = {} <=> PairOK(p1, b)
      /\ sc = {7} <=> p1 \in Continuation /\ b \in Continuation
  BY PairsOfFour
<1>2. L4!must_be_2_3_continuation(p2, p3) <=> must
  BY DEF must_be_2_3_continuation, or_positive, saturating_sub,
         L4!must_be_2_3_continuation, L4!or_positive, L4!saturating_sub
<1>3. LaneOK(p3, p2, p1, b) <=> L4!Xor(IF must THEN {7} ELSE {}, sc) = {}
  <2>1. lane_errors(p3, p2, p1, b) = L4!lane_errors(p3, p2, p1, b)
    BY DEF lane_errors
  <2>2. L4!lane_errors(p3, p2, p1, b)
          = L4!Xor(IF L4!must_be_2_3_continuation(p2, p3) THEN {7} ELSE {}, sc)
    BY DEF L4!lane_errors, L4!check_multibyte_lengths
  <2> HIDE DEF sc, must
  <2> QED
    BY <1>2, <2>1, <2>2 DEF LaneOK
<1> HIDE DEF sc, must
<1>4. CASE must
  <2>1. L4!Xor({7}, sc) = {} <=> sc = {7}
    BY DEF L4!Xor
  <2> QED
    BY <1>1, <1>3, <1>4, <2>1 DEF must
<1>5. CASE ~must
  <2>1. L4!Xor({}, sc) = {} <=> sc = {}
    BY DEF L4!Xor
  <2> QED
    BY <1>1, <1>3, <1>5, <2>1 DEF must
<1> QED
  BY <1>4, <1>5

(* A lane of lookup3: the same, by comparing where continuations are.      *)
LEMMA LaneThree ==
  ASSUME algorithm = "lookup3",
         NEW p3 \in Byte, NEW p2 \in Byte, NEW p1 \in Byte, NEW b \in Byte
  PROVE  LaneOK(p3, p2, p1, b) <=>
           \/ must_be_2_3_continuation(p2, p3) /\ p1 \in Continuation /\ b \in Continuation
           \/ ~must_be_2_3_continuation(p2, p3) /\ PairOK(p1, b)
<1> USE DEF Byte
<1> DEFINE sc == L3!check_special_cases(b, p1)
           must == must_be_2_3_continuation(p2, p3)
           larger == IF L3!int8(b) > L3!int8(p1) THEN L3!int8(b) ELSE L3!int8(p1)
           lengths == L3!check_multibyte_lengths(b, p1, p2, p3)
<1>1. sc = {} <=> PairOK(p1, b) \/ (p1 \in Continuation /\ b \in Continuation)
  BY PairsOfThree
<1>2. L3!must_be_2_3_continuation(p2, p3) <=> must
  BY DEF must_be_2_3_continuation, or_positive, saturating_sub,
         L3!must_be_2_3_continuation, L3!or_positive, L3!saturating_sub
<1>3. larger < -64 <=> p1 \in Continuation /\ b \in Continuation
  BY DEF L3!int8, Continuation
<1>4. lengths = {} <=> (must <=> p1 \in Continuation /\ b \in Continuation)
  <2>1. lengths = IF L3!must_be_2_3_continuation(p2, p3) # (larger < -64)
                  THEN L3!Bits ELSE {}
    BY DEF L3!check_multibyte_lengths
  <2>2. L3!Bits # {}
    BY DEF L3!Bits
  <2>3. L3!must_be_2_3_continuation(p2, p3) \in BOOLEAN
    BY Zenon DEF L3!must_be_2_3_continuation, L3!or_positive
  <2>4. (larger < -64) \in BOOLEAN
    OBVIOUS
  <2> HIDE DEF lengths, larger, must
  <2> QED
    BY <1>2, <1>3, <2>1, <2>2, <2>3, <2>4
<1>5. LaneOK(p3, p2, p1, b) <=> sc = {} /\ lengths = {}
  <2>1. lane_errors(p3, p2, p1, b) = L3!lane_errors(p3, p2, p1, b)
    BY DEF lane_errors
  <2>2. L3!lane_errors(p3, p2, p1, b) = sc \cup lengths
    BY DEF L3!lane_errors
  <2> HIDE DEF sc, lengths
  <2> QED
    BY <2>1, <2>2 DEF LaneOK
<1>6. ~(PairOK(p1, b) /\ p1 \in Continuation /\ b \in Continuation)
  BY DEF PairOK, Continuation, Lead2, Lead3, Lead4
<1> HIDE DEF sc, must, lengths
<1> QED
  BY <1>1, <1>4, <1>5, <1>6 DEF must

(* A lane of lookup2.                                                      *)
LEMMA LaneTwo ==
  ASSUME algorithm = "lookup2",
         NEW p3 \in Byte, NEW p2 \in Byte, NEW p1 \in Byte, NEW b \in Byte
  PROVE  LaneOK(p3, p2, p1, b) <=>
           /\ ValueOK(p1, b)
           /\ must_be_continuation(p1, p2, p3) <=> b \in Continuation
<1> USE DEF Byte
<1> DEFINE sc == L2!check_special_cases(b, p1)
           must == must_be_continuation(p1, p2, p3)
           lengths == L2!check_multibyte_lengths(b, p1, p2, p3)
<1>1. sc = {} <=> ValueOK(p1, b)
  BY PairsOfTwo
<1>2. L2!must_be_continuation(p1, p2, p3) <=> must
  BY DEF must_be_continuation, or_positive, saturating_sub,
         L2!must_be_continuation, L2!or_positive, L2!saturating_sub
<1>3. L2!int8(b) < -64 <=> b \in Continuation
  BY DEF L2!int8, Continuation
<1>4. lengths = {} <=> (must <=> b \in Continuation)
  <2>1. lengths = IF L2!must_be_continuation(p1, p2, p3) # (L2!int8(b) < -64)
                  THEN L2!Bits ELSE {}
    BY DEF L2!check_multibyte_lengths
  <2>2. L2!Bits # {}
    BY DEF L2!Bits
  <2>3. L2!must_be_continuation(p1, p2, p3) \in BOOLEAN
    BY Zenon DEF L2!must_be_continuation, L2!or_positive
  <2>4. (L2!int8(b) < -64) \in BOOLEAN
    OBVIOUS
  <2> HIDE DEF lengths, must
  <2> QED
    BY <1>2, <1>3, <2>1, <2>2, <2>3, <2>4
<1>5. LaneOK(p3, p2, p1, b) <=> sc = {} /\ lengths = {}
  <2>1. lane_errors(p3, p2, p1, b) = L2!lane_errors(p3, p2, p1, b)
    BY DEF lane_errors
  <2>2. L2!lane_errors(p3, p2, p1, b) = sc \cup lengths
    BY DEF L2!lane_errors
  <2> HIDE DEF sc, lengths
  <2> QED
    BY <2>1, <2>2 DEF LaneOK
<1> HIDE DEF sc, must, lengths
<1> QED
  BY <1>1, <1>4, <1>5 DEF must

(* The two algorithms that check pairs agree on a lane.                    *)
LEMMA LaneThreeFour ==
  ASSUME algorithm # "lookup2",
         NEW p3 \in Byte, NEW p2 \in Byte, NEW p1 \in Byte, NEW b \in Byte
  PROVE  LaneOK(p3, p2, p1, b) <=>
           \/ must_be_2_3_continuation(p2, p3) /\ p1 \in Continuation /\ b \in Continuation
           \/ ~must_be_2_3_continuation(p2, p3) /\ PairOK(p1, b)
  BY LaneThree, LaneFour

(***************************************************************************)
(* While at most one lead is near, the ^ of NEON and the or of x86 agree.  *)
(***************************************************************************)
LEMMA MustBe23 ==
  ASSUME NEW p3 \in 0..255, NEW p2 \in 0..255, ~(p2 >= 224 /\ p3 >= 240)
  PROVE  must_be_2_3_continuation(p2, p3) <=> Demanded(p3, p2)
  BY DEF must_be_2_3_continuation, or_positive, saturating_sub, Demanded

(* The same for must_be_continuation.                                      *)
LEMMA MustBe123 ==
  ASSUME NEW p3 \in 0..255, NEW p2 \in 0..255, NEW p1 \in 0..255,
         ~(p2 >= 224 /\ p3 >= 240), ~(p1 >= 192 /\ Demanded(p3, p2))
  PROVE  must_be_continuation(p1, p2, p3) <=> p1 >= 192 \/ Demanded(p3, p2)
<1>1. \A m \in 0..255 : saturating_sub(p3, m) # 0 <=> p3 > m
  BY DEF saturating_sub
<1>2. \A m \in 0..255 : saturating_sub(p2, m) # 0 <=> p2 > m
  BY DEF saturating_sub
<1>3. \A m \in 0..255 : saturating_sub(p1, m) # 0 <=> p1 > m
  BY DEF saturating_sub
<1>4. /\ saturating_sub(p3, 239) < 128
      /\ saturating_sub(p2, 223) < 128
      /\ saturating_sub(p1, 191) < 128
  BY DEF saturating_sub
<1>5. must_be_continuation(p1, p2, p3) <=>
        IF Arch = "arm64" THEN ((p1 >= 192) # (p2 >= 224)) # (p3 >= 240)
                          ELSE p1 >= 192 \/ Demanded(p3, p2)
  BY <1>1, <1>2, <1>3, <1>4 DEF must_be_continuation, or_positive, Demanded
<1>6. (p1 >= 192) \in BOOLEAN /\ (p2 >= 224) \in BOOLEAN /\ (p3 >= 240) \in BOOLEAN
  OBVIOUS
<1> QED
  BY <1>5, <1>6 DEF Demanded

LaneAt(s, j) ==
  LaneOK(ByteAt(s, j - 3), ByteAt(s, j - 2), ByteAt(s, j - 1), ByteAt(s, j))

(* Behind a clean prefix a lane and its window agree.                      *)
LEMMA LaneStep ==
  ASSUME NEW s \in ByteSeq, NEW j \in Nat, Clean(s, j)
  PROVE  LaneAt(s, j) <=> LocalOK(s, j)
<1> DEFINE p3 == ByteAt(s, j - 3)
           p2 == ByteAt(s, j - 2)
           p1 == ByteAt(s, j - 1)
           b == ByteAt(s, j)
<1>1. p3 \in 0..255 /\ p2 \in 0..255 /\ p1 \in 0..255 /\ b \in 0..255
  BY ByteAtType
<1>2. /\ p1 >= 192 => p2 < 192 /\ p3 < 224
      /\ p2 >= 224 => p1 \in Continuation /\ p3 < 192
      /\ p3 >= 240 => p1 \in Continuation
  BY BehindClean
<1> HIDE DEF p3, p2, p1, b
<1>3. ~(p2 >= 224 /\ p3 >= 240) /\ ~(p1 >= 192 /\ Demanded(p3, p2))
  BY <1>1, <1>2 DEF Demanded
<1>4. /\ must_be_2_3_continuation(p2, p3) <=> Demanded(p3, p2)
      /\ must_be_continuation(p1, p2, p3) <=> p1 >= 192 \/ Demanded(p3, p2)
  BY <1>1, <1>3, MustBe23, MustBe123
<1>b. p3 \in Byte /\ p2 \in Byte /\ p1 \in Byte /\ b \in Byte
  BY <1>1 DEF Byte
<1>5. CASE algorithm # "lookup2"
  <2>1. LaneOK(p3, p2, p1, b) <=> WindowOK(p3, p2, p1, b)
    BY <1>4, <1>5, <1>b, LaneThreeFour DEF WindowOK
  <2> QED
    BY <2>1 DEF LaneAt, LocalOK, p3, p2, p1, b
<1>6. CASE algorithm = "lookup2"
  <2>1. LaneOK(p3, p2, p1, b) <=>
          /\ ValueOK(p1, b)
          /\ p1 >= 192 \/ Demanded(p3, p2) <=> b \in Continuation
    BY <1>4, <1>6, <1>b, LaneTwo
  <2>2. Demanded(p3, p2) => p1 \in Continuation
    BY <1>1, <1>2 DEF Demanded
  <2>3. p1 \in Lead2 \cup Lead3 \cup Lead4 =>
          p1 >= 192 /\ SecondBytes(p1) \subseteq Continuation
    BY DEF Lead2, Lead3, Lead4, SecondBytes, Continuation
  <2>4. p1 \in Continuation => p1 < 192
    BY DEF Continuation
  <2>5. LaneOK(p3, p2, p1, b) <=> WindowOK(p3, p2, p1, b)
    BY <1>1, <2>1, <2>2, <2>3, <2>4 DEF WindowOK, ValueOK, PairOK
  <2> QED
    BY <2>5 DEF LaneAt, LocalOK, p3, p2, p1, b
<1> QED
  BY <1>5, <1>6

(* Over a prefix, lanes and windows agree.                                 *)
LEMMA LanesAreClean ==
  ASSUME NEW s \in ByteSeq, NEW e \in Nat
  PROVE  Clean(s, e) <=> \A j \in 0..(e - 1) : LaneAt(s, j)
<1>1. ASSUME Clean(s, e), NEW j \in 0..(e - 1)
      PROVE  LaneAt(s, j)
  <2>1. Clean(s, j) /\ LocalOK(s, j) /\ j \in Nat
    BY <1>1 DEF Clean
  <2> QED
    BY <2>1, LaneStep
<1>2. ASSUME ~Clean(s, e)
      PROVE  \E j \in 0..(e - 1) : ~LaneAt(s, j)
  <2>1. PICK j \in 0..(e - 1) : Clean(s, j) /\ ~LocalOK(s, j)
    BY <1>2, FirstFault
  <2>2. ~LaneAt(s, j)
    BY <2>1, LaneStep
  <2> QED
    BY <2>2
<1> QED
  BY <1>1, <1>2
-----------------------------------------------------------------------------
(* A block as a run of bytes: the byte n places before position p, taken   *)
(* from the saved vector before the start of the block.                    *)
Behind(block, n, p) ==
  IF p >= n THEN block[p - n] ELSE prev_input_block[W - n + p]

(* A position of a block is a lane of one of its vectors.                  *)
LEMMA Positions ==
  /\ STEP_SIZE \in Nat /\ STEP_SIZE >= W /\ STEP_SIZE >= 3
  /\ \A p \in Offsets : \E c \in 0..(NUM_CHUNKS - 1), k \in Lanes : p = c * W + k
  /\ \A c \in 0..(NUM_CHUNKS - 1), k \in Lanes : c * W + k \in Offsets
<1>1. W \in Nat /\ W >= 3 /\ NUM_CHUNKS \in Nat /\ NUM_CHUNKS >= 1
  BY WidthAssumption, NumChunksAssumption
<1>2. STEP_SIZE = NUM_CHUNKS * W
  BY BlockAssumption
<1>3. STEP_SIZE \in Nat /\ STEP_SIZE >= W
  BY <1>1, <1>2, SMTT(30)
<1>4. ASSUME NEW p \in Offsets
      PROVE  \E c \in 0..(NUM_CHUNKS - 1), k \in Lanes : p = c * W + k
  <2> DEFINE q == p \div W
             r == p % W
  <2>1. p \in Nat /\ p < NUM_CHUNKS * W
    BY <1>2, <1>3 DEF Offsets
  <2>2. q \in Int /\ r \in 0..(W - 1) /\ p = W * q + r
    BY <1>1, <2>1
  <2> HIDE DEF q, r
  <2>3. q >= 0
    BY <1>1, <2>1, <2>2, SMTT(30)
  <2>4. q < NUM_CHUNKS
    BY <1>1, <2>1, <2>2, SMTT(30)
  <2>5. q \in 0..(NUM_CHUNKS - 1) /\ r \in Lanes /\ p = q * W + r
    BY <1>1, <2>2, <2>3, <2>4 DEF Lanes
  <2> QED
    BY <2>5
<1>5. ASSUME NEW c \in 0..(NUM_CHUNKS - 1), NEW k \in Lanes
      PROVE  c * W + k \in Offsets
  <2>1. c * W >= 0 /\ c * W + W <= NUM_CHUNKS * W /\ c * W \in Int
    BY <1>1, SMTT(30)
  <2> QED
    BY <1>1, <1>2, <2>1 DEF Offsets, Lanes
<1> QED
  BY <1>1, <1>3, <1>4, <1>5

(* What prev<n> gives to a lane is the byte n places before it.            *)
LEMMA PrevIsBehind ==
  ASSUME NEW block, NEW c \in 0..(NUM_CHUNKS - 1), NEW k \in Lanes, NEW n \in 0..3
  PROVE  prev(n, chunks(block)[c],
              IF c = 0 THEN prev_input_block ELSE chunks(block)[c - 1])[k]
           = Behind(block, n, c * W + k)
<1>1. W \in Nat /\ W >= 3 /\ NUM_CHUNKS \in Nat
  BY WidthAssumption, NumChunksAssumption
<1>2. \A i \in 0..(NUM_CHUNKS - 1), m \in Lanes :
        chunks(block)[i][m] = block[i * W + m]
  BY DEF chunks
<1>3. k \in Int /\ 0 <= k /\ k < W /\ c \in Int /\ 0 <= c
  BY <1>1 DEF Lanes
<1>4. CASE k >= n
  <2>1. k - n \in Lanes
    BY <1>1, <1>3, <1>4 DEF Lanes
  <2>2. c * W \in Int /\ c * W >= 0
    BY <1>1, <1>3, SMTT(30)
  <2>3. c * W + k >= n /\ (c * W + k) - n = c * W + (k - n)
    BY <1>3, <1>4, <2>2
  <2> QED
    BY <1>2, <1>4, <2>1, <2>3 DEF prev, Behind
<1>5. CASE k < n /\ c = 0
  <2>1. c * W + k = k
    BY <1>1, <1>3, <1>5
  <2> QED
    BY <1>3, <1>5, <2>1 DEF prev, Behind
<1>6. CASE k < n /\ c # 0
  <2>1. W - n + k \in Lanes /\ c - 1 \in 0..(NUM_CHUNKS - 1)
    BY <1>1, <1>3, <1>6 DEF Lanes
  <2>2. c * W \in Int /\ c * W >= W /\ (c - 1) * W = c * W - W
    BY <1>1, <1>3, <1>6, SMTT(30)
  <2>3. c * W + k >= n /\ (c * W + k) - n = (c - 1) * W + (W - n + k)
    BY <1>1, <1>3, <2>2
  <2>4. prev(n, chunks(block)[c], chunks(block)[c - 1])[k]
          = chunks(block)[c - 1][W - n + k]
    BY <1>3, <1>6 DEF prev
  <2>5. chunks(block)[c - 1][W - n + k] = block[(c - 1) * W + (W - n + k)]
    BY <1>2, <2>1
  <2>6. Behind(block, n, c * W + k) = block[(c * W + k) - n]
    BY <2>3 DEF Behind
  <2> QED
    BY <1>6, <2>3, <2>4, <2>5, <2>6
<1> QED
  BY <1>3, <1>4, <1>5, <1>6

(* The vectors of a block leave the error alone when no position errs.     *)
LEMMA ChunksByPosition ==
  ASSUME NEW block
  PROVE  check_chunks(block) = {} <=>
           \A p \in Offsets : LaneOK(Behind(block, 3, p), Behind(block, 2, p),
                                     Behind(block, 1, p), Behind(block, 0, p))
<1> DEFINE Ok(p) == LaneOK(Behind(block, 3, p), Behind(block, 2, p),
                           Behind(block, 1, p), Behind(block, 0, p))
           pre(c) == IF c = 0 THEN prev_input_block ELSE chunks(block)[c - 1]
<1>1. ASSUME NEW c \in 0..(NUM_CHUNKS - 1), NEW k \in Lanes
      PROVE  k \in check_utf8_bytes(chunks(block)[c], pre(c)) <=> ~Ok(c * W + k)
  <2>1. \A n \in 0..3 :
          prev(n, chunks(block)[c], pre(c))[k] = Behind(block, n, c * W + k)
    BY PrevIsBehind
  <2>2. prev(0, chunks(block)[c], pre(c))[k] = chunks(block)[c][k]
    BY WidthAssumption DEF prev, Lanes
  <2> HIDE DEF pre
  <2> QED
    BY <2>1, <2>2 DEF check_utf8_bytes, LaneOK
<1>2. check_chunks(block) = {} <=>
        \A c \in 0..(NUM_CHUNKS - 1), k \in Lanes :
          k \notin check_utf8_bytes(chunks(block)[c], pre(c))
  <2>1. \A c \in 0..(NUM_CHUNKS - 1) :
          check_utf8_bytes(chunks(block)[c], pre(c)) \subseteq Lanes
    BY DEF check_utf8_bytes
  <2> QED
    BY <2>1 DEF check_chunks
<1> HIDE DEF pre, Ok
<1>3. (\A c \in 0..(NUM_CHUNKS - 1), k \in Lanes : Ok(c * W + k))
        <=> \A p \in Offsets : Ok(p)
  BY Positions
<1> QED
  BY <1>1, <1>2, <1>3 DEF Ok
-----------------------------------------------------------------------------
(***************************************************************************)
(* The invariant of the checker between two blocks, when the bytes of s    *)
(* before position e have been fed to it: the error vector is exact, and   *)
(* while it is zero the boundary state speaks for the bytes before e, even *)
(* if it was saved before a run of ASCII blocks (compare ContextIsCurrent).*)
(***************************************************************************)
Context(s, e) ==
  /\ prev_incomplete # {} <=> Open(s, e)
  /\ \/ \A n \in 1..3 : prev_input_block[W - n] = ByteAt(s, e - n)
     \/ /\ ~Open(s, e)
        /\ ~OpensCharacter(prev_input_block[W - 1], prev_input_block[W - 2],
                           prev_input_block[W - 3])

CheckedUpTo(s, e) ==
  /\ error = {} <=> Clean(s, e)
  /\ error = {} => Context(s, e)

CheckerTypeOK ==
  /\ algorithm \in Algorithms
  /\ error \subseteq Lanes
  /\ prev_input_block \in [Lanes -> 0..255]
  /\ prev_incomplete \subseteq Lanes

(* A lane of which no lead byte demands anything.                          *)
LEMMA QuietLane ==
  ASSUME NEW p3 \in 0..239, NEW p2 \in 0..223, NEW p1 \in 0..255, NEW b \in 0..255
  PROVE  LaneOK(p3, p2, p1, b) <=> PairOK(p1, b)
<1>1. p3 \in 0..255 /\ p2 \in 0..255 /\ ~(p2 >= 224 /\ p3 >= 240) /\ ~Demanded(p3, p2)
  BY DEF Demanded
<1>2. /\ ~must_be_2_3_continuation(p2, p3)
      /\ must_be_continuation(p1, p2, p3) <=> p1 >= 192
  <2>1. must_be_2_3_continuation(p2, p3) <=> Demanded(p3, p2)
    BY <1>1, MustBe23
  <2>2. must_be_continuation(p1, p2, p3) <=> p1 >= 192 \/ Demanded(p3, p2)
    BY <1>1, MustBe123
  <2> QED
    BY <1>1, <2>1, <2>2
<1>b. p3 \in Byte /\ p2 \in Byte /\ p1 \in Byte /\ b \in Byte
  BY <1>1 DEF Byte
<1>3. CASE algorithm # "lookup2"
  BY <1>2, <1>3, <1>b, LaneThreeFour
<1>4. CASE algorithm = "lookup2"
  <2>1. LaneOK(p3, p2, p1, b) <=> ValueOK(p1, b) /\ (p1 >= 192 <=> b \in Continuation)
    BY <1>2, <1>4, <1>b, LaneTwo
  <2>2. p1 \in Lead2 \cup Lead3 \cup Lead4 =>
          p1 >= 192 /\ SecondBytes(p1) \subseteq Continuation
    BY DEF Lead2, Lead3, Lead4, SecondBytes, Continuation
  <2> QED
    BY <2>1, <2>2 DEF ValueOK, PairOK
<1> QED
  BY <1>3, <1>4

(* A quiet lane behind a byte that is not a lead.                          *)
LEMMA QuietFirst ==
  ASSUME NEW p3 \in 0..239, NEW p2 \in 0..223, NEW p1 \in 0..191, NEW b \in 0..255
  PROVE  LaneOK(p3, p2, p1, b) <=> b \notin Continuation
<1>1. PairOK(p1, b) <=> b \notin Continuation
  BY DEF PairOK, Lead2, Lead3, Lead4
<1>2. p1 \in 0..255
  OBVIOUS
<1> QED
  BY <1>1, <1>2, QuietLane

(* A byte three places back that demands nothing is as good as none.       *)
LEMMA QuietThird ==
  ASSUME NEW p3 \in 0..239, NEW p2 \in Byte, NEW p1 \in Byte, NEW b \in Byte
  PROVE  LaneOK(p3, p2, p1, b) <=> LaneOK(0, p2, p1, b)
<1>1. p3 \in Byte /\ 0 \in Byte /\ ~(p3 >= 240) /\ ~(0 >= 240)
  BY DEF Byte
<1>2. /\ must_be_2_3_continuation(p2, p3) <=> must_be_2_3_continuation(p2, 0)
      /\ must_be_continuation(p1, p2, p3) <=> must_be_continuation(p1, p2, 0)
  <2>1. saturating_sub(p3, 239) = 0 /\ saturating_sub(0, 239) = 0
    BY DEF saturating_sub
  <2>2. (p3 >= 240) = FALSE /\ (0 >= 240) = FALSE
    OBVIOUS
  <2> QED
    BY <2>1, <2>2 DEF must_be_2_3_continuation, must_be_continuation
<1>3. CASE algorithm # "lookup2"
  <2>1. LaneOK(p3, p2, p1, b) <=>
          \/ must_be_2_3_continuation(p2, p3) /\ p1 \in Continuation /\ b \in Continuation
          \/ ~must_be_2_3_continuation(p2, p3) /\ PairOK(p1, b)
    BY <1>1, <1>3, LaneThreeFour
  <2>2. LaneOK(0, p2, p1, b) <=>
          \/ must_be_2_3_continuation(p2, 0) /\ p1 \in Continuation /\ b \in Continuation
          \/ ~must_be_2_3_continuation(p2, 0) /\ PairOK(p1, b)
    BY <1>1, <1>3, LaneThreeFour
  <2> QED
    BY <1>2, <2>1, <2>2
<1>4. CASE algorithm = "lookup2"
  <2>1. LaneOK(p3, p2, p1, b) <=>
          /\ ValueOK(p1, b)
          /\ must_be_continuation(p1, p2, p3) <=> b \in Continuation
    BY <1>1, <1>4, LaneTwo
  <2>2. LaneOK(0, p2, p1, b) <=>
          /\ ValueOK(p1, b)
          /\ must_be_continuation(p1, p2, 0) <=> b \in Continuation
    BY <1>1, <1>4, LaneTwo
  <2> QED
    BY <1>2, <2>1, <2>2
<1> QED
  BY <1>3, <1>4

(* A block meets the saved vector as it would meet the bytes before it.    *)
LEMMA LanesOfBlock ==
  ASSUME NEW s \in ByteSeq, NEW e \in Nat, NEW block, NEW p \in Offsets,
         CheckerTypeOK, Context(s, e), Holds(block, s, e)
  PROVE  LaneOK(Behind(block, 3, p), Behind(block, 2, p),
                Behind(block, 1, p), Behind(block, 0, p))
           <=> LaneAt(s, e + p)
<1> DEFINE T(n) == prev_input_block[W - n]
           B(n) == Behind(block, n, p)
           P(n) == ByteAt(s, e - n)
<1>1. W \in Nat /\ W >= 3 /\ p \in Nat /\ p < STEP_SIZE /\ STEP_SIZE \in Nat
  BY WidthAssumption, Positions DEF Offsets
<1>2. \A n \in 0..3 : p >= n => B(n) = ByteAt(s, (e + p) - n)
  <2> SUFFICES ASSUME NEW n \in 0..3, p >= n
               PROVE  Behind(block, n, p) = ByteAt(s, (e + p) - n)
    OBVIOUS
  <2>1. p - n \in Offsets /\ e + (p - n) = (e + p) - n
    BY <1>1 DEF Offsets
  <2> QED
    BY <2>1 DEF Behind, Holds
<1>3. \A n \in 1..3 : p < n => B(n) = T(n - p) /\ n - p \in 1..3 /\ (e + p) - n = e - (n - p)
  <2> SUFFICES ASSUME NEW n \in 1..3, p < n
               PROVE  /\ Behind(block, n, p) = prev_input_block[W - (n - p)]
                      /\ n - p \in 1..3 /\ (e + p) - n = e - (n - p)
    OBVIOUS
  <2>1. W - n + p = W - (n - p)
    BY <1>1
  <2> QED
    BY <1>1, <2>1 DEF Behind
<1>4. (e + p) - 0 = e + p
  BY <1>1
<1>5. CASE \A n \in 1..3 : T(n) = P(n)
  <2>1. \A n \in 1..3 : B(n) = ByteAt(s, (e + p) - n)
    BY <1>1, <1>2, <1>3, <1>5
  <2> QED
    BY <1>1, <1>2, <1>4, <2>1 DEF LaneAt
<1>6. CASE /\ ~Open(s, e)
           /\ ~OpensCharacter(T(1), T(2), T(3))
  <2>1. /\ T(1) \in 0..191 /\ T(2) \in 0..223 /\ T(3) \in 0..239
    <3>1. W - 1 \in Lanes /\ W - 2 \in Lanes /\ W - 3 \in Lanes
      BY <1>1 DEF Lanes
    <3>2. T(1) \in 0..255 /\ T(2) \in 0..255 /\ T(3) \in 0..255
      BY <3>1 DEF CheckerTypeOK
    <3> QED
      BY <1>6, <3>2 DEF OpensCharacter
  <2>2. /\ P(1) \in 0..191 /\ P(2) \in 0..223 /\ P(3) \in 0..239
    <3>1. P(1) \in 0..255 /\ P(2) \in 0..255 /\ P(3) \in 0..255
      BY ByteAtType
    <3> QED
      BY <1>6, <3>1 DEF Open
  <2>3. \A n \in 0..3 : ByteAt(s, (e + p) - n) \in 0..255
    BY <1>1, ByteAtType
  <2> HIDE DEF T, B, P
  <2>a. /\ T(1) \in 0..223 /\ T(1) \in 0..239 /\ T(2) \in 0..239
        /\ P(1) \in 0..223 /\ P(1) \in 0..239 /\ P(2) \in 0..239
    BY <2>1, <2>2
  <2>4. CASE p = 0
    <3>1. B(1) = T(1) /\ B(2) = T(2) /\ B(3) = T(3)
      BY <1>3, <2>4
    <3>2. /\ ByteAt(s, (e + p) - 1) = P(1)
          /\ ByteAt(s, (e + p) - 2) = P(2)
          /\ ByteAt(s, (e + p) - 3) = P(3)
      BY <1>1, <2>4 DEF P
    <3>3. B(0) = ByteAt(s, e + p) /\ B(0) \in 0..255
      BY <1>2, <1>4, <2>3, <2>4
    <3>4. LaneOK(T(3), T(2), T(1), B(0)) <=> B(0) \notin Continuation
      BY <2>1, <3>3, QuietFirst
    <3>5. LaneOK(P(3), P(2), P(1), B(0)) <=> B(0) \notin Continuation
      BY <2>2, <3>3, QuietFirst
    <3> QED
      BY <3>1, <3>2, <3>3, <3>4, <3>5 DEF LaneAt, B
  <2>5. CASE p = 1
    <3>1. B(2) = T(1) /\ B(3) = T(2)
      BY <1>3, <2>5
    <3>2. /\ ByteAt(s, (e + p) - 2) = P(1)
          /\ ByteAt(s, (e + p) - 3) = P(2)
      BY <1>1, <2>5 DEF P
    <3>3. /\ B(0) = ByteAt(s, e + p) /\ B(0) \in 0..255
          /\ B(1) = ByteAt(s, (e + p) - 1) /\ B(1) \in 0..255
      BY <1>2, <1>4, <2>3, <2>5
    <3>4. LaneOK(T(2), T(1), B(1), B(0)) <=> PairOK(B(1), B(0))
      BY <2>a, <3>3, QuietLane
    <3>5. LaneOK(P(2), P(1), B(1), B(0)) <=> PairOK(B(1), B(0))
      BY <2>a, <3>3, QuietLane
    <3> QED
      BY <3>1, <3>2, <3>3, <3>4, <3>5 DEF LaneAt, B
  <2>6. CASE p = 2
    <3>1. B(3) = T(1)
      BY <1>3, <2>6
    <3>2. ByteAt(s, (e + p) - 3) = P(1)
      BY <1>1, <2>6 DEF P
    <3>3. /\ B(0) = ByteAt(s, e + p) /\ B(0) \in 0..255
          /\ B(1) = ByteAt(s, (e + p) - 1) /\ B(1) \in 0..255
          /\ B(2) = ByteAt(s, (e + p) - 2) /\ B(2) \in 0..255
      BY <1>2, <1>4, <2>3, <2>6
    <3>a. B(0) \in Byte /\ B(1) \in Byte /\ B(2) \in Byte
      BY <3>3 DEF Byte
    <3>4. LaneOK(T(1), B(2), B(1), B(0)) <=> LaneOK(0, B(2), B(1), B(0))
      BY <2>a, <3>a, QuietThird
    <3>5. LaneOK(P(1), B(2), B(1), B(0)) <=> LaneOK(0, B(2), B(1), B(0))
      BY <2>a, <3>a, QuietThird
    <3> QED
      BY <3>1, <3>2, <3>3, <3>4, <3>5 DEF LaneAt, B
  <2>7. CASE p >= 3
    BY <1>1, <1>2, <1>4, <2>7 DEF LaneAt, B
  <2> QED
    BY <1>1, <2>4, <2>5, <2>6, <2>7
<1> QED
  BY <1>5, <1>6 DEF Context

(* The lanes of a block add no error exactly when its bytes are clean.     *)
LEMMA BlockErrors ==
  ASSUME NEW s \in ByteSeq, NEW e \in Nat, NEW block,
         CheckerTypeOK, Clean(s, e), Context(s, e), Holds(block, s, e)
  PROVE  check_chunks(block) = {} <=> Clean(s, e + STEP_SIZE)
<1>1. check_chunks(block) = {} <=> \A p \in Offsets : LaneAt(s, e + p)
  BY ChunksByPosition, LanesOfBlock
<1>2. STEP_SIZE \in Nat /\ e + STEP_SIZE \in Nat
  BY Positions
<1>3. Clean(s, e + STEP_SIZE) <=> \A j \in 0..((e + STEP_SIZE) - 1) : LaneAt(s, j)
  BY <1>2, LanesAreClean
<1>4. \A j \in 0..(e - 1) : LaneAt(s, j)
  BY LanesAreClean
<1>5. ASSUME \A p \in Offsets : LaneAt(s, e + p), NEW j \in 0..((e + STEP_SIZE) - 1)
      PROVE  LaneAt(s, j)
  <2>1. CASE j < e
    <3>1. j \in 0..(e - 1)
      BY <2>1
    <3> QED
      BY <1>4, <3>1
  <2>2. CASE j >= e
    <3>1. j - e \in Offsets /\ e + (j - e) = j
      BY <1>2, <2>2 DEF Offsets
    <3>2. LaneAt(s, e + (j - e))
      BY <1>5, <3>1
    <3> QED
      BY <3>1, <3>2
  <2> QED
    BY <1>2, <2>1, <2>2
<1>6. ASSUME \A j \in 0..((e + STEP_SIZE) - 1) : LaneAt(s, j), NEW p \in Offsets
      PROVE  LaneAt(s, e + p)
  <2>1. e + p \in 0..((e + STEP_SIZE) - 1)
    BY <1>2 DEF Offsets
  <2> QED
    BY <1>6, <2>1
<1> QED
  BY <1>1, <1>3, <1>5, <1>6

(* A saturating difference is zero unless the first is larger.             *)
LEMMA SaturatingSub ==
  ASSUME NEW a \in 0..255, NEW b \in 0..255
  PROVE  saturating_sub(a, b) # 0 <=> a > b
BY DEF saturating_sub

(* What a block of s leaves in the boundary state.                         *)
LEMMA TailOfBlock ==
  ASSUME NEW s \in ByteSeq, NEW e \in Nat, NEW block, Holds(block, s, e)
  PROVE  /\ last_chunk(block) \in [Lanes -> 0..255]
         /\ \A n \in 1..3 : last_chunk(block)[W - n] = ByteAt(s, (e + STEP_SIZE) - n)
         /\ is_incomplete(last_chunk(block)) \subseteq Lanes
         /\ is_incomplete(last_chunk(block)) # {} <=> Open(s, e + STEP_SIZE)
<1> DEFINE last == last_chunk(block)
           base == (NUM_CHUNKS - 1) * W
<1>1. /\ W \in Nat /\ W >= 3 /\ NUM_CHUNKS \in Nat /\ NUM_CHUNKS >= 1
      /\ STEP_SIZE \in Nat /\ STEP_SIZE >= W
  BY WidthAssumption, NumChunksAssumption, Positions
<1>2. base \in Nat /\ base + W = STEP_SIZE
  BY <1>1, BlockAssumption, SMTT(30)
<1>3. NUM_CHUNKS - 1 \in 0..(NUM_CHUNKS - 1)
  BY <1>1
<1>4. last = [k \in Lanes |-> block[base + k]]
  BY <1>3 DEF last_chunk, chunks
<1> HIDE DEF last, base
<1>5. ASSUME NEW k \in Lanes
      PROVE  last[k] = ByteAt(s, e + (base + k)) /\ last[k] \in 0..255
  <2>1. base + k \in Offsets /\ e + (base + k) \in Int
    BY <1>1, <1>2 DEF Lanes, Offsets
  <2> QED
    BY <1>4, <2>1, ByteAtType DEF Holds
<1>6. last \in [Lanes -> 0..255]
  BY <1>4, <1>5
<1>7. ASSUME NEW n \in 1..3
      PROVE  last[W - n] = ByteAt(s, (e + STEP_SIZE) - n) /\ W - n \in Lanes
  <2>1. W - n \in Lanes /\ e + (base + (W - n)) = (e + STEP_SIZE) - n
    BY <1>1, <1>2 DEF Lanes
  <2> QED
    BY <1>5, <2>1
<1>8. is_incomplete(last) = {k \in Lanes : last[k] > max_array[k]}
  <2>1. \A k \in Lanes : max_array[k] \in 0..255
    BY <1>1 DEF max_array
  <2>2. \A k \in Lanes : saturating_sub(last[k], max_array[k]) # 0
                            <=> last[k] > max_array[k]
    <3> SUFFICES ASSUME NEW k \in Lanes
                 PROVE  saturating_sub(last[k], max_array[k]) # 0
                          <=> last[k] > max_array[k]
      OBVIOUS
    <3>1. last[k] \in 0..255 /\ max_array[k] \in 0..255
      BY <1>6, <2>1
    <3> QED
      BY <3>1, SaturatingSub
  <2> QED
    BY <2>2 DEF is_incomplete, gt_bits
<1>9. is_incomplete(last) # {} <=> \/ last[W - 1] >= 192
                                  \/ last[W - 2] >= 224
                                  \/ last[W - 3] >= 240
  <2>1. W - 1 \in Lanes /\ W - 2 \in Lanes /\ W - 3 \in Lanes
    BY <1>7
  <2>2. max_array[W - 1] = 191 /\ max_array[W - 2] = 223 /\ max_array[W - 3] = 239
    BY <1>1, <2>1 DEF max_array
  <2>3. \A k \in Lanes : k # W - 1 /\ k # W - 2 /\ k # W - 3 => max_array[k] = 255
    BY <1>1 DEF max_array, Lanes
  <2>4. \A k \in Lanes : last[k] \in 0..255
    BY <1>6
  <2>5. ASSUME NEW k \in Lanes, last[k] > max_array[k]
        PROVE  last[W - 1] >= 192 \/ last[W - 2] >= 224 \/ last[W - 3] >= 240
    <3>1. last[k] \in 0..255
      BY <2>4
    <3>2. k = W - 1 \/ k = W - 2 \/ k = W - 3
      BY <2>3, <2>5, <3>1
    <3> QED
      BY <2>2, <2>5, <3>1, <3>2
  <2>6. ASSUME last[W - 1] >= 192 \/ last[W - 2] >= 224 \/ last[W - 3] >= 240
        PROVE  \E k \in Lanes : last[k] > max_array[k]
    <3>1. /\ last[W - 1] \in 0..255
          /\ last[W - 2] \in 0..255
          /\ last[W - 3] \in 0..255
      BY <2>1, <2>4
    <3>2. \/ last[W - 1] > max_array[W - 1]
          \/ last[W - 2] > max_array[W - 2]
          \/ last[W - 3] > max_array[W - 3]
      BY <2>2, <2>6, <3>1
    <3> QED
      BY <2>1, <3>2
  <2> QED
    BY <1>8, <2>5, <2>6
<1>10. is_incomplete(last) # {} <=> Open(s, e + STEP_SIZE)
  <2>1. /\ last[W - 1] = ByteAt(s, (e + STEP_SIZE) - 1)
        /\ last[W - 2] = ByteAt(s, (e + STEP_SIZE) - 2)
        /\ last[W - 3] = ByteAt(s, (e + STEP_SIZE) - 3)
    BY <1>7
  <2>2. Open(s, e + STEP_SIZE) <=> \/ ByteAt(s, (e + STEP_SIZE) - 1) >= 192
                                   \/ ByteAt(s, (e + STEP_SIZE) - 2) >= 224
                                   \/ ByteAt(s, (e + STEP_SIZE) - 3) >= 240
    BY DEF Open
  <2> QED
    BY <1>9, <2>1, <2>2, Zenon
<1>11. is_incomplete(last) \subseteq Lanes
  BY <1>8
<1> QED
  BY <1>6, <1>7, <1>10, <1>11 DEF last

(* One call of check_next_input.                                           *)
LEMMA BlockStep ==
  ASSUME NEW s \in ByteSeq, NEW e \in Nat, NEW block,
         DOMAIN block = Offsets, Holds(block, s, e),
         CheckerTypeOK, CheckedUpTo(s, e), check_next_input(block)
  PROVE  CheckerTypeOK' /\ CheckedUpTo(s, e + STEP_SIZE)'
<1>1. STEP_SIZE \in Nat /\ STEP_SIZE >= 3 /\ e + STEP_SIZE \in Nat
  BY Positions
<1>2. Clean(s, e + STEP_SIZE) => Clean(s, e)
  BY <1>1 DEF Clean
<1>3. CASE check_ascii_block(block)
  <2>1. /\ error' = error \cup prev_incomplete
        /\ prev_input_block' = prev_input_block
        /\ prev_incomplete' = prev_incomplete /\ algorithm' = algorithm
    BY <1>3 DEF check_ascii_block
  <2>2. \A k \in 0..(STEP_SIZE - 1) : ByteAt(s, e + k) < 128
    BY <1>3 DEF check_ascii_block, is_ascii, Holds, Offsets
  <2>3. Clean(s, e) => /\ Clean(s, e + STEP_SIZE) <=> ~Open(s, e)
                       /\ ~Open(s, e + STEP_SIZE)
    BY <1>1, <2>2, AsciiRun
  <2>4. error' = {} <=> Clean(s, e + STEP_SIZE)
    BY <1>2, <2>1, <2>3 DEF CheckedUpTo, Context
  <2>5. ASSUME error' = {}
        PROVE  Context(s, e + STEP_SIZE)'
    <3>1. error = {} /\ prev_incomplete = {}
      BY <2>1, <2>5
    <3>2. Context(s, e) /\ ~Open(s, e) /\ ~Open(s, e + STEP_SIZE)
      BY <2>3, <3>1 DEF CheckedUpTo, Context
    <3>3. ~OpensCharacter(prev_input_block[W - 1], prev_input_block[W - 2],
                          prev_input_block[W - 3])
      BY <3>2 DEF Context, Open, OpensCharacter
    <3> QED
      BY <2>1, <3>1, <3>2, <3>3 DEF Context
  <2>6. CheckerTypeOK'
    BY <2>1 DEF CheckerTypeOK
  <2> QED
    BY <2>4, <2>5, <2>6 DEF CheckedUpTo
<1>4. CASE check_nonascii_block(block)
  <2>1. /\ error' = error \cup check_chunks(block)
        /\ prev_input_block' = last_chunk(block)
        /\ prev_incomplete' = is_incomplete(last_chunk(block))
        /\ algorithm' = algorithm
    BY <1>4 DEF check_nonascii_block
  <2>2. error' = {} <=> Clean(s, e + STEP_SIZE)
    <3>1. error = {} => (check_chunks(block) = {} <=> Clean(s, e + STEP_SIZE))
      BY BlockErrors DEF CheckedUpTo
    <3> QED
      BY <1>2, <2>1, <3>1 DEF CheckedUpTo
  <2>3. Context(s, e + STEP_SIZE)'
    BY <2>1, TailOfBlock DEF Context
  <2>4. CheckerTypeOK'
    <3>1. check_chunks(block) \subseteq Lanes
      BY DEF check_chunks, check_utf8_bytes
    <3> QED
      BY <2>1, <3>1, TailOfBlock DEF CheckerTypeOK
  <2> QED
    BY <2>2, <2>3, <2>4 DEF CheckedUpTo
<1> QED
  BY <1>3, <1>4 DEF check_next_input
-----------------------------------------------------------------------------
(***************************************************************************)
(* The inductive invariant.  VerdictCorrect speaks only of the end of the  *)
(* call; it takes the exactness of the error vector and the meaning of the *)
(* boundary state at every earlier block to reach it.                      *)
(***************************************************************************)
IInv ==
  /\ ReaderOK
  /\ CheckerTypeOK
  /\ pc = "loop" => idx <= Size(input) /\ CheckedUpTo(input, idx)
  /\ pc = "eof" => (error = {} /\ prev_incomplete = {} <=> WellFormed(input))
  /\ pc = "returned" => (result = "SUCCESS" <=> WellFormed(input))

(* It holds of a fresh checker,                                            *)
LEMMA InitIInv ==
  Init => IInv
<1> SUFFICES ASSUME Init PROVE IInv
  OBVIOUS
<1> USE DEF Init, ValidateInit
<1>1. ReaderOK
  BY SizeMaxAssumption DEF ReaderOK, error_code
<1>2. CheckerTypeOK
  BY DEF CheckerTypeOK
<1>3. input \in ByteSeq /\ Size(input) \in Nat
  BY InputType
<1>4. CheckedUpTo(input, idx)
  <2>1. /\ ByteAt(input, 0 - 1) = 0
        /\ ByteAt(input, 0 - 2) = 0
        /\ ByteAt(input, 0 - 3) = 0
    BY DEF ByteAt
  <2>2. ~Open(input, 0)
    BY <2>1 DEF Open
  <2>3. Clean(input, 0)
    BY DEF Clean
  <2>4. \A n \in 1..3 : prev_input_block[W - n] = ByteAt(input, 0 - n)
    BY WidthAssumption DEF Lanes, ByteAt
  <2> QED
    BY <2>2, <2>3, <2>4 DEF CheckedUpTo, Context
<1> QED
  BY <1>1, <1>2, <1>3, <1>4 DEF IInv

(* every step preserves it,                                                *)
LEMMA NextIInv ==
  IInv /\ [Next]_vars => IInv'
<1> SUFFICES ASSUME IInv, [Next]_vars PROVE IInv'
  OBVIOUS
<1>1. /\ input \in ByteSeq /\ Size(input) \in Nat
      /\ len = Size(input) /\ idx \in Nat /\ STEP_SIZE \in Nat
  BY InputType, SizeMaxAssumption, StepSizeAssumption DEF IInv, ReaderOK
<1>2. CASE CheckFullBlock
  <2>1. FullBlock /\ check_next_input(full_block) /\ pc = "loop" /\ pc' = "loop"
        /\ input' = input /\ result' = result
    BY <1>2 DEF CheckFullBlock, FullBlock
  <2>2. /\ Holds(full_block, input, idx) /\ DOMAIN full_block = Offsets
        /\ idx' = idx + STEP_SIZE /\ idx' < Size(input)
    BY <2>1, FullBlockRead DEF IInv
  <2>3. PICK s, e, block :
          s \in ByteSeq /\ e \in Nat /\ s = input /\ e = idx /\ block = full_block
    BY <1>1
  <2>4. CheckerTypeOK' /\ CheckedUpTo(s, e + STEP_SIZE)'
    <3>1. /\ DOMAIN block = Offsets /\ Holds(block, s, e)
          /\ CheckerTypeOK /\ CheckedUpTo(s, e) /\ check_next_input(block)
      BY <2>1, <2>2, <2>3 DEF IInv
    <3> QED
      BY <2>3, <3>1, BlockStep
  <2>5. s = input' /\ e + STEP_SIZE = idx'
    BY <2>1, <2>2, <2>3
  <2>6. CheckedUpTo(input, idx)'
    BY <2>4, <2>5 DEF CheckedUpTo, Context
  <2>7. ReaderOK'
    BY <1>1, <2>1, <2>2, SizeMaxAssumption, InputType DEF IInv, ReaderOK
  <2>8. (idx <= Size(input))'
    BY <1>1, <2>1, <2>2
  <2> QED
    BY <2>1, <2>4, <2>6, <2>7, <2>8 DEF IInv
<1>3. CASE CheckRemainder
  <2>1. Remainder /\ check_next_input(get_remainder) /\ pc = "loop" /\ pc' = "eof"
        /\ input' = input /\ result' = result
    BY <1>3 DEF CheckRemainder, Remainder
  <2>2. /\ Holds(get_remainder, input, idx) /\ DOMAIN get_remainder = Offsets
        /\ idx' \in 0..SIZE_MAX /\ Size(input) <= idx + STEP_SIZE
    BY <2>1, RemainderRead DEF IInv
  <2>3. PICK s, e, block :
          s \in ByteSeq /\ e \in Nat /\ s = input /\ e = idx /\ block = get_remainder
    BY <1>1
  <2>4. CheckerTypeOK' /\ CheckedUpTo(s, e + STEP_SIZE)'
    <3>1. /\ DOMAIN block = Offsets /\ Holds(block, s, e)
          /\ CheckerTypeOK /\ CheckedUpTo(s, e) /\ check_next_input(block)
      BY <2>1, <2>2, <2>3 DEF IInv
    <3> QED
      BY <2>3, <3>1, BlockStep
  <2>5. error' = {} /\ prev_incomplete' = {} <=> WellFormed(s)
    <3>1. Clean(s, e + STEP_SIZE) /\ ~Open(s, e + STEP_SIZE) <=> WellFormed(s)
      <4>1. e + STEP_SIZE \in Nat /\ Size(s) <= e + STEP_SIZE
        BY <1>1, <2>2, <2>3
      <4> QED
        BY <2>3, <4>1, CleanToTheEnd
    <3> QED
      BY <2>4, <3>1 DEF CheckedUpTo, Context
  <2>6. ReaderOK'
    BY <2>1, <2>2 DEF IInv, ReaderOK
  <2> QED
    BY <2>1, <2>3, <2>4, <2>5, <2>6 DEF IInv
<1>4. CASE SkipRemainder
  <2>1. /\ pc = "loop" /\ pc' = "eof" /\ idx >= Size(input)
        /\ input' = input /\ idx' = idx /\ result' = result
        /\ error' = error /\ prev_input_block' = prev_input_block
        /\ prev_incomplete' = prev_incomplete /\ algorithm' = algorithm
    BY <1>1, <1>4 DEF SkipRemainder, NoRemainder, has_remainder, utf8_checker
  <2>2. error = {} /\ prev_incomplete = {} <=> WellFormed(input)
    <3>1. CheckedUpTo(input, idx)
      BY <2>1 DEF IInv
    <3>2. Clean(input, idx) /\ ~Open(input, idx) <=> WellFormed(input)
      BY <1>1, <2>1, CleanToTheEnd
    <3> QED
      BY <3>1, <3>2 DEF CheckedUpTo, Context
  <2>3. ReaderOK' /\ CheckerTypeOK'
    BY <2>1 DEF IInv, ReaderOK, CheckerTypeOK
  <2> QED
    BY <2>1, <2>2, <2>3 DEF IInv
<1>5. CASE CheckEof
  <2>1. /\ pc = "eof" /\ pc' = "returned" /\ result' = errors(error')
        /\ input' = input /\ idx' = idx /\ error' = error \cup prev_incomplete
        /\ prev_input_block' = prev_input_block
        /\ prev_incomplete' = prev_incomplete /\ algorithm' = algorithm
    BY <1>5 DEF CheckEof, check_eof, Return
  <2>2. result' \in {"SUCCESS", "UTF8_ERROR"} /\ (result' = "SUCCESS" <=> error' = {})
    BY <2>1 DEF errors
  <2>3. result' = "SUCCESS" <=> WellFormed(input)
    BY <2>1, <2>2 DEF IInv
  <2>4. ReaderOK' /\ CheckerTypeOK'
    BY <2>1, <2>2 DEF IInv, ReaderOK, CheckerTypeOK, error_code
  <2> QED
    BY <2>1, <2>3, <2>4 DEF IInv
<1>6. CASE UNCHANGED vars
  BY <1>6
  DEF IInv, vars, reader, utf8_checker, ReaderOK, CheckerTypeOK, CheckedUpTo, Context
<1> QED
  BY <1>2, <1>3, <1>4, <1>5, <1>6 DEF Next

(* and so it holds of every behaviour.                                     *)
LEMMA IInvHolds ==
  Spec => []IInv
<1> QED
  BY InitIInv, NextIInv, PTL DEF Spec

(* Every variable keeps its type, for any block and vector width.          *)
THEOREM TypeCorrect ==
  Spec => []TypeOK
<1>1. IInv => TypeOK
  <2> SUFFICES ASSUME IInv PROVE TypeOK
    OBVIOUS
  <2>1. input \in Seq(Byte)
    BY InputsAssumption DEF IInv, ReaderOK
  <2>2. prev_input_block \in [Lanes -> Byte]
    BY DEF IInv, CheckerTypeOK, Byte
  <2> QED
    BY <2>1, <2>2 DEF IInv, ReaderOK, CheckerTypeOK, TypeOK, ValidateTypeOK
<1> QED
  BY <1>1, IInvHolds, PTL

(* Whatever the input, a call that returns has decided the language:       *)
(* validate() answers SUCCESS for the well-formed inputs and no other.     *)
THEOREM VerdictIsCorrect ==
  Spec => []VerdictCorrect
<1>1. IInv => VerdictCorrect
  BY DEF IInv, VerdictCorrect
<1> QED
  BY <1>1, IInvHolds, PTL

(* At every block boundary, after however many ASCII blocks that did not   *)
(* refresh them, the saved vectors speak for the bytes just consumed.      *)
THEOREM ContextIsNeverStale ==
  Spec => []ContextIsCurrent
<1>1. IInv => ContextIsCurrent
  <2> SUFFICES ASSUME IInv, pc = "loop", error = {}
               PROVE  LET open == OpensCharacter(consumed(1), consumed(2), consumed(3))
                      IN  /\ prev_incomplete # {} <=> open
                          /\ \/ \A n \in 1..3 : prev_input_block[W - n] = consumed(n)
                             \/ /\ ~open
                                /\ ~OpensCharacter(prev_input_block[W - 1],
                                                   prev_input_block[W - 2],
                                                   prev_input_block[W - 3])
    BY DEF ContextIsCurrent
  <2>1. Context(input, idx) /\ idx <= Size(input) /\ idx \in Nat /\ Size(input) \in Nat
    BY InputType, SizeMaxAssumption DEF IInv, ReaderOK, CheckedUpTo
  <2>2. ASSUME NEW n \in 1..3
        PROVE  consumed(n) = ByteAt(input, idx - n)
    BY <2>1 DEF consumed, ByteAt
  <2>3. OpensCharacter(consumed(1), consumed(2), consumed(3)) <=> Open(input, idx)
    BY <2>2 DEF OpensCharacter, Open
  <2> QED
    BY <2>1, <2>2, <2>3 DEF Context
<1> QED
  BY <1>1, IInvHolds, PTL

(* The error vector is neither late nor hasty: between two blocks it is    *)
(* zero as long as some continuation would make the bytes consumed so far  *)
(* well formed, and no longer.                                             *)
THEOREM ErrorsAreExact ==
  Spec => []ErrorIsExact
<1>1. IInv => ErrorIsExact
  <2> SUFFICES ASSUME IInv, pc = "loop"
               PROVE  error = {} <=> WellFormedSoFar(SubSeq(input, 1, idx))
    BY DEF ErrorIsExact
  <2>1. input \in ByteSeq /\ idx \in Nat /\ idx <= Size(input)
    BY InputType, SizeMaxAssumption DEF IInv, ReaderOK
  <2>2. WellFormedSoFar(SubSeq(input, 1, idx)) <=> Clean(input, idx)
    BY <2>1, PrefixSoFar
  <2> QED
    BY <2>2 DEF IInv, CheckedUpTo
<1> QED
  BY <1>1, IInvHolds, PTL

(* The verdict is the one of the textbook definition of the language.      *)
THEOREM VerdictIsTextbook ==
  Spec => []VerdictDecodes
<1>1. IInv => VerdictDecodes
  BY InputType, DecodesIsWellFormed DEF IInv, ReaderOK, VerdictDecodes
<1> QED
  BY <1>1, IInvHolds, PTL

(* A byte that demands something of the block at position p is the one of  *)
(* the text: of bytes that are older than the last ones none does.         *)
LEMMA LeadsOfBlock ==
  ASSUME NEW s \in ByteSeq, NEW e \in Nat, NEW block, NEW p \in Offsets,
         CheckerTypeOK, Context(s, e), Holds(block, s, e), NEW n \in 1..3,
         (IF p >= n THEN block[p - n] ELSE prev_input_block[W + p - n])
            >= << 192, 224, 240 >>[n]
  PROVE  ByteAt(s, (e + p) - n) >= << 192, 224, 240 >>[n]
<1>1. W \in Nat /\ W >= 3 /\ p \in Nat /\ p < STEP_SIZE /\ STEP_SIZE \in Nat
  BY WidthAssumption, Positions DEF Offsets
<1>2. CASE p >= n
  <2>1. p - n \in Offsets /\ e + (p - n) = (e + p) - n
    BY <1>1, <1>2 DEF Offsets
  <2> QED
    BY <1>2, <2>1 DEF Holds
<1>3. CASE p < n
  <2>1. W + p - n = W - (n - p) /\ n - p \in 1..3 /\ (e + p) - n = e - (n - p)
    BY <1>1, <1>3
  <2>2. prev_input_block[W - (n - p)] >= << 192, 224, 240 >>[n]
    BY <1>1, <1>3, <2>1
  <2>3. CASE \A m \in 1..3 : prev_input_block[W - m] = ByteAt(s, e - m)
    BY <2>1, <2>2, <2>3
  <2>4. CASE ~OpensCharacter(prev_input_block[W - 1], prev_input_block[W - 2],
                             prev_input_block[W - 3])
    <3>1. W - 1 \in Lanes /\ W - 2 \in Lanes /\ W - 3 \in Lanes
      BY <1>1 DEF Lanes
    <3>2. /\ prev_input_block[W - 1] \in 0..191
          /\ prev_input_block[W - 2] \in 0..223
          /\ prev_input_block[W - 3] \in 0..239
      BY <2>4, <3>1 DEF OpensCharacter, CheckerTypeOK
    <3>3. \/ n - p = 1 /\ n \in 1..3
          \/ n - p = 2 /\ n \in 2..3
          \/ n - p = 3 /\ n = 3
      BY <1>1, <1>3, <2>1
    <3> QED
      BY <2>2, <3>2, <3>3
  <2> QED
    BY <2>3, <2>4 DEF Context
<1> QED
  BY <1>1, <1>2, <1>3

(* Where two leads demand the same lane, an earlier lane is in error: the  *)
(* ^ of the lead masks may cancel there and no error is lost.              *)
THEOREM OverlapIsCaught ==
  Spec => []OverlapCaughtElsewhere
<1>1. IInv => OverlapCaughtElsewhere
  <2> SUFFICES ASSUME IInv, pc = "loop", has_remainder, error = {},
                      NEW block,
                      block = IF has_full_block THEN full_block ELSE get_remainder,
                      NEW p \in Offsets, OverlappingLeads(block, p),
                      check_chunks(block) = {}
               PROVE  FALSE
    BY DEF OverlapCaughtElsewhere
  <2>1. input \in ByteSeq /\ idx \in Nat /\ CheckerTypeOK
        /\ Clean(input, idx) /\ Context(input, idx)
    BY InputType, SizeMaxAssumption DEF IInv, ReaderOK, CheckedUpTo
  <2>2. Holds(block, input, idx)
    BY FullBlockHolds, RemainderHolds DEF IInv
  <2> DEFINE j == idx + p
  <2>3. STEP_SIZE \in Nat /\ p \in Nat /\ p < STEP_SIZE
    BY Positions DEF Offsets
  <2>4. Clean(input, j)
    <3>1. Clean(input, idx + STEP_SIZE)
      BY <2>1, <2>2, BlockErrors
    <3> QED
      BY <2>1, <2>3, <3>1 DEF Clean
  <2>5. PICK m \in 1..3, n \in 1..3 :
          /\ m < n
          /\ (IF p >= m THEN block[p - m] ELSE prev_input_block[W + p - m])
               >= << 192, 224, 240 >>[m]
          /\ (IF p >= n THEN block[p - n] ELSE prev_input_block[W + p - n])
               >= << 192, 224, 240 >>[n]
    BY DEF OverlappingLeads
  <2>6. /\ ByteAt(input, j - m) >= << 192, 224, 240 >>[m]
        /\ ByteAt(input, j - n) >= << 192, 224, 240 >>[n]
    BY <2>1, <2>2, <2>5, LeadsOfBlock
  <2>7. j \in Nat
    BY <2>1, <2>3
  <2>8. /\ ByteAt(input, j - 1) >= 192 => /\ ByteAt(input, j - 2) < 192
                                          /\ ByteAt(input, j - 3) < 224
        /\ ByteAt(input, j - 2) >= 224 => /\ ByteAt(input, j - 1) \in Continuation
                                          /\ ByteAt(input, j - 3) < 192
    BY <2>1, <2>4, <2>7, BehindClean
  <2>9. \A k \in 1..3 : ByteAt(input, j - k) \in 0..255
    BY <2>1, <2>7, ByteAtType
  <2>10. (m = 1 /\ n = 2) \/ (m = 1 /\ n = 3) \/ (m = 2 /\ n = 3)
    BY <2>5
  <2> HIDE DEF j
  <2> QED
    BY <2>6, <2>8, <2>9, <2>10
<1> QED
  BY <1>1, IInvHolds, PTL

(* The call is one step of the abstract specification: the checker's work  *)
(* is invisible, and the step that returns answers Verdict(input).         *)
THEOREM RefinesValidation ==
  Spec => Abs!Init /\ [][Abs!Return]_<<input, result>>
<1>1. Init => Abs!Init
  <2> SUFFICES ASSUME Init PROVE Abs!Init
    OBVIOUS
  <2>1. input \in Seq(Byte) /\ result = "none"
    BY InputsAssumption DEF Init, ValidateInit
  <2> QED
    BY <2>1 DEF Abs!Init, Abs!Byte, Byte
<1>2. IInv /\ IInv' /\ [Next]_vars => [Abs!Return]_<<input, result>>
  <2> SUFFICES ASSUME IInv, IInv', [Next]_vars
               PROVE  Abs!Return \/ UNCHANGED <<input, result>>
    OBVIOUS
  <2>1. CASE CheckEof
    <3>1. /\ pc = "eof" /\ pc' = "returned" /\ input' = input
          /\ result' = errors(error')
      BY <2>1 DEF CheckEof, Return
    <3>2. result = "none"
      BY <3>1 DEF IInv, ReaderOK
    <3>3. result' \in {"SUCCESS", "UTF8_ERROR"}
      BY <3>1 DEF errors
    <3>4. result' = "SUCCESS" <=> WellFormed(input)
      BY <3>1 DEF IInv
    <3>5. Abs!WellFormed(input) <=> WellFormed(input)
      BY DEF Abs!WellFormed, WellFormed, Abs!LegalChar, LegalChar, Abs!SecondBytes,
             SecondBytes, Abs!Ascii, Ascii, Abs!Continuation, Continuation,
             Abs!Lead2, Lead2, Abs!Lead3, Lead3, Abs!Lead4, Lead4
    <3> QED
      BY <3>1, <3>2, <3>3, <3>4, <3>5 DEF Abs!Return, Abs!Verdict
  <2>2. CASE CheckFullBlock
    BY <2>2 DEF CheckFullBlock, FullBlock
  <2>3. CASE CheckRemainder
    BY <2>3 DEF CheckRemainder, Remainder
  <2>4. CASE SkipRemainder
    BY <2>4 DEF SkipRemainder, NoRemainder
  <2>5. CASE UNCHANGED vars
    BY <2>5 DEF vars, reader
  <2> QED
    BY <2>1, <2>2, <2>3, <2>4, <2>5 DEF Next
<1> QED
  BY <1>1, <1>2, IInvHolds, PTL DEF Spec
=============================================================================
