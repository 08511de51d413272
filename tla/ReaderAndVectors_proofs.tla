----------------------- MODULE ReaderAndVectors_proofs -----------------------
(***************************************************************************)
(* Proofs about the two layers under every vector checker.                 *)
(*                                                                         *)
(* The reader and the template (Delivery), for every block size, every     *)
(* size_t that holds a block, and every input that fits it.  The inductive *)
(* invariant adds to DeliveredInOrder what its words leave out: that the   *)
(* history is one byte longer for each place of the cursor, and whole      *)
(* blocks long.  CopiesInBounds is not inductive by itself: it rests on    *)
(* the cursor never having passed the end.                                 *)
(*                                                                         *)
(* The registers of the targets (SimdTargets), for every pair of blocks,   *)
(* every set of operations and tables, and any number of operations.  An   *)
(* instruction is first reduced to what it does to one byte of a register, *)
(* then the registers are laid side by side (Flat), and the operation of a *)
(* target is shown to be that of Vector64 byte by byte.                    *)
(***************************************************************************)
EXTENDS Delivery, SimdTargets, Utf8Local

(* block holds the bytes of s from position e on.                          *)
Holds(block, s, e) == \A k \in Offsets : block[k] = ByteAt(s, e + k)

(* The type of a buffer.                                                   *)
LEMMA InputType ==
  ASSUME input \in Inputs
  PROVE  /\ input \in ByteSeq
         /\ Size(input) \in Nat
         /\ Size(input) <= SIZE_MAX
         /\ len = Size(input)
<1>1. input \in ByteSeq /\ Size(input) <= SIZE_MAX /\ len = Size(input)
  BY InputsAssumption DEF ByteSeq, Size, len
<1> QED
  BY <1>1, SizeType

(* What size_t keeps.                                                      *)
LEMMA SizeT ==
  /\ \A n \in Nat : size_t(n) \in 0..SIZE_MAX
  /\ \A n \in 0..SIZE_MAX : size_t(n) = n
  BY SizeMaxAssumption DEF size_t

(* The types of the reader and of the template around it.                  *)
ReaderOK ==
  /\ input \in Inputs
  /\ idx \in 0..SIZE_MAX
  /\ pc \in {"loop", "eof", "returned"}
  /\ result \in error_code \cup {"none"}
  /\ result # "none" <=> pc = "returned"

(* A full block lies in the input,                                         *)
LEMMA FullBlockHolds ==
  ASSUME ReaderOK, has_full_block
  PROVE  /\ Holds(full_block, input, idx)
         /\ DOMAIN full_block = Offsets
         /\ idx + STEP_SIZE < Size(input)
<1>1. /\ Size(input) \in Nat /\ len = Size(input)
      /\ idx \in Nat /\ STEP_SIZE \in Nat
  BY InputType, StepSizeAssumption, SizeMaxAssumption DEF ReaderOK
<1>2. idx + STEP_SIZE < Size(input)
  BY <1>1 DEF has_full_block, lenminusstep
<1>3. ASSUME NEW k \in Offsets
      PROVE  full_block[k] = ByteAt(input, idx + k)
  <2>1. k \in Nat /\ k < STEP_SIZE
    BY <1>1 DEF Offsets
  <2> QED
    BY <1>1, <1>2, <2>1 DEF full_block, ByteAt
<1> QED
  BY <1>2, <1>3 DEF Holds, full_block

(* and the copy of the remainder is padded as ByteAt is.                   *)
LEMMA RemainderHolds ==
  ASSUME ReaderOK
  PROVE  /\ Holds(get_remainder, input, idx)
         /\ DOMAIN get_remainder = Offsets
<1>1. /\ Size(input) \in Nat /\ len = Size(input)
      /\ idx \in Nat /\ STEP_SIZE \in Nat
  BY InputType, StepSizeAssumption, SizeMaxAssumption DEF ReaderOK
<1>2. ASSUME NEW k \in Offsets
      PROVE  get_remainder[k] = ByteAt(input, idx + k)
  <2>1. k \in Nat
    BY <1>1 DEF Offsets
  <2> QED
    BY <1>1, <2>1 DEF get_remainder, ByteAt, SPACE
<1> QED
  BY <1>2 DEF Holds, get_remainder

(* While the loop runs the cursor does not wrap.                           *)
LEMMA FullBlockRead ==
  ASSUME ReaderOK, FullBlock
  PROVE  /\ Holds(full_block, input, idx)
         /\ DOMAIN full_block = Offsets
         /\ idx' = idx + STEP_SIZE
         /\ idx' < Size(input)
<1>1. /\ Size(input) \in Nat /\ Size(input) <= SIZE_MAX
      /\ idx \in Nat /\ STEP_SIZE \in Nat /\ SIZE_MAX \in Nat
  BY InputType, StepSizeAssumption, SizeMaxAssumption DEF ReaderOK
<1>2. /\ Holds(full_block, input, idx)
      /\ DOMAIN full_block = Offsets
      /\ idx + STEP_SIZE < Size(input)
  BY FullBlockHolds DEF FullBlock
<1>3. idx' = idx + STEP_SIZE
  <2>1. idx + STEP_SIZE \in 0..SIZE_MAX
    BY <1>1, <1>2
  <2> QED
    BY <2>1, SizeT DEF FullBlock, advance
<1> QED
  BY <1>2, <1>3

(* The padded remainder, and where it leaves the cursor.                   *)
LEMMA RemainderRead ==
  ASSUME ReaderOK, Remainder
  PROVE  /\ Holds(get_remainder, input, idx)
         /\ DOMAIN get_remainder = Offsets
         /\ idx' \in 0..SIZE_MAX
         /\ Size(input) <= idx + STEP_SIZE
<1>1. /\ Size(input) \in Nat /\ len = Size(input)
      /\ idx \in Nat /\ STEP_SIZE \in Nat
  BY InputType, StepSizeAssumption, SizeMaxAssumption DEF ReaderOK
<1>2. Size(input) <= idx + STEP_SIZE
  BY <1>1 DEF Remainder, has_full_block, lenminusstep
<1>3. idx' \in 0..SIZE_MAX
  BY <1>1, SizeT DEF Remainder, advance
<1> QED
  BY <1>2, <1>3, RemainderHolds

IInv ==
  /\ ReaderOK
  /\ delivered \in Seq(Byte)
  /\ \E n \in Nat : Len(delivered) = n * STEP_SIZE
  /\ \A i \in 1..Len(delivered) : delivered[i] = ByteAt(input, i - 1)
  /\ pc = "loop" => Len(delivered) = idx /\ idx <= len
  /\ pc # "loop" => len <= Len(delivered) /\ Len(delivered) < len + STEP_SIZE
-----------------------------------------------------------------------------
(* Another block in the record.                                            *)
LEMMA RecordStep ==
  ASSUME NEW block, NEW s \in ByteSeq, delivered \in Seq(Byte),
         Holds(block, s, Len(delivered)), Record(block),
         \A i \in 1..Len(delivered) : delivered[i] = ByteAt(s, i - 1)
  PROVE  /\ delivered' \in Seq(Byte)
         /\ Len(delivered') = Len(delivered) + STEP_SIZE
         /\ \A i \in 1..Len(delivered') : delivered'[i] = ByteAt(s, i - 1)
<1> DEFINE n == Len(delivered)
           more == [i \in 1..STEP_SIZE |-> block[i - 1]]
<1>1. n \in Nat /\ STEP_SIZE \in Nat
  BY LenProperties, StepSizeAssumption
<1>2. ASSUME NEW i \in 1..STEP_SIZE
      PROVE  more[i] = ByteAt(s, n + (i - 1)) /\ more[i] \in Byte
  <2>1. i - 1 \in Offsets /\ n + (i - 1) \in Int
    BY <1>1 DEF Offsets
  <2>2. ByteAt(s, n + (i - 1)) \in Byte
    BY <2>1, ByteAtType DEF Byte
  <2> QED
    BY <2>1, <2>2 DEF Holds
<1>3. more \in Seq(Byte) /\ Len(more) = STEP_SIZE
  BY <1>1, <1>2, IsASeq
<1>4. /\ delivered' \in Seq(Byte) /\ Len(delivered') = n + STEP_SIZE
      /\ \A i \in 1..(n + STEP_SIZE) :
           delivered'[i] = IF i <= n THEN delivered[i] ELSE more[i - n]
  <2>1. delivered' = delivered \o more
    BY DEF Record
  <2> HIDE DEF more
  <2> QED
    BY <1>3, <2>1, ConcatProperties
<1>5. \A i \in 1..n : delivered[i] = ByteAt(s, i - 1)
  OBVIOUS
<1> HIDE DEF more, n
<1>6. ASSUME NEW i \in 1..(n + STEP_SIZE)
      PROVE  delivered'[i] = ByteAt(s, i - 1)
  <2>1. CASE i <= n
    BY <1>1, <1>4, <1>5, <2>1
  <2>2. CASE i > n
    <3>1. i - n \in 1..STEP_SIZE /\ n + ((i - n) - 1) = i - 1
      BY <1>1, <2>2
    <3>2. more[i - n] = ByteAt(s, i - 1)
      BY <1>2, <3>1
    <3> QED
      BY <1>1, <1>4, <2>2, <3>2
  <2> QED
    BY <1>1, <2>1, <2>2
<1> QED
  BY <1>4, <1>6 DEF n

(* A block more keeps the record whole blocks long.                        *)
LEMMA WholeBlocks ==
  ASSUME NEW l, NEW n \in Nat, l = n * STEP_SIZE
  PROVE  n + 1 \in Nat /\ l + STEP_SIZE = (n + 1) * STEP_SIZE
  BY StepSizeAssumption
-----------------------------------------------------------------------------
(* Nothing is delivered yet,                                               *)
LEMMA InitIInv ==
  Init => IInv
<1> SUFFICES ASSUME Init PROVE IInv
  OBVIOUS
<1>1. ReaderOK /\ idx = 0 /\ pc = "loop" /\ delivered = <<>>
  BY SizeMaxAssumption DEF Init, ValidateInit, ReaderOK, error_code
<1>2. len \in Nat
  BY <1>1, InputType DEF ReaderOK
<1>3. 0 = 0 * STEP_SIZE
  BY StepSizeAssumption
<1> QED
  BY <1>1, <1>2, <1>3 DEF IInv

(* and each step delivers what it should.                                  *)
LEMMA NextIInv ==
  IInv /\ [Next]_vars => IInv'
<1> SUFFICES ASSUME IInv, [Next]_vars PROVE IInv'
  OBVIOUS
<1>1. /\ input \in ByteSeq /\ Size(input) \in Nat /\ len = Size(input)
      /\ idx \in Nat /\ STEP_SIZE \in Nat /\ STEP_SIZE > 0
      /\ Len(delivered) \in Nat
  BY InputType, SizeMaxAssumption, StepSizeAssumption, LenProperties
  DEF IInv, ReaderOK
<1>2. PICK n \in Nat : Len(delivered) = n * STEP_SIZE
  BY DEF IInv
<1>3. CASE RecordFullBlock
  <2>1. /\ FullBlock /\ Record(full_block) /\ pc = "loop" /\ pc' = "loop"
        /\ input' = input /\ result' = result /\ len' = len
    BY <1>3 DEF RecordFullBlock, FullBlock, len
  <2>2. /\ Holds(full_block, input, idx)
        /\ idx' = idx + STEP_SIZE /\ idx' < len
    BY <1>1, <2>1, FullBlockRead DEF IInv
  <2>3. Len(delivered) = idx
    BY <2>1 DEF IInv
  <2>4. /\ delivered' \in Seq(Byte)
        /\ Len(delivered') = Len(delivered) + STEP_SIZE
        /\ \A i \in 1..Len(delivered') : delivered'[i] = ByteAt(input, i - 1)
    BY <1>1, <2>1, <2>2, <2>3, RecordStep DEF IInv
  <2>5. ReaderOK'
    BY <1>1, <2>1, <2>2, InputType, SizeMaxAssumption DEF IInv, ReaderOK
  <2>6. \E m \in Nat : Len(delivered') = m * STEP_SIZE
    BY <1>2, <2>4, WholeBlocks
  <2>7. Len(delivered') = idx' /\ idx' <= len'
    BY <1>1, <2>1, <2>2, <2>3, <2>4
  <2> QED
    BY <2>1, <2>4, <2>5, <2>6, <2>7 DEF IInv
<1>4. CASE RecordRemainder
  <2>1. /\ Remainder /\ Record(get_remainder) /\ pc = "loop" /\ pc' = "eof"
        /\ idx < len /\ input' = input /\ result' = result /\ len' = len
    BY <1>4 DEF RecordRemainder, Remainder, has_remainder, len
  <2>2. /\ Holds(get_remainder, input, idx)
        /\ idx' \in 0..SIZE_MAX /\ len <= idx + STEP_SIZE
    BY <1>1, <2>1, RemainderRead DEF IInv
  <2>3. Len(delivered) = idx
    BY <2>1 DEF IInv
  <2>4. /\ delivered' \in Seq(Byte)
        /\ Len(delivered') = Len(delivered) + STEP_SIZE
        /\ \A i \in 1..Len(delivered') : delivered'[i] = ByteAt(input, i - 1)
    BY <1>1, <2>1, <2>2, <2>3, RecordStep DEF IInv
  <2>5. ReaderOK'
    BY <2>1, <2>2 DEF IInv, ReaderOK
  <2>6. len <= Len(delivered') /\ Len(delivered') < len + STEP_SIZE
    BY <1>1, <2>1, <2>2, <2>3, <2>4
  <2>7. \E m \in Nat : Len(delivered') = m * STEP_SIZE
    BY <1>2, <2>4, WholeBlocks
  <2> QED
    BY <1>1, <2>1, <2>4, <2>5, <2>6, <2>7 DEF IInv
<1>5. CASE SkipRemainder
  <2>1. /\ pc = "loop" /\ pc' = "eof" /\ idx >= len
        /\ UNCHANGED <<input, idx, result, delivered>> /\ len' = len
    BY <1>1, <1>5 DEF SkipRemainder, NoRemainder, has_remainder, len
  <2>2. Len(delivered) = len
    BY <1>1, <2>1 DEF IInv
  <2> QED
    BY <1>1, <2>1, <2>2 DEF IInv, ReaderOK
<1>6. CASE RecordEof
  <2>1. /\ pc = "eof" /\ pc' = "returned" /\ result' = "SUCCESS"
        /\ UNCHANGED <<input, idx, delivered>> /\ len' = len
    BY <1>6 DEF RecordEof, Return, len
  <2> QED
    BY <2>1 DEF IInv, ReaderOK, error_code
<1>7. CASE UNCHANGED vars
  BY <1>7 DEF IInv, vars, reader, ReaderOK, len
<1> QED
  BY <1>3, <1>4, <1>5, <1>6, <1>7 DEF Next

(* So it holds of every behaviour.                                         *)
LEMMA IInvHolds ==
  Spec => []IInv
  BY InitIInv, NextIInv, PTL DEF Spec
-----------------------------------------------------------------------------
(* The control state of the template keeps its type, and the checker is    *)
(* fed a whole number of blocks.                                           *)
THEOREM TypeCorrect ==
  Spec => []TypeOK
<1>1. IInv => TypeOK
  <2> SUFFICES ASSUME IInv PROVE TypeOK
    OBVIOUS
  <2>1. input \in Seq(Byte)
    BY InputType DEF IInv, ReaderOK, ByteSeq
  <2>2. PICK n \in Nat : Len(delivered) = n * STEP_SIZE
    BY DEF IInv
  <2>3. n <= n * STEP_SIZE
    BY StepSizeAssumption
  <2>4. n \in 0..Len(delivered)
    BY <2>2, <2>3
  <2> QED
    BY <2>1, <2>2, <2>4 DEF IInv, ReaderOK, TypeOK, ValidateTypeOK
<1> QED
  BY <1>1, IInvHolds, PTL

(* Whatever the sizes, a full block lies inside the input and the          *)
(* remainder fits the block it is copied to.                               *)
THEOREM CopiesStayInBounds ==
  Spec => []CopiesInBounds
<1>1. IInv => CopiesInBounds
  <2> SUFFICES ASSUME IInv, pc = "loop"
               PROVE  /\ has_full_block => idx + STEP_SIZE <= len
                      /\ ~has_full_block => idx <= len /\ len - idx <= STEP_SIZE
    BY DEF CopiesInBounds
  <2>1. len \in Nat /\ idx \in Nat /\ STEP_SIZE \in Nat /\ idx <= len
    BY InputType, SizeMaxAssumption, StepSizeAssumption DEF IInv, ReaderOK
  <2> QED
    BY <2>1 DEF has_full_block, lenminusstep
<1> QED
  BY <1>1, IInvHolds, PTL

(* Whatever the sizes, each byte is delivered once and in order, and       *)
(* spaces, fewer than a block of them, are all that follows.               *)
THEOREM DeliveryIsInOrder ==
  Spec => []DeliveredInOrder
<1>1. IInv => DeliveredInOrder
  <2> SUFFICES ASSUME IInv PROVE DeliveredInOrder
    OBVIOUS
  <2>1. len = Size(input) /\ len \in Nat /\ Len(delivered) \in Nat
    BY InputType, LenProperties DEF IInv, ReaderOK
  <2>2. ASSUME NEW i \in 1..Len(delivered)
        PROVE  delivered[i] = IF i <= len THEN input[i] ELSE SPACE
    <3>1. delivered[i] = ByteAt(input, i - 1)
      BY DEF IInv
    <3>2. ~(i - 1 < 0) /\ (i - 1) + 1 = i /\ (i - 1 < len <=> i <= len)
      BY <2>1
    <3> QED
      BY <2>1, <3>1, <3>2 DEF ByteAt, SPACE
  <2> QED
    BY <2>2 DEF IInv, DeliveredInOrder
<1> QED
  BY <1>1, IInvHolds, PTL

(* While blocks are left to read the cursor grows: it may wrap only in     *)
(* the advance() behind the remainder, for any width of size_t.            *)
THEOREM CursorOnlyGrows ==
  Spec => CursorGrows
<1>1. IInv /\ [Next]_vars => [pc' = "loop" => idx' > idx]_vars
  <2> SUFFICES ASSUME IInv, Next, pc' = "loop" PROVE idx' > idx
    OBVIOUS
  <2>1. FullBlock
    BY DEF Next, RecordFullBlock, RecordRemainder, Remainder, SkipRemainder,
           NoRemainder, RecordEof, Return
  <2>2. idx' = idx + STEP_SIZE
    BY <2>1, FullBlockRead DEF IInv
  <2> QED
    BY <2>2, StepSizeAssumption, SizeMaxAssumption DEF IInv, ReaderOK
<1> QED
  BY <1>1, IInvHolds, PTL DEF Spec, CursorGrows
-----------------------------------------------------------------------------
I == INSTANCE Intrinsics

Octet == 0..255

(* Bit i of a byte.                                                        *)
LEMMA PowersOfTwo ==
  /\ 2^0 = 1 /\ 2^1 = 2 /\ 2^2 = 4 /\ 2^3 = 8
  /\ 2^4 = 16 /\ 2^5 = 32 /\ 2^6 = 64 /\ 2^7 = 128
  OBVIOUS

LEMMA BitsOfByte ==
  ASSUME NEW x \in Octet
  PROVE  /\ I!Bit[x] \in SUBSET (0..7)
         /\ 0 \in I!Bit[x] <=> x % 2 = 1
         /\ 1 \in I!Bit[x] <=> (x \div 2) % 2 = 1
         /\ 2 \in I!Bit[x] <=> (x \div 4) % 2 = 1
         /\ 3 \in I!Bit[x] <=> (x \div 8) % 2 = 1
         /\ 4 \in I!Bit[x] <=> (x \div 16) % 2 = 1
         /\ 5 \in I!Bit[x] <=> (x \div 32) % 2 = 1
         /\ 6 \in I!Bit[x] <=> (x \div 64) % 2 = 1
         /\ 7 \in I!Bit[x] <=> (x \div 128) % 2 = 1
<1>1. I!Bit[x] = {i \in 0..7 : (x \div 2^i) % 2 = 1}
  BY DEF I!Bit, Octet
<1>2. x \div 1 = x
  BY DEF Octet
<1> QED
  BY <1>1, <1>2, PowersOfTwo

(* The weight of a bit in a byte.                                          *)
weight(B, i, w) == IF i \in B THEN w ELSE 0

LEMMA ByteOfBits ==
  ASSUME NEW B \in SUBSET (0..7)
  PROVE  I!ByteOf[B] = weight(B, 0, 1) + weight(B, 1, 2) + weight(B, 2, 4)
           + weight(B, 3, 8) + weight(B, 4, 16) + weight(B, 5, 32)
           + weight(B, 6, 64) + weight(B, 7, 128)
  BY PowersOfTwo DEF I!ByteOf, weight
LEMMA ByteOfRange ==
  ASSUME NEW B \in SUBSET (0..7)
  PROVE  /\ I!ByteOf[B] \in Octet
         /\ I!ByteOf[B] = 0 <=> B = {}
         /\ I!ByteOf[B] >= 128 <=> 7 \in B
<1>1. B = {} <=> \A i \in 0..7 : i \notin B
  OBVIOUS
<1>2. \A i \in 0..7 : i \in {0, 1, 2, 3, 4, 5, 6, 7}
  OBVIOUS
<1>3. B = {} <=> /\ 0 \notin B /\ 1 \notin B /\ 2 \notin B /\ 3 \notin B
                 /\ 4 \notin B /\ 5 \notin B /\ 6 \notin B /\ 7 \notin B
  BY <1>1, <1>2
<1> QED
  BY <1>3, ByteOfBits DEF weight, Octet

LEMMA BitsNone ==
  ASSUME NEW x \in Octet
  PROVE  /\ I!Bit[x] = {} <=> x = 0
         /\ 7 \in I!Bit[x] <=> x >= 128
<1>1. 7 \in I!Bit[x] <=> x >= 128
  <2>1. 7 \in I!Bit[x] <=> (x \div 128) % 2 = 1
    BY BitsOfByte
  <2>2. CASE x >= 128
    <3>1. x \div 128 = 1
      BY <2>2 DEF Octet
    <3> QED
      BY <2>1, <2>2, <3>1
  <2>3. CASE ~ (x >= 128)
    <3>1. x \div 128 = 0
      BY <2>3 DEF Octet
    <3> QED
      BY <2>1, <2>3, <3>1
  <2> QED
    BY <2>2, <2>3
<1>2. I!Bit[x] = {} => x = 0
  <2>1. SUFFICES ASSUME I!Bit[x] = {} PROVE x = 0
    OBVIOUS
  <2>2. /\ x % 2 # 1 /\ (x \div 2) % 2 # 1 /\ (x \div 4) % 2 # 1
        /\ (x \div 8) % 2 # 1 /\ (x \div 16) % 2 # 1 /\ (x \div 32) % 2 # 1
        /\ (x \div 64) % 2 # 1 /\ (x \div 128) % 2 # 1
    BY <2>1, BitsOfByte
  <2> QED
    BY <2>2 DEF Octet
<1>3. x = 0 => I!Bit[x] = {}
  <2>1. x = 0 => \A i \in {0, 1, 2, 3, 4, 5, 6, 7} : i \notin I!Bit[x]
    BY BitsOfByte
  <2>2. 0..7 = {0, 1, 2, 3, 4, 5, 6, 7}
    OBVIOUS
  <2>3. I!Bit[x] \subseteq 0..7
    BY BitsOfByte
  <2> QED
    BY <2>1, <2>2, <2>3
<1> QED
  BY <1>1, <1>2, <1>3

(* What the operations on bits do with the operands that they are given.   *)
AndBits(x, y) == I!ByteOf[I!Bit[x] \cap I!Bit[y]]
OrBits(x, y) == I!ByteOf[I!Bit[x] \cup I!Bit[y]]
XorBits(x, y) == I!ByteOf[(I!Bit[x] \ I!Bit[y]) \cup (I!Bit[y] \ I!Bit[x])]

LEMMA OrByte ==
  ASSUME NEW x \in Octet, NEW y \in Octet
  PROVE  /\ OrBits(x, y) \in Octet
         /\ OrBits(x, y) = 0 <=> x = 0 /\ y = 0
         /\ OrBits(x, y) >= 128 <=> x >= 128 \/ y >= 128
<1> DEFINE B == I!Bit[x] \cup I!Bit[y]
<1>1. B \in SUBSET (0..7)
  BY BitsOfByte
<1>2. B = {} <=> x = 0 /\ y = 0
  BY BitsNone
<1>3. 7 \in B <=> x >= 128 \/ y >= 128
  BY BitsNone
<1> HIDE DEF B
<1>4. /\ I!ByteOf[B] \in Octet
      /\ I!ByteOf[B] = 0 <=> x = 0 /\ y = 0
      /\ I!ByteOf[B] >= 128 <=> x >= 128 \/ y >= 128
  BY <1>1, <1>2, <1>3, ByteOfRange
<1> QED
  BY <1>4 DEF B, OrBits

LEMMA BitsOfMasks ==
  /\ I!Bit[255] = 0..7
  /\ I!Bit[0] = {}
  /\ I!Bit[15] = 0..3
  /\ I!Bit[128] = {7}
<1>1. 255 \in Octet /\ 0 \in Octet /\ 15 \in Octet /\ 128 \in Octet
  BY DEF Octet
<1>2. 0..7 = {0, 1, 2, 3, 4, 5, 6, 7} /\ 0..3 = {0, 1, 2, 3}
  OBVIOUS
<1>3. I!Bit[255] = {0, 1, 2, 3, 4, 5, 6, 7}
  <2>1. \A i \in {0, 1, 2, 3, 4, 5, 6, 7} : i \in I!Bit[255]
    BY <1>1, BitsOfByte
  <2> QED
    BY <1>1, <1>2, <2>1, BitsOfByte
<1>4. I!Bit[15] = {0, 1, 2, 3}
  <2>1. \A i \in {0, 1, 2, 3, 4, 5, 6, 7} : i \in I!Bit[15] <=> i \in {0, 1, 2, 3}
    BY <1>1, BitsOfByte
  <2> QED
    BY <1>1, <1>2, <2>1, BitsOfByte
<1>5. I!Bit[128] = {7}
  <2>1. \A i \in {0, 1, 2, 3, 4, 5, 6, 7} : i \in I!Bit[128] <=> i = 7
    BY <1>1, BitsOfByte
  <2> QED
    BY <1>1, <1>2, <2>1, BitsOfByte
<1>6. I!Bit[0] = {}
  BY <1>1, BitsNone
<1> QED
  BY <1>2, <1>3, <1>4, <1>5, <1>6

LEMMA AndFifteen ==
  ASSUME NEW x \in Octet
  PROVE  AndBits(x, 15) = x % 16
<1> DEFINE B == I!Bit[x] \cap I!Bit[15]
<1>1. B \in SUBSET (0..7)
  BY BitsOfByte
<1>2. /\ 0 \in B <=> x % 2 = 1
      /\ 1 \in B <=> (x \div 2) % 2 = 1
      /\ 2 \in B <=> (x \div 4) % 2 = 1
      /\ 3 \in B <=> (x \div 8) % 2 = 1
      /\ 4 \notin B /\ 5 \notin B /\ 6 \notin B /\ 7 \notin B
  BY BitsOfByte, BitsOfMasks
<1> HIDE DEF B
<1>3. I!ByteOf[B] = (IF x % 2 = 1 THEN 1 ELSE 0) + (IF (x \div 2) % 2 = 1 THEN 2 ELSE 0)
        + (IF (x \div 4) % 2 = 1 THEN 4 ELSE 0) + (IF (x \div 8) % 2 = 1 THEN 8 ELSE 0)
  BY <1>1, <1>2, ByteOfBits DEF weight
<1>4. I!ByteOf[B] = x % 16
  BY <1>3 DEF Octet
<1> QED
  BY <1>4 DEF B, AndBits

LEMMA HighBit ==
  ASSUME NEW x \in Octet
  PROVE  I!Bit[x] \cap I!Bit[128] = {} <=> x < 128
<1>1. x \in Int
  BY DEF Octet
<1> QED
  BY <1>1, BitsNone, BitsOfMasks

LEMMA XorMasks ==
  ASSUME NEW x \in {0, 255}, NEW y \in {0, 255}
  PROVE  XorBits(x, y) = IF x = y THEN 0 ELSE 255
<1> DEFINE B == (I!Bit[x] \ I!Bit[y]) \cup (I!Bit[y] \ I!Bit[x])
<1>1. CASE x = y
  <2>1. B = {}
    BY <1>1
  <2>2. I!ByteOf[{}] = 0
    BY ByteOfRange
  <2> QED
    BY <1>1, <2>1, <2>2 DEF XorBits
<1>2. CASE x # y
  <2>1. B = 0..7
    BY <1>2, BitsOfMasks
  <2>2. 0..7 \in SUBSET (0..7)
    OBVIOUS
  <2>3. I!ByteOf[0..7] = 255
    BY <2>2, ByteOfBits DEF weight
  <2> QED
    BY <1>2, <2>1, <2>3 DEF XorBits
<1> QED
  BY <1>1, <1>2

LEMMA BitsOfByteOf ==
  ASSUME NEW B \in SUBSET (0..7)
  PROVE  I!Bit[I!ByteOf[B]] = B
<1> DEFINE x == I!ByteOf[B]
<1>1. x \in Octet
  BY ByteOfRange
<1>2. PICK w0 \in {0, 1}, w1 \in {0, 1}, w2 \in {0, 1}, w3 \in {0, 1},
           w4 \in {0, 1}, w5 \in {0, 1}, w6 \in {0, 1}, w7 \in {0, 1} :
        /\ 0 \in B <=> w0 = 1
        /\ 1 \in B <=> w1 = 1
        /\ 2 \in B <=> w2 = 1
        /\ 3 \in B <=> w3 = 1
        /\ 4 \in B <=> w4 = 1
        /\ 5 \in B <=> w5 = 1
        /\ 6 \in B <=> w6 = 1
        /\ 7 \in B <=> w7 = 1
  <2>1. ASSUME NEW i PROVE \E w \in {0, 1} : i \in B <=> w = 1
    OBVIOUS
  <2> QED
    BY <2>1
<1>3. x = w0 + 2 * w1 + 4 * w2 + 8 * w3 + 16 * w4 + 32 * w5 + 64 * w6 + 128 * w7
  BY <1>2, ByteOfBits DEF weight
<1> HIDE DEF x
<1>4. /\ x % 2 = 1 <=> w0 = 1
      /\ (x \div 2) % 2 = 1 <=> w1 = 1
      /\ (x \div 4) % 2 = 1 <=> w2 = 1
      /\ (x \div 8) % 2 = 1 <=> w3 = 1
      /\ (x \div 16) % 2 = 1 <=> w4 = 1
      /\ (x \div 32) % 2 = 1 <=> w5 = 1
      /\ (x \div 64) % 2 = 1 <=> w6 = 1
      /\ (x \div 128) % 2 = 1 <=> w7 = 1
  BY <1>3
<1>5. \A i \in {0, 1, 2, 3, 4, 5, 6, 7} : i \in I!Bit[x] <=> i \in B
  BY <1>1, <1>2, <1>4, BitsOfByte
<1>6. 0..7 = {0, 1, 2, 3, 4, 5, 6, 7}
  OBVIOUS
<1>7. I!Bit[x] = B
  <2>1. I!Bit[x] \subseteq 0..7
    BY <1>1, BitsOfByte
  <2>2. \A i \in 0..7 : i \in I!Bit[x] <=> i \in B
    BY <1>5, <1>6
  <2> QED
    BY <2>1, <2>2
<1> QED
  BY <1>7 DEF x
-----------------------------------------------------------------------------
(* Words of two bytes.                                                     *)
LEMMA WordShiftedRight ==
  ASSUME NEW low \in Octet, NEW high \in Octet
  PROVE  LET w == (low + 256 * high) \div 16
         IN  /\ w % 256 \in Octet
             /\ (w % 256) % 16 = low \div 16
             /\ (w \div 256) % 256 \in Octet
             /\ ((w \div 256) % 256) % 16 = high \div 16
<1> USE DEF Octet
<1>1. ((low + 256 * high) \div 16) % 256 \in Octet
  OBVIOUS
<1>2. (((low + 256 * high) \div 16) % 256) % 16 = low \div 16
  <2>1. (low + 256 * high) \div 16 = 16 * high + (low \div 16)
    OBVIOUS
  <2>2. low \div 16 \in 0..15
    OBVIOUS
  <2>3. ASSUME NEW q \in 0..15 PROVE ((16 * high + q) % 256) % 16 = q
    OBVIOUS
  <2> QED
    BY <2>1, <2>2, <2>3
<1>3. (((low + 256 * high) \div 16) \div 256) % 256 = high \div 16
  <2>1. (low + 256 * high) \div 16 = 16 * high + (low \div 16)
    OBVIOUS
  <2>2. low \div 16 \in 0..15
    OBVIOUS
  <2>3. ASSUME NEW q \in 0..15 PROVE (16 * high + q) \div 256 = high \div 16
    OBVIOUS
  <2>4. (high \div 16) % 256 = high \div 16
    OBVIOUS
  <2> QED
    BY <2>1, <2>2, <2>3, <2>4
<1>4. (high \div 16) % 16 = high \div 16 /\ high \div 16 \in Octet
  OBVIOUS
<1> QED
  BY <1>1, <1>2, <1>3, <1>4

LEMMA WordShiftedLeft ==
  ASSUME NEW low \in Octet, NEW high \in Octet
  PROVE  LET w(f) == (low + 256 * high) * f
             bit(byte, f) == (byte \div f) % 2 = 1
         IN  /\ w(1) % 256 >= 128 <=> bit(low, 128)
             /\ w(2) % 256 >= 128 <=> bit(low, 64)
             /\ w(4) % 256 >= 128 <=> bit(low, 32)
             /\ w(8) % 256 >= 128 <=> bit(low, 16)
             /\ (w(1) \div 256) % 256 >= 128 <=> bit(high, 128)
             /\ (w(2) \div 256) % 256 >= 128 <=> bit(high, 64)
             /\ (w(4) \div 256) % 256 >= 128 <=> bit(high, 32)
             /\ (w(8) \div 256) % 256 >= 128 <=> bit(high, 16)
<1> USE DEF Octet
<1>1. ((low + 256 * high) * 1) % 256 >= 128 <=> (low \div 128) % 2 = 1
  OBVIOUS
<1>2. ((low + 256 * high) * 2) % 256 >= 128 <=> (low \div 64) % 2 = 1
  OBVIOUS
<1>3. ((low + 256 * high) * 4) % 256 >= 128 <=> (low \div 32) % 2 = 1
  OBVIOUS
<1>4. ((low + 256 * high) * 8) % 256 >= 128 <=> (low \div 16) % 2 = 1
  OBVIOUS
<1>5. (((low + 256 * high) * 1) \div 256) % 256 >= 128 <=> (high \div 128) % 2 = 1
  OBVIOUS
<1>6. (((low + 256 * high) * 2) \div 256) % 256 >= 128 <=> (high \div 64) % 2 = 1
  OBVIOUS
<1>7. (((low + 256 * high) * 4) \div 256) % 256 >= 128 <=> (high \div 32) % 2 = 1
  OBVIOUS
<1>8. (((low + 256 * high) * 8) \div 256) % 256 >= 128 <=> (high \div 16) % 2 = 1
  OBVIOUS
<1> QED
  BY <1>1, <1>2, <1>3, <1>4, <1>5, <1>6, <1>7, <1>8
-----------------------------------------------------------------------------
(* The instructions that act on the lanes one by one.                      *)
Register(D) == [D -> Octet]

LEMMA AndSiLanes ==
  ASSUME NEW D, NEW a \in Register(D), NEW b \in Register(D)
  PROVE  /\ I!and_si(a, b) \in Register(D)
         /\ \A k \in D : I!and_si(a, b)[k] = AndBits(a[k], b[k])
<1>1. I!and_si(a, b) = [k \in D |-> AndBits(a[k], b[k])]
  BY DEF I!and_si, I!Lanewise, Register, AndBits
<1>2. ASSUME NEW k \in D
      PROVE  AndBits(a[k], b[k]) \in Octet
  <2>1. a[k] \in Octet /\ b[k] \in Octet
    BY DEF Register
  <2>2. I!Bit[a[k]] \in SUBSET (0..7) /\ I!Bit[b[k]] \in SUBSET (0..7)
    BY <2>1, BitsOfByte
  <2> QED
    BY <2>2, ByteOfRange DEF AndBits
<1> QED
  BY <1>1, <1>2 DEF Register

LEMMA OrSiLanes ==
  ASSUME NEW D, NEW a \in Register(D), NEW b \in Register(D)
  PROVE  /\ I!or_si(a, b) \in Register(D)
         /\ \A k \in D : I!or_si(a, b)[k] = OrBits(a[k], b[k])
<1>1. I!or_si(a, b) = [k \in D |-> OrBits(a[k], b[k])]
  BY DEF I!or_si, I!Lanewise, Register, OrBits
<1>2. ASSUME NEW k \in D
      PROVE  OrBits(a[k], b[k]) \in Octet
  <2>1. a[k] \in Octet /\ b[k] \in Octet
    BY DEF Register
  <2>2. I!Bit[a[k]] \in SUBSET (0..7) /\ I!Bit[b[k]] \in SUBSET (0..7)
    BY <2>1, BitsOfByte
  <2> QED
    BY <2>2, ByteOfRange DEF OrBits
<1> QED
  BY <1>1, <1>2 DEF Register

LEMMA XorSiLanes ==
  ASSUME NEW D, NEW a \in Register(D), NEW b \in Register(D)
  PROVE  /\ I!xor_si(a, b) \in Register(D)
         /\ \A k \in D : I!xor_si(a, b)[k] = XorBits(a[k], b[k])
<1>1. I!xor_si(a, b) = [k \in D |-> XorBits(a[k], b[k])]
  BY DEF I!xor_si, I!Lanewise, Register, XorBits
<1>2. ASSUME NEW k \in D
      PROVE  XorBits(a[k], b[k]) \in Octet
  <2>1. a[k] \in Octet /\ b[k] \in Octet
    BY DEF Register
  <2>2. I!Bit[a[k]] \in SUBSET (0..7) /\ I!Bit[b[k]] \in SUBSET (0..7)
    BY <2>1, BitsOfByte
  <2> QED
    BY <2>2, ByteOfRange DEF XorBits
<1> QED
  BY <1>1, <1>2 DEF Register

LEMMA AddsEpu8Lanes ==
  ASSUME NEW D, NEW a \in Register(D), NEW b \in Register(D)
  PROVE  /\ I!adds_epu8(a, b) \in Register(D)
         /\ \A k \in D : I!adds_epu8(a, b)[k] = IF a[k] + b[k] > 255 THEN 255 ELSE a[k] + b[k]
<1> DEFINE f(x, y) == IF x + y > 255 THEN 255 ELSE x + y
<1>1. I!adds_epu8(a, b) = [k \in D |-> f(a[k], b[k])]
  BY DEF I!adds_epu8, I!Lanewise, Register, I!mask, I!signed
<1>2. ASSUME NEW x \in Octet, NEW y \in Octet
      PROVE  f(x, y) \in Octet
  BY DEF I!mask, Octet
<1> HIDE DEF f
<1>3. /\ I!adds_epu8(a, b) \in Register(D)
      /\ \A k \in D : I!adds_epu8(a, b)[k] = f(a[k], b[k])
  BY <1>1, <1>2 DEF Register
<1> QED
  BY <1>3 DEF f

LEMMA SubsEpu8Lanes ==
  ASSUME NEW D, NEW a \in Register(D), NEW b \in Register(D)
  PROVE  /\ I!subs_epu8(a, b) \in Register(D)
         /\ \A k \in D : I!subs_epu8(a, b)[k] = IF a[k] > b[k] THEN a[k] - b[k] ELSE 0
<1> DEFINE f(x, y) == IF x > y THEN x - y ELSE 0
<1>1. I!subs_epu8(a, b) = [k \in D |-> f(a[k], b[k])]
  BY DEF I!subs_epu8, I!Lanewise, Register, I!mask, I!signed
<1>2. ASSUME NEW x \in Octet, NEW y \in Octet
      PROVE  f(x, y) \in Octet
  BY DEF I!mask, Octet
<1> HIDE DEF f
<1>3. /\ I!subs_epu8(a, b) \in Register(D)
      /\ \A k \in D : I!subs_epu8(a, b)[k] = f(a[k], b[k])
  BY <1>1, <1>2 DEF Register
<1> QED
  BY <1>3 DEF f

LEMMA AddEpi8Lanes ==
  ASSUME NEW D, NEW a \in Register(D), NEW b \in Register(D)
  PROVE  /\ I!add_epi8(a, b) \in Register(D)
         /\ \A k \in D : I!add_epi8(a, b)[k] = (a[k] + b[k]) % 256
<1> DEFINE f(x, y) == (x + y) % 256
<1>1. I!add_epi8(a, b) = [k \in D |-> f(a[k], b[k])]
  BY DEF I!add_epi8, I!Lanewise, Register, I!mask, I!signed
<1>2. ASSUME NEW x \in Octet, NEW y \in Octet
      PROVE  f(x, y) \in Octet
  BY DEF I!mask, Octet
<1> HIDE DEF f
<1>3. /\ I!add_epi8(a, b) \in Register(D)
      /\ \A k \in D : I!add_epi8(a, b)[k] = f(a[k], b[k])
  BY <1>1, <1>2 DEF Register
<1> QED
  BY <1>3 DEF f

LEMMA SubEpi8Lanes ==
  ASSUME NEW D, NEW a \in Register(D), NEW b \in Register(D)
  PROVE  /\ I!sub_epi8(a, b) \in Register(D)
         /\ \A k \in D : I!sub_epi8(a, b)[k] = (a[k] - b[k]) % 256
<1> DEFINE f(x, y) == (x - y) % 256
<1>1. I!sub_epi8(a, b) = [k \in D |-> f(a[k], b[k])]
  BY DEF I!sub_epi8, I!Lanewise, Register, I!mask, I!signed
<1>2. ASSUME NEW x \in Octet, NEW y \in Octet
      PROVE  f(x, y) \in Octet
  BY DEF I!mask, Octet
<1> HIDE DEF f
<1>3. /\ I!sub_epi8(a, b) \in Register(D)
      /\ \A k \in D : I!sub_epi8(a, b)[k] = f(a[k], b[k])
  BY <1>1, <1>2 DEF Register
<1> QED
  BY <1>3 DEF f

LEMMA MaxEpu8Lanes ==
  ASSUME NEW D, NEW a \in Register(D), NEW b \in Register(D)
  PROVE  /\ I!max_epu8(a, b) \in Register(D)
         /\ \A k \in D : I!max_epu8(a, b)[k] = IF a[k] > b[k] THEN a[k] ELSE b[k]
<1> DEFINE f(x, y) == IF x > y THEN x ELSE y
<1>1. I!max_epu8(a, b) = [k \in D |-> f(a[k], b[k])]
  BY DEF I!max_epu8, I!Lanewise, Register, I!mask, I!signed
<1>2. ASSUME NEW x \in Octet, NEW y \in Octet
      PROVE  f(x, y) \in Octet
  BY DEF I!mask, Octet
<1> HIDE DEF f
<1>3. /\ I!max_epu8(a, b) \in Register(D)
      /\ \A k \in D : I!max_epu8(a, b)[k] = f(a[k], b[k])
  BY <1>1, <1>2 DEF Register
<1> QED
  BY <1>3 DEF f

LEMMA MinEpu8Lanes ==
  ASSUME NEW D, NEW a \in Register(D), NEW b \in Register(D)
  PROVE  /\ I!min_epu8(a, b) \in Register(D)
         /\ \A k \in D : I!min_epu8(a, b)[k] = IF a[k] < b[k] THEN a[k] ELSE b[k]
<1> DEFINE f(x, y) == IF x < y THEN x ELSE y
<1>1. I!min_epu8(a, b) = [k \in D |-> f(a[k], b[k])]
  BY DEF I!min_epu8, I!Lanewise, Register, I!mask, I!signed
<1>2. ASSUME NEW x \in Octet, NEW y \in Octet
      PROVE  f(x, y) \in Octet
  BY DEF I!mask, Octet
<1> HIDE DEF f
<1>3. /\ I!min_epu8(a, b) \in Register(D)
      /\ \A k \in D : I!min_epu8(a, b)[k] = f(a[k], b[k])
  BY <1>1, <1>2 DEF Register
<1> QED
  BY <1>3 DEF f

LEMMA MaxEpi8Lanes ==
  ASSUME NEW D, NEW a \in Register(D), NEW b \in Register(D)
  PROVE  /\ I!max_epi8(a, b) \in Register(D)
         /\ \A k \in D : I!max_epi8(a, b)[k] = IF I!signed(a[k]) > I!signed(b[k]) THEN a[k] ELSE b[k]
<1> DEFINE f(x, y) == IF I!signed(x) > I!signed(y) THEN x ELSE y
<1>1. I!max_epi8(a, b) = [k \in D |-> f(a[k], b[k])]
  BY DEF I!max_epi8, I!Lanewise, Register, I!mask, I!signed
<1>2. ASSUME NEW x \in Octet, NEW y \in Octet
      PROVE  f(x, y) \in Octet
  BY DEF I!mask, Octet
<1> HIDE DEF f
<1>3. /\ I!max_epi8(a, b) \in Register(D)
      /\ \A k \in D : I!max_epi8(a, b)[k] = f(a[k], b[k])
  BY <1>1, <1>2 DEF Register
<1> QED
  BY <1>3 DEF f

LEMMA CmpeqEpi8Lanes ==
  ASSUME NEW D, NEW a \in Register(D), NEW b \in Register(D)
  PROVE  /\ I!cmpeq_epi8(a, b) \in Register(D)
         /\ \A k \in D : I!cmpeq_epi8(a, b)[k] = I!mask(a[k] = b[k])
<1> DEFINE f(x, y) == I!mask(x = y)
<1>1. I!cmpeq_epi8(a, b) = [k \in D |-> f(a[k], b[k])]
  BY DEF I!cmpeq_epi8, I!Lanewise, Register, I!mask, I!signed
<1>2. ASSUME NEW x \in Octet, NEW y \in Octet
      PROVE  f(x, y) \in Octet
  BY DEF I!mask, Octet
<1> HIDE DEF f
<1>3. /\ I!cmpeq_epi8(a, b) \in Register(D)
      /\ \A k \in D : I!cmpeq_epi8(a, b)[k] = f(a[k], b[k])
  BY <1>1, <1>2 DEF Register
<1> QED
  BY <1>3 DEF f

LEMMA CmpgtEpi8Lanes ==
  ASSUME NEW D, NEW a \in Register(D), NEW b \in Register(D)
  PROVE  /\ I!cmpgt_epi8(a, b) \in Register(D)
         /\ \A k \in D : I!cmpgt_epi8(a, b)[k] = I!mask(I!signed(a[k]) > I!signed(b[k]))
<1> DEFINE f(x, y) == I!mask(I!signed(x) > I!signed(y))
<1>1. I!cmpgt_epi8(a, b) = [k \in D |-> f(a[k], b[k])]
  BY DEF I!cmpgt_epi8, I!Lanewise, Register, I!mask, I!signed
<1>2. ASSUME NEW x \in Octet, NEW y \in Octet
      PROVE  f(x, y) \in Octet
  BY DEF I!mask, Octet
<1> HIDE DEF f
<1>3. /\ I!cmpgt_epi8(a, b) \in Register(D)
      /\ \A k \in D : I!cmpgt_epi8(a, b)[k] = f(a[k], b[k])
  BY <1>1, <1>2 DEF Register
<1> QED
  BY <1>3 DEF f

LEMMA VcgeqLanes ==
  ASSUME NEW D, NEW a \in Register(D), NEW b \in Register(D)
  PROVE  /\ I!vcgeq(a, b) \in Register(D)
         /\ \A k \in D : I!vcgeq(a, b)[k] = I!mask(a[k] >= b[k])
<1> DEFINE f(x, y) == I!mask(x >= y)
<1>1. I!vcgeq(a, b) = [k \in D |-> f(a[k], b[k])]
  BY DEF I!vcgeq, I!Lanewise, Register, I!mask, I!signed
<1>2. ASSUME NEW x \in Octet, NEW y \in Octet
      PROVE  f(x, y) \in Octet
  BY DEF I!mask, Octet
<1> HIDE DEF f
<1>3. /\ I!vcgeq(a, b) \in Register(D)
      /\ \A k \in D : I!vcgeq(a, b)[k] = f(a[k], b[k])
  BY <1>1, <1>2 DEF Register
<1> QED
  BY <1>3 DEF f

LEMMA VcgtqLanes ==
  ASSUME NEW D, NEW a \in Register(D), NEW b \in Register(D)
  PROVE  /\ I!vcgtq(a, b) \in Register(D)
         /\ \A k \in D : I!vcgtq(a, b)[k] = I!mask(a[k] > b[k])
<1> DEFINE f(x, y) == I!mask(x > y)
<1>1. I!vcgtq(a, b) = [k \in D |-> f(a[k], b[k])]
  BY DEF I!vcgtq, I!Lanewise, Register, I!mask, I!signed
<1>2. ASSUME NEW x \in Octet, NEW y \in Octet
      PROVE  f(x, y) \in Octet
  BY DEF I!mask, Octet
<1> HIDE DEF f
<1>3. /\ I!vcgtq(a, b) \in Register(D)
      /\ \A k \in D : I!vcgtq(a, b)[k] = f(a[k], b[k])
  BY <1>1, <1>2 DEF Register
<1> QED
  BY <1>3 DEF f

-----------------------------------------------------------------------------
(* The members of simd8 that are one instruction on each target.           *)
LEMMA WestmereMembers ==
  ASSUME NEW this, NEW other
  PROVE  /\ S!bit_or(this, other) = I!or_si(this, other)
         /\ S!bit_and(this, other) = I!and_si(this, other)
         /\ S!bit_xor(this, other) = I!xor_si(this, other)
         /\ S!eq(this, other) = I!cmpeq_epi8(this, other)
         /\ S!plus(this, other) = I!add_epi8(this, other)
         /\ S!minus(this, other) = I!sub_epi8(this, other)
         /\ S!max_signed(this, other) = I!max_epi8(this, other)
         /\ S!gt_signed(this, other) = I!cmpgt_epi8(this, other)
         /\ S!lt_signed(this, other) = I!cmpgt_epi8(other, this)
         /\ S!saturating_add(this, other) = I!adds_epu8(this, other)
         /\ S!saturating_sub(this, other) = I!subs_epu8(this, other)
         /\ S!max_epu8(this, other) = I!max_epu8(this, other)
         /\ S!min_epu8(this, other) = I!min_epu8(this, other)
         /\ S!gt_bits(this, other) = I!subs_epu8(this, other)
  BY DEF I!Bit, I!ByteOf, I!Lanewise, I!add_epi8, I!adds_epu8, I!and_si,
         I!cmpeq_epi8, I!cmpgt_epi8, I!mask, I!max_epi8, I!max_epu8,
         I!min_epu8, I!or_si, I!signed, I!sub_epi8, I!subs_epu8, I!xor_si,
         S!Bit, S!ByteOf, S!Lanewise, S!add_epi8, S!adds_epu8, S!and_si,
         S!bit_and, S!bit_or, S!bit_xor, S!cmpeq_epi8, S!cmpgt_epi8, S!eq,
         S!gt_bits, S!gt_signed, S!lt_signed, S!mask, S!max_epi8,
         S!max_epu8, S!max_signed, S!min_epu8, S!minus, S!or_si, S!plus,
         S!saturating_add, S!saturating_sub, S!signed, S!sub_epi8,
         S!subs_epu8, S!xor_si

LEMMA HaswellMembers ==
  ASSUME NEW this, NEW other
  PROVE  /\ H!bit_or(this, other) = I!or_si(this, other)
         /\ H!bit_and(this, other) = I!and_si(this, other)
         /\ H!bit_xor(this, other) = I!xor_si(this, other)
         /\ H!eq(this, other) = I!cmpeq_epi8(this, other)
         /\ H!plus(this, other) = I!add_epi8(this, other)
         /\ H!minus(this, other) = I!sub_epi8(this, other)
         /\ H!max_signed(this, other) = I!max_epi8(this, other)
         /\ H!gt_signed(this, other) = I!cmpgt_epi8(this, other)
         /\ H!lt_signed(this, other) = I!cmpgt_epi8(other, this)
         /\ H!saturating_add(this, other) = I!adds_epu8(this, other)
         /\ H!saturating_sub(this, other) = I!subs_epu8(this, other)
         /\ H!max_epu8(this, other) = I!max_epu8(this, other)
         /\ H!min_epu8(this, other) = I!min_epu8(this, other)
         /\ H!gt_bits(this, other) = I!subs_epu8(this, other)
         /\ H!lt_bits(this, other) = I!subs_epu8(other, this)
  BY DEF H!Bit, H!ByteOf, H!Lanewise, H!add_epi8, H!adds_epu8, H!and_si,
         H!bit_and, H!bit_or, H!bit_xor, H!cmpeq_epi8, H!cmpgt_epi8, H!eq,
         H!gt_bits, H!gt_signed, H!lt_bits, H!lt_signed, H!mask,
         H!max_epi8, H!max_epu8, H!max_signed, H!min_epu8, H!minus,
         H!or_si, H!plus, H!saturating_add, H!saturating_sub, H!signed,
         H!sub_epi8, H!subs_epu8, H!xor_si, I!Bit, I!ByteOf, I!Lanewise,
         I!add_epi8, I!adds_epu8, I!and_si, I!cmpeq_epi8, I!cmpgt_epi8,
         I!mask, I!max_epi8, I!max_epu8, I!min_epu8, I!or_si, I!signed,
         I!sub_epi8, I!subs_epu8, I!xor_si

LEMMA Arm64Members ==
  ASSUME NEW this, NEW other
  PROVE  /\ N!bit_or(this, other) = I!or_si(this, other)
         /\ N!bit_and(this, other) = I!and_si(this, other)
         /\ N!bit_xor(this, other) = I!xor_si(this, other)
         /\ N!eq(this, other) = I!cmpeq_epi8(this, other)
         /\ N!plus(this, other) = I!add_epi8(this, other)
         /\ N!minus(this, other) = I!sub_epi8(this, other)
         /\ N!max_signed(this, other) = I!max_epi8(this, other)
         /\ N!gt_signed(this, other) = I!cmpgt_epi8(this, other)
         /\ N!lt_signed(this, other) = I!cmpgt_epi8(other, this)
         /\ N!saturating_add(this, other) = I!adds_epu8(this, other)
         /\ N!saturating_sub(this, other) = I!subs_epu8(this, other)
         /\ N!ge(this, other) = I!vcgeq(this, other)
         /\ N!gt(this, other) = I!vcgtq(this, other)
         /\ N!le(this, other) = I!vcgeq(other, this)
         /\ N!lt(this, other) = I!vcgtq(other, this)
         /\ N!gt_bits(this, other) = I!vcgtq(this, other)
  BY DEF I!Bit, I!ByteOf, I!Lanewise, I!add_epi8, I!adds_epu8, I!and_si,
         I!cmpeq_epi8, I!cmpgt_epi8, I!mask, I!max_epi8, I!or_si, I!signed,
         I!sub_epi8, I!subs_epu8, I!vcgeq, I!vcgtq, I!xor_si, N!Bit,
         N!ByteOf, N!Lanewise, N!add_epi8, N!adds_epu8, N!and_si,
         N!bit_and, N!bit_or, N!bit_xor, N!cmpeq_epi8, N!cmpgt_epi8, N!eq,
         N!ge, N!gt, N!gt_bits, N!gt_signed, N!le, N!lt, N!lt_signed,
         N!mask, N!max_epi8, N!max_signed, N!minus, N!or_si, N!plus,
         N!saturating_add, N!saturating_sub, N!signed, N!sub_epi8,
         N!subs_epu8, N!vcgeq, N!vcgtq, N!xor_si

-----------------------------------------------------------------------------
(* The n bytes in front of a register of w bytes and then its first ones.  *)
Behind(n, w, this, left) ==
  [k \in 0..(w - 1) |-> IF k >= n THEN this[k - n] ELSE left[(w - n) + k]]

R16 == Register(0..15)
R32 == Register(0..31)

LEMMA BehindType ==
  ASSUME NEW w \in {16, 32}, NEW n \in 1..3, NEW this \in Register(0..(w - 1)),
         NEW left \in Register(0..(w - 1))
  PROVE  Behind(n, w, this, left) \in Register(0..(w - 1))
<1>1. ASSUME NEW k \in 0..(w - 1)
      PROVE  (IF k >= n THEN this[k - n] ELSE left[(w - n) + k]) \in Octet
  <2>1. CASE k >= n
    <3>1. k - n \in 0..(w - 1)
      BY <2>1
    <3> QED
      BY <2>1, <3>1 DEF Register
  <2>2. CASE ~(k >= n)
    <3>1. (w - n) + k \in 0..(w - 1)
      BY <2>2
    <3> QED
      BY <2>2, <3>1 DEF Register
  <2> QED
    BY <2>1, <2>2
<1> QED
  BY <1>1 DEF Behind, Register

LEMMA WestmerePrev ==
  ASSUME NEW n \in 1..3, NEW this \in R16, NEW left \in R16
  PROVE  S!prev(n, this, left) = Behind(n, 16, this, left)
<1>1. DOMAIN this = 0..15
  BY DEF R16, Register
<1>2. ASSUME NEW k \in 0..15
      PROVE  (IF (k % 16) + (16 - n) < 16 THEN left[k + (16 - n)] ELSE this[k + (16 - n) - 16])
               = IF k >= n THEN this[k - n] ELSE left[(16 - n) + k]
  <2>1. k % 16 = k /\ k + (16 - n) - 16 = k - n /\ k + (16 - n) = (16 - n) + k
    OBVIOUS
  <2> QED
    BY <2>1
<1> QED
  BY <1>1, <1>2 DEF S!prev, S!alignr_epi8, Behind

LEMMA HaswellPrev ==
  ASSUME NEW n \in 1..3, NEW this \in R32, NEW left \in R32
  PROVE  H!prev(n, this, left) = Behind(n, 32, this, left)
<1> DEFINE p == [j \in 0..31 |-> IF j < 16 THEN left[j + 16] ELSE this[j - 16]]
<1>1. DOMAIN this = 0..31
  BY DEF R32, Register
<1>2. H!permute2x128_0x21(left, this) = p
  BY DEF H!permute2x128_0x21
<1>3. ASSUME NEW k \in 0..31
      PROVE  (IF (k % 16) + (16 - n) < 16 THEN p[k + (16 - n)] ELSE this[k + (16 - n) - 16])
               = IF k >= n THEN this[k - n] ELSE left[(32 - n) + k]
  <2>1. k + (16 - n) - 16 = k - n
    OBVIOUS
  <2>2. CASE k < n
    <3>1. k % 16 = k /\ k + (16 - n) \in 0..31 /\ k + (16 - n) < 16
      BY <2>2
    <3>2. p[k + (16 - n)] = left[(k + (16 - n)) + 16]
      BY <3>1
    <3>3. (k + (16 - n)) + 16 = (32 - n) + k
      OBVIOUS
    <3> QED
      BY <2>2, <3>1, <3>2, <3>3
  <2>3. CASE k >= n /\ (k % 16) + (16 - n) < 16
    <3>1. k + (16 - n) \in 0..31 /\ ~(k + (16 - n) < 16)
      BY <2>3
    <3>2. p[k + (16 - n)] = this[(k + (16 - n)) - 16]
      BY <3>1
    <3> QED
      BY <2>1, <2>3, <3>2
  <2>4. CASE k >= n /\ ~((k % 16) + (16 - n) < 16)
    BY <2>1, <2>4
  <2> QED
    BY <2>2, <2>3, <2>4
<1> HIDE DEF p
<1>4. [k \in 0..31 |-> IF (k % 16) + (16 - n) < 16 THEN p[k + (16 - n)]
                                                     ELSE this[k + (16 - n) - 16]]
        = Behind(n, 32, this, left)
  BY <1>3 DEF Behind
<1> QED
  BY <1>1, <1>2, <1>4 DEF H!prev, H!alignr_epi8

LEMMA Arm64Prev ==
  ASSUME NEW n \in 1..3, NEW this \in R16, NEW left \in R16
  PROVE  N!prev(n, this, left) = Behind(n, 16, this, left)
<1>1. ASSUME NEW k \in 0..15
      PROVE  (IF k + (16 - n) < 16 THEN left[k + (16 - n)] ELSE this[k + (16 - n) - 16])
               = IF k >= n THEN this[k - n] ELSE left[(16 - n) + k]
  <2>1. k + (16 - n) - 16 = k - n /\ k + (16 - n) = (16 - n) + k
    OBVIOUS
  <2> QED
    BY <2>1
<1> QED
  BY <1>1 DEF N!prev, N!vextq, Behind

-----------------------------------------------------------------------------
(* A register of one byte, and the operations with one that need a proof.  *)
LEMMA WestmereSplat ==
  ASSUME NEW value \in Octet
  PROVE  S!splat(value) \in R16 /\ \A k \in 0..15 : S!splat(value)[k] = value
  BY DEF S!splat, R16, Register

LEMMA WestmereLowNibble ==
  ASSUME NEW this \in R16, NEW k \in 0..15
  PROVE  /\ S!bit_and(this, S!splat(15)) \in R16
         /\ S!bit_and(this, S!splat(15))[k] = this[k] % 16
<1>1. 15 \in Octet /\ this[k] \in Octet
  BY DEF Octet, R16, Register
<1> DEFINE o == S!splat(15)
<1>2. o \in R16 /\ o[k] = 15
  BY <1>1, WestmereSplat
<1> HIDE DEF o
<1>3. S!bit_and(this, o) \in R16 /\ S!bit_and(this, o)[k] = AndBits(this[k], o[k])
  <2>1. S!bit_and(this, o) = I!and_si(this, o)
    BY WestmereMembers
  <2>2. this \in Register(0..15) /\ o \in Register(0..15)
    BY <1>2 DEF R16
  <2> QED
    BY <2>1, <2>2, AndSiLanes DEF R16
<1>4. S!bit_and(this, o)[k] = this[k] % 16
  BY <1>1, <1>2, <1>3, AndFifteen
<1> QED
  BY <1>3, <1>4 DEF o

LEMMA WestmereHighNibble ==
  ASSUME NEW this \in R16, NEW k \in 0..15
  PROVE  /\ S!shr(4, this) \in R16
         /\ S!shr(4, this)[k] = this[k] \div 16
<1> DEFINE words == S!srli_epi16(this, 4)
<1>1. 2^4 = 16 /\ 255 \div 16 = 15
  OBVIOUS
<1>2. words = [j \in 0..15 |-> S!byte_of_word(S!word(this, j) \div 16, j)]
  BY <1>1 DEF S!srli_epi16, R16, Register
<1>3. ASSUME NEW j \in 0..15
      PROVE  /\ S!byte_of_word(S!word(this, j) \div 16, j) \in Octet
             /\ S!byte_of_word(S!word(this, j) \div 16, j) % 16 = this[j] \div 16
  <2>1. CASE j % 2 = 0
    <3>1. j \in 0..15 /\ j + 1 \in 0..15 /\ j - (j % 2) = j
      BY <2>1
    <3>2. this[j] \in Octet /\ this[j + 1] \in Octet
      BY <3>1 DEF R16, Register
    <3>3. S!word(this, j) = this[j] + 256 * this[j + 1]
      BY <3>1 DEF S!word
    <3> QED
      BY <2>1, <3>2, <3>3, WordShiftedRight DEF S!byte_of_word
  <2>2. CASE j % 2 # 0
    <3>1. j - 1 \in 0..15 /\ j - (j % 2) = j - 1 /\ (j - 1) + 1 = j
      BY <2>2
    <3>2. this[j] \in Octet /\ this[j - 1] \in Octet
      BY <3>1 DEF R16, Register
    <3>3. S!word(this, j) = this[j - 1] + 256 * this[j]
      BY <3>1 DEF S!word
    <3> QED
      BY <2>2, <3>2, <3>3, WordShiftedRight DEF S!byte_of_word
  <2> QED
    BY <2>1, <2>2
<1>4. words \in R16 /\ words[k] % 16 = this[k] \div 16
  BY <1>2, <1>3 DEF R16, Register
<1>5. S!shr(4, this) = S!bit_and(words, S!splat(15))
  BY <1>1 DEF S!shr
<1> HIDE DEF words
<1> QED
  BY <1>4, <1>5, WestmereLowNibble

LEMMA WestmereLookup ==
  ASSUME NEW this \in R16, NEW table \in [1..16 -> Octet]
  PROVE  /\ S!lookup_16(this, table) \in R16
         /\ \A k \in 0..15 : S!lookup_16(this, table)[k]
              = IF this[k] < 128 THEN table[(this[k] % 16) + 1] ELSE 0
<1> DEFINE value(k) == IF this[k] < 128 THEN table[(this[k] % 16) + 1] ELSE 0
<1>1. ASSUME NEW k \in 0..15
      PROVE  S!lookup_16(this, table)[k] = value(k) /\ value(k) \in Octet
  <2>1. PICK x \in 0..255 : x = this[k]
    BY DEF R16, Register, Octet
  <2> DEFINE j == 16 * (k \div 16) + (x % 16)
  <2>2. j \in 0..15 /\ j % 16 = x % 16 /\ j = x % 16
    OBVIOUS
  <2>3. S!lookup_16(this, table)[k] = IF x < 128 THEN S!repeat_16(table)[j] ELSE 0
    BY <2>1 DEF S!lookup_16, S!shuffle_epi8, S!half, R16, Register
  <2> HIDE DEF j
  <2>4. S!repeat_16(table)[j] = table[(x % 16) + 1]
    BY <2>2 DEF S!repeat_16
  <2>5. (x % 16) + 1 \in 1..16
    BY <2>1
  <2>6. table[(x % 16) + 1] \in Octet /\ 0 \in Octet
    BY <2>5 DEF Octet
  <2> QED
    BY <2>1, <2>3, <2>4, <2>6
<1>2. S!lookup_16(this, table) = [k \in 0..15 |-> S!lookup_16(this, table)[k]]
  BY DEF S!lookup_16, S!shuffle_epi8, R16, Register
<1> HIDE DEF value
<1>3. \A k \in 0..15 : S!lookup_16(this, table)[k] \in Octet
  BY <1>1
<1>4. S!lookup_16(this, table) \in R16
  BY <1>2, <1>3 DEF R16, Register
<1> QED
  BY <1>1, <1>4 DEF value

LEMMA HaswellSplat ==
  ASSUME NEW value \in Octet
  PROVE  H!splat(value) \in R32 /\ \A k \in 0..31 : H!splat(value)[k] = value
  BY DEF H!splat, R32, Register

LEMMA HaswellLowNibble ==
  ASSUME NEW this \in R32, NEW k \in 0..31
  PROVE  /\ H!bit_and(this, H!splat(15)) \in R32
         /\ H!bit_and(this, H!splat(15))[k] = this[k] % 16
<1>1. 15 \in Octet /\ this[k] \in Octet
  BY DEF Octet, R32, Register
<1> DEFINE o == H!splat(15)
<1>2. o \in R32 /\ o[k] = 15
  BY <1>1, HaswellSplat
<1> HIDE DEF o
<1>3. H!bit_and(this, o) \in R32 /\ H!bit_and(this, o)[k] = AndBits(this[k], o[k])
  <2>1. H!bit_and(this, o) = I!and_si(this, o)
    BY HaswellMembers
  <2>2. this \in Register(0..31) /\ o \in Register(0..31)
    BY <1>2 DEF R32
  <2> QED
    BY <2>1, <2>2, AndSiLanes DEF R32
<1>4. H!bit_and(this, o)[k] = this[k] % 16
  BY <1>1, <1>2, <1>3, AndFifteen
<1> QED
  BY <1>3, <1>4 DEF o

LEMMA HaswellHighNibble ==
  ASSUME NEW this \in R32, NEW k \in 0..31
  PROVE  /\ H!shr(4, this) \in R32
         /\ H!shr(4, this)[k] = this[k] \div 16
<1> DEFINE words == H!srli_epi16(this, 4)
<1>1. 2^4 = 16 /\ 255 \div 16 = 15
  OBVIOUS
<1>2. words = [j \in 0..31 |-> H!byte_of_word(H!word(this, j) \div 16, j)]
  BY <1>1 DEF H!srli_epi16, R32, Register
<1>3. ASSUME NEW j \in 0..31
      PROVE  /\ H!byte_of_word(H!word(this, j) \div 16, j) \in Octet
             /\ H!byte_of_word(H!word(this, j) \div 16, j) % 16 = this[j] \div 16
  <2>1. CASE j % 2 = 0
    <3>1. j \in 0..31 /\ j + 1 \in 0..31 /\ j - (j % 2) = j
      BY <2>1
    <3>2. this[j] \in Octet /\ this[j + 1] \in Octet
      BY <3>1 DEF R32, Register
    <3>3. H!word(this, j) = this[j] + 256 * this[j + 1]
      BY <3>1 DEF H!word
    <3> QED
      BY <2>1, <3>2, <3>3, WordShiftedRight DEF H!byte_of_word
  <2>2. CASE j % 2 # 0
    <3>1. j - 1 \in 0..31 /\ j - (j % 2) = j - 1 /\ (j - 1) + 1 = j
      BY <2>2
    <3>2. this[j] \in Octet /\ this[j - 1] \in Octet
      BY <3>1 DEF R32, Register
    <3>3. H!word(this, j) = this[j - 1] + 256 * this[j]
      BY <3>1 DEF H!word
    <3> QED
      BY <2>2, <3>2, <3>3, WordShiftedRight DEF H!byte_of_word
  <2> QED
    BY <2>1, <2>2
<1>4. words \in R32 /\ words[k] % 16 = this[k] \div 16
  BY <1>2, <1>3 DEF R32, Register
<1>5. H!shr(4, this) = H!bit_and(words, H!splat(15))
  BY <1>1 DEF H!shr
<1> HIDE DEF words
<1> QED
  BY <1>4, <1>5, HaswellLowNibble

LEMMA HaswellLookup ==
  ASSUME NEW this \in R32, NEW table \in [1..16 -> Octet]
  PROVE  /\ H!lookup_16(this, table) \in R32
         /\ \A k \in 0..31 : H!lookup_16(this, table)[k]
              = IF this[k] < 128 THEN table[(this[k] % 16) + 1] ELSE 0
<1> DEFINE value(k) == IF this[k] < 128 THEN table[(this[k] % 16) + 1] ELSE 0
<1>1. ASSUME NEW k \in 0..31
      PROVE  H!lookup_16(this, table)[k] = value(k) /\ value(k) \in Octet
  <2>1. PICK x \in 0..255 : x = this[k]
    BY DEF R32, Register, Octet
  <2> DEFINE j == 16 * (k \div 16) + (x % 16)
  <2>2. j \in 0..31 /\ j % 16 = x % 16
    OBVIOUS
  <2>3. H!lookup_16(this, table)[k] = IF x < 128 THEN H!repeat_16(table)[j] ELSE 0
    BY <2>1 DEF H!lookup_16, H!shuffle_epi8, H!half, R32, Register
  <2> HIDE DEF j
  <2>4. H!repeat_16(table)[j] = table[(x % 16) + 1]
    BY <2>2 DEF H!repeat_16
  <2>5. (x % 16) + 1 \in 1..16
    BY <2>1
  <2>6. table[(x % 16) + 1] \in Octet /\ 0 \in Octet
    BY <2>5 DEF Octet
  <2> QED
    BY <2>1, <2>3, <2>4, <2>6
<1>2. H!lookup_16(this, table) = [k \in 0..31 |-> H!lookup_16(this, table)[k]]
  BY DEF H!lookup_16, H!shuffle_epi8, R32, Register
<1> HIDE DEF value
<1>3. \A k \in 0..31 : H!lookup_16(this, table)[k] \in Octet
  BY <1>1
<1>4. H!lookup_16(this, table) \in R32
  BY <1>2, <1>3 DEF R32, Register
<1> QED
  BY <1>1, <1>4 DEF value

LEMMA Arm64Splat ==
  ASSUME NEW value \in Octet
  PROVE  N!splat(value) \in R16 /\ \A k \in 0..15 : N!splat(value)[k] = value
  BY DEF N!splat, R16, Register

LEMMA Arm64LowNibble ==
  ASSUME NEW this \in R16, NEW k \in 0..15
  PROVE  /\ N!bit_and(this, N!splat(15)) \in R16
         /\ N!bit_and(this, N!splat(15))[k] = this[k] % 16
<1>1. 15 \in Octet /\ this[k] \in Octet
  BY DEF Octet, R16, Register
<1> DEFINE o == N!splat(15)
<1>2. o \in R16 /\ o[k] = 15
  BY <1>1, Arm64Splat
<1> HIDE DEF o
<1>3. N!bit_and(this, o) \in R16 /\ N!bit_and(this, o)[k] = AndBits(this[k], o[k])
  <2>1. N!bit_and(this, o) = I!and_si(this, o)
    BY Arm64Members
  <2>2. this \in Register(0..15) /\ o \in Register(0..15)
    BY <1>2 DEF R16
  <2> QED
    BY <2>1, <2>2, AndSiLanes DEF R16
<1>4. N!bit_and(this, o)[k] = this[k] % 16
  BY <1>1, <1>2, <1>3, AndFifteen
<1> QED
  BY <1>3, <1>4 DEF o

LEMMA Arm64HighNibble ==
  ASSUME NEW this \in R16, NEW k \in 0..15
  PROVE  /\ N!shr(4, this) \in R16
         /\ N!shr(4, this)[k] = this[k] \div 16
<1>1. 2^4 = 16
  OBVIOUS
<1>2. N!shr(4, this) = [j \in 0..15 |-> this[j] \div 16]
  BY <1>1 DEF N!shr, N!vshrq_n
<1>3. ASSUME NEW j \in 0..15 PROVE this[j] \div 16 \in Octet
  <2>1. this[j] \in Octet
    BY DEF R16, Register
  <2> QED
    BY <2>1 DEF Octet
<1> QED
  BY <1>2, <1>3 DEF R16, Register

LEMMA Arm64Lookup ==
  ASSUME NEW this \in R16, NEW table \in [1..16 -> Octet]
  PROVE  /\ N!lookup_16(this, table) \in R16
         /\ \A k \in 0..15 : N!lookup_16(this, table)[k]
              = IF this[k] < 16 THEN table[(this[k] % 16) + 1] ELSE 0
<1> DEFINE value(k) == IF this[k] < 16 THEN table[(this[k] % 16) + 1] ELSE 0
<1>1. ASSUME NEW k \in 0..15
      PROVE  N!lookup_16(this, table)[k] = value(k) /\ value(k) \in Octet
  <2>1. PICK x \in 0..255 : x = this[k]
    BY DEF R16, Register, Octet
  <2>2. x < 16 => x \in 0..15 /\ x % 16 = x
    OBVIOUS
  <2>3. N!lookup_16(this, table)[k] = IF x < 16 THEN N!repeat_16(table)[x] ELSE 0
    BY <2>1 DEF N!lookup_16, N!vqtbl1q
  <2>4. \A j \in 0..15 : N!repeat_16(table)[j] = table[j + 1]
    BY DEF N!repeat_16
  <2>5. (x % 16) + 1 \in 1..16
    BY <2>1
  <2>6. table[(x % 16) + 1] \in Octet /\ 0 \in Octet
    BY <2>5 DEF Octet
  <2> QED
    BY <2>1, <2>2, <2>3, <2>4, <2>6
<1>2. N!lookup_16(this, table) = [k \in 0..15 |-> N!lookup_16(this, table)[k]]
  BY DEF N!lookup_16, N!vqtbl1q, R16, Register
<1> HIDE DEF value
<1>3. \A k \in 0..15 : N!lookup_16(this, table)[k] \in Octet
  BY <1>1
<1>4. N!lookup_16(this, table) \in R16
  BY <1>2, <1>3 DEF R16, Register
<1> QED
  BY <1>1, <1>4 DEF value

-----------------------------------------------------------------------------
(* One byte of the result of an operation: x is the byte, p1, p2 and p3    *)
(* are the bytes before it, and arch tells NEON from the registers of x86.  *)
Demands(p1, p2, p3, arch) ==
  I!mask(IF arch = "arm64" THEN ((p1 >= 192) # (p2 >= 224)) # (p3 >= 240)
                           ELSE p1 > 191 \/ p2 > 223 \/ p3 > 239)

DemandsTwo(p2, p3, arch) ==
  I!mask(IF arch = "arm64" THEN (p2 >= 224) # (p3 >= 240) ELSE p2 > 223 \/ p3 > 239)

lane(o, x, p1, p2, p3, arch) ==
  CASE o.name = "prev" -> (IF o.with = 1 THEN p1 ELSE IF o.with = 2 THEN p2 ELSE p3)
    [] o.name = "shr" -> x \div 16
    [] o.name = "&" -> x % 16
    [] o.name = "saturating_sub" -> (IF x > o.with THEN x - o.with ELSE 0)
    [] o.name = "saturating_add" -> (IF x + o.with > 255 THEN 255 ELSE x + o.with)
    [] o.name = "+" -> (x + o.with) % 256
    [] o.name = "-" -> (x - o.with) % 256
    [] o.name = "==" -> I!mask(x = o.with)
    [] o.name = ">" -> I!mask(I!signed(x) > I!signed(o.with))
    [] o.name = "<" -> I!mask(I!signed(o.with) > I!signed(x))
    [] o.name = "lookup_16" ->
         (IF x < 16 \/ (arch # "arm64" /\ x < 128) THEN Tables[o.with][(x % 16) + 1] ELSE 0)
    [] o.name = "max" -> (IF I!signed(x) > I!signed(p1) THEN x ELSE p1)
    [] o.name = "must_be_continuation" -> Demands(p1, p2, p3, arch)
    [] o.name = "must_be_2_3_continuation" -> DemandsTwo(p2, p3, arch)

LEMMA WestmereDemands ==
  ASSUME NEW p1 \in Register(0..15), NEW p2 \in Register(0..15), NEW p3 \in Register(0..15)
  PROVE  /\ S!must_be_continuation(p1, p2, p3) \in Register(0..15)
         /\ S!must_be_2_3_continuation(p2, p3) \in Register(0..15)
         /\ \A k \in 0..15 :
              /\ S!must_be_continuation(p1, p2, p3)[k]
                   = Demands(p1[k], p2[k], p3[k], "x86")
              /\ S!must_be_2_3_continuation(p2, p3)[k]
                   = DemandsTwo(p2[k], p3[k], "x86")
<1> DEFINE c1 == S!splat(191)
           c2 == S!splat(223)
           c3 == S!splat(239)
           zero == S!splat(0)
<1>1. /\ c1 \in Register(0..15) /\ \A k \in 0..15 : c1[k] = 191
      /\ c2 \in Register(0..15) /\ \A k \in 0..15 : c2[k] = 223
      /\ c3 \in Register(0..15) /\ \A k \in 0..15 : c3[k] = 239
      /\ zero \in Register(0..15) /\ \A k \in 0..15 : zero[k] = 0
  <2>1. 191 \in Octet /\ 223 \in Octet /\ 239 \in Octet /\ 0 \in Octet
    BY DEF Octet
  <2> QED
    BY <2>1, WestmereSplat DEF R16
<1> DEFINE a == I!subs_epu8(p1, c1)
           b == I!subs_epu8(p2, c2)
           c == I!subs_epu8(p3, c3)
           ab == I!or_si(a, b)
           abc == I!or_si(ab, c)
           bc == I!or_si(b, c)
<1>2. /\ S!must_be_continuation(p1, p2, p3) = I!cmpgt_epi8(abc, zero)
      /\ S!must_be_2_3_continuation(p2, p3) = I!cmpgt_epi8(bc, zero)
  BY WestmereMembers DEF S!must_be_continuation, S!must_be_2_3_continuation
<1> HIDE DEF c1, c2, c3, zero
<1>3. /\ a \in Register(0..15) /\ \A k \in 0..15 : a[k] = IF p1[k] > c1[k] THEN p1[k] - c1[k] ELSE 0
      /\ b \in Register(0..15) /\ \A k \in 0..15 : b[k] = IF p2[k] > c2[k] THEN p2[k] - c2[k] ELSE 0
      /\ c \in Register(0..15) /\ \A k \in 0..15 : c[k] = IF p3[k] > c3[k] THEN p3[k] - c3[k] ELSE 0
  BY <1>1, SubsEpu8Lanes
<1> HIDE DEF a, b, c
<1>4. /\ ab \in Register(0..15) /\ \A k \in 0..15 : ab[k] = OrBits(a[k], b[k])
      /\ bc \in Register(0..15) /\ \A k \in 0..15 : bc[k] = OrBits(b[k], c[k])
  BY <1>3, OrSiLanes
<1> HIDE DEF ab, bc
<1>5. abc \in Register(0..15) /\ \A k \in 0..15 : abc[k] = OrBits(ab[k], c[k])
  BY <1>3, <1>4, OrSiLanes
<1> HIDE DEF abc
<1>6. /\ I!cmpgt_epi8(abc, zero) \in Register(0..15)
      /\ \A k \in 0..15 : I!cmpgt_epi8(abc, zero)[k] = I!mask(I!signed(abc[k]) > I!signed(zero[k]))
      /\ I!cmpgt_epi8(bc, zero) \in Register(0..15)
      /\ \A k \in 0..15 : I!cmpgt_epi8(bc, zero)[k] = I!mask(I!signed(bc[k]) > I!signed(zero[k]))
  BY <1>1, <1>4, <1>5, CmpgtEpi8Lanes
<1>7. ASSUME NEW k \in 0..15
      PROVE  /\ I!signed(abc[k]) > I!signed(zero[k]) <=> p1[k] > 191 \/ p2[k] > 223 \/ p3[k] > 239
             /\ I!signed(bc[k]) > I!signed(zero[k]) <=> p2[k] > 223 \/ p3[k] > 239
  <2>1. PICK x1 \in Octet, x2 \in Octet, x3 \in Octet :
          x1 = p1[k] /\ x2 = p2[k] /\ x3 = p3[k]
    BY DEF Register
  <2>2. PICK xa \in Octet, xb \in Octet, xc \in Octet :
          xa = a[k] /\ xb = b[k] /\ xc = c[k]
    BY <1>3 DEF Register
  <2>3. /\ xa = IF x1 > 191 THEN x1 - 191 ELSE 0
        /\ xb = IF x2 > 223 THEN x2 - 223 ELSE 0
        /\ xc = IF x3 > 239 THEN x3 - 239 ELSE 0
    BY <1>1, <1>3, <2>1, <2>2
  <2>4. /\ OrBits(xa, xb) \in Octet
        /\ OrBits(xb, xc) \in Octet
        /\ OrBits(OrBits(xa, xb), xc) \in Octet
    BY OrByte
  <2>5. PICK z \in Octet, y \in Octet : z = OrBits(OrBits(xa, xb), xc) /\ y = OrBits(xb, xc)
    BY <2>4
  <2>6. /\ z = 0 <=> xa = 0 /\ xb = 0 /\ xc = 0
        /\ z >= 128 <=> xa >= 128 \/ xb >= 128 \/ xc >= 128
        /\ y = 0 <=> xb = 0 /\ xc = 0
        /\ y >= 128 <=> xb >= 128 \/ xc >= 128
    BY <2>4, <2>5, OrByte
  <2>7. z < 128 /\ y < 128
    BY <2>3, <2>6 DEF Octet
  <2>8. /\ z # 0 <=> x1 > 191 \/ x2 > 223 \/ x3 > 239
        /\ y # 0 <=> x2 > 223 \/ x3 > 239
    BY <2>3, <2>6 DEF Octet
  <2>9. /\ I!signed(z) > 0 <=> x1 > 191 \/ x2 > 223 \/ x3 > 239
        /\ I!signed(y) > 0 <=> x2 > 223 \/ x3 > 239
    BY <2>7, <2>8 DEF I!signed, Octet
  <2>10. abc[k] = z /\ bc[k] = y /\ I!signed(zero[k]) = 0
    <3>1. abc[k] = z /\ bc[k] = y
      BY <1>4, <1>5, <2>2, <2>5
    <3>2. zero[k] = 0
      BY <1>1
    <3> QED
      BY <3>1, <3>2 DEF I!signed
  <2> QED
    BY <2>1, <2>9, <2>10
<1>8. ASSUME NEW k \in 0..15
      PROVE  /\ I!cmpgt_epi8(abc, zero)[k] = Demands(p1[k], p2[k], p3[k], "x86")
             /\ I!cmpgt_epi8(bc, zero)[k] = DemandsTwo(p2[k], p3[k], "x86")
  BY <1>6, <1>7 DEF I!mask, Demands, DemandsTwo
<1> QED
  BY <1>2, <1>6, <1>8

LEMMA HaswellDemands ==
  ASSUME NEW p1 \in Register(0..31), NEW p2 \in Register(0..31), NEW p3 \in Register(0..31)
  PROVE  /\ H!must_be_continuation(p1, p2, p3) \in Register(0..31)
         /\ H!must_be_2_3_continuation(p2, p3) \in Register(0..31)
         /\ \A k \in 0..31 :
              /\ H!must_be_continuation(p1, p2, p3)[k]
                   = Demands(p1[k], p2[k], p3[k], "x86")
              /\ H!must_be_2_3_continuation(p2, p3)[k]
                   = DemandsTwo(p2[k], p3[k], "x86")
<1> DEFINE c1 == H!splat(191)
           c2 == H!splat(223)
           c3 == H!splat(239)
           zero == H!splat(0)
<1>1. /\ c1 \in Register(0..31) /\ \A k \in 0..31 : c1[k] = 191
      /\ c2 \in Register(0..31) /\ \A k \in 0..31 : c2[k] = 223
      /\ c3 \in Register(0..31) /\ \A k \in 0..31 : c3[k] = 239
      /\ zero \in Register(0..31) /\ \A k \in 0..31 : zero[k] = 0
  <2>1. 191 \in Octet /\ 223 \in Octet /\ 239 \in Octet /\ 0 \in Octet
    BY DEF Octet
  <2> QED
    BY <2>1, HaswellSplat DEF R32
<1> DEFINE a == I!subs_epu8(p1, c1)
           b == I!subs_epu8(p2, c2)
           c == I!subs_epu8(p3, c3)
           ab == I!or_si(a, b)
           abc == I!or_si(ab, c)
           bc == I!or_si(b, c)
<1>2. /\ H!must_be_continuation(p1, p2, p3) = I!cmpgt_epi8(abc, zero)
      /\ H!must_be_2_3_continuation(p2, p3) = I!cmpgt_epi8(bc, zero)
  BY HaswellMembers DEF H!must_be_continuation, H!must_be_2_3_continuation
<1> HIDE DEF c1, c2, c3, zero
<1>3. /\ a \in Register(0..31) /\ \A k \in 0..31 : a[k] = IF p1[k] > c1[k] THEN p1[k] - c1[k] ELSE 0
      /\ b \in Register(0..31) /\ \A k \in 0..31 : b[k] = IF p2[k] > c2[k] THEN p2[k] - c2[k] ELSE 0
      /\ c \in Register(0..31) /\ \A k \in 0..31 : c[k] = IF p3[k] > c3[k] THEN p3[k] - c3[k] ELSE 0
  BY <1>1, SubsEpu8Lanes
<1> HIDE DEF a, b, c
<1>4. /\ ab \in Register(0..31) /\ \A k \in 0..31 : ab[k] = OrBits(a[k], b[k])
      /\ bc \in Register(0..31) /\ \A k \in 0..31 : bc[k] = OrBits(b[k], c[k])
  BY <1>3, OrSiLanes
<1> HIDE DEF ab, bc
<1>5. abc \in Register(0..31) /\ \A k \in 0..31 : abc[k] = OrBits(ab[k], c[k])
  BY <1>3, <1>4, OrSiLanes
<1> HIDE DEF abc
<1>6. /\ I!cmpgt_epi8(abc, zero) \in Register(0..31)
      /\ \A k \in 0..31 : I!cmpgt_epi8(abc, zero)[k] = I!mask(I!signed(abc[k]) > I!signed(zero[k]))
      /\ I!cmpgt_epi8(bc, zero) \in Register(0..31)
      /\ \A k \in 0..31 : I!cmpgt_epi8(bc, zero)[k] = I!mask(I!signed(bc[k]) > I!signed(zero[k]))
  BY <1>1, <1>4, <1>5, CmpgtEpi8Lanes
<1>7. ASSUME NEW k \in 0..31
      PROVE  /\ I!signed(abc[k]) > I!signed(zero[k]) <=> p1[k] > 191 \/ p2[k] > 223 \/ p3[k] > 239
             /\ I!signed(bc[k]) > I!signed(zero[k]) <=> p2[k] > 223 \/ p3[k] > 239
  <2>1. PICK x1 \in Octet, x2 \in Octet, x3 \in Octet :
          x1 = p1[k] /\ x2 = p2[k] /\ x3 = p3[k]
    BY DEF Register
  <2>2. PICK xa \in Octet, xb \in Octet, xc \in Octet :
          xa = a[k] /\ xb = b[k] /\ xc = c[k]
    BY <1>3 DEF Register
  <2>3. /\ xa = IF x1 > 191 THEN x1 - 191 ELSE 0
        /\ xb = IF x2 > 223 THEN x2 - 223 ELSE 0
        /\ xc = IF x3 > 239 THEN x3 - 239 ELSE 0
    BY <1>1, <1>3, <2>1, <2>2
  <2>4. /\ OrBits(xa, xb) \in Octet
        /\ OrBits(xb, xc) \in Octet
        /\ OrBits(OrBits(xa, xb), xc) \in Octet
    BY OrByte
  <2>5. PICK z \in Octet, y \in Octet : z = OrBits(OrBits(xa, xb), xc) /\ y = OrBits(xb, xc)
    BY <2>4
  <2>6. /\ z = 0 <=> xa = 0 /\ xb = 0 /\ xc = 0
        /\ z >= 128 <=> xa >= 128 \/ xb >= 128 \/ xc >= 128
        /\ y = 0 <=> xb = 0 /\ xc = 0
        /\ y >= 128 <=> xb >= 128 \/ xc >= 128
    BY <2>4, <2>5, OrByte
  <2>7. z < 128 /\ y < 128
    BY <2>3, <2>6 DEF Octet
  <2>8. /\ z # 0 <=> x1 > 191 \/ x2 > 223 \/ x3 > 239
        /\ y # 0 <=> x2 > 223 \/ x3 > 239
    BY <2>3, <2>6 DEF Octet
  <2>9. /\ I!signed(z) > 0 <=> x1 > 191 \/ x2 > 223 \/ x3 > 239
        /\ I!signed(y) > 0 <=> x2 > 223 \/ x3 > 239
    BY <2>7, <2>8 DEF I!signed, Octet
  <2>10. abc[k] = z /\ bc[k] = y /\ I!signed(zero[k]) = 0
    <3>1. abc[k] = z /\ bc[k] = y
      BY <1>4, <1>5, <2>2, <2>5
    <3>2. zero[k] = 0
      BY <1>1
    <3> QED
      BY <3>1, <3>2 DEF I!signed
  <2> QED
    BY <2>1, <2>9, <2>10
<1>8. ASSUME NEW k \in 0..31
      PROVE  /\ I!cmpgt_epi8(abc, zero)[k] = Demands(p1[k], p2[k], p3[k], "x86")
             /\ I!cmpgt_epi8(bc, zero)[k] = DemandsTwo(p2[k], p3[k], "x86")
  BY <1>6, <1>7 DEF I!mask, Demands, DemandsTwo
<1> QED
  BY <1>2, <1>6, <1>8

LEMMA Arm64Demands ==
  ASSUME NEW p1 \in Register(0..15), NEW p2 \in Register(0..15), NEW p3 \in Register(0..15)
  PROVE  /\ N!must_be_continuation(p1, p2, p3) \in Register(0..15)
         /\ N!must_be_2_3_continuation(p2, p3) \in Register(0..15)
         /\ \A k \in 0..15 :
              /\ N!must_be_continuation(p1, p2, p3)[k]
                   = Demands(p1[k], p2[k], p3[k], "arm64")
              /\ N!must_be_2_3_continuation(p2, p3)[k]
                   = DemandsTwo(p2[k], p3[k], "arm64")
<1> DEFINE c1 == N!splat(192)
           c2 == N!splat(224)
           c3 == N!splat(240)
<1>1. /\ c1 \in Register(0..15) /\ \A k \in 0..15 : c1[k] = 192
      /\ c2 \in Register(0..15) /\ \A k \in 0..15 : c2[k] = 224
      /\ c3 \in Register(0..15) /\ \A k \in 0..15 : c3[k] = 240
  <2>1. 192 \in Octet /\ 224 \in Octet /\ 240 \in Octet
    BY DEF Octet
  <2> QED
    BY <2>1, Arm64Splat DEF R16
<1> DEFINE a == I!vcgeq(p1, c1)
           b == I!vcgeq(p2, c2)
           c == I!vcgeq(p3, c3)
           ab == I!xor_si(a, b)
           abc == I!xor_si(ab, c)
           bc == I!xor_si(b, c)
<1>2. /\ N!must_be_continuation(p1, p2, p3) = abc
      /\ N!must_be_2_3_continuation(p2, p3) = bc
  BY Arm64Members DEF N!must_be_continuation, N!must_be_2_3_continuation
<1> HIDE DEF c1, c2, c3
<1>3. /\ a \in Register(0..15) /\ \A k \in 0..15 : a[k] = I!mask(p1[k] >= c1[k])
      /\ b \in Register(0..15) /\ \A k \in 0..15 : b[k] = I!mask(p2[k] >= c2[k])
      /\ c \in Register(0..15) /\ \A k \in 0..15 : c[k] = I!mask(p3[k] >= c3[k])
  BY <1>1, VcgeqLanes
<1> HIDE DEF a, b, c
<1>4. /\ ab \in Register(0..15) /\ \A k \in 0..15 : ab[k] = XorBits(a[k], b[k])
      /\ bc \in Register(0..15) /\ \A k \in 0..15 : bc[k] = XorBits(b[k], c[k])
  BY <1>3, XorSiLanes
<1> HIDE DEF ab, bc
<1>5. abc \in Register(0..15) /\ \A k \in 0..15 : abc[k] = XorBits(ab[k], c[k])
  BY <1>3, <1>4, XorSiLanes
<1> HIDE DEF abc
<1>6. ASSUME NEW k \in 0..15
      PROVE  /\ abc[k] = Demands(p1[k], p2[k], p3[k], "arm64")
             /\ bc[k] = DemandsTwo(p2[k], p3[k], "arm64")
  <2> DEFINE A == p1[k] >= 192
             B == p2[k] >= 224
             C == p3[k] >= 240
  <2>1. a[k] = I!mask(A) /\ b[k] = I!mask(B) /\ c[k] = I!mask(C)
    BY <1>1, <1>3
  <2>2. A \in BOOLEAN /\ B \in BOOLEAN /\ C \in BOOLEAN
    OBVIOUS
  <2>3. Demands(p1[k], p2[k], p3[k], "arm64") = I!mask((A # B) # C)
        /\ DemandsTwo(p2[k], p3[k], "arm64") = I!mask(B # C)
    BY DEF Demands, DemandsTwo
  <2> HIDE DEF A, B, C
  <2>4. /\ XorBits(I!mask(A), I!mask(B)) = I!mask(A # B)
        /\ XorBits(I!mask(B), I!mask(C)) = I!mask(B # C)
        /\ XorBits(I!mask(A # B), I!mask(C)) = I!mask((A # B) # C)
    <3>1. ASSUME NEW P \in BOOLEAN, NEW Q \in BOOLEAN
          PROVE  XorBits(I!mask(P), I!mask(Q)) = I!mask(P # Q)
      <4>1. /\ I!mask(P) \in {0, 255} /\ I!mask(Q) \in {0, 255}
            /\ I!mask(P) = I!mask(Q) <=> P = Q
        BY DEF I!mask
      <4> QED
        BY <4>1, XorMasks DEF I!mask
    <3> QED
      BY <2>2, <3>1
  <2> QED
    BY <1>4, <1>5, <2>1, <2>3, <2>4
<1> QED
  BY <1>2, <1>4, <1>5, <1>6

LEMMA OperationKinds ==
  ASSUME NEW o \in Operations
  PROVE  \/ o.name = "prev" /\ o.with \in 1..3
         \/ o.name = "shr" /\ o.with = 4
         \/ o.name = "&" /\ o.with = 15
         \/ /\ o.name \in {"saturating_sub", "saturating_add", "+", "-", "==", ">", "<"}
            /\ o.with \in Octet
         \/ o.name = "lookup_16" /\ o.with \in DOMAIN Tables
         \/ o.name \in {"max", "must_be_continuation", "must_be_2_3_continuation"}
  BY OperationsAssumption DEF Octet

LEMMA WestmereLane ==
  ASSUME NEW o \in Operations, NEW this \in R16, NEW left \in R16
  PROVE  /\ westmere(o, this, left) \in R16
         /\ \A k \in 0..15 :
              westmere(o, this, left)[k]
                = lane(o, this[k], Behind(1, 16, this, left)[k], Behind(2, 16, this, left)[k],
                       Behind(3, 16, this, left)[k], "x86")
<1> DEFINE b1 == Behind(1, 16, this, left)
           b2 == Behind(2, 16, this, left)
           b3 == Behind(3, 16, this, left)
           d == S!splat(o.with)
           value(k) == lane(o, this[k], b1[k], b2[k], b3[k], "x86")
<1>1. /\ S!prev(1, this, left) = b1
      /\ S!prev(2, this, left) = b2
      /\ S!prev(3, this, left) = b3
  BY WestmerePrev
<1>2. this \in Register(0..15) /\ left \in Register(0..15)
  BY DEF R16
<1>3. b1 \in Register(0..15) /\ b2 \in Register(0..15) /\ b3 \in Register(0..15)
  <2>1. \A i \in 1..3 : Behind(i, 16, this, left) \in Register(0..(16 - 1))
    BY <1>2, BehindType
  <2> QED
    BY <2>1
<1>4. o.with \in Octet => d \in Register(0..15) /\ \A k \in 0..15 : d[k] = o.with
  BY WestmereSplat DEF R16
<1>5. o.with = 15 => d = S!splat(15)
  OBVIOUS
<1> HIDE DEF b1, b2, b3, d
<1> DEFINE G == /\ westmere(o, this, left) \in Register(0..15)
                /\ \A k \in 0..15 : westmere(o, this, left)[k] = value(k)
<1>6. ASSUME o.name = "prev" PROVE G
  <2>1. o.with \in 1..3
    BY <1>6, OperationKinds
  <2>2. westmere(o, this, left) = S!prev(o.with, this, left)
    BY <1>6 DEF westmere
  <2>3. westmere(o, this, left) = IF o.with = 1 THEN b1 ELSE IF o.with = 2 THEN b2 ELSE b3
    BY <1>1, <2>1, <2>2
  <2>4. \A k \in 0..15 : value(k) = IF o.with = 1 THEN b1[k] ELSE IF o.with = 2 THEN b2[k] ELSE b3[k]
    BY <1>6 DEF lane
  <2> HIDE DEF value
  <2> QED
    BY <1>3, <2>1, <2>3, <2>4
<1>7. ASSUME o.name = "shr" PROVE G
  <2>1. o.with = 4
    BY <1>7, OperationKinds
  <2>2. westmere(o, this, left) = S!shr(4, this)
    BY <1>7, <2>1 DEF westmere
  <2>3. \A k \in 0..15 : value(k) = this[k] \div 16
    BY <1>7 DEF lane
  <2>4. \A k \in 0..15 : S!shr(4, this) \in R16 /\ S!shr(4, this)[k] = this[k] \div 16
    BY WestmereHighNibble
  <2>5. 0 \in 0..15
    OBVIOUS
  <2> HIDE DEF value
  <2> QED
    BY <2>2, <2>3, <2>4, <2>5 DEF R16
<1>8. ASSUME o.name = "&" PROVE G
  <2>1. o.with = 15
    BY <1>8, OperationKinds
  <2>2. westmere(o, this, left) = S!bit_and(this, S!splat(15))
    BY <1>5, <1>8, <2>1 DEF westmere, d
  <2>3. \A k \in 0..15 : value(k) = this[k] % 16
    BY <1>8 DEF lane
  <2>4. \A k \in 0..15 : /\ S!bit_and(this, S!splat(15)) \in R16
                       /\ S!bit_and(this, S!splat(15))[k] = this[k] % 16
    BY WestmereLowNibble
  <2>5. 0 \in 0..15
    OBVIOUS
  <2> HIDE DEF value
  <2> QED
    BY <2>2, <2>3, <2>4, <2>5 DEF R16
<1>9. ASSUME o.name = "saturating_sub" PROVE G
  <2>1. o.with \in Octet
    BY <1>9, OperationKinds
  <2>2. westmere(o, this, left) = I!subs_epu8(this, d)
    BY <1>9, WestmereMembers DEF westmere, d
  <2>3. \A k \in 0..15 : value(k) = IF this[k] > d[k] THEN this[k] - d[k] ELSE 0
    BY <1>9, <1>4, <2>1 DEF lane
  <2>4. /\ I!subs_epu8(this, d) \in Register(0..15)
        /\ \A k \in 0..15 : I!subs_epu8(this, d)[k] = IF this[k] > d[k] THEN this[k] - d[k] ELSE 0
    BY <1>2, <1>4, <2>1, SubsEpu8Lanes
  <2> HIDE DEF value
  <2> QED
    BY <2>2, <2>3, <2>4
<1>10. ASSUME o.name = "saturating_add" PROVE G
  <2>1. o.with \in Octet
    BY <1>10, OperationKinds
  <2>2. westmere(o, this, left) = I!adds_epu8(this, d)
    BY <1>10, WestmereMembers DEF westmere, d
  <2>3. \A k \in 0..15 : value(k) = IF this[k] + d[k] > 255 THEN 255 ELSE this[k] + d[k]
    BY <1>10, <1>4, <2>1 DEF lane
  <2>4. /\ I!adds_epu8(this, d) \in Register(0..15)
        /\ \A k \in 0..15 : I!adds_epu8(this, d)[k] = IF this[k] + d[k] > 255 THEN 255 ELSE this[k] + d[k]
    BY <1>2, <1>4, <2>1, AddsEpu8Lanes
  <2> HIDE DEF value
  <2> QED
    BY <2>2, <2>3, <2>4
<1>11. ASSUME o.name = "+" PROVE G
  <2>1. o.with \in Octet
    BY <1>11, OperationKinds
  <2>2. westmere(o, this, left) = I!add_epi8(this, d)
    BY <1>11, WestmereMembers DEF westmere, d
  <2>3. \A k \in 0..15 : value(k) = (this[k] + d[k]) % 256
    BY <1>11, <1>4, <2>1 DEF lane
  <2>4. /\ I!add_epi8(this, d) \in Register(0..15)
        /\ \A k \in 0..15 : I!add_epi8(this, d)[k] = (this[k] + d[k]) % 256
    BY <1>2, <1>4, <2>1, AddEpi8Lanes
  <2> HIDE DEF value
  <2> QED
    BY <2>2, <2>3, <2>4
<1>12. ASSUME o.name = "-" PROVE G
  <2>1. o.with \in Octet
    BY <1>12, OperationKinds
  <2>2. westmere(o, this, left) = I!sub_epi8(this, d)
    BY <1>12, WestmereMembers DEF westmere, d
  <2>3. \A k \in 0..15 : value(k) = (this[k] - d[k]) % 256
    BY <1>12, <1>4, <2>1 DEF lane
  <2>4. /\ I!sub_epi8(this, d) \in Register(0..15)
        /\ \A k \in 0..15 : I!sub_epi8(this, d)[k] = (this[k] - d[k]) % 256
    BY <1>2, <1>4, <2>1, SubEpi8Lanes
  <2> HIDE DEF value
  <2> QED
    BY <2>2, <2>3, <2>4
<1>13. ASSUME o.name = "==" PROVE G
  <2>1. o.with \in Octet
    BY <1>13, OperationKinds
  <2>2. westmere(o, this, left) = I!cmpeq_epi8(this, d)
    BY <1>13, WestmereMembers DEF westmere, d
  <2>3. \A k \in 0..15 : value(k) = I!mask(this[k] = d[k])
    BY <1>13, <1>4, <2>1 DEF lane
  <2>4. /\ I!cmpeq_epi8(this, d) \in Register(0..15)
        /\ \A k \in 0..15 : I!cmpeq_epi8(this, d)[k] = I!mask(this[k] = d[k])
    BY <1>2, <1>4, <2>1, CmpeqEpi8Lanes
  <2> HIDE DEF value
  <2> QED
    BY <2>2, <2>3, <2>4
<1>14. ASSUME o.name = ">" PROVE G
  <2>1. o.with \in Octet
    BY <1>14, OperationKinds
  <2>2. westmere(o, this, left) = I!cmpgt_epi8(this, d)
    BY <1>14, WestmereMembers DEF westmere, d
  <2>3. \A k \in 0..15 : value(k) = I!mask(I!signed(this[k]) > I!signed(d[k]))
    BY <1>14, <1>4, <2>1 DEF lane
  <2>4. /\ I!cmpgt_epi8(this, d) \in Register(0..15)
        /\ \A k \in 0..15 : I!cmpgt_epi8(this, d)[k] = I!mask(I!signed(this[k]) > I!signed(d[k]))
    BY <1>2, <1>4, <2>1, CmpgtEpi8Lanes
  <2> HIDE DEF value
  <2> QED
    BY <2>2, <2>3, <2>4
<1>15. ASSUME o.name = "<" PROVE G
  <2>1. o.with \in Octet
    BY <1>15, OperationKinds
  <2>2. westmere(o, this, left) = I!cmpgt_epi8(d, this)
    BY <1>15, WestmereMembers DEF westmere, d
  <2>3. \A k \in 0..15 : value(k) = I!mask(I!signed(d[k]) > I!signed(this[k]))
    BY <1>15, <1>4, <2>1 DEF lane
  <2>4. /\ I!cmpgt_epi8(d, this) \in Register(0..15)
        /\ \A k \in 0..15 : I!cmpgt_epi8(d, this)[k] = I!mask(I!signed(d[k]) > I!signed(this[k]))
    BY <1>2, <1>4, <2>1, CmpgtEpi8Lanes
  <2> HIDE DEF value
  <2> QED
    BY <2>2, <2>3, <2>4
<1>16. ASSUME o.name = "lookup_16" PROVE G
  <2> DEFINE table == Tables[o.with]
  <2>1. table \in [1..16 -> Octet]
    BY <1>16, OperationKinds, TablesAssumption DEF Octet
  <2>2. westmere(o, this, left) = S!lookup_16(this, table)
    BY <1>16 DEF westmere
  <2>3. \A k \in 0..15 :
          value(k) = IF this[k] < 16 \/ ("x86" # "arm64" /\ this[k] < 128)
                     THEN table[(this[k] % 16) + 1] ELSE 0
    BY <1>16 DEF lane
  <2> HIDE DEF table
  <2>4. /\ S!lookup_16(this, table) \in R16
        /\ \A k \in 0..15 : S!lookup_16(this, table)[k]
             = IF this[k] < 128 THEN table[(this[k] % 16) + 1] ELSE 0
    BY <2>1, WestmereLookup
  <2>5. ASSUME NEW k \in 0..15
        PROVE  value(k) = IF this[k] < 128 THEN table[(this[k] % 16) + 1] ELSE 0
    <3>1. PICK x \in Octet : x = this[k]
      BY <1>2 DEF Register
    <3>2. x < 16 \/ ("x86" # "arm64" /\ x < 128) <=> x < 128
      BY DEF Octet
    <3> HIDE DEF value
    <3> QED
      BY <2>3, <3>1, <3>2
  <2> HIDE DEF value
  <2> QED
    BY <2>2, <2>4, <2>5 DEF R16
<1>17. ASSUME o.name = "max" PROVE G
  <2>1. westmere(o, this, left) = I!max_epi8(this, b1)
    BY <1>17, <1>1, WestmereMembers DEF westmere
  <2>2. \A k \in 0..15 : value(k) = IF I!signed(this[k]) > I!signed(b1[k]) THEN this[k] ELSE b1[k]
    BY <1>17 DEF lane
  <2>3. /\ I!max_epi8(this, b1) \in Register(0..15)
        /\ \A k \in 0..15 : I!max_epi8(this, b1)[k]
             = IF I!signed(this[k]) > I!signed(b1[k]) THEN this[k] ELSE b1[k]
    BY <1>2, <1>3, MaxEpi8Lanes
  <2> HIDE DEF value
  <2> QED
    BY <2>1, <2>2, <2>3
<1>18. ASSUME o.name = "must_be_continuation" PROVE G
  <2>1. westmere(o, this, left) = S!must_be_continuation(b1, b2, b3)
    BY <1>18, <1>1 DEF westmere
  <2>2. \A k \in 0..15 : value(k) = Demands(b1[k], b2[k], b3[k], "x86")
    BY <1>18 DEF lane
  <2>3. /\ S!must_be_continuation(b1, b2, b3) \in Register(0..15)
        /\ \A k \in 0..15 : S!must_be_continuation(b1, b2, b3)[k] = Demands(b1[k], b2[k], b3[k], "x86")
    BY <1>3, WestmereDemands
  <2> HIDE DEF value
  <2> QED
    BY <2>1, <2>2, <2>3
<1>19. ASSUME o.name = "must_be_2_3_continuation" PROVE G
  <2>1. westmere(o, this, left) = S!must_be_2_3_continuation(b2, b3)
    BY <1>19, <1>1 DEF westmere
  <2>2. \A k \in 0..15 : value(k) = DemandsTwo(b2[k], b3[k], "x86")
    BY <1>19 DEF lane
  <2>3. /\ S!must_be_2_3_continuation(b2, b3) \in Register(0..15)
        /\ \A k \in 0..15 : S!must_be_2_3_continuation(b2, b3)[k] = DemandsTwo(b2[k], b3[k], "x86")
    BY <1>3, WestmereDemands
  <2> HIDE DEF value
  <2> QED
    BY <2>1, <2>2, <2>3
<1>20. G
  <2> HIDE DEF G
  <2>1. o.name \in {"prev", "shr", "&", "saturating_sub", "saturating_add", "+", "-", "==",
                    ">", "<", "lookup_16", "max", "must_be_continuation",
                    "must_be_2_3_continuation"}
    BY OperationKinds
  <2> QED
    BY <2>1, <1>6, <1>7, <1>8, <1>9, <1>10, <1>11, <1>12, <1>13, <1>14, <1>15, <1>16, <1>17, <1>18, <1>19
<1> QED
  BY <1>20 DEF b1, b2, b3, R16

LEMMA HaswellLane ==
  ASSUME NEW o \in Operations, NEW this \in R32, NEW left \in R32
  PROVE  /\ haswell(o, this, left) \in R32
         /\ \A k \in 0..31 :
              haswell(o, this, left)[k]
                = lane(o, this[k], Behind(1, 32, this, left)[k], Behind(2, 32, this, left)[k],
                       Behind(3, 32, this, left)[k], "x86")
<1> DEFINE b1 == Behind(1, 32, this, left)
           b2 == Behind(2, 32, this, left)
           b3 == Behind(3, 32, this, left)
           d == H!splat(o.with)
           value(k) == lane(o, this[k], b1[k], b2[k], b3[k], "x86")
<1>1. /\ H!prev(1, this, left) = b1
      /\ H!prev(2, this, left) = b2
      /\ H!prev(3, this, left) = b3
  BY HaswellPrev
<1>2. this \in Register(0..31) /\ left \in Register(0..31)
  BY DEF R32
<1>3. b1 \in Register(0..31) /\ b2 \in Register(0..31) /\ b3 \in Register(0..31)
  <2>1. \A i \in 1..3 : Behind(i, 32, this, left) \in Register(0..(32 - 1))
    BY <1>2, BehindType
  <2> QED
    BY <2>1
<1>4. o.with \in Octet => d \in Register(0..31) /\ \A k \in 0..31 : d[k] = o.with
  BY HaswellSplat DEF R32
<1>5. o.with = 15 => d = H!splat(15)
  OBVIOUS
<1> HIDE DEF b1, b2, b3, d
<1> DEFINE G == /\ haswell(o, this, left) \in Register(0..31)
                /\ \A k \in 0..31 : haswell(o, this, left)[k] = value(k)
<1>6. ASSUME o.name = "prev" PROVE G
  <2>1. o.with \in 1..3
    BY <1>6, OperationKinds
  <2>2. haswell(o, this, left) = H!prev(o.with, this, left)
    BY <1>6 DEF haswell
  <2>3. haswell(o, this, left) = IF o.with = 1 THEN b1 ELSE IF o.with = 2 THEN b2 ELSE b3
    BY <1>1, <2>1, <2>2
  <2>4. \A k \in 0..31 : value(k) = IF o.with = 1 THEN b1[k] ELSE IF o.with = 2 THEN b2[k] ELSE b3[k]
    BY <1>6 DEF lane
  <2> HIDE DEF value
  <2> QED
    BY <1>3, <2>1, <2>3, <2>4
<1>7. ASSUME o.name = "shr" PROVE G
  <2>1. o.with = 4
    BY <1>7, OperationKinds
  <2>2. haswell(o, this, left) = H!shr(4, this)
    BY <1>7, <2>1 DEF haswell
  <2>3. \A k \in 0..31 : value(k) = this[k] \div 16
    BY <1>7 DEF lane
  <2>4. \A k \in 0..31 : H!shr(4, this) \in R32 /\ H!shr(4, this)[k] = this[k] \div 16
    BY HaswellHighNibble
  <2>5. 0 \in 0..31
    OBVIOUS
  <2> HIDE DEF value
  <2> QED
    BY <2>2, <2>3, <2>4, <2>5 DEF R32
<1>8. ASSUME o.name = "&" PROVE G
  <2>1. o.with = 15
    BY <1>8, OperationKinds
  <2>2. haswell(o, this, left) = H!bit_and(this, H!splat(15))
    BY <1>5, <1>8, <2>1 DEF haswell, d
  <2>3. \A k \in 0..31 : value(k) = this[k] % 16
    BY <1>8 DEF lane
  <2>4. \A k \in 0..31 : /\ H!bit_and(this, H!splat(15)) \in R32
                       /\ H!bit_and(this, H!splat(15))[k] = this[k] % 16
    BY HaswellLowNibble
  <2>5. 0 \in 0..31
    OBVIOUS
  <2> HIDE DEF value
  <2> QED
    BY <2>2, <2>3, <2>4, <2>5 DEF R32
<1>9. ASSUME o.name = "saturating_sub" PROVE G
  <2>1. o.with \in Octet
    BY <1>9, OperationKinds
  <2>2. haswell(o, this, left) = I!subs_epu8(this, d)
    BY <1>9, HaswellMembers DEF haswell, d
  <2>3. \A k \in 0..31 : value(k) = IF this[k] > d[k] THEN this[k] - d[k] ELSE 0
    BY <1>9, <1>4, <2>1 DEF lane
  <2>4. /\ I!subs_epu8(this, d) \in Register(0..31)
        /\ \A k \in 0..31 : I!subs_epu8(this, d)[k] = IF this[k] > d[k] THEN this[k] - d[k] ELSE 0
    BY <1>2, <1>4, <2>1, SubsEpu8Lanes
  <2> HIDE DEF value
  <2> QED
    BY <2>2, <2>3, <2>4
<1>10. ASSUME o.name = "saturating_add" PROVE G
  <2>1. o.with \in Octet
    BY <1>10, OperationKinds
  <2>2. haswell(o, this, left) = I!adds_epu8(this, d)
    BY <1>10, HaswellMembers DEF haswell, d
  <2>3. \A k \in 0..31 : value(k) = IF this[k] + d[k] > 255 THEN 255 ELSE this[k] + d[k]
    BY <1>10, <1>4, <2>1 DEF lane
  <2>4. /\ I!adds_epu8(this, d) \in Register(0..31)
        /\ \A k \in 0..31 : I!adds_epu8(this, d)[k] = IF this[k] + d[k] > 255 THEN 255 ELSE this[k] + d[k]
    BY <1>2, <1>4, <2>1, AddsEpu8Lanes
  <2> HIDE DEF value
  <2> QED
    BY <2>2, <2>3, <2>4
<1>11. ASSUME o.name = "+" PROVE G
  <2>1. o.with \in Octet
    BY <1>11, OperationKinds
  <2>2. haswell(o, this, left) = I!add_epi8(this, d)
    BY <1>11, HaswellMembers DEF haswell, d
  <2>3. \A k \in 0..31 : value(k) = (this[k] + d[k]) % 256
    BY <1>11, <1>4, <2>1 DEF lane
  <2>4. /\ I!add_epi8(this, d) \in Register(0..31)
        /\ \A k \in 0..31 : I!add_epi8(this, d)[k] = (this[k] + d[k]) % 256
    BY <1>2, <1>4, <2>1, AddEpi8Lanes
  <2> HIDE DEF value
  <2> QED
    BY <2>2, <2>3, <2>4
<1>12. ASSUME o.name = "-" PROVE G
  <2>1. o.with \in Octet
    BY <1>12, OperationKinds
  <2>2. haswell(o, this, left) = I!sub_epi8(this, d)
    BY <1>12, HaswellMembers DEF haswell, d
  <2>3. \A k \in 0..31 : value(k) = (this[k] - d[k]) % 256
    BY <1>12, <1>4, <2>1 DEF lane
  <2>4. /\ I!sub_epi8(this, d) \in Register(0..31)
        /\ \A k \in 0..31 : I!sub_epi8(this, d)[k] = (this[k] - d[k]) % 256
    BY <1>2, <1>4, <2>1, SubEpi8Lanes
  <2> HIDE DEF value
  <2> QED
    BY <2>2, <2>3, <2>4
<1>13. ASSUME o.name = "==" PROVE G
  <2>1. o.with \in Octet
    BY <1>13, OperationKinds
  <2>2. haswell(o, this, left) = I!cmpeq_epi8(this, d)
    BY <1>13, HaswellMembers DEF haswell, d
  <2>3. \A k \in 0..31 : value(k) = I!mask(this[k] = d[k])
    BY <1>13, <1>4, <2>1 DEF lane
  <2>4. /\ I!cmpeq_epi8(this, d) \in Register(0..31)
        /\ \A k \in 0..31 : I!cmpeq_epi8(this, d)[k] = I!mask(this[k] = d[k])
    BY <1>2, <1>4, <2>1, CmpeqEpi8Lanes
  <2> HIDE DEF value
  <2> QED
    BY <2>2, <2>3, <2>4
<1>14. ASSUME o.name = ">" PROVE G
  <2>1. o.with \in Octet
    BY <1>14, OperationKinds
  <2>2. haswell(o, this, left) = I!cmpgt_epi8(this, d)
    BY <1>14, HaswellMembers DEF haswell, d
  <2>3. \A k \in 0..31 : value(k) = I!mask(I!signed(this[k]) > I!signed(d[k]))
    BY <1>14, <1>4, <2>1 DEF lane
  <2>4. /\ I!cmpgt_epi8(this, d) \in Register(0..31)
        /\ \A k \in 0..31 : I!cmpgt_epi8(this, d)[k] = I!mask(I!signed(this[k]) > I!signed(d[k]))
    BY <1>2, <1>4, <2>1, CmpgtEpi8Lanes
  <2> HIDE DEF value
  <2> QED
    BY <2>2, <2>3, <2>4
<1>15. ASSUME o.name = "<" PROVE G
  <2>1. o.with \in Octet
    BY <1>15, OperationKinds
  <2>2. haswell(o, this, left) = I!cmpgt_epi8(d, this)
    BY <1>15, HaswellMembers DEF haswell, d
  <2>3. \A k \in 0..31 : value(k) = I!mask(I!signed(d[k]) > I!signed(this[k]))
    BY <1>15, <1>4, <2>1 DEF lane
  <2>4. /\ I!cmpgt_epi8(d, this) \in Register(0..31)
        /\ \A k \in 0..31 : I!cmpgt_epi8(d, this)[k] = I!mask(I!signed(d[k]) > I!signed(this[k]))
    BY <1>2, <1>4, <2>1, CmpgtEpi8Lanes
  <2> HIDE DEF value
  <2> QED
    BY <2>2, <2>3, <2>4
<1>16. ASSUME o.name = "lookup_16" PROVE G
  <2> DEFINE table == Tables[o.with]
  <2>1. table \in [1..16 -> Octet]
    BY <1>16, OperationKinds, TablesAssumption DEF Octet
  <2>2. haswell(o, this, left) = H!lookup_16(this, table)
    BY <1>16 DEF haswell
  <2>3. \A k \in 0..31 :
          value(k) = IF this[k] < 16 \/ ("x86" # "arm64" /\ this[k] < 128)
                     THEN table[(this[k] % 16) + 1] ELSE 0
    BY <1>16 DEF lane
  <2> HIDE DEF table
  <2>4. /\ H!lookup_16(this, table) \in R32
        /\ \A k \in 0..31 : H!lookup_16(this, table)[k]
             = IF this[k] < 128 THEN table[(this[k] % 16) + 1] ELSE 0
    BY <2>1, HaswellLookup
  <2>5. ASSUME NEW k \in 0..31
        PROVE  value(k) = IF this[k] < 128 THEN table[(this[k] % 16) + 1] ELSE 0
    <3>1. PICK x \in Octet : x = this[k]
      BY <1>2 DEF Register
    <3>2. x < 16 \/ ("x86" # "arm64" /\ x < 128) <=> x < 128
      BY DEF Octet
    <3> HIDE DEF value
    <3> QED
      BY <2>3, <3>1, <3>2
  <2> HIDE DEF value
  <2> QED
    BY <2>2, <2>4, <2>5 DEF R32
<1>17. ASSUME o.name = "max" PROVE G
  <2>1. haswell(o, this, left) = I!max_epi8(this, b1)
    BY <1>17, <1>1, HaswellMembers DEF haswell
  <2>2. \A k \in 0..31 : value(k) = IF I!signed(this[k]) > I!signed(b1[k]) THEN this[k] ELSE b1[k]
    BY <1>17 DEF lane
  <2>3. /\ I!max_epi8(this, b1) \in Register(0..31)
        /\ \A k \in 0..31 : I!max_epi8(this, b1)[k]
             = IF I!signed(this[k]) > I!signed(b1[k]) THEN this[k] ELSE b1[k]
    BY <1>2, <1>3, MaxEpi8Lanes
  <2> HIDE DEF value
  <2> QED
    BY <2>1, <2>2, <2>3
<1>18. ASSUME o.name = "must_be_continuation" PROVE G
  <2>1. haswell(o, this, left) = H!must_be_continuation(b1, b2, b3)
    BY <1>18, <1>1 DEF haswell
  <2>2. \A k \in 0..31 : value(k) = Demands(b1[k], b2[k], b3[k], "x86")
    BY <1>18 DEF lane
  <2>3. /\ H!must_be_continuation(b1, b2, b3) \in Register(0..31)
        /\ \A k \in 0..31 : H!must_be_continuation(b1, b2, b3)[k] = Demands(b1[k], b2[k], b3[k], "x86")
    BY <1>3, HaswellDemands
  <2> HIDE DEF value
  <2> QED
    BY <2>1, <2>2, <2>3
<1>19. ASSUME o.name = "must_be_2_3_continuation" PROVE G
  <2>1. haswell(o, this, left) = H!must_be_2_3_continuation(b2, b3)
    BY <1>19, <1>1 DEF haswell
  <2>2. \A k \in 0..31 : value(k) = DemandsTwo(b2[k], b3[k], "x86")
    BY <1>19 DEF lane
  <2>3. /\ H!must_be_2_3_continuation(b2, b3) \in Register(0..31)
        /\ \A k \in 0..31 : H!must_be_2_3_continuation(b2, b3)[k] = DemandsTwo(b2[k], b3[k], "x86")
    BY <1>3, HaswellDemands
  <2> HIDE DEF value
  <2> QED
    BY <2>1, <2>2, <2>3
<1>20. G
  <2> HIDE DEF G
  <2>1. o.name \in {"prev", "shr", "&", "saturating_sub", "saturating_add", "+", "-", "==",
                    ">", "<", "lookup_16", "max", "must_be_continuation",
                    "must_be_2_3_continuation"}
    BY OperationKinds
  <2> QED
    BY <2>1, <1>6, <1>7, <1>8, <1>9, <1>10, <1>11, <1>12, <1>13, <1>14, <1>15, <1>16, <1>17, <1>18, <1>19
<1> QED
  BY <1>20 DEF b1, b2, b3, R32

LEMMA Arm64Lane ==
  ASSUME NEW o \in Operations, NEW this \in R16, NEW left \in R16
  PROVE  /\ arm64(o, this, left) \in R16
         /\ \A k \in 0..15 :
              arm64(o, this, left)[k]
                = lane(o, this[k], Behind(1, 16, this, left)[k], Behind(2, 16, this, left)[k],
                       Behind(3, 16, this, left)[k], "arm64")
<1> DEFINE b1 == Behind(1, 16, this, left)
           b2 == Behind(2, 16, this, left)
           b3 == Behind(3, 16, this, left)
           d == N!splat(o.with)
           value(k) == lane(o, this[k], b1[k], b2[k], b3[k], "arm64")
<1>1. /\ N!prev(1, this, left) = b1
      /\ N!prev(2, this, left) = b2
      /\ N!prev(3, this, left) = b3
  BY Arm64Prev
<1>2. this \in Register(0..15) /\ left \in Register(0..15)
  BY DEF R16
<1>3. b1 \in Register(0..15) /\ b2 \in Register(0..15) /\ b3 \in Register(0..15)
  <2>1. \A i \in 1..3 : Behind(i, 16, this, left) \in Register(0..(16 - 1))
    BY <1>2, BehindType
  <2> QED
    BY <2>1
<1>4. o.with \in Octet => d \in Register(0..15) /\ \A k \in 0..15 : d[k] = o.with
  BY Arm64Splat DEF R16
<1>5. o.with = 15 => d = N!splat(15)
  OBVIOUS
<1> HIDE DEF b1, b2, b3, d
<1> DEFINE G == /\ arm64(o, this, left) \in Register(0..15)
                /\ \A k \in 0..15 : arm64(o, this, left)[k] = value(k)
<1>6. ASSUME o.name = "prev" PROVE G
  <2>1. o.with \in 1..3
    BY <1>6, OperationKinds
  <2>2. arm64(o, this, left) = N!prev(o.with, this, left)
    BY <1>6 DEF arm64
  <2>3. arm64(o, this, left) = IF o.with = 1 THEN b1 ELSE IF o.with = 2 THEN b2 ELSE b3
    BY <1>1, <2>1, <2>2
  <2>4. \A k \in 0..15 : value(k) = IF o.with = 1 THEN b1[k] ELSE IF o.with = 2 THEN b2[k] ELSE b3[k]
    BY <1>6 DEF lane
  <2> HIDE DEF value
  <2> QED
    BY <1>3, <2>1, <2>3, <2>4
<1>7. ASSUME o.name = "shr" PROVE G
  <2>1. o.with = 4
    BY <1>7, OperationKinds
  <2>2. arm64(o, this, left) = N!shr(4, this)
    BY <1>7, <2>1 DEF arm64
  <2>3. \A k \in 0..15 : value(k) = this[k] \div 16
    BY <1>7 DEF lane
  <2>4. \A k \in 0..15 : N!shr(4, this) \in R16 /\ N!shr(4, this)[k] = this[k] \div 16
    BY Arm64HighNibble
  <2>5. 0 \in 0..15
    OBVIOUS
  <2> HIDE DEF value
  <2> QED
    BY <2>2, <2>3, <2>4, <2>5 DEF R16
<1>8. ASSUME o.name = "&" PROVE G
  <2>1. o.with = 15
    BY <1>8, OperationKinds
  <2>2. arm64(o, this, left) = N!bit_and(this, N!splat(15))
    BY <1>5, <1>8, <2>1 DEF arm64, d
  <2>3. \A k \in 0..15 : value(k) = this[k] % 16
    BY <1>8 DEF lane
  <2>4. \A k \in 0..15 : /\ N!bit_and(this, N!splat(15)) \in R16
                       /\ N!bit_and(this, N!splat(15))[k] = this[k] % 16
    BY Arm64LowNibble
  <2>5. 0 \in 0..15
    OBVIOUS
  <2> HIDE DEF value
  <2> QED
    BY <2>2, <2>3, <2>4, <2>5 DEF R16
<1>9. ASSUME o.name = "saturating_sub" PROVE G
  <2>1. o.with \in Octet
    BY <1>9, OperationKinds
  <2>2. arm64(o, this, left) = I!subs_epu8(this, d)
    BY <1>9, Arm64Members DEF arm64, d
  <2>3. \A k \in 0..15 : value(k) = IF this[k] > d[k] THEN this[k] - d[k] ELSE 0
    BY <1>9, <1>4, <2>1 DEF lane
  <2>4. /\ I!subs_epu8(this, d) \in Register(0..15)
        /\ \A k \in 0..15 : I!subs_epu8(this, d)[k] = IF this[k] > d[k] THEN this[k] - d[k] ELSE 0
    BY <1>2, <1>4, <2>1, SubsEpu8Lanes
  <2> HIDE DEF value
  <2> QED
    BY <2>2, <2>3, <2>4
<1>10. ASSUME o.name = "saturating_add" PROVE G
  <2>1. o.with \in Octet
    BY <1>10, OperationKinds
  <2>2. arm64(o, this, left) = I!adds_epu8(this, d)
    BY <1>10, Arm64Members DEF arm64, d
  <2>3. \A k \in 0..15 : value(k) = IF this[k] + d[k] > 255 THEN 255 ELSE this[k] + d[k]
    BY <1>10, <1>4, <2>1 DEF lane
  <2>4. /\ I!adds_epu8(this, d) \in Register(0..15)
        /\ \A k \in 0..15 : I!adds_epu8(this, d)[k] = IF this[k] + d[k] > 255 THEN 255 ELSE this[k] + d[k]
    BY <1>2, <1>4, <2>1, AddsEpu8Lanes
  <2> HIDE DEF value
  <2> QED
    BY <2>2, <2>3, <2>4
<1>11. ASSUME o.name = "+" PROVE G
  <2>1. o.with \in Octet
    BY <1>11, OperationKinds
  <2>2. arm64(o, this, left) = I!add_epi8(this, d)
    BY <1>11, Arm64Members DEF arm64, d
  <2>3. \A k \in 0..15 : value(k) = (this[k] + d[k]) % 256
    BY <1>11, <1>4, <2>1 DEF lane
  <2>4. /\ I!add_epi8(this, d) \in Register(0..15)
        /\ \A k \in 0..15 : I!add_epi8(this, d)[k] = (this[k] + d[k]) % 256
    BY <1>2, <1>4, <2>1, AddEpi8Lanes
  <2> HIDE DEF value
  <2> QED
    BY <2>2, <2>3, <2>4
<1>12. ASSUME o.name = "-" PROVE G
  <2>1. o.with \in Octet
    BY <1>12, OperationKinds
  <2>2. arm64(o, this, left) = I!sub_epi8(this, d)
    BY <1>12, Arm64Members DEF arm64, d
  <2>3. \A k \in 0..15 : value(k) = (this[k] - d[k]) % 256
    BY <1>12, <1>4, <2>1 DEF lane
  <2>4. /\ I!sub_epi8(this, d) \in Register(0..15)
        /\ \A k \in 0..15 : I!sub_epi8(this, d)[k] = (this[k] - d[k]) % 256
    BY <1>2, <1>4, <2>1, SubEpi8Lanes
  <2> HIDE DEF value
  <2> QED
    BY <2>2, <2>3, <2>4
<1>13. ASSUME o.name = "==" PROVE G
  <2>1. o.with \in Octet
    BY <1>13, OperationKinds
  <2>2. arm64(o, this, left) = I!cmpeq_epi8(this, d)
    BY <1>13, Arm64Members DEF arm64, d
  <2>3. \A k \in 0..15 : value(k) = I!mask(this[k] = d[k])
    BY <1>13, <1>4, <2>1 DEF lane
  <2>4. /\ I!cmpeq_epi8(this, d) \in Register(0..15)
        /\ \A k \in 0..15 : I!cmpeq_epi8(this, d)[k] = I!mask(this[k] = d[k])
    BY <1>2, <1>4, <2>1, CmpeqEpi8Lanes
  <2> HIDE DEF value
  <2> QED
    BY <2>2, <2>3, <2>4
<1>14. ASSUME o.name = ">" PROVE G
  <2>1. o.with \in Octet
    BY <1>14, OperationKinds
  <2>2. arm64(o, this, left) = I!cmpgt_epi8(this, d)
    BY <1>14, Arm64Members DEF arm64, d
  <2>3. \A k \in 0..15 : value(k) = I!mask(I!signed(this[k]) > I!signed(d[k]))
    BY <1>14, <1>4, <2>1 DEF lane
  <2>4. /\ I!cmpgt_epi8(this, d) \in Register(0..15)
        /\ \A k \in 0..15 : I!cmpgt_epi8(this, d)[k] = I!mask(I!signed(this[k]) > I!signed(d[k]))
    BY <1>2, <1>4, <2>1, CmpgtEpi8Lanes
  <2> HIDE DEF value
  <2> QED
    BY <2>2, <2>3, <2>4
<1>15. ASSUME o.name = "<" PROVE G
  <2>1. o.with \in Octet
    BY <1>15, OperationKinds
  <2>2. arm64(o, this, left) = I!cmpgt_epi8(d, this)
    BY <1>15, Arm64Members DEF arm64, d
  <2>3. \A k \in 0..15 : value(k) = I!mask(I!signed(d[k]) > I!signed(this[k]))
    BY <1>15, <1>4, <2>1 DEF lane
  <2>4. /\ I!cmpgt_epi8(d, this) \in Register(0..15)
        /\ \A k \in 0..15 : I!cmpgt_epi8(d, this)[k] = I!mask(I!signed(d[k]) > I!signed(this[k]))
    BY <1>2, <1>4, <2>1, CmpgtEpi8Lanes
  <2> HIDE DEF value
  <2> QED
    BY <2>2, <2>3, <2>4
<1>16. ASSUME o.name = "lookup_16" PROVE G
  <2> DEFINE table == Tables[o.with]
  <2>1. table \in [1..16 -> Octet]
    BY <1>16, OperationKinds, TablesAssumption DEF Octet
  <2>2. arm64(o, this, left) = N!lookup_16(this, table)
    BY <1>16 DEF arm64
  <2>3. \A k \in 0..15 :
          value(k) = IF this[k] < 16 \/ ("arm64" # "arm64" /\ this[k] < 128)
                     THEN table[(this[k] % 16) + 1] ELSE 0
    BY <1>16 DEF lane
  <2> HIDE DEF table
  <2>4. /\ N!lookup_16(this, table) \in R16
        /\ \A k \in 0..15 : N!lookup_16(this, table)[k]
             = IF this[k] < 16 THEN table[(this[k] % 16) + 1] ELSE 0
    BY <2>1, Arm64Lookup
  <2>5. ASSUME NEW k \in 0..15
        PROVE  value(k) = IF this[k] < 16 THEN table[(this[k] % 16) + 1] ELSE 0
    <3>1. PICK x \in Octet : x = this[k]
      BY <1>2 DEF Register
    <3>2. x < 16 \/ ("arm64" # "arm64" /\ x < 128) <=> x < 16
      BY DEF Octet
    <3> HIDE DEF value
    <3> QED
      BY <2>3, <3>1, <3>2
  <2> HIDE DEF value
  <2> QED
    BY <2>2, <2>4, <2>5 DEF R16
<1>17. ASSUME o.name = "max" PROVE G
  <2>1. arm64(o, this, left) = I!max_epi8(this, b1)
    BY <1>17, <1>1, Arm64Members DEF arm64
  <2>2. \A k \in 0..15 : value(k) = IF I!signed(this[k]) > I!signed(b1[k]) THEN this[k] ELSE b1[k]
    BY <1>17 DEF lane
  <2>3. /\ I!max_epi8(this, b1) \in Register(0..15)
        /\ \A k \in 0..15 : I!max_epi8(this, b1)[k]
             = IF I!signed(this[k]) > I!signed(b1[k]) THEN this[k] ELSE b1[k]
    BY <1>2, <1>3, MaxEpi8Lanes
  <2> HIDE DEF value
  <2> QED
    BY <2>1, <2>2, <2>3
<1>18. ASSUME o.name = "must_be_continuation" PROVE G
  <2>1. arm64(o, this, left) = N!must_be_continuation(b1, b2, b3)
    BY <1>18, <1>1 DEF arm64
  <2>2. \A k \in 0..15 : value(k) = Demands(b1[k], b2[k], b3[k], "arm64")
    BY <1>18 DEF lane
  <2>3. /\ N!must_be_continuation(b1, b2, b3) \in Register(0..15)
        /\ \A k \in 0..15 : N!must_be_continuation(b1, b2, b3)[k] = Demands(b1[k], b2[k], b3[k], "arm64")
    BY <1>3, Arm64Demands
  <2> HIDE DEF value
  <2> QED
    BY <2>1, <2>2, <2>3
<1>19. ASSUME o.name = "must_be_2_3_continuation" PROVE G
  <2>1. arm64(o, this, left) = N!must_be_2_3_continuation(b2, b3)
    BY <1>19, <1>1 DEF arm64
  <2>2. \A k \in 0..15 : value(k) = DemandsTwo(b2[k], b3[k], "arm64")
    BY <1>19 DEF lane
  <2>3. /\ N!must_be_2_3_continuation(b2, b3) \in Register(0..15)
        /\ \A k \in 0..15 : N!must_be_2_3_continuation(b2, b3)[k] = DemandsTwo(b2[k], b3[k], "arm64")
    BY <1>3, Arm64Demands
  <2> HIDE DEF value
  <2> QED
    BY <2>1, <2>2, <2>3
<1>20. G
  <2> HIDE DEF G
  <2>1. o.name \in {"prev", "shr", "&", "saturating_sub", "saturating_add", "+", "-", "==",
                    ">", "<", "lookup_16", "max", "must_be_continuation",
                    "must_be_2_3_continuation"}
    BY OperationKinds
  <2> QED
    BY <2>1, <1>6, <1>7, <1>8, <1>9, <1>10, <1>11, <1>12, <1>13, <1>14, <1>15, <1>16, <1>17, <1>18, <1>19
<1> QED
  BY <1>20 DEF b1, b2, b3, R16

-----------------------------------------------------------------------------
(* The registers of a block, one after the other.                          *)
Flat(registers, w) == [k \in 0..63 |-> registers[k \div w][k % w]]

LEMMA PlaceOfByte ==
  ASSUME NEW w \in {16, 32}, NEW k \in 0..63
  PROVE  /\ k \div w \in 0..((64 \div w) - 1)
         /\ k % w \in 0..(w - 1)
         /\ k = w * (k \div w) + (k % w)
<1>1. CASE w = 16
  BY <1>1
<1>2. CASE w = 32
  BY <1>2
<1> QED
  BY <1>1, <1>2

(* The bytes before a place, looked for in its register and the one before *)
(* that, and the same among all.                                           *)
BehindIn(n, w, c, b, k) ==
  Behind(n, w, c[k \div w], IF k \div w = 0 THEN b[(64 \div w) - 1]
                                            ELSE c[(k \div w) - 1])[k % w]

LEMMA BehindAcross ==
  ASSUME NEW w \in {16, 32}, NEW c, NEW b, NEW n \in 1..3, NEW k \in 0..63
  PROVE  Behind(n, 64, Flat(c, w), Flat(b, w))[k] = BehindIn(n, w, c, b, k)
<1> SUFFICES
      Behind(n, 64, Flat(c, w), Flat(b, w))[k]
        = Behind(n, w, c[k \div w], IF k \div w = 0 THEN b[(64 \div w) - 1]
                                                    ELSE c[(k \div w) - 1])[k % w]
  BY DEF BehindIn
<1> DEFINE i == k \div w
           r == k % w
           left == IF i = 0 THEN b[(64 \div w) - 1] ELSE c[i - 1]
<1>1. r \in 0..(w - 1) /\ i \in 0..((64 \div w) - 1)
  BY PlaceOfByte
<1>2. /\ Behind(n, 64, Flat(c, w), Flat(b, w))[k]
           = IF k >= n THEN Flat(c, w)[k - n] ELSE Flat(b, w)[(64 - n) + k]
      /\ Behind(n, w, c[i], left)[r] = IF r >= n THEN c[i][r - n] ELSE left[(w - n) + r]
  <2>1. 64 - 1 = 63
    OBVIOUS
  <2> HIDE DEF left, i, r
  <2> QED
    BY <1>1, <2>1 DEF Behind
<1>3. CASE r >= n
  <2>1. k >= n /\ k - n \in 0..63 /\ (k - n) \div w = i /\ (k - n) % w = r - n
    <3>1. CASE w = 16
      BY <1>3, <3>1
    <3>2. CASE w = 32
      BY <1>3, <3>2
    <3> QED
      BY <3>1, <3>2
  <2> HIDE DEF left, i, r
  <2>2. Flat(c, w)[k - n] = c[i][r - n]
    BY <2>1 DEF Flat
  <2> QED
    BY <1>2, <1>3, <2>1, <2>2 DEF left, i, r
<1>4. CASE r < n /\ i # 0
  <2>1. /\ k >= n /\ k - n \in 0..63 /\ (k - n) \div w = i - 1
        /\ (k - n) % w = (w - n) + r /\ ~(r >= n)
    <3>1. CASE w = 16
      BY <1>4, <3>1
    <3>2. CASE w = 32
      BY <1>4, <3>2
    <3> QED
      BY <3>1, <3>2
  <2>2. left = c[i - 1]
    BY <1>4
  <2> HIDE DEF left, i, r
  <2>3. Flat(c, w)[k - n] = c[i - 1][(w - n) + r]
    BY <2>1 DEF Flat
  <2> QED
    BY <1>2, <2>1, <2>2, <2>3 DEF left, i, r
<1>5. CASE r < n /\ i = 0
  <2>1. /\ ~(k >= n) /\ (64 - n) + k \in 0..63 /\ ((64 - n) + k) \div w = (64 \div w) - 1
        /\ ((64 - n) + k) % w = (w - n) + r /\ ~(r >= n)
    <3>1. CASE w = 16
      BY <1>5, <3>1
    <3>2. CASE w = 32
      BY <1>5, <3>2
    <3> QED
      BY <3>1, <3>2
  <2>2. left = b[(64 \div w) - 1]
    BY <1>5
  <2> HIDE DEF left, i, r
  <2>3. Flat(b, w)[(64 - n) + k] = b[(64 \div w) - 1][(w - n) + r]
    BY <2>1 DEF Flat
  <2> QED
    BY <1>2, <2>1, <2>2, <2>3 DEF left, i, r
<1> QED
  BY <1>1, <1>3, <1>4, <1>5

(* A saturating subtraction tells whether the byte is above, and leaves no *)
(* sign bit.                                                               *)
above(y, m) == IF y > m THEN y - m ELSE 0

LEMMA AboveIsPositive ==
  ASSUME NEW y \in Octet, NEW m \in 191..255
  PROVE  /\ above(y, m) # 0 <=> y > m
         /\ above(y, m) < 128
<1>1. y \in Nat /\ m \in Nat /\ y <= 255 /\ m >= 191
  BY DEF Octet
<1>2. CASE y > m
  BY <1>1, <1>2 DEF above
<1>3. CASE ~ (y > m)
  BY <1>1, <1>3 DEF above
<1> QED
  BY <1>2, <1>3

(* The same of Vector64, whose block is the bytes of the registers.        *)
LEMMA Shape ==
  ASSUME target \in Targets
  PROVE  \/ target = "westmere" /\ SIZE = 16 /\ NUM_CHUNKS = 4 /\ V!arch = "x86"
         \/ target = "haswell" /\ SIZE = 32 /\ NUM_CHUNKS = 2 /\ V!arch = "x86"
         \/ target = "arm64" /\ SIZE = 16 /\ NUM_CHUNKS = 4 /\ V!arch = "arm64"
  BY TargetsAssumption
     DEF SIZE, NUM_CHUNKS, V!arch, S!SIZE, H!SIZE, N!SIZE, S!NUM_CHUNKS, H!NUM_CHUNKS,
         N!NUM_CHUNKS

LEMMA VectorPrev ==
  ASSUME NEW n \in 1..3
  PROVE  V!prev(n) = Behind(n, 64, bytes(chunks), bytes(before))
  BY DEF V!prev, V!S!prev, V!S!Lanes, Behind

LEMMA VectorLane ==
  ASSUME NEW o \in Operations,
         bytes(chunks) \in [0..63 -> Octet], bytes(before) \in [0..63 -> Octet]
  PROVE  V!result(o)
           = [k \in 0..63 |->
                lane(o, bytes(chunks)[k], Behind(1, 64, bytes(chunks), bytes(before))[k],
                     Behind(2, 64, bytes(chunks), bytes(before))[k],
                     Behind(3, 64, bytes(chunks), bytes(before))[k], V!arch)]
<1> DEFINE x == bytes(chunks)
           b1 == Behind(1, 64, bytes(chunks), bytes(before))
           b2 == Behind(2, 64, bytes(chunks), bytes(before))
           b3 == Behind(3, 64, bytes(chunks), bytes(before))
           value(k) == lane(o, x[k], b1[k], b2[k], b3[k], V!arch)
           G == V!result(o) = [k \in 0..63 |-> value(k)]
<1>1. V!prev(1) = b1 /\ V!prev(2) = b2 /\ V!prev(3) = b3
  BY VectorPrev
<1>2. /\ x \in [0..63 -> Octet] /\ DOMAIN b1 = 0..63 /\ DOMAIN b2 = 0..63 /\ DOMAIN b3 = 0..63
      /\ \A k \in 0..63 : b1[k] \in Octet /\ b2[k] \in Octet /\ b3[k] \in Octet
  <2>1. ASSUME NEW n \in 1..3
        PROVE  /\ DOMAIN Behind(n, 64, bytes(chunks), bytes(before)) = 0..63
               /\ \A k \in 0..63 : Behind(n, 64, bytes(chunks), bytes(before))[k] \in Octet
    <3>1. ASSUME NEW k \in 0..63
          PROVE  (IF k >= n THEN bytes(chunks)[k - n] ELSE bytes(before)[(64 - n) + k]) \in Octet
      <4>1. k >= n => k - n \in 0..63
        OBVIOUS
      <4>2. ~(k >= n) => (64 - n) + k \in 0..63
        OBVIOUS
      <4> QED
        BY <4>1, <4>2
    <3>2. 64 - 1 = 63
      OBVIOUS
    <3> QED
      BY <3>1, <3>2 DEF Behind
  <2> QED
    BY <2>1
<1>3. b1 = [k \in 0..63 |-> b1[k]] /\ b2 = [k \in 0..63 |-> b2[k]] /\ b3 = [k \in 0..63 |-> b3[k]]
  BY DEF Behind
<1> HIDE DEF x, b1, b2, b3
<1>4. ASSUME o.name = "prev" PROVE G
  <2>1. o.with \in 1..3
    BY <1>4, OperationKinds
  <2>2. V!result(o) = V!prev(o.with)
    BY <1>4 DEF V!result
  <2>3. V!result(o) = IF o.with = 1 THEN b1 ELSE IF o.with = 2 THEN b2 ELSE b3
    BY <1>1, <2>1, <2>2
  <2>4. \A k \in 0..63 : value(k) = IF o.with = 1 THEN b1[k] ELSE IF o.with = 2 THEN b2[k] ELSE b3[k]
    BY <1>4 DEF lane
  <2> HIDE DEF value
  <2> QED
    BY <1>3, <2>1, <2>3, <2>4
<1>5. ASSUME o.name \in {"shr", "&", "saturating_sub", "saturating_add", "+", "-", "==", ">",
                         "<", "lookup_16"},
             \A k \in 0..63 : V!byte(o, x[k]) = value(k)
      PROVE  G
  <2>1. V!result(o) = [k \in 0..63 |-> V!byte(o, x[k])]
    BY <1>5 DEF V!result, V!Places, x
  <2> HIDE DEF value
  <2> QED
    BY <1>5, <2>1
<1>6. ASSUME o.name = "shr" PROVE G
  <2>1. \A k \in 0..63 : V!byte(o, x[k]) = value(k)
    BY <1>6 DEF V!byte, lane, V!S!high_nibble
  <2> QED
    BY <1>5, <1>6, <2>1
<1>7. ASSUME o.name = "&" PROVE G
  <2>1. \A k \in 0..63 : V!byte(o, x[k]) = value(k)
    BY <1>7 DEF V!byte, lane, V!S!low_nibble
  <2> QED
    BY <1>5, <1>7, <2>1
<1>8. ASSUME o.name = "saturating_sub" PROVE G
  <2>1. o.with \in Octet
    BY <1>8, OperationKinds
  <2>2. ASSUME NEW k \in 0..63 PROVE V!byte(o, x[k]) = value(k)
    BY <1>8, <1>2, <2>1 DEF V!byte, lane, V!S!saturating_sub
  <2> QED
    BY <1>5, <1>8, <2>2
<1>9. ASSUME o.name = "saturating_add" PROVE G
  <2>1. o.with \in Octet
    BY <1>9, OperationKinds
  <2>2. ASSUME NEW k \in 0..63 PROVE V!byte(o, x[k]) = value(k)
    BY <1>9, <1>2, <2>1 DEF V!byte, lane, V!S!saturating_add
  <2> QED
    BY <1>5, <1>9, <2>2
<1>10. ASSUME o.name = "+" PROVE G
  <2>1. \A k \in 0..63 : V!byte(o, x[k]) = value(k)
    BY <1>10 DEF V!byte, lane
  <2> QED
    BY <1>5, <1>10, <2>1
<1>11. ASSUME o.name = "-" PROVE G
  <2>1. \A k \in 0..63 : V!byte(o, x[k]) = value(k)
    BY <1>11 DEF V!byte, lane
  <2> QED
    BY <1>5, <1>11, <2>1
<1>12. ASSUME o.name = "==" PROVE G
  <2>1. o.with \in Octet
    BY <1>12, OperationKinds
  <2>2. ASSUME NEW k \in 0..63 PROVE V!byte(o, x[k]) = value(k)
    BY <1>12, <1>2, <2>1 DEF V!byte, lane, V!mask, I!mask
  <2> QED
    BY <1>5, <1>12, <2>2
<1>13. ASSUME o.name = ">" PROVE G
  <2>1. o.with \in Octet
    BY <1>13, OperationKinds
  <2>2. ASSUME NEW k \in 0..63 PROVE V!byte(o, x[k]) = value(k)
    BY <1>13, <1>2, <2>1 DEF V!byte, lane, V!mask, I!mask, V!greater, V!S!int8, I!signed
  <2> QED
    BY <1>5, <1>13, <2>2
<1>14. ASSUME o.name = "<" PROVE G
  <2>1. o.with \in Octet
    BY <1>14, OperationKinds
  <2>2. ASSUME NEW k \in 0..63 PROVE V!byte(o, x[k]) = value(k)
    BY <1>14, <1>2, <2>1 DEF V!byte, lane, V!mask, I!mask, V!greater, V!S!int8, I!signed
  <2> QED
    BY <1>5, <1>14, <2>2
<1>15. ASSUME o.name = "lookup_16" PROVE G
  <2>1. V!arch \in {"x86", "arm64"}
    BY DEF V!arch
  <2>2. ASSUME NEW k \in 0..63 PROVE V!byte(o, x[k]) = value(k)
    BY <1>15, <1>2, <2>1 DEF V!byte, lane, V!S!lookup_16
  <2> QED
    BY <1>5, <1>15, <2>2
<1>16. ASSUME o.name = "max" PROVE G
  <2>1. V!result(o) = [k \in 0..63 |-> IF V!greater(x[k], b1[k]) THEN x[k] ELSE b1[k]]
    BY <1>16, <1>1 DEF V!result, V!Places, x
  <2>2. \A k \in 0..63 : value(k) = IF I!signed(x[k]) > I!signed(b1[k]) THEN x[k] ELSE b1[k]
    BY <1>16 DEF lane
  <2>3. \A k \in 0..63 : V!greater(x[k], b1[k]) <=> I!signed(x[k]) > I!signed(b1[k])
    BY DEF V!greater, V!S!int8, I!signed
  <2> HIDE DEF value
  <2> QED
    BY <2>1, <2>2, <2>3
<1>17. ASSUME o.name = "must_be_continuation" PROVE G
  <2>1. ASSUME NEW y1 \in Octet, NEW y2 \in Octet, NEW y3 \in Octet
        PROVE  V!mask(V!follows(y1, y2, y3)) = Demands(y1, y2, y3, V!arch)
    <3>1. CASE V!arch = "arm64"
      BY <3>1 DEF V!mask, I!mask, V!follows, V!S!must_be_continuation, Demands
    <3>2. CASE V!arch # "arm64"
      <4>1. /\ above(y1, 191) # 0 <=> y1 > 191
            /\ above(y2, 223) # 0 <=> y2 > 223
            /\ above(y3, 239) # 0 <=> y3 > 239
            /\ above(y1, 191) < 128 /\ above(y2, 223) < 128 /\ above(y3, 239) < 128
        BY AboveIsPositive
      <4>2. V!follows(y1, y2, y3) <=>
              /\ \E a \in {above(y1, 191), above(y2, 223), above(y3, 239)} : a # 0
              /\ \A a \in {above(y1, 191), above(y2, 223), above(y3, 239)} : a < 128
        BY <3>2 DEF V!follows, V!S!must_be_continuation, V!S!or_positive, V!S!saturating_sub, above
      <4>3. V!follows(y1, y2, y3) <=> y1 > 191 \/ y2 > 223 \/ y3 > 239
        BY <4>1, <4>2
      <4> QED
        BY <3>2, <4>3 DEF V!mask, I!mask, Demands
    <3> QED
      BY <3>1, <3>2
  <2>2. V!result(o) = [k \in 0..63 |-> V!mask(V!follows(b1[k], b2[k], b3[k]))]
    BY <1>17, <1>1 DEF V!result, V!Places
  <2>3. \A k \in 0..63 : value(k) = Demands(b1[k], b2[k], b3[k], V!arch)
    BY <1>17 DEF lane
  <2> HIDE DEF value
  <2>4. ASSUME NEW k \in 0..63 PROVE V!mask(V!follows(b1[k], b2[k], b3[k])) = value(k)
    BY <1>2, <2>1, <2>3
  <2> QED
    BY <2>2, <2>4
<1>18. ASSUME o.name = "must_be_2_3_continuation" PROVE G
  <2>1. ASSUME NEW y1 \in Octet, NEW y2 \in Octet, NEW y3 \in Octet
        PROVE  V!mask(V!follows_2_3(y2, y3)) = DemandsTwo(y2, y3, V!arch)
    <3>1. CASE V!arch = "arm64"
      BY <3>1 DEF V!mask, I!mask, V!follows_2_3, V!S!must_be_2_3_continuation, DemandsTwo
    <3>2. CASE V!arch # "arm64"
      <4>1. /\ above(y2, 223) # 0 <=> y2 > 223
            /\ above(y3, 239) # 0 <=> y3 > 239
            /\ above(y2, 223) < 128 /\ above(y3, 239) < 128
        BY AboveIsPositive
      <4>2. V!follows_2_3(y2, y3) <=>
              /\ \E a \in {above(y2, 223), above(y3, 239)} : a # 0
              /\ \A a \in {above(y2, 223), above(y3, 239)} : a < 128
        BY <3>2 DEF V!follows_2_3, V!S!must_be_2_3_continuation, V!S!or_positive, V!S!saturating_sub, above
      <4>3. V!follows_2_3(y2, y3) <=> y2 > 223 \/ y3 > 239
        BY <4>1, <4>2
      <4> QED
        BY <3>2, <4>3 DEF V!mask, I!mask, DemandsTwo
    <3> QED
      BY <3>1, <3>2
  <2>2. V!result(o) = [k \in 0..63 |-> V!mask(V!follows_2_3(b2[k], b3[k]))]
    BY <1>18, <1>1 DEF V!result, V!Places
  <2>3. \A k \in 0..63 : value(k) = DemandsTwo(b2[k], b3[k], V!arch)
    BY <1>18 DEF lane
  <2> HIDE DEF value
  <2>4. ASSUME NEW k \in 0..63 PROVE V!mask(V!follows_2_3(b2[k], b3[k])) = value(k)
    BY <1>2, <2>1, <2>3
  <2> QED
    BY <2>2, <2>4
<1>19. G
  <2> HIDE DEF G
  <2> QED
    BY OperationKinds, <1>4, <1>6, <1>7, <1>8, <1>9, <1>10, <1>11, <1>12, <1>13, <1>14, <1>15, <1>16, <1>17, <1>18
<1> QED
  BY <1>19 DEF x, b1, b2, b3

-----------------------------------------------------------------------------
(* The type invariant.                                                     *)
LEMMA ApplyLane ==
  ASSUME target \in Targets, NEW o \in Operations,
         NEW this \in Register(0..(SIZE - 1)), NEW left \in Register(0..(SIZE - 1))
  PROVE  /\ apply(o, this, left) \in Register(0..(SIZE - 1))
         /\ \A k \in 0..(SIZE - 1) :
              apply(o, this, left)[k]
                = lane(o, this[k], Behind(1, SIZE, this, left)[k],
                       Behind(2, SIZE, this, left)[k], Behind(3, SIZE, this, left)[k],
                       V!arch)
<1>1. 16 - 1 = 15 /\ 32 - 1 = 31
  OBVIOUS
<1>2. CASE target = "westmere"
  <2>1. SIZE = 16 /\ V!arch = "x86"
    BY <1>2, Shape
  <2>2. this \in R16 /\ left \in R16 /\ apply(o, this, left) = westmere(o, this, left)
    BY <1>1, <1>2, <2>1 DEF R16, apply
  <2> QED
    BY <1>1, <2>1, <2>2, WestmereLane DEF R16
<1>3. CASE target = "haswell"
  <2>1. SIZE = 32 /\ V!arch = "x86"
    BY <1>3, Shape
  <2>2. this \in R32 /\ left \in R32 /\ apply(o, this, left) = haswell(o, this, left)
    BY <1>1, <1>3, <2>1 DEF R32, apply
  <2> QED
    BY <1>1, <2>1, <2>2, HaswellLane DEF R32
<1>4. CASE target = "arm64"
  <2>1. SIZE = 16 /\ V!arch = "arm64"
    BY <1>4, Shape
  <2>2. this \in R16 /\ left \in R16 /\ apply(o, this, left) = arm64(o, this, left)
    BY <1>1, <1>4, <2>1 DEF R16, apply
  <2> QED
    BY <1>1, <2>1, <2>2, Arm64Lane DEF R16
<1> QED
  BY <1>2, <1>3, <1>4, TargetsAssumption

(* The registers of a block.                                               *)
Registers == [0..(NUM_CHUNKS - 1) -> Register(0..(SIZE - 1))]

LEMMA LoadType ==
  ASSUME target \in Targets, NEW block \in [0..63 -> Octet]
  PROVE  load(target, block) \in Registers
<1>1. CASE target = "westmere"
  <2>1. SIZE = 16 /\ NUM_CHUNKS = 4
    BY <1>1, Shape
  <2>2. load(target, block) = [i \in 0..3 |-> [k \in 0..15 |-> block[16 * i + k]]]
    BY <1>1 DEF load, S!simd8x64, S!load
  <2>3. \A i \in 0..3, k \in 0..15 : block[16 * i + k] \in Octet
    OBVIOUS
  <2> QED
    BY <2>1, <2>2, <2>3 DEF Registers, Register
<1>2. CASE target = "haswell"
  <2>1. SIZE = 32 /\ NUM_CHUNKS = 2
    BY <1>2, Shape
  <2>2. load(target, block) = [i \in 0..1 |-> [k \in 0..31 |-> block[32 * i + k]]]
    BY <1>2 DEF load, H!simd8x64, H!load
  <2>3. \A i \in 0..1, k \in 0..31 : block[32 * i + k] \in Octet
    OBVIOUS
  <2> QED
    BY <2>1, <2>2, <2>3 DEF Registers, Register
<1>3. CASE target = "arm64"
  <2>1. SIZE = 16 /\ NUM_CHUNKS = 4
    BY <1>3, Shape
  <2>2. load(target, block) = [i \in 0..3 |-> [k \in 0..15 |-> block[16 * i + k]]]
    BY <1>3 DEF load, N!simd8x64, N!load
  <2>3. \A i \in 0..3, k \in 0..15 : block[16 * i + k] \in Octet
    OBVIOUS
  <2> QED
    BY <2>1, <2>2, <2>3 DEF Registers, Register
<1> QED
  BY <1>1, <1>2, <1>3, TargetsAssumption

LEMMA TypeIsRegisters ==
  VectorsTypeOK <=> /\ target \in Targets
                    /\ ops \in 0..MaxOps
                    /\ chunks \in Registers
                    /\ before \in Registers
  BY DEF VectorsTypeOK, Registers, Register, Octet

LEMMA VectorsTypeInit ==
  ASSUME VectorsInit
  PROVE  VectorsTypeOK
<1>1. PICK pair \in Blocks : before = load(target, pair[1]) /\ chunks = load(target, pair[2])
  BY DEF VectorsInit
<1>2. pair[1] \in [0..63 -> Octet] /\ pair[2] \in [0..63 -> Octet]
  BY BlocksAssumption DEF Octet
<1>3. target \in Targets /\ ops \in 0..MaxOps
  BY MaxOpsAssumption DEF VectorsInit
<1> QED
  BY <1>1, <1>2, <1>3, LoadType, TypeIsRegisters

(* What a step does to each register.                                      *)
LEMMA RegistersAfter ==
  ASSUME VectorsTypeOK, NEW o \in Operations, Apply(o),
         NEW i \in 0..(NUM_CHUNKS - 1)
  PROVE  LET left == IF i = 0 THEN before[NUM_CHUNKS - 1] ELSE chunks[i - 1]
         IN  /\ chunks[i] \in Register(0..(SIZE - 1))
             /\ left \in Register(0..(SIZE - 1))
             /\ chunks'[i] = apply(o, chunks[i], left)
             /\ chunks'[i] \in Register(0..(SIZE - 1))
             /\ \A k \in 0..(SIZE - 1) :
                  chunks'[i][k]
                    = lane(o, chunks[i][k], Behind(1, SIZE, chunks[i], left)[k],
                           Behind(2, SIZE, chunks[i], left)[k],
                           Behind(3, SIZE, chunks[i], left)[k], V!arch)
<1> DEFINE left == IF i = 0 THEN before[NUM_CHUNKS - 1] ELSE chunks[i - 1]
<1>1. target \in Targets /\ chunks \in Registers /\ before \in Registers
  BY TypeIsRegisters
<1>2. NUM_CHUNKS \in {2, 4}
  BY <1>1, Shape
<1>3. chunks[i] \in Register(0..(SIZE - 1)) /\ left \in Register(0..(SIZE - 1))
  <2>1. NUM_CHUNKS - 1 \in 0..(NUM_CHUNKS - 1) /\ (i # 0 => i - 1 \in 0..(NUM_CHUNKS - 1))
    BY <1>2
  <2> QED
    BY <1>1, <2>1 DEF Registers
<1>4. chunks'[i] = apply(o, chunks[i], left)
  BY DEF Apply
<1> HIDE DEF left
<1>5. /\ chunks'[i] \in Register(0..(SIZE - 1))
      /\ \A k \in 0..(SIZE - 1) :
           chunks'[i][k]
             = lane(o, chunks[i][k], Behind(1, SIZE, chunks[i], left)[k],
                    Behind(2, SIZE, chunks[i], left)[k],
                    Behind(3, SIZE, chunks[i], left)[k], V!arch)
  BY <1>1, <1>3, <1>4, ApplyLane
<1> QED
  BY <1>3, <1>4, <1>5 DEF left

LEMMA ShapeKept ==
  ASSUME UNCHANGED target
  PROVE  SIZE' = SIZE /\ NUM_CHUNKS' = NUM_CHUNKS
  BY DEF SIZE, NUM_CHUNKS

LEMMA VectorsTypeStep ==
  ASSUME VectorsTypeOK, [VectorsNext]_vectors
  PROVE  VectorsTypeOK'
<1>1. ASSUME NEW o \in Operations, Apply(o)
      PROVE  VectorsTypeOK'
  <2>1. UNCHANGED <<target, before>> /\ ops' \in 0..MaxOps
    BY <1>1, MaxOpsAssumption, TypeIsRegisters DEF Apply
  <2>2. SIZE' = SIZE /\ NUM_CHUNKS' = NUM_CHUNKS
    BY <2>1, ShapeKept
  <2>3. chunks' \in Registers
    <3>1. \A i \in 0..(NUM_CHUNKS - 1) : chunks'[i] \in Register(0..(SIZE - 1))
      BY <1>1, RegistersAfter
    <3>2. chunks' = [i \in 0..(NUM_CHUNKS - 1) |-> chunks'[i]]
      BY <1>1 DEF Apply
    <3> QED
      BY <3>1, <3>2 DEF Registers
  <2>4. Registers' = Registers
    BY <2>2 DEF Registers
  <2>5. target \in Targets /\ before \in Registers
    BY TypeIsRegisters
  <2>6. /\ target' \in Targets
        /\ ops' \in 0..MaxOps
        /\ chunks' \in Registers'
        /\ before' \in Registers'
    BY <2>1, <2>3, <2>4, <2>5
  <2> QED
    BY <2>2, <2>6 DEF VectorsTypeOK, Registers, Register, Octet
<1>2. ASSUME UNCHANGED vectors
      PROVE  VectorsTypeOK'
  BY <1>2, ShapeKept DEF VectorsTypeOK, vectors
<1> QED
  BY <1>1, <1>2 DEF VectorsNext

(***************************************************************************)
(* Loading a block and applying operations to its registers keeps them as  *)
(* many and as wide as the target's simd8x64 has them, and every lane a    *)
(* byte.                                                                   *)
(***************************************************************************)
THEOREM VectorsTypeCorrect == VectorsSpec => []VectorsTypeOK
<1>1. VectorsInit => VectorsTypeOK
  BY VectorsTypeInit
<1>2. VectorsTypeOK /\ [VectorsNext]_vectors => VectorsTypeOK'
  BY VectorsTypeStep
<1> QED
  BY <1>1, <1>2, PTL DEF VectorsSpec

-----------------------------------------------------------------------------
(* The refinement of Vector64.                                             *)
LEMMA BytesType ==
  ASSUME target \in Targets, NEW registers \in Registers
  PROVE  /\ bytes(registers) \in [0..63 -> Octet]
         /\ bytes(registers) = Flat(registers, SIZE)
         /\ \A k \in 0..63 : /\ k \div SIZE \in 0..(NUM_CHUNKS - 1)
                             /\ k % SIZE \in 0..(SIZE - 1)
                             /\ bytes(registers)[k] = registers[k \div SIZE][k % SIZE]
<1>1. SIZE \in {16, 32} /\ NUM_CHUNKS = 64 \div SIZE
  BY Shape
<1>2. \A k \in 0..63 : k \div SIZE \in 0..(NUM_CHUNKS - 1) /\ k % SIZE \in 0..(SIZE - 1)
  BY <1>1, PlaceOfByte
<1>3. \A k \in 0..63 : registers[k \div SIZE][k % SIZE] \in Octet
  BY <1>2 DEF Registers, Register
<1> QED
  BY <1>2, <1>3 DEF bytes, Flat

LEMMA RefinementInit ==
  ASSUME VectorsInit
  PROVE  V!Init
<1>1. target \in Targets /\ chunks \in Registers /\ before \in Registers
  BY VectorsTypeInit, TypeIsRegisters
<1>2. bytes(chunks) \in [0..63 -> Octet] /\ bytes(before) \in [0..63 -> Octet]
  BY <1>1, BytesType
<1> QED
  BY <1>1, <1>2, TargetsAssumption DEF VectorsInit, V!Init, V!Places, Octet

LEMMA RefinementStep ==
  ASSUME VectorsTypeOK, NEW o \in Operations, Apply(o)
  PROVE  V!Apply(o)
<1>1. target \in Targets /\ chunks \in Registers /\ before \in Registers
  BY TypeIsRegisters
<1>2. UNCHANGED <<target, before>> /\ op' = o /\ SIZE' = SIZE
  BY ShapeKept DEF Apply
<1>3. SIZE \in {16, 32} /\ NUM_CHUNKS = 64 \div SIZE
  BY <1>1, Shape
<1> DEFINE x == bytes(chunks)
           b(n) == Behind(n, 64, bytes(chunks), bytes(before))
<1>4. ASSUME NEW k \in 0..63
      PROVE  chunks'[k \div SIZE][k % SIZE]
               = lane(o, x[k], b(1)[k], b(2)[k], b(3)[k], V!arch)
  <2> DEFINE i == k \div SIZE
             r == k % SIZE
             left == IF i = 0 THEN before[NUM_CHUNKS - 1] ELSE chunks[i - 1]
  <2>1. i \in 0..(NUM_CHUNKS - 1) /\ r \in 0..(SIZE - 1) /\ x[k] = chunks[i][r]
    BY <1>1, BytesType
  <2>2. ASSUME NEW n \in 1..3
        PROVE  b(n)[k] = Behind(n, SIZE, chunks[i], left)[r]
    <3>1. bytes(chunks) = Flat(chunks, SIZE) /\ bytes(before) = Flat(before, SIZE)
      BY <1>1, BytesType
    <3>2. Behind(n, 64, Flat(chunks, SIZE), Flat(before, SIZE))[k]
            = BehindIn(n, SIZE, chunks, before, k)
      BY <1>3, BehindAcross
    <3>3. BehindIn(n, SIZE, chunks, before, k) = Behind(n, SIZE, chunks[i], left)[r]
      BY <1>3 DEF BehindIn
    <3> QED
      BY <3>1, <3>2, <3>3
  <2>3. chunks'[i][r] = lane(o, chunks[i][r], Behind(1, SIZE, chunks[i], left)[r],
                             Behind(2, SIZE, chunks[i], left)[r],
                             Behind(3, SIZE, chunks[i], left)[r], V!arch)
    BY <2>1, RegistersAfter
  <2>4. /\ b(1)[k] = Behind(1, SIZE, chunks[i], left)[r]
        /\ b(2)[k] = Behind(2, SIZE, chunks[i], left)[r]
        /\ b(3)[k] = Behind(3, SIZE, chunks[i], left)[r]
    BY <2>2
  <2> HIDE DEF x, b, i, r, left
  <2>5. chunks'[i][r] = lane(o, x[k], b(1)[k], b(2)[k], b(3)[k], V!arch)
    BY <2>1, <2>3, <2>4
  <2> QED
    BY <2>5 DEF i, r
<1>5. V!result(o) = [k \in 0..63 |-> lane(o, x[k], b(1)[k], b(2)[k], b(3)[k], V!arch)]
  BY <1>1, BytesType, VectorLane
<1>6. bytes(chunks)' = [k \in 0..63 |-> chunks'[k \div SIZE][k % SIZE]]
  BY <1>2 DEF bytes
<1>7. bytes(chunks)' = V!result(o)
  <2> HIDE DEF x, b
  <2> QED
    BY <1>4, <1>5, <1>6
<1>8. bytes(before)' = bytes(before)
  BY <1>2 DEF bytes
<1> QED
  BY <1>2, <1>7, <1>8 DEF V!Apply

(***************************************************************************)
(* On every target the registers act as one block of 64 bytes: whatever    *)
(* the instructions do on halves of registers or on words, each operation  *)
(* of simd.h gives every byte the value that the algorithms expect, and    *)
(* prev looks across the ends of registers into the block before.          *)
(***************************************************************************)
THEOREM TargetsImplementVector64 == VectorsSpec => ImplementsVector64
<1>1. VectorsInit => V!Init
  BY RefinementInit
<1>2. VectorsTypeOK /\ [VectorsNext]_vectors => [V!Next]_(V!vars)
  <2>1. ASSUME VectorsTypeOK, VectorsNext PROVE V!Next
    BY <2>1, RefinementStep DEF VectorsNext, V!Next
  <2>2. ASSUME UNCHANGED vectors PROVE UNCHANGED V!vars
    BY <2>2, ShapeKept DEF vectors, V!vars, bytes
  <2> QED
    BY <2>1, <2>2
<1> QED
  BY <1>1, <1>2, VectorsTypeCorrect, PTL DEF VectorsSpec, ImplementsVector64, V!Spec

-----------------------------------------------------------------------------
(* Comparisons of unsigned bytes.                                          *)
LEMMA WestmereAnyBitsSet ==
  ASSUME NEW t \in Register(0..15)
  PROVE  /\ S!any_bits_set(t) \in Register(0..15)
         /\ \A k \in 0..15 : S!any_bits_set(t)[k] = IF t[k] # 0 THEN 255 ELSE 0
<1> DEFINE zero == S!splat(0)
           ones == S!splat(255)
           e == I!cmpeq_epi8(t, zero)
<1>1. /\ zero \in Register(0..15) /\ \A k \in 0..15 : zero[k] = 0
      /\ ones \in Register(0..15) /\ \A k \in 0..15 : ones[k] = 255
  <2>1. 0 \in Octet /\ 255 \in Octet
    BY DEF Octet
  <2> QED
    BY <2>1, WestmereSplat DEF R16, R32
<1>2. S!any_bits_set(t) = I!xor_si(e, ones)
  BY WestmereMembers DEF S!any_bits_set, S!bits_not_set
<1> HIDE DEF zero, ones
<1>3. e \in Register(0..15) /\ \A k \in 0..15 : e[k] = I!mask(t[k] = zero[k])
  BY <1>1, CmpeqEpi8Lanes
<1> HIDE DEF e
<1>4. /\ I!xor_si(e, ones) \in Register(0..15)
      /\ \A k \in 0..15 : I!xor_si(e, ones)[k] = XorBits(e[k], ones[k])
  BY <1>1, <1>3, XorSiLanes
<1>5. ASSUME NEW k \in 0..15
      PROVE  XorBits(e[k], ones[k]) = IF t[k] # 0 THEN 255 ELSE 0
  <2>1. e[k] = (IF t[k] = 0 THEN 255 ELSE 0) /\ ones[k] = 255
    BY <1>1, <1>3 DEF I!mask
  <2>2. e[k] \in {0, 255} /\ 255 \in {0, 255}
    BY <2>1
  <2>3. XorBits(e[k], 255) = IF e[k] = 255 THEN 0 ELSE 255
    BY <2>2, XorMasks
  <2> QED
    BY <2>1, <2>3
<1> QED
  BY <1>2, <1>4, <1>5

LEMMA HaswellAnyBitsSet ==
  ASSUME NEW t \in Register(0..31)
  PROVE  /\ H!any_bits_set(t) \in Register(0..31)
         /\ \A k \in 0..31 : H!any_bits_set(t)[k] = IF t[k] # 0 THEN 255 ELSE 0
<1> DEFINE zero == H!splat(0)
           ones == H!splat(255)
           e == I!cmpeq_epi8(t, zero)
<1>1. /\ zero \in Register(0..31) /\ \A k \in 0..31 : zero[k] = 0
      /\ ones \in Register(0..31) /\ \A k \in 0..31 : ones[k] = 255
  <2>1. 0 \in Octet /\ 255 \in Octet
    BY DEF Octet
  <2> QED
    BY <2>1, HaswellSplat DEF R16, R32
<1>2. H!any_bits_set(t) = I!xor_si(e, ones)
  BY HaswellMembers DEF H!any_bits_set, H!bits_not_set
<1> HIDE DEF zero, ones
<1>3. e \in Register(0..31) /\ \A k \in 0..31 : e[k] = I!mask(t[k] = zero[k])
  BY <1>1, CmpeqEpi8Lanes
<1> HIDE DEF e
<1>4. /\ I!xor_si(e, ones) \in Register(0..31)
      /\ \A k \in 0..31 : I!xor_si(e, ones)[k] = XorBits(e[k], ones[k])
  BY <1>1, <1>3, XorSiLanes
<1>5. ASSUME NEW k \in 0..31
      PROVE  XorBits(e[k], ones[k]) = IF t[k] # 0 THEN 255 ELSE 0
  <2>1. e[k] = (IF t[k] = 0 THEN 255 ELSE 0) /\ ones[k] = 255
    BY <1>1, <1>3 DEF I!mask
  <2>2. e[k] \in {0, 255} /\ 255 \in {0, 255}
    BY <2>1
  <2>3. XorBits(e[k], 255) = IF e[k] = 255 THEN 0 ELSE 255
    BY <2>2, XorMasks
  <2> QED
    BY <2>1, <2>3
<1> QED
  BY <1>2, <1>4, <1>5

LEMMA WestmereComparisons ==
  ASSUME NEW a \in Register(0..15), NEW b \in Register(0..15)
  PROVE  \A k \in 0..15 :
           /\ S!gt_bits(a, b)[k] # 0 <=> a[k] > b[k]
           /\ S!gt(a, b)[k] = IF a[k] > b[k] THEN 255 ELSE 0
           /\ S!le(a, b)[k] = IF a[k] <= b[k] THEN 255 ELSE 0
           /\ S!ge(a, b)[k] = IF a[k] >= b[k] THEN 255 ELSE 0
<1> DEFINE more == I!subs_epu8(a, b)
           least == I!min_epu8(b, a)
           most == I!max_epu8(b, a)
<1>1. /\ S!gt_bits(a, b) = more
      /\ S!gt(a, b) = S!any_bits_set(more)
      /\ S!le(a, b) = I!cmpeq_epi8(most, b)
      /\ S!ge(a, b) = I!cmpeq_epi8(least, b)
  BY WestmereMembers DEF S!gt, S!le, S!ge
<1>2. /\ more \in Register(0..15)
      /\ \A k \in 0..15 : more[k] = IF a[k] > b[k] THEN a[k] - b[k] ELSE 0
  BY SubsEpu8Lanes
<1>3. /\ most \in Register(0..15)
      /\ \A k \in 0..15 : most[k] = IF b[k] > a[k] THEN b[k] ELSE a[k]
  BY MaxEpu8Lanes
<1>4. /\ least \in Register(0..15)
      /\ \A k \in 0..15 : least[k] = IF b[k] < a[k] THEN b[k] ELSE a[k]
  BY MinEpu8Lanes
<1> HIDE DEF more, most, least
<1>6. \A k \in 0..15 : S!any_bits_set(more)[k] = IF more[k] # 0 THEN 255 ELSE 0
  BY <1>2, WestmereAnyBitsSet
<1>7. /\ \A k \in 0..15 : I!cmpeq_epi8(most, b)[k] = I!mask(most[k] = b[k])
      /\ \A k \in 0..15 : I!cmpeq_epi8(least, b)[k] = I!mask(least[k] = b[k])
  BY <1>3, <1>4, CmpeqEpi8Lanes
<1> SUFFICES ASSUME NEW k \in 0..15
             PROVE  /\ S!gt_bits(a, b)[k] # 0 <=> a[k] > b[k]
                    /\ S!gt(a, b)[k] = IF a[k] > b[k] THEN 255 ELSE 0
                    /\ S!le(a, b)[k] = IF a[k] <= b[k] THEN 255 ELSE 0
                    /\ S!ge(a, b)[k] = IF a[k] >= b[k] THEN 255 ELSE 0
  OBVIOUS
<1>9. PICK x \in Octet, y \in Octet : x = a[k] /\ y = b[k]
  BY DEF Register
<1>10. /\ more[k] # 0 <=> x > y
       /\ most[k] = y <=> x <= y
       /\ least[k] = y <=> x >= y
  BY <1>2, <1>3, <1>4, <1>9 DEF Octet
<1> QED
  BY <1>1, <1>6, <1>7, <1>9, <1>10 DEF I!mask

LEMMA HaswellComparisons ==
  ASSUME NEW a \in Register(0..31), NEW b \in Register(0..31)
  PROVE  \A k \in 0..31 :
           /\ H!gt_bits(a, b)[k] # 0 <=> a[k] > b[k]
           /\ H!gt(a, b)[k] = IF a[k] > b[k] THEN 255 ELSE 0
           /\ H!le(a, b)[k] = IF a[k] <= b[k] THEN 255 ELSE 0
           /\ H!ge(a, b)[k] = IF a[k] >= b[k] THEN 255 ELSE 0
           /\ H!lt(a, b)[k] = IF a[k] < b[k] THEN 255 ELSE 0
<1> DEFINE more == I!subs_epu8(a, b)
           least == I!min_epu8(a, b)
           most == I!max_epu8(b, a)
           less == I!subs_epu8(b, a)
<1>1. /\ H!gt_bits(a, b) = more
      /\ H!gt(a, b) = H!any_bits_set(more)
      /\ H!le(a, b) = I!cmpeq_epi8(most, b)
      /\ H!ge(a, b) = I!cmpeq_epi8(least, b)
      /\ H!lt(a, b) = H!any_bits_set(less)
  BY HaswellMembers DEF H!gt, H!le, H!ge, H!lt
<1>2. /\ more \in Register(0..31)
      /\ \A k \in 0..31 : more[k] = IF a[k] > b[k] THEN a[k] - b[k] ELSE 0
  BY SubsEpu8Lanes
<1>3. /\ most \in Register(0..31)
      /\ \A k \in 0..31 : most[k] = IF b[k] > a[k] THEN b[k] ELSE a[k]
  BY MaxEpu8Lanes
<1>4. /\ least \in Register(0..31)
      /\ \A k \in 0..31 : least[k] = IF a[k] < b[k] THEN a[k] ELSE b[k]
  BY MinEpu8Lanes
<1>5. /\ less \in Register(0..31)
      /\ \A k \in 0..31 : less[k] = IF b[k] > a[k] THEN b[k] - a[k] ELSE 0
  BY SubsEpu8Lanes
<1> HIDE DEF more, most, least, less
<1>6. \A k \in 0..31 : H!any_bits_set(more)[k] = IF more[k] # 0 THEN 255 ELSE 0
  BY <1>2, HaswellAnyBitsSet
<1>7. /\ \A k \in 0..31 : I!cmpeq_epi8(most, b)[k] = I!mask(most[k] = b[k])
      /\ \A k \in 0..31 : I!cmpeq_epi8(least, b)[k] = I!mask(least[k] = b[k])
  BY <1>3, <1>4, CmpeqEpi8Lanes
<1>8. \A k \in 0..31 : H!any_bits_set(less)[k] = IF less[k] # 0 THEN 255 ELSE 0
  BY <1>5, HaswellAnyBitsSet
<1> SUFFICES ASSUME NEW k \in 0..31
             PROVE  /\ H!gt_bits(a, b)[k] # 0 <=> a[k] > b[k]
                    /\ H!gt(a, b)[k] = IF a[k] > b[k] THEN 255 ELSE 0
                    /\ H!le(a, b)[k] = IF a[k] <= b[k] THEN 255 ELSE 0
                    /\ H!ge(a, b)[k] = IF a[k] >= b[k] THEN 255 ELSE 0
                    /\ H!lt(a, b)[k] = IF a[k] < b[k] THEN 255 ELSE 0
  OBVIOUS
<1>9. PICK x \in Octet, y \in Octet : x = a[k] /\ y = b[k]
  BY DEF Register
<1>10. /\ more[k] # 0 <=> x > y
       /\ most[k] = y <=> x <= y
       /\ least[k] = y <=> x >= y
  BY <1>2, <1>3, <1>4, <1>9 DEF Octet
<1>11. less[k] # 0 <=> x < y
  BY <1>5, <1>9 DEF Octet
<1> QED
  BY <1>1, <1>6, <1>7, <1>8, <1>9, <1>10, <1>11 DEF I!mask

LEMMA Arm64Comparisons ==
  ASSUME NEW a \in Register(0..15), NEW b \in Register(0..15)
  PROVE  \A k \in 0..15 :
           /\ N!gt_bits(a, b)[k] # 0 <=> a[k] > b[k]
           /\ N!gt(a, b)[k] = IF a[k] > b[k] THEN 255 ELSE 0
           /\ N!le(a, b)[k] = IF a[k] <= b[k] THEN 255 ELSE 0
           /\ N!ge(a, b)[k] = IF a[k] >= b[k] THEN 255 ELSE 0
           /\ N!lt(a, b)[k] = IF a[k] < b[k] THEN 255 ELSE 0
<1> SUFFICES ASSUME NEW k \in 0..15
             PROVE  /\ N!gt_bits(a, b)[k] # 0 <=> a[k] > b[k]
                    /\ N!gt(a, b)[k] = IF a[k] > b[k] THEN 255 ELSE 0
                    /\ N!le(a, b)[k] = IF a[k] <= b[k] THEN 255 ELSE 0
                    /\ N!ge(a, b)[k] = IF a[k] >= b[k] THEN 255 ELSE 0
                    /\ N!lt(a, b)[k] = IF a[k] < b[k] THEN 255 ELSE 0
  OBVIOUS
<1>1. /\ N!gt_bits(a, b) = I!vcgtq(a, b) /\ N!gt(a, b) = I!vcgtq(a, b)
      /\ N!le(a, b) = I!vcgeq(b, a) /\ N!ge(a, b) = I!vcgeq(a, b)
      /\ N!lt(a, b) = I!vcgtq(b, a)
  BY Arm64Members
<1>2. /\ I!vcgtq(a, b)[k] = I!mask(a[k] > b[k]) /\ I!vcgtq(b, a)[k] = I!mask(b[k] > a[k])
      /\ I!vcgeq(b, a)[k] = I!mask(b[k] >= a[k]) /\ I!vcgeq(a, b)[k] = I!mask(a[k] >= b[k])
  BY VcgtqLanes, VcgeqLanes
<1>3. PICK x \in Octet, y \in Octet : x = a[k] /\ y = b[k]
  BY DEF Register
<1> QED
  BY <1>1, <1>2, <1>3 DEF I!mask, Octet

LEMMA ComparisonsOfRegisters ==
  ASSUME VectorsTypeOK
  PROVE  ComparisonsAgree
<1>1. target \in Targets /\ chunks \in Registers /\ before \in Registers
  BY TypeIsRegisters
<1>2. \A i \in 0..(NUM_CHUNKS - 1) :
        chunks[i] \in Register(0..(SIZE - 1)) /\ before[i] \in Register(0..(SIZE - 1))
  BY <1>1 DEF Registers
<1>3. 16 - 1 = 15 /\ 32 - 1 = 31
  OBVIOUS
<1>4. CASE target = "westmere"
  <2>1. SIZE = 16
    BY <1>1, <1>4, Shape
  <2>2. \A i \in 0..(NUM_CHUNKS - 1), k \in 0..(SIZE - 1) :
          /\ S!gt_bits(chunks[i], before[i])[k] # 0 <=> chunks[i][k] > before[i][k]
          /\ S!gt(chunks[i], before[i])[k] = IF chunks[i][k] > before[i][k] THEN 255 ELSE 0
          /\ S!le(chunks[i], before[i])[k] = IF chunks[i][k] <= before[i][k] THEN 255 ELSE 0
          /\ S!ge(chunks[i], before[i])[k] = IF chunks[i][k] >= before[i][k] THEN 255 ELSE 0
    BY <1>2, <1>3, <2>1, WestmereComparisons
  <2> QED
    BY <1>4, <2>2 DEF ComparisonsAgree
<1>5. CASE target = "haswell"
  <2>1. SIZE = 32
    BY <1>1, <1>5, Shape
  <2>2. \A i \in 0..(NUM_CHUNKS - 1), k \in 0..(SIZE - 1) :
          /\ H!gt_bits(chunks[i], before[i])[k] # 0 <=> chunks[i][k] > before[i][k]
          /\ H!gt(chunks[i], before[i])[k] = IF chunks[i][k] > before[i][k] THEN 255 ELSE 0
          /\ H!le(chunks[i], before[i])[k] = IF chunks[i][k] <= before[i][k] THEN 255 ELSE 0
          /\ H!ge(chunks[i], before[i])[k] = IF chunks[i][k] >= before[i][k] THEN 255 ELSE 0
          /\ H!lt(chunks[i], before[i])[k] = IF chunks[i][k] < before[i][k] THEN 255 ELSE 0
    BY <1>2, <1>3, <2>1, HaswellComparisons, SMTT(30)
  <2> QED
    BY <1>5, <2>2 DEF ComparisonsAgree
<1>6. CASE target = "arm64"
  <2>1. SIZE = 16
    BY <1>1, <1>6, Shape
  <2>2. \A i \in 0..(NUM_CHUNKS - 1), k \in 0..(SIZE - 1) :
          /\ N!gt_bits(chunks[i], before[i])[k] # 0 <=> chunks[i][k] > before[i][k]
          /\ N!gt(chunks[i], before[i])[k] = IF chunks[i][k] > before[i][k] THEN 255 ELSE 0
          /\ N!le(chunks[i], before[i])[k] = IF chunks[i][k] <= before[i][k] THEN 255 ELSE 0
          /\ N!ge(chunks[i], before[i])[k] = IF chunks[i][k] >= before[i][k] THEN 255 ELSE 0
          /\ N!lt(chunks[i], before[i])[k] = IF chunks[i][k] < before[i][k] THEN 255 ELSE 0
    BY <1>2, <1>3, <2>1, Arm64Comparisons
  <2> QED
    BY <1>6, <2>2 DEF ComparisonsAgree
<1> QED
  BY <1>1, <1>4, <1>5, <1>6, TargetsAssumption

(***************************************************************************)
(* The comparisons of unsigned bytes, which x86 puts together from         *)
(* saturating subtraction, equality and maxima, agree with the order of    *)
(* the bytes in every lane of every register.                              *)
(***************************************************************************)
THEOREM ComparisonsAreExact == VectorsSpec => []ComparisonsAgree
<1>1. VectorsTypeOK => ComparisonsAgree
  BY ComparisonsOfRegisters
<1> QED
  BY <1>1, VectorsTypeCorrect, PTL

-----------------------------------------------------------------------------
(* The tests for ASCII.                                                    *)
LEMMA PlaceOfLane ==
  ASSUME NEW w \in {16, 32}, NEW i \in 0..((64 \div w) - 1), NEW j \in 0..(w - 1)
  PROVE  /\ w * i + j \in 0..63
         /\ (w * i + j) \div w = i
         /\ (w * i + j) % w = j
<1>1. CASE w = 16
  BY <1>1
<1>2. CASE w = 32
  BY <1>2
<1> QED
  BY <1>1, <1>2

LEMMA AsciiByRegisters ==
  ASSUME VectorsTypeOK
  PROVE  (\A k \in 0..63 : bytes(chunks)[k] < 128)
           <=> \A j \in 0..(SIZE - 1) : \A i \in 0..(NUM_CHUNKS - 1) : chunks[i][j] < 128
<1>1. target \in Targets /\ chunks \in Registers
  BY TypeIsRegisters
<1>2. SIZE \in {16, 32} /\ NUM_CHUNKS = 64 \div SIZE
  BY <1>1, Shape
<1>3. \A k \in 0..63 : /\ k \div SIZE \in 0..(NUM_CHUNKS - 1)
                       /\ k % SIZE \in 0..(SIZE - 1)
                       /\ bytes(chunks)[k] = chunks[k \div SIZE][k % SIZE]
  BY <1>1, BytesType
<1>4. \A i \in 0..(NUM_CHUNKS - 1), j \in 0..(SIZE - 1) :
        /\ SIZE * i + j \in 0..63
        /\ (SIZE * i + j) \div SIZE = i
        /\ (SIZE * i + j) % SIZE = j
  BY <1>2, PlaceOfLane
<1>5. \A i \in 0..(NUM_CHUNKS - 1), j \in 0..(SIZE - 1) :
        /\ SIZE * i + j \in 0..63
        /\ chunks[i][j] = bytes(chunks)[SIZE * i + j]
  BY <1>3, <1>4
<1> QED
  BY <1>3, <1>5

LEMMA WestmereOrOfAll ==
  ASSUME NEW v, \A i \in 0..3 : v[i] \in Register(0..15)
  PROVE  LET all == S!bit_or(S!bit_or(v[0], v[1]), S!bit_or(v[2], v[3]))
         IN  /\ all \in Register(0..15)
             /\ \A k \in 0..15 : all[k] < 128 <=> \A i \in 0..3 : v[i][k] < 128
<1> DEFINE a == I!or_si(v[0], v[1])
           b == I!or_si(v[2], v[3])
           all == I!or_si(a, b)
<1>1. S!bit_or(S!bit_or(v[0], v[1]), S!bit_or(v[2], v[3])) = all
  BY WestmereMembers
<1>2. /\ a \in Register(0..15) /\ \A k \in 0..15 : a[k] = OrBits(v[0][k], v[1][k])
      /\ b \in Register(0..15) /\ \A k \in 0..15 : b[k] = OrBits(v[2][k], v[3][k])
  BY OrSiLanes
<1> HIDE DEF a, b
<1>3. all \in Register(0..15) /\ \A k \in 0..15 : all[k] = OrBits(a[k], b[k])
  BY <1>2, OrSiLanes
<1> HIDE DEF all
<1>4. ASSUME NEW k \in 0..15
      PROVE  all[k] < 128 <=> \A i \in 0..3 : v[i][k] < 128
  <2>1. PICK x0 \in Octet, x1 \in Octet, x2 \in Octet, x3 \in Octet :
          x0 = v[0][k] /\ x1 = v[1][k] /\ x2 = v[2][k] /\ x3 = v[3][k]
    BY DEF Register
  <2>2. OrBits(x0, x1) \in Octet /\ OrBits(x2, x3) \in Octet
    BY OrByte
  <2>3. PICK y \in Octet, z \in Octet : y = OrBits(x0, x1) /\ z = OrBits(x2, x3)
    BY <2>2
  <2>4. /\ y >= 128 <=> x0 >= 128 \/ x1 >= 128
        /\ z >= 128 <=> x2 >= 128 \/ x3 >= 128
        /\ OrBits(y, z) \in Octet
        /\ OrBits(y, z) >= 128 <=> y >= 128 \/ z >= 128
    BY <2>3, OrByte
  <2>5. all[k] = OrBits(y, z)
    BY <1>2, <1>3, <2>1, <2>3
  <2>6. all[k] < 128 <=> x0 < 128 /\ x1 < 128 /\ x2 < 128 /\ x3 < 128
    BY <2>4, <2>5 DEF Octet
  <2>7. (\A i \in 0..3 : v[i][k] < 128) <=> x0 < 128 /\ x1 < 128 /\ x2 < 128 /\ x3 < 128
    <3>1. \A i \in 0..3 : i = 0 \/ i = 1 \/ i = 2 \/ i = 3
      OBVIOUS
    <3> QED
      BY <2>1, <3>1
  <2> QED
    BY <2>6, <2>7
<1> QED
  BY <1>1, <1>3, <1>4

LEMMA Arm64OrOfAll ==
  ASSUME NEW v, \A i \in 0..3 : v[i] \in Register(0..15)
  PROVE  LET all == N!bit_or(N!bit_or(v[0], v[1]), N!bit_or(v[2], v[3]))
         IN  /\ all \in Register(0..15)
             /\ \A k \in 0..15 : all[k] < 128 <=> \A i \in 0..3 : v[i][k] < 128
<1> DEFINE a == I!or_si(v[0], v[1])
           b == I!or_si(v[2], v[3])
           all == I!or_si(a, b)
<1>1. N!bit_or(N!bit_or(v[0], v[1]), N!bit_or(v[2], v[3])) = all
  BY Arm64Members
<1>2. /\ a \in Register(0..15) /\ \A k \in 0..15 : a[k] = OrBits(v[0][k], v[1][k])
      /\ b \in Register(0..15) /\ \A k \in 0..15 : b[k] = OrBits(v[2][k], v[3][k])
  BY OrSiLanes
<1> HIDE DEF a, b
<1>3. all \in Register(0..15) /\ \A k \in 0..15 : all[k] = OrBits(a[k], b[k])
  BY <1>2, OrSiLanes
<1> HIDE DEF all
<1>4. ASSUME NEW k \in 0..15
      PROVE  all[k] < 128 <=> \A i \in 0..3 : v[i][k] < 128
  <2>1. PICK x0 \in Octet, x1 \in Octet, x2 \in Octet, x3 \in Octet :
          x0 = v[0][k] /\ x1 = v[1][k] /\ x2 = v[2][k] /\ x3 = v[3][k]
    BY DEF Register
  <2>2. OrBits(x0, x1) \in Octet /\ OrBits(x2, x3) \in Octet
    BY OrByte
  <2>3. PICK y \in Octet, z \in Octet : y = OrBits(x0, x1) /\ z = OrBits(x2, x3)
    BY <2>2
  <2>4. /\ y >= 128 <=> x0 >= 128 \/ x1 >= 128
        /\ z >= 128 <=> x2 >= 128 \/ x3 >= 128
        /\ OrBits(y, z) \in Octet
        /\ OrBits(y, z) >= 128 <=> y >= 128 \/ z >= 128
    BY <2>3, OrByte
  <2>5. all[k] = OrBits(y, z)
    BY <1>2, <1>3, <2>1, <2>3
  <2>6. all[k] < 128 <=> x0 < 128 /\ x1 < 128 /\ x2 < 128 /\ x3 < 128
    BY <2>4, <2>5 DEF Octet
  <2>7. (\A i \in 0..3 : v[i][k] < 128) <=> x0 < 128 /\ x1 < 128 /\ x2 < 128 /\ x3 < 128
    <3>1. \A i \in 0..3 : i = 0 \/ i = 1 \/ i = 2 \/ i = 3
      OBVIOUS
    <3> QED
      BY <2>1, <3>1
  <2> QED
    BY <2>6, <2>7
<1> QED
  BY <1>1, <1>3, <1>4

LEMMA HaswellOrOfAll ==
  ASSUME NEW v, \A i \in 0..1 : v[i] \in Register(0..31)
  PROVE  LET all == H!bit_or(v[0], v[1])
         IN  /\ all \in Register(0..31)
             /\ \A k \in 0..31 : all[k] < 128 <=> \A i \in 0..1 : v[i][k] < 128
<1> DEFINE all == I!or_si(v[0], v[1])
<1>1. H!bit_or(v[0], v[1]) = all
  BY HaswellMembers
<1>2. all \in Register(0..31) /\ \A k \in 0..31 : all[k] = OrBits(v[0][k], v[1][k])
  BY OrSiLanes
<1> HIDE DEF all
<1>3. ASSUME NEW k \in 0..31
      PROVE  all[k] < 128 <=> \A i \in 0..1 : v[i][k] < 128
  <2>1. PICK x0 \in Octet, x1 \in Octet : x0 = v[0][k] /\ x1 = v[1][k]
    BY DEF Register
  <2>2. PICK y \in Octet : y = OrBits(x0, x1) /\ (y >= 128 <=> x0 >= 128 \/ x1 >= 128)
    BY OrByte
  <2>3. y < 128 <=> x0 < 128 /\ x1 < 128
    BY <2>2 DEF Octet
  <2>5. all[k] = y
    BY <1>2, <2>1, <2>2
  <2>4. (\A i \in 0..1 : v[i][k] < 128) <=> x0 < 128 /\ x1 < 128
    <3>1. \A i \in 0..1 : i = 0 \/ i = 1
      OBVIOUS
    <3> QED
      BY <2>1, <3>1
  <2> QED
    BY <2>3, <2>4, <2>5
<1> QED
  BY <1>1, <1>2, <1>3

LEMMA WestmereTests ==
  ASSUME NEW q \in Register(0..15)
  PROVE  /\ S!any_bits_set_anywhere(q, S!splat(128)) <=> \E k \in 0..15 : q[k] >= 128
         /\ S!is_ascii_bits(q) <=> \A k \in 0..15 : ~(q[k] >= 128)
<1> DEFINE c == S!splat(128)
<1>1. c \in Register(0..15) /\ \A k \in 0..15 : c[k] = 128
  <2>1. 128 \in Octet
    BY DEF Octet
  <2> QED
    BY <2>1, WestmereSplat DEF R16, R32
<1> HIDE DEF c
<1>2. DOMAIN q = 0..15
  BY DEF Register
<1>3. S!testz_si(q, c) <=> \A k \in 0..15 : I!Bit[q[k]] \cap I!Bit[c[k]] = {}
  BY <1>2 DEF S!testz_si, S!Bit, I!Bit
<1>4. ASSUME NEW k \in 0..15
      PROVE  I!Bit[q[k]] \cap I!Bit[c[k]] = {} <=> ~(q[k] >= 128)
  <2>1. PICK x \in Octet : x = q[k]
    BY DEF Register
  <2>2. x < 128 <=> ~(x >= 128)
    BY DEF Octet
  <2>3. I!Bit[x] \cap I!Bit[128] = {} <=> ~(x >= 128)
    BY <2>2, HighBit
  <2> QED
    BY <1>1, <2>1, <2>3
<1>5. S!testz_si(q, c) <=> \A k \in 0..15 : ~(q[k] >= 128)
  BY <1>3, <1>4
<1>6. S!any_bits_set_anywhere(q, c) <=> ~S!testz_si(q, c)
  BY DEF S!any_bits_set_anywhere
<1>7. S!is_ascii_bits(q) <=> {k \in 0..15 : q[k] >= 128} = {}
  BY <1>2 DEF S!is_ascii_bits, S!movemask_epi8
<1> QED
  BY <1>5, <1>6, <1>7 DEF c

LEMMA HaswellTests ==
  ASSUME NEW q \in Register(0..31)
  PROVE  /\ H!any_bits_set_anywhere(q, H!splat(128)) <=> \E k \in 0..31 : q[k] >= 128
         /\ H!is_ascii_bits(q) <=> \A k \in 0..31 : ~(q[k] >= 128)
<1> DEFINE c == H!splat(128)
<1>1. c \in Register(0..31) /\ \A k \in 0..31 : c[k] = 128
  <2>1. 128 \in Octet
    BY DEF Octet
  <2> QED
    BY <2>1, HaswellSplat DEF R16, R32
<1> HIDE DEF c
<1>2. DOMAIN q = 0..31
  BY DEF Register
<1>3. H!testz_si(q, c) <=> \A k \in 0..31 : I!Bit[q[k]] \cap I!Bit[c[k]] = {}
  BY <1>2 DEF H!testz_si, H!Bit, I!Bit
<1>4. ASSUME NEW k \in 0..31
      PROVE  I!Bit[q[k]] \cap I!Bit[c[k]] = {} <=> ~(q[k] >= 128)
  <2>1. PICK x \in Octet : x = q[k]
    BY DEF Register
  <2>2. x < 128 <=> ~(x >= 128)
    BY DEF Octet
  <2>3. I!Bit[x] \cap I!Bit[128] = {} <=> ~(x >= 128)
    BY <2>2, HighBit
  <2> QED
    BY <1>1, <2>1, <2>3
<1>5. H!testz_si(q, c) <=> \A k \in 0..31 : ~(q[k] >= 128)
  BY <1>3, <1>4
<1>6. H!any_bits_set_anywhere(q, c) <=> ~H!testz_si(q, c)
  BY DEF H!any_bits_set_anywhere
<1>7. H!is_ascii_bits(q) <=> {k \in 0..31 : q[k] >= 128} = {}
  BY <1>2 DEF H!is_ascii_bits, H!movemask_epi8
<1> QED
  BY <1>5, <1>6, <1>7 DEF c

LEMMA Arm64Max ==
  ASSUME NEW q \in Register(0..15)
  PROVE  N!max(q) < 128 <=> \A k \in 0..15 : q[k] < 128
<1> DEFINE L == {q[k] : k \in 0..15}
           T == {255 - x : x \in L}
<1>1. L \subseteq Octet /\ q[0] \in L
  BY DEF Register
<1>2. T \in SUBSET Nat /\ T # {}
  <2>1. \A x \in Octet : 255 - x \in Nat
    BY DEF Octet
  <2> HIDE DEF L
  <2> QED
    BY <1>1, <2>1
<1>3. PICK d \in T : \A k \in T : d <= k
  <2> HIDE DEF T
  <2> QED
    BY <1>2, LeastOf
<1>4. PICK m \in L : d = 255 - m
  OBVIOUS
<1>5. \A x \in L : m >= x
  <2>1. SUFFICES ASSUME NEW x \in L PROVE m >= x
    OBVIOUS
  <2>2. 255 - x \in T
    BY <2>1
  <2>3. x \in Octet /\ m \in Octet
    BY <1>1, <1>4, <2>1
  <2> HIDE DEF T, L
  <2> QED
    BY <1>3, <1>4, <2>2, <2>3 DEF Octet
<1>6. N!max(q) = CHOOSE x \in L : \A y \in L : x >= y
  BY DEF N!max, N!vmaxvq, N!Max
<1>7. N!max(q) \in L /\ \A y \in L : N!max(q) >= y
  <2> HIDE DEF L
  <2> QED
    BY <1>4, <1>5, <1>6
<1>8. PICK t \in Octet : t = N!max(q)
  BY <1>1, <1>7
<1>9. \A k \in 0..15 : q[k] \in Octet /\ t >= q[k]
  BY <1>1, <1>7, <1>8
<1>10. \E k \in 0..15 : t = q[k]
  BY <1>7, <1>8
<1> HIDE DEF L, T
<1>11. ASSUME t < 128, NEW k \in 0..15 PROVE q[k] < 128
  <2>1. PICK x \in Octet : x = q[k] /\ t >= x
    BY <1>9
  <2>2. x < 128
    BY <1>11, <2>1 DEF Octet
  <2> QED
    BY <2>1, <2>2
<1> QED
  BY <1>8, <1>10, <1>11

LEMMA AsciiOfRegisters ==
  ASSUME VectorsTypeOK
  PROVE  AsciiIsAscii
<1> DEFINE ascii == \A k \in 0..63 : bytes(chunks)[k] < 128
<1>1. target \in Targets /\ chunks \in Registers
  BY TypeIsRegisters
<1>2. \A i \in 0..(NUM_CHUNKS - 1) : chunks[i] \in Register(0..(SIZE - 1))
  BY <1>1 DEF Registers
<1>3. 16 - 1 = 15 /\ 32 - 1 = 31 /\ 4 - 1 = 3 /\ 2 - 1 = 1
  OBVIOUS
<1>4. CASE target = "westmere"
  <2>1. SIZE = 16 /\ NUM_CHUNKS = 4
    BY <1>1, <1>4, Shape
  <2> DEFINE all == S!bit_or(S!bit_or(chunks[0], chunks[1]), S!bit_or(chunks[2], chunks[3]))
  <2>2. \A i \in 0..3 : chunks[i] \in Register(0..15)
    BY <1>2, <1>3, <2>1
  <2>3. /\ all \in Register(0..15)
        /\ \A k \in 0..15 : all[k] < 128 <=> \A i \in 0..3 : chunks[i][k] < 128
    BY <2>2, WestmereOrOfAll
  <2>4. /\ S!is_ascii(chunks) <=> ~S!any_bits_set_anywhere(all, S!splat(128))
        /\ S!is_ascii_lookup3(chunks) <=> S!is_ascii_bits(all)
    BY DEF S!is_ascii, S!is_ascii_lookup3, S!reduce, S!reduce_or
  <2> HIDE DEF all
  <2>5. ASSUME NEW k \in 0..15 PROVE all[k] < 128 <=> ~(all[k] >= 128)
    <3>1. PICK x \in Octet : x = all[k]
      BY <2>3 DEF Register
    <3> QED
      BY <3>1 DEF Octet
  <2>6. /\ S!is_ascii(chunks) <=> \A k \in 0..15 : all[k] < 128
        /\ S!is_ascii_lookup3(chunks) <=> \A k \in 0..15 : all[k] < 128
    BY <2>3, <2>4, <2>5, WestmereTests
  <2>7. ascii <=> \A k \in 0..15 : all[k] < 128
    BY <1>3, <2>1, <2>3, AsciiByRegisters
  <2>8. S!is_ascii(chunks) \in BOOLEAN /\ S!is_ascii_lookup3(chunks) \in BOOLEAN
    BY DEF S!is_ascii, S!is_ascii_lookup3, S!is_ascii_bits
  <2>9. S!is_ascii(chunks) = ascii /\ S!is_ascii_lookup3(chunks) = ascii
    BY <2>6, <2>7, <2>8
  <2> QED
    BY <1>4, <2>9 DEF AsciiIsAscii
<1>5. CASE target = "haswell"
  <2>1. SIZE = 32 /\ NUM_CHUNKS = 2
    BY <1>1, <1>5, Shape
  <2> DEFINE all == H!bit_or(chunks[0], chunks[1])
  <2>2. \A i \in 0..1 : chunks[i] \in Register(0..31)
    BY <1>2, <1>3, <2>1
  <2>3. /\ all \in Register(0..31)
        /\ \A k \in 0..31 : all[k] < 128 <=> \A i \in 0..1 : chunks[i][k] < 128
    BY <2>2, HaswellOrOfAll
  <2>4. /\ H!is_ascii(chunks) <=> ~H!any_bits_set_anywhere(all, H!splat(128))
        /\ H!is_ascii_lookup4(chunks) <=> H!is_ascii_bits(all)
    BY DEF H!is_ascii, H!is_ascii_lookup4, H!reduce, H!reduce_or
  <2> HIDE DEF all
  <2>5. ASSUME NEW k \in 0..31 PROVE all[k] < 128 <=> ~(all[k] >= 128)
    <3>1. PICK x \in Octet : x = all[k]
      BY <2>3 DEF Register
    <3> QED
      BY <3>1 DEF Octet
  <2>6. /\ H!is_ascii(chunks) <=> \A k \in 0..31 : all[k] < 128
        /\ H!is_ascii_lookup4(chunks) <=> \A k \in 0..31 : all[k] < 128
    BY <2>3, <2>4, <2>5, HaswellTests
  <2>7. ascii <=> \A k \in 0..31 : all[k] < 128
    BY <1>3, <2>1, <2>3, AsciiByRegisters
  <2>8. H!is_ascii(chunks) \in BOOLEAN /\ H!is_ascii_lookup4(chunks) \in BOOLEAN
    BY DEF H!is_ascii, H!is_ascii_lookup4, H!is_ascii_bits
  <2>9. H!is_ascii(chunks) = ascii /\ H!is_ascii_lookup4(chunks) = ascii
    BY <2>6, <2>7, <2>8
  <2> QED
    BY <1>5, <2>9 DEF AsciiIsAscii
<1>6. CASE target = "arm64"
  <2>1. SIZE = 16 /\ NUM_CHUNKS = 4
    BY <1>1, <1>6, Shape
  <2> DEFINE all == N!bit_or(N!bit_or(chunks[0], chunks[1]), N!bit_or(chunks[2], chunks[3]))
  <2>2. \A i \in 0..3 : chunks[i] \in Register(0..15)
    BY <1>2, <1>3, <2>1
  <2>3. /\ all \in Register(0..15)
        /\ \A k \in 0..15 : all[k] < 128 <=> \A i \in 0..3 : chunks[i][k] < 128
    BY <2>2, Arm64OrOfAll
  <2>4. N!is_ascii(chunks) = (N!max(all) < 128)
    BY DEF N!is_ascii, N!reduce
  <2> HIDE DEF all
  <2>5. N!max(all) < 128 <=> \A k \in 0..15 : all[k] < 128
    BY <2>3, Arm64Max
  <2>6. ascii <=> \A k \in 0..15 : all[k] < 128
    BY <1>3, <2>1, <2>3, AsciiByRegisters
  <2>7. (N!max(all) < 128) \in BOOLEAN /\ ascii \in BOOLEAN
    OBVIOUS
  <2>8. (N!max(all) < 128) = ascii
    <3> HIDE DEF ascii
    <3> QED
      BY <2>5, <2>6, <2>7
  <2>9. N!is_ascii(chunks) = ascii
    <3> HIDE DEF ascii
    <3> QED
      BY <2>4, <2>8
  <2> QED
    BY <1>6, <2>9 DEF AsciiIsAscii
<1> QED
  BY <1>1, <1>4, <1>5, <1>6, TargetsAssumption

(***************************************************************************)
(* The ASCII test of every target, the fast path of lookup3 and lookup4    *)
(* that skips a whole block, accepts a block just when all its 64 bytes    *)
(* are ASCII.                                                              *)
(***************************************************************************)
THEOREM AsciiTestsAreExact == VectorsSpec => []AsciiIsAscii
<1>1. VectorsTypeOK => AsciiIsAscii
  BY AsciiOfRegisters
<1> QED
  BY <1>1, VectorsTypeCorrect, PTL

-----------------------------------------------------------------------------
(* The scalar masks of x86.                                                *)
LEMMA WestmereGetBit ==
  ASSUME NEW a \in Register(0..15), NEW n \in 4..7
  PROVE  S!get_bit(n, a) = {k \in 0..15 : (a[k] \div 2^n) % 2 = 1}
<1> DEFINE words == S!slli_epi16(a, 7 - n)
<1>1. DOMAIN a = 0..15
  BY DEF Register
<1>2. PICK f \in {1, 2, 4, 8}, g \in {16, 32, 64, 128} :
        f = 2^(7 - n) /\ g = 2^n /\ f * g = 128
  <2>1. CASE n = 4
    <3>1. 7 - n = 3
      BY <2>1
    <3> QED
      BY <2>1, <3>1, PowersOfTwo
  <2>2. CASE n = 5
    <3>1. 7 - n = 2
      BY <2>2
    <3> QED
      BY <2>2, <3>1, PowersOfTwo
  <2>3. CASE n = 6
    <3>1. 7 - n = 1
      BY <2>3
    <3> QED
      BY <2>3, <3>1, PowersOfTwo
  <2>4. CASE n = 7
    <3>1. 7 - n = 0
      BY <2>4
    <3> QED
      BY <2>4, <3>1, PowersOfTwo
  <2> QED
    BY <2>1, <2>2, <2>3, <2>4
<1>3. words = [k \in 0..15 |-> S!byte_of_word(S!word(a, k) * f, k)]
  BY <1>1, <1>2 DEF S!slli_epi16
<1>4. ASSUME NEW low \in Octet, NEW high \in Octet
      PROVE  /\ ((low + 256 * high) * f) % 256 >= 128 <=> (low \div g) % 2 = 1
             /\ (((low + 256 * high) * f) \div 256) % 256 >= 128 <=> (high \div g) % 2 = 1
  <2>1. CASE f = 1
    <3>1. g = 128
      BY <1>2, <2>1
    <3> QED
      BY <2>1, <3>1, WordShiftedLeft
  <2>2. CASE f = 2
    <3>1. g = 64
      BY <1>2, <2>2
    <3> QED
      BY <2>2, <3>1, WordShiftedLeft
  <2>3. CASE f = 4
    <3>1. g = 32
      BY <1>2, <2>3
    <3> QED
      BY <2>3, <3>1, WordShiftedLeft
  <2>4. CASE f = 8
    <3>1. g = 16
      BY <1>2, <2>4
    <3> QED
      BY <2>4, <3>1, WordShiftedLeft
  <2> QED
    BY <2>1, <2>2, <2>3, <2>4
<1>5. ASSUME NEW k \in 0..15
      PROVE  S!byte_of_word(S!word(a, k) * f, k) >= 128 <=> (a[k] \div g) % 2 = 1
  <2>1. CASE k % 2 = 0
    <3>1. k \in 0..15 /\ k + 1 \in 0..15 /\ k - (k % 2) = k
      BY <2>1
    <3>2. a[k] \in Octet /\ a[k + 1] \in Octet
      BY <3>1 DEF Register
    <3>3. S!word(a, k) = a[k] + 256 * a[k + 1]
      BY <3>1 DEF S!word
    <3>4. S!byte_of_word(S!word(a, k) * f, k) = ((a[k] + 256 * a[k + 1]) * f) % 256
      BY <2>1, <3>3 DEF S!byte_of_word
    <3> QED
      BY <1>4, <3>2, <3>4
  <2>2. CASE k % 2 # 0
    <3>1. k - 1 \in 0..15 /\ k - (k % 2) = k - 1 /\ (k - 1) + 1 = k
      BY <2>2
    <3>2. a[k] \in Octet /\ a[k - 1] \in Octet
      BY <3>1 DEF Register
    <3>3. S!word(a, k) = a[k - 1] + 256 * a[k]
      BY <3>1 DEF S!word
    <3>4. S!byte_of_word(S!word(a, k) * f, k) = (((a[k - 1] + 256 * a[k]) * f) \div 256) % 256
      BY <2>2, <3>3 DEF S!byte_of_word
    <3> QED
      BY <1>4, <3>2, <3>4
  <2> QED
    BY <2>1, <2>2
<1>6. S!get_bit(n, a) = {k \in DOMAIN words : words[k] >= 128}
  BY DEF S!get_bit, S!movemask_epi8
<1>7. DOMAIN words = 0..15 /\ \A k \in 0..15 : words[k] >= 128 <=> (a[k] \div g) % 2 = 1
  BY <1>3, <1>5
<1> HIDE DEF words
<1> QED
  BY <1>2, <1>6, <1>7

LEMMA HaswellGetBit ==
  ASSUME NEW a \in Register(0..31), NEW n \in 4..7
  PROVE  H!get_bit(n, a) = {k \in 0..31 : (a[k] \div 2^n) % 2 = 1}
<1> DEFINE words == H!slli_epi16(a, 7 - n)
<1>1. DOMAIN a = 0..31
  BY DEF Register
<1>2. PICK f \in {1, 2, 4, 8}, g \in {16, 32, 64, 128} :
        f = 2^(7 - n) /\ g = 2^n /\ f * g = 128
  <2>1. CASE n = 4
    <3>1. 7 - n = 3
      BY <2>1
    <3> QED
      BY <2>1, <3>1, PowersOfTwo
  <2>2. CASE n = 5
    <3>1. 7 - n = 2
      BY <2>2
    <3> QED
      BY <2>2, <3>1, PowersOfTwo
  <2>3. CASE n = 6
    <3>1. 7 - n = 1
      BY <2>3
    <3> QED
      BY <2>3, <3>1, PowersOfTwo
  <2>4. CASE n = 7
    <3>1. 7 - n = 0
      BY <2>4
    <3> QED
      BY <2>4, <3>1, PowersOfTwo
  <2> QED
    BY <2>1, <2>2, <2>3, <2>4
<1>3. words = [k \in 0..31 |-> H!byte_of_word(H!word(a, k) * f, k)]
  BY <1>1, <1>2 DEF H!slli_epi16
<1>4. ASSUME NEW low \in Octet, NEW high \in Octet
      PROVE  /\ ((low + 256 * high) * f) % 256 >= 128 <=> (low \div g) % 2 = 1
             /\ (((low + 256 * high) * f) \div 256) % 256 >= 128 <=> (high \div g) % 2 = 1
  <2>1. CASE f = 1
    <3>1. g = 128
      BY <1>2, <2>1
    <3> QED
      BY <2>1, <3>1, WordShiftedLeft
  <2>2. CASE f = 2
    <3>1. g = 64
      BY <1>2, <2>2
    <3> QED
      BY <2>2, <3>1, WordShiftedLeft
  <2>3. CASE f = 4
    <3>1. g = 32
      BY <1>2, <2>3
    <3> QED
      BY <2>3, <3>1, WordShiftedLeft
  <2>4. CASE f = 8
    <3>1. g = 16
      BY <1>2, <2>4
    <3> QED
      BY <2>4, <3>1, WordShiftedLeft
  <2> QED
    BY <2>1, <2>2, <2>3, <2>4
<1>5. ASSUME NEW k \in 0..31
      PROVE  H!byte_of_word(H!word(a, k) * f, k) >= 128 <=> (a[k] \div g) % 2 = 1
  <2>1. CASE k % 2 = 0
    <3>1. k \in 0..31 /\ k + 1 \in 0..31 /\ k - (k % 2) = k
      BY <2>1
    <3>2. a[k] \in Octet /\ a[k + 1] \in Octet
      BY <3>1 DEF Register
    <3>3. H!word(a, k) = a[k] + 256 * a[k + 1]
      BY <3>1 DEF H!word
    <3>4. H!byte_of_word(H!word(a, k) * f, k) = ((a[k] + 256 * a[k + 1]) * f) % 256
      BY <2>1, <3>3 DEF H!byte_of_word
    <3> QED
      BY <1>4, <3>2, <3>4
  <2>2. CASE k % 2 # 0
    <3>1. k - 1 \in 0..31 /\ k - (k % 2) = k - 1 /\ (k - 1) + 1 = k
      BY <2>2
    <3>2. a[k] \in Octet /\ a[k - 1] \in Octet
      BY <3>1 DEF Register
    <3>3. H!word(a, k) = a[k - 1] + 256 * a[k]
      BY <3>1 DEF H!word
    <3>4. H!byte_of_word(H!word(a, k) * f, k) = (((a[k - 1] + 256 * a[k]) * f) \div 256) % 256
      BY <2>2, <3>3 DEF H!byte_of_word
    <3> QED
      BY <1>4, <3>2, <3>4
  <2> QED
    BY <2>1, <2>2
<1>6. H!get_bit(n, a) = {k \in DOMAIN words : words[k] >= 128}
  BY DEF H!get_bit, H!movemask_epi8
<1>7. DOMAIN words = 0..31 /\ \A k \in 0..31 : words[k] >= 128 <=> (a[k] \div g) % 2 = 1
  BY <1>3, <1>5
<1> HIDE DEF words
<1> QED
  BY <1>2, <1>6, <1>7

LEMMA WestmereHigh ==
  ASSUME NEW a \in Register(0..15)
  PROVE  S!movemask_epi8(S!ge(a, S!splat(128))) = {k \in 0..15 : a[k] >= 128}
<1> DEFINE c == S!splat(128)
           m == S!ge(a, c)
<1>1. c \in Register(0..15) /\ \A k \in 0..15 : c[k] = 128
  <2>1. 128 \in Octet
    BY DEF Octet
  <2> QED
    BY <2>1, WestmereSplat DEF R16, R32
<1>2. m = I!cmpeq_epi8(I!min_epu8(c, a), c)
  BY WestmereMembers DEF S!ge
<1> HIDE DEF c
<1>3. I!min_epu8(c, a) \in Register(0..15)
  BY <1>1, MinEpu8Lanes
<1>4. m \in Register(0..15)
  BY <1>1, <1>2, <1>3, CmpeqEpi8Lanes
<1>5. \A k \in 0..15 : m[k] = IF a[k] >= c[k] THEN 255 ELSE 0
  BY <1>1, WestmereComparisons
<1> HIDE DEF m
<1>6. DOMAIN m = 0..15 /\ \A k \in 0..15 : m[k] >= 128 <=> a[k] >= 128
  BY <1>1, <1>4, <1>5 DEF Register
<1>7. S!movemask_epi8(m) = {k \in 0..15 : a[k] >= 128}
  BY <1>6 DEF S!movemask_epi8
<1> QED
  BY <1>7 DEF m, c

LEMMA HaswellHigh ==
  ASSUME NEW a \in Register(0..31)
  PROVE  H!movemask_epi8(H!ge(a, H!splat(128))) = {k \in 0..31 : a[k] >= 128}
<1> DEFINE c == H!splat(128)
           m == H!ge(a, c)
<1>1. c \in Register(0..31) /\ \A k \in 0..31 : c[k] = 128
  <2>1. 128 \in Octet
    BY DEF Octet
  <2> QED
    BY <2>1, HaswellSplat DEF R16, R32
<1>2. m = I!cmpeq_epi8(I!min_epu8(a, c), c)
  BY HaswellMembers DEF H!ge
<1> HIDE DEF c
<1>3. I!min_epu8(a, c) \in Register(0..31)
  BY <1>1, MinEpu8Lanes
<1>4. m \in Register(0..31)
  BY <1>1, <1>2, <1>3, CmpeqEpi8Lanes
<1>5. \A k \in 0..31 : m[k] = IF a[k] >= c[k] THEN 255 ELSE 0
  BY <1>1, HaswellComparisons
<1> HIDE DEF m
<1>6. DOMAIN m = 0..31 /\ \A k \in 0..31 : m[k] >= 128 <=> a[k] >= 128
  BY <1>1, <1>4, <1>5 DEF Register
<1>7. H!movemask_epi8(m) = {k \in 0..31 : a[k] >= 128}
  BY <1>6 DEF H!movemask_epi8
<1> QED
  BY <1>7 DEF m, c

LEMMA WestmereToBitmask ==
  ASSUME NEW c, \A i \in 0..3 : c[i] \in Register(0..15)
  PROVE  S!to_bitmask([i \in 0..3 |-> S!ge(c[i], S!splat(128))])
           = {p \in 0..63 : c[p \div 16][p % 16] >= 128}
<1> DEFINE v == [i \in 0..3 |-> S!ge(c[i], S!splat(128))]
           A(i) == {k \in 0..15 : c[i][k] >= 128}
           r(i) == {j + 16 * i : j \in A(i)} \cap (0..63)
<1>1. ASSUME NEW i \in 0..3
      PROVE  S!shifted(S!sign_extended(S!movemask_epi8(v[i])), 16 * i) = r(i)
  <2>1. S!movemask_epi8(v[i]) = A(i)
    BY WestmereHigh
  <2>2. 31 \notin A(i)
    OBVIOUS
  <2> HIDE DEF A, v
  <2>3. S!sign_extended(A(i)) = A(i)
    BY <2>2 DEF S!sign_extended
  <2> QED
    BY <2>1, <2>3 DEF S!shifted
<1>2. S!to_bitmask(v) = r(0) \cup r(1) \cup r(2) \cup r(3)
  <2> HIDE DEF v, r
  <2>1. /\ 0 \in 0..3 /\ 1 \in 0..3 /\ 2 \in 0..3 /\ 3 \in 0..3
    OBVIOUS
  <2> QED
    BY <1>1, <2>1 DEF S!to_bitmask
<1>3. ASSUME NEW i \in 0..3, NEW p \in 0..63
      PROVE  p \in r(i) <=> p \div 16 = i /\ c[i][p % 16] >= 128
  <2>1. ASSUME p \in r(i) PROVE p \div 16 = i /\ c[i][p % 16] >= 128
    <3>1. PICK j \in 0..15 : c[i][j] >= 128 /\ p = j + 16 * i
      BY <2>1
    <3>2. p \div 16 = i /\ p % 16 = j
      BY <3>1
    <3> QED
      BY <3>1, <3>2
  <2>2. ASSUME p \div 16 = i, c[i][p % 16] >= 128 PROVE p \in r(i)
    <3>1. p % 16 \in 0..15 /\ p = (p % 16) + 16 * i
      BY <2>2
    <3> QED
      BY <2>2, <3>1
  <2> QED
    BY <2>1, <2>2
<1>4. ASSUME NEW p \in 0..63
      PROVE  p \in r(0) \cup r(1) \cup r(2) \cup r(3) <=> c[p \div 16][p % 16] >= 128
  <2>1. p \div 16 = 0 \/ p \div 16 = 1 \/ p \div 16 = 2 \/ p \div 16 = 3
    OBVIOUS
  <2> HIDE DEF r
  <2> QED
    BY <1>3, <2>1
<1>5. r(0) \cup r(1) \cup r(2) \cup r(3) \subseteq 0..63
  OBVIOUS
<1> HIDE DEF r
<1> QED
  BY <1>2, <1>4, <1>5

LEMMA HaswellToBitmask ==
  ASSUME NEW c, \A i \in 0..1 : c[i] \in Register(0..31)
  PROVE  H!to_bitmask([i \in 0..1 |-> H!ge(c[i], H!splat(128))])
           = {p \in 0..63 : c[p \div 32][p % 32] >= 128}
<1> DEFINE v == [i \in 0..1 |-> H!ge(c[i], H!splat(128))]
           A(i) == {k \in 0..31 : c[i][k] >= 128}
           r == {j + 32 : j \in A(1)}
<1>1. H!movemask_epi8(v[0]) = A(0) /\ H!movemask_epi8(v[1]) = A(1)
  <2>1. \A i \in 0..1 : H!movemask_epi8(v[i]) = A(i)
    BY HaswellHigh
  <2> QED
    BY <2>1
<1>2. H!shifted(H!sign_extended(A(1)), 32) = r
  <2>1. A(1) \subseteq 0..31
    OBVIOUS
  <2> HIDE DEF A
  <2>2. \A i \in H!sign_extended(A(1)) : i \in A(1) \/ i \in 32..63
    BY DEF H!sign_extended
  <2>3. A(1) \subseteq H!sign_extended(A(1))
    BY DEF H!sign_extended
  <2>4. \A i \in 32..63 : i + 32 \notin 0..63
    OBVIOUS
  <2>5. \A i \in A(1) : i + 32 \in 0..63
    BY <2>1
  <2> QED
    BY <2>2, <2>3, <2>4, <2>5 DEF H!shifted
<1>3. H!to_bitmask(v) = A(0) \cup r
  <2> HIDE DEF v, A, r
  <2> QED
    BY <1>1, <1>2 DEF H!to_bitmask
<1>4. ASSUME NEW p \in 0..63
      PROVE  p \in A(0) \cup r <=> c[p \div 32][p % 32] >= 128
  <2>1. CASE p < 32
    <3>1. p \div 32 = 0 /\ p % 32 = p /\ p \in 0..31
      BY <2>1
    <3>2. p \notin r
      BY <2>1
    <3> QED
      BY <3>1, <3>2
  <2>2. CASE ~(p < 32)
    <3>1. p \div 32 = 1 /\ p % 32 = p - 32 /\ p - 32 \in 0..31 /\ p \notin 0..31
      BY <2>2
    <3>2. p \in r <=> p - 32 \in A(1)
      <4>1. p = (p - 32) + 32
        OBVIOUS
      <4>2. \A j \in 0..31 : p = j + 32 => j = p - 32
        OBVIOUS
      <4> QED
        BY <4>1, <4>2
    <3> QED
      BY <3>1, <3>2
  <2> QED
    BY <2>1, <2>2
<1>5. A(0) \cup r \subseteq 0..63
  OBVIOUS
<1> HIDE DEF A, r
<1> QED
  BY <1>3, <1>4, <1>5

-----------------------------------------------------------------------------
(* The scalar mask of NEON.                                                *)
LEMMA PowerByte ==
  ASSUME NEW e \in 0..7
  PROVE  /\ 2^e \in Octet
         /\ I!Bit[2^e] = {e}
         /\ I!ByteOf[{e}] = 2^e
<1>1. {e} \in SUBSET (0..7)
  OBVIOUS
<1>2. I!ByteOf[{e}] = 2^e
  <2>1. e \in {0, 1, 2, 3, 4, 5, 6, 7}
    OBVIOUS
  <2>2. CASE e = 0
    BY <1>1, <2>2, ByteOfBits, PowersOfTwo DEF weight
  <2>3. CASE e = 1
    BY <1>1, <2>3, ByteOfBits, PowersOfTwo DEF weight
  <2>4. CASE e = 2
    BY <1>1, <2>4, ByteOfBits, PowersOfTwo DEF weight
  <2>5. CASE e = 3
    BY <1>1, <2>5, ByteOfBits, PowersOfTwo DEF weight
  <2>6. CASE e = 4
    BY <1>1, <2>6, ByteOfBits, PowersOfTwo DEF weight
  <2>7. CASE e = 5
    BY <1>1, <2>7, ByteOfBits, PowersOfTwo DEF weight
  <2>8. CASE e = 6
    BY <1>1, <2>8, ByteOfBits, PowersOfTwo DEF weight
  <2>9. CASE e = 7
    BY <1>1, <2>9, ByteOfBits, PowersOfTwo DEF weight
  <2> QED
    BY <2>1, <2>2, <2>3, <2>4, <2>5, <2>6, <2>7, <2>8, <2>9
<1> QED
  BY <1>1, <1>2, ByteOfRange, BitsOfByteOf

LEMMA AndPower ==
  ASSUME NEW e \in 0..7, NEW x \in {0, 255}
  PROVE  AndBits(x, 2^e) = IF x = 255 THEN 2^e ELSE 0
<1>1. CASE x = 255
  <2>1. I!Bit[2^e] = {e} /\ I!ByteOf[{e}] = 2^e
    BY PowerByte
  <2>2. I!Bit[255] \cap I!Bit[2^e] = {e}
    <3>1. (0..7) \cap {e} = {e}
      OBVIOUS
    <3> QED
      BY <2>1, <3>1, BitsOfMasks
  <2> QED
    BY <1>1, <2>1, <2>2 DEF AndBits
<1>2. CASE x = 0
  <2>1. I!Bit[0] \cap I!Bit[2^e] = {}
    BY BitsOfMasks
  <2>2. I!ByteOf[{}] = 0
    BY ByteOfRange
  <2>3. AndBits(0, 2^e) = 0
    BY <2>1, <2>2 DEF AndBits
  <2> QED
    BY <1>2, <2>3
<1> QED
  BY <1>1, <1>2

LEMMA VpaddqLanes ==
  ASSUME NEW a, NEW b, NEW k \in 0..15
  PROVE  LET F(p) == IF p < 16 THEN a[p] ELSE b[p - 16]
         IN  N!vpaddq(a, b)[k] = (F(2 * k) + F(2 * k + 1)) % 256
<1>1. CASE k < 8
  <2>1. k % 8 = k /\ 2 * k < 16 /\ 2 * k + 1 < 16
    BY <1>1
  <2>2. N!vpaddq(a, b)[k] = (a[2 * k] + a[2 * k + 1]) % 256
    BY <1>1, <2>1 DEF N!vpaddq
  <2> QED
    BY <2>1, <2>2
<1>2. CASE ~(k < 8)
  <2>1. /\ 2 * (k % 8) = 2 * k - 16 /\ 2 * (k % 8) + 1 = (2 * k + 1) - 16
        /\ ~(2 * k < 16) /\ ~(2 * k + 1 < 16)
    BY <1>2
  <2>2. N!vpaddq(a, b)[k] = (b[2 * (k % 8)] + b[2 * (k % 8) + 1]) % 256
    BY <1>2 DEF N!vpaddq
  <2> QED
    BY <2>1, <2>2
<1> QED
  BY <1>1, <1>2

LEMMA Arm64Masked ==
  ASSUME NEW a \in Register(0..15), NEW k \in 0..15
  PROVE  N!bit_and(N!ge(a, N!splat(128)), N!bit_mask)[k]
           = IF a[k] >= 128 THEN 2^(k % 8) ELSE 0
<1> DEFINE c == N!splat(128)
           m == N!ge(a, c)
           d == N!bit_mask
<1>1. c \in Register(0..15) /\ \A j \in 0..15 : c[j] = 128
  <2>1. 128 \in Octet
    BY DEF Octet
  <2> QED
    BY <2>1, Arm64Splat DEF R16
<1>2. m = I!vcgeq(a, c)
  BY Arm64Members
<1> HIDE DEF c
<1>3. m \in Register(0..15) /\ m[k] = I!mask(a[k] >= c[k])
  BY <1>1, <1>2, VcgeqLanes
<1>4. d \in Register(0..15) /\ d[k] = 2^(k % 8)
  <2>1. d = [j \in 0..15 |-> 2^(j % 8)]
    BY DEF N!bit_mask
  <2>2. \A j \in 0..15 : j % 8 \in 0..7
    OBVIOUS
  <2>3. \A j \in 0..15 : 2^(j % 8) \in Octet
    BY <2>2, PowerByte
  <2> HIDE DEF d
  <2> QED
    BY <2>1, <2>3 DEF Register
<1> HIDE DEF m, d
<1>5. N!bit_and(m, d)[k] = AndBits(m[k], d[k])
  <2>1. N!bit_and(m, d) = I!and_si(m, d)
    BY Arm64Members
  <2> QED
    BY <1>3, <1>4, <2>1, AndSiLanes
<1>6. m[k] = IF a[k] >= 128 THEN 255 ELSE 0
  BY <1>1, <1>3 DEF I!mask
<1>7. AndBits(m[k], 2^(k % 8)) = IF m[k] = 255 THEN 2^(k % 8) ELSE 0
  <2>1. PICK y \in {0, 255} : y = m[k]
    BY <1>6
  <2>2. PICK e \in 0..7 : e = k % 8
    OBVIOUS
  <2>3. AndBits(y, 2^e) = IF y = 255 THEN 2^e ELSE 0
    BY AndPower, ZenonT(60)
  <2> QED
    BY <2>1, <2>2, <2>3
<1>8. N!bit_and(m, d)[k] = IF a[k] >= 128 THEN 2^(k % 8) ELSE 0
  BY <1>4, <1>5, <1>6, <1>7
<1> QED
  BY <1>8 DEF m, d, c

(* Three rounds of additions put the eight bits of each byte together.     *)
LEMMA Arm64ToBitmask ==
  ASSUME NEW c, \A i \in 0..3 : c[i] \in Register(0..15)
  PROVE  N!to_bitmask([i \in 0..3 |-> N!ge(c[i], N!splat(128))])
           = {p \in 0..63 : c[p \div 16][p % 16] >= 128}
<1> DEFINE v == [i \in 0..3 |-> N!ge(c[i], N!splat(128))]
           h(p) == c[p \div 16][p % 16] >= 128
           g(p) == IF h(p) THEN 2^(p % 8) ELSE 0
           m(i) == N!bit_and(v[i], N!bit_mask)
           sum0 == N!vpaddq(m(0), m(1))
           sum1 == N!vpaddq(m(2), m(3))
           sum == N!vpaddq(sum0, sum1)
           last == N!vpaddq(sum, sum)
<1>1. N!to_bitmask(v) = N!lane_bits(last, 8)
  BY DEF N!to_bitmask
<1>2. ASSUME NEW i \in 0..3, NEW k \in 0..15
      PROVE  m(i)[k] = g(16 * i + k)
  <2>1. (16 * i + k) \div 16 = i /\ (16 * i + k) % 16 = k /\ (16 * i + k) % 8 = k % 8
    OBVIOUS
  <2>2. m(i) = N!bit_and(N!ge(c[i], N!splat(128)), N!bit_mask)
    OBVIOUS
  <2>3. m(i)[k] = IF c[i][k] >= 128 THEN 2^(k % 8) ELSE 0
    <3>1. c[i] \in Register(0..15)
      OBVIOUS
    <3>2. N!bit_and(N!ge(c[i], N!splat(128)), N!bit_mask)[k]
            = IF c[i][k] >= 128 THEN 2^(k % 8) ELSE 0
      BY <3>1, Arm64Masked
    <3> HIDE DEF v, m
    <3> QED
      BY <2>2, <3>2
  <2> HIDE DEF v, m
  <2> QED
    BY <2>1, <2>3
<1> HIDE DEF v, m, g, h
<1>3. ASSUME NEW q \in 0..15
      PROVE  /\ sum0[q] = (g(2 * q) + g(2 * q + 1)) % 256
             /\ sum1[q] = (g(32 + 2 * q) + g(32 + 2 * q + 1)) % 256
  <2>1. ASSUME NEW p \in 0..31
        PROVE  /\ (IF p < 16 THEN m(0)[p] ELSE m(1)[p - 16]) = g(p)
               /\ (IF p < 16 THEN m(2)[p] ELSE m(3)[p - 16]) = g(32 + p)
    <3>1. CASE p < 16
      <4>1. p \in 0..15 /\ 16 * 0 + p = p /\ 16 * 2 + p = 32 + p
        BY <3>1
      <4> QED
        BY <1>2, <3>1, <4>1
    <3>2. CASE ~(p < 16)
      <4>1. p - 16 \in 0..15 /\ 16 * 1 + (p - 16) = p /\ 16 * 3 + (p - 16) = 32 + p
        BY <3>2
      <4> QED
        BY <1>2, <3>2, <4>1
    <3> QED
      BY <3>1, <3>2
  <2>2. 2 * q \in 0..31 /\ 2 * q + 1 \in 0..31 /\ 32 + (2 * q + 1) = 32 + 2 * q + 1
    OBVIOUS
  <2>3. /\ sum0[q] = ((IF 2 * q < 16 THEN m(0)[2 * q] ELSE m(1)[2 * q - 16])
                       + (IF 2 * q + 1 < 16 THEN m(0)[2 * q + 1] ELSE m(1)[(2 * q + 1) - 16])) % 256
        /\ sum1[q] = ((IF 2 * q < 16 THEN m(2)[2 * q] ELSE m(3)[2 * q - 16])
                       + (IF 2 * q + 1 < 16 THEN m(2)[2 * q + 1] ELSE m(3)[(2 * q + 1) - 16])) % 256
    BY VpaddqLanes
  <2> HIDE DEF sum0, sum1
  <2> QED
    BY <2>1, <2>2, <2>3
<1>4. ASSUME NEW q \in 0..31
      PROVE  (IF q < 16 THEN sum0[q] ELSE sum1[q - 16]) = (g(2 * q) + g(2 * q + 1)) % 256
  <2> HIDE DEF sum0, sum1
  <2>1. CASE q < 16
    BY <1>3, <2>1
  <2>2. CASE ~(q < 16)
    <3>1. q - 16 \in 0..15 /\ 32 + 2 * (q - 16) = 2 * q /\ 32 + 2 * (q - 16) + 1 = 2 * q + 1
      BY <2>2
    <3> QED
      BY <1>3, <2>2, <3>1
  <2> QED
    BY <2>1, <2>2
<1>5. ASSUME NEW q \in 0..15
      PROVE  sum[q] = (((g(4 * q) + g(4 * q + 1)) % 256) + ((g(4 * q + 2) + g(4 * q + 3)) % 256)) % 256
  <2>1. /\ 2 * q \in 0..31 /\ 2 * q + 1 \in 0..31
        /\ 2 * (2 * q) = 4 * q /\ 2 * (2 * q) + 1 = 4 * q + 1
        /\ 2 * (2 * q + 1) = 4 * q + 2 /\ 2 * (2 * q + 1) + 1 = 4 * q + 3
    OBVIOUS
  <2> DEFINE left == IF 2 * q < 16 THEN sum0[2 * q] ELSE sum1[2 * q - 16]
             right == IF 2 * q + 1 < 16 THEN sum0[2 * q + 1] ELSE sum1[(2 * q + 1) - 16]
  <2>2. sum[q] = (left + right) % 256
    BY VpaddqLanes
  <2>3. /\ left = (g(4 * q) + g(4 * q + 1)) % 256
        /\ right = (g(4 * q + 2) + g(4 * q + 3)) % 256
    <3> HIDE DEF sum0, sum1
    <3>1. (IF 2 * q < 16 THEN sum0[2 * q] ELSE sum1[2 * q - 16])
            = (g(2 * (2 * q)) + g(2 * (2 * q) + 1)) % 256
      BY <1>4, <2>1
    <3>2. (IF 2 * q + 1 < 16 THEN sum0[2 * q + 1] ELSE sum1[(2 * q + 1) - 16])
            = (g(2 * (2 * q + 1)) + g(2 * (2 * q + 1) + 1)) % 256
      BY <1>4, <2>1
    <3> QED
      BY <2>1, <3>1, <3>2
  <2> HIDE DEF sum0, sum1, sum, left, right
  <2> QED
    BY <2>2, <2>3
<1>6. ASSUME NEW b \in 0..7
      PROVE  I!Bit[last[b]] = {i \in 0..7 : h(8 * b + i)}
  <2> DEFINE B == {i \in 0..7 : h(8 * b + i)}
             y(i) == g(8 * b + i)
  <2>1. last[b] = (sum[2 * b] + sum[2 * b + 1]) % 256
    <3>1. 2 * b < 16 /\ 2 * b + 1 < 16
      OBVIOUS
    <3>2. last[b] = ((IF 2 * b < 16 THEN sum[2 * b] ELSE sum[2 * b - 16])
                      + (IF 2 * b + 1 < 16 THEN sum[2 * b + 1] ELSE sum[(2 * b + 1) - 16])) % 256
      BY VpaddqLanes
    <3> HIDE DEF sum, last
    <3> QED
      BY <3>1, <3>2
  <2>2. /\ sum[2 * b] = (((y(0) + y(1)) % 256) + ((y(2) + y(3)) % 256)) % 256
        /\ sum[2 * b + 1] = (((y(4) + y(5)) % 256) + ((y(6) + y(7)) % 256)) % 256
    <3>1. /\ 2 * b \in 0..15 /\ 2 * b + 1 \in 0..15
          /\ 4 * (2 * b) = 8 * b + 0 /\ 4 * (2 * b) + 1 = 8 * b + 1
          /\ 4 * (2 * b) + 2 = 8 * b + 2 /\ 4 * (2 * b) + 3 = 8 * b + 3
          /\ 4 * (2 * b + 1) = 8 * b + 4 /\ 4 * (2 * b + 1) + 1 = 8 * b + 5
          /\ 4 * (2 * b + 1) + 2 = 8 * b + 6 /\ 4 * (2 * b + 1) + 3 = 8 * b + 7
      OBVIOUS
    <3> HIDE DEF sum
    <3> QED
      BY <1>5, <3>1
  <2>3. ASSUME NEW i \in 0..7
        PROVE  y(i) = IF i \in B THEN 2^i ELSE 0
    <3>1. (8 * b + i) % 8 = i
      OBVIOUS
    <3> QED
      BY <3>1 DEF g
  <2>4. B \in SUBSET (0..7)
    OBVIOUS
  <2> HIDE DEF B, y, last, sum
  <2>5. /\ y(0) = weight(B, 0, 1) /\ y(1) = weight(B, 1, 2)
        /\ y(2) = weight(B, 2, 4) /\ y(3) = weight(B, 3, 8)
        /\ y(4) = weight(B, 4, 16) /\ y(5) = weight(B, 5, 32)
        /\ y(6) = weight(B, 6, 64) /\ y(7) = weight(B, 7, 128)
    BY <2>3, PowersOfTwo DEF weight
  <2>6. last[b] = weight(B, 0, 1) + weight(B, 1, 2) + weight(B, 2, 4)
                    + weight(B, 3, 8) + weight(B, 4, 16) + weight(B, 5, 32)
                    + weight(B, 6, 64) + weight(B, 7, 128)
    BY <2>1, <2>2, <2>5 DEF weight
  <2>7. last[b] = I!ByteOf[B]
    BY <2>4, <2>6, ByteOfBits
  <2>8. I!Bit[last[b]] = B
    BY <2>4, <2>7, BitsOfByteOf
  <2> QED
    BY <2>8 DEF B
<1> HIDE DEF last
<1>7. ASSUME NEW p
      PROVE  p \in N!lane_bits(last, 8)
               <=> \E k \in 0..7, i \in 0..7 : h(8 * k + i) /\ p = 8 * k + i
  <2>1. 8 - 1 = 7
    OBVIOUS
  <2>2. \A k \in 0..7 : N!Bit[last[k]] = {j \in 0..7 : h(8 * k + j)}
    BY <1>6 DEF N!Bit, I!Bit
  <2>3. p \in N!lane_bits(last, 8) <=> \E k \in 0..7 : \E i \in N!Bit[last[k]] : p = 8 * k + i
    BY <2>1 DEF N!lane_bits
  <2> HIDE DEF h
  <2> QED
    BY <2>2, <2>3
<1>8. ASSUME NEW p \in 0..63, h(p)
      PROVE  \E k \in 0..7, i \in 0..7 : h(8 * k + i) /\ p = 8 * k + i
  <2>1. p \div 8 \in 0..7 /\ p % 8 \in 0..7 /\ 8 * (p \div 8) + (p % 8) = p
    OBVIOUS
  <2> HIDE DEF h
  <2>2. h(8 * (p \div 8) + (p % 8))
    BY <1>8, <2>1
  <2> QED
    BY <2>1, <2>2
<1>9. \A k \in 0..7, i \in 0..7 : 8 * k + i \in 0..63
  OBVIOUS
<1>10. N!lane_bits(last, 8) = {p \in 0..63 : h(p)}
  <2> HIDE DEF h
  <2> QED
    BY <1>7, <1>8, <1>9
<1> QED
  BY <1>1, <1>10 DEF v, h

LEMMA MasksOfRegisters ==
  ASSUME VectorsTypeOK
  PROVE  MasksAreLanes
<1> DEFINE high == {k \in 0..63 : bytes(chunks)[k] >= 128}
<1>1. target \in Targets /\ chunks \in Registers
  BY TypeIsRegisters
<1>2. \A i \in 0..(NUM_CHUNKS - 1) : chunks[i] \in Register(0..(SIZE - 1))
  BY <1>1 DEF Registers
<1>3. 16 - 1 = 15 /\ 32 - 1 = 31 /\ 4 - 1 = 3 /\ 2 - 1 = 1
  OBVIOUS
<1>4. high = {k \in 0..63 : chunks[k \div SIZE][k % SIZE] >= 128}
  BY <1>1, BytesType
<1> HIDE DEF high
<1>5. CASE target = "westmere"
  <2>1. SIZE = 16 /\ NUM_CHUNKS = 4
    BY <1>1, <1>5, Shape
  <2>2. \A i \in 0..3 : chunks[i] \in Register(0..15)
    BY <1>2, <1>3, <2>1
  <2>3. \A n \in 4..7, i \in 0..3 :
          S!get_bit(n, chunks[i]) = {k \in 0..(SIZE - 1) : (chunks[i][k] \div 2^n) % 2 = 1}
    <3>1. \A i \in 0..3, n \in 4..7 :
            S!get_bit(n, chunks[i]) = {k \in 0..15 : (chunks[i][k] \div 2^n) % 2 = 1}
      BY <2>2, WestmereGetBit
    <3>2. 0..(SIZE - 1) = 0..15
      BY <1>3, <2>1
    <3> QED
      BY <3>1, <3>2
  <2>4. S!to_bitmask([i \in 0..3 |-> S!ge(chunks[i], S!splat(128))]) = high
    BY <1>4, <2>1, <2>2, WestmereToBitmask
  <2> QED
    BY <1>5, <2>3, <2>4 DEF MasksAreLanes, high
<1>6. CASE target = "haswell"
  <2>1. SIZE = 32 /\ NUM_CHUNKS = 2
    BY <1>1, <1>6, Shape
  <2>2. \A i \in 0..1 : chunks[i] \in Register(0..31)
    BY <1>2, <1>3, <2>1
  <2>3. \A n \in 4..7, i \in 0..1 :
          H!get_bit(n, chunks[i]) = {k \in 0..(SIZE - 1) : (chunks[i][k] \div 2^n) % 2 = 1}
    <3>1. \A i \in 0..1, n \in 4..7 :
            H!get_bit(n, chunks[i]) = {k \in 0..31 : (chunks[i][k] \div 2^n) % 2 = 1}
      BY <2>2, HaswellGetBit
    <3>2. 0..(SIZE - 1) = 0..31
      BY <1>3, <2>1
    <3> QED
      BY <3>1, <3>2
  <2>4. H!to_bitmask([i \in 0..1 |-> H!ge(chunks[i], H!splat(128))]) = high
    BY <1>4, <2>1, <2>2, HaswellToBitmask
  <2> QED
    BY <1>6, <2>3, <2>4 DEF MasksAreLanes, high
<1>7. CASE target = "arm64"
  <2>1. SIZE = 16 /\ NUM_CHUNKS = 4
    BY <1>1, <1>7, Shape
  <2>2. \A i \in 0..3 : chunks[i] \in Register(0..15)
    BY <1>2, <1>3, <2>1
  <2>4. N!to_bitmask([i \in 0..3 |-> N!ge(chunks[i], N!splat(128))]) = high
    BY <1>4, <2>1, <2>2, Arm64ToBitmask
  <2> QED
    BY <1>7, <2>4 DEF MasksAreLanes, high
<1> QED
  BY <1>1, <1>5, <1>6, <1>7, TargetsAssumption

(***************************************************************************)
(* The scalar masks that zwegner's checker calculates with hold the bit of *)
(* each lane at its own place: get_bit, though the shift drags bits from   *)
(* one byte of a word into the other, and to_bitmask, whatever the width   *)
(* and the sign of its parts or, on NEON, the order of the additions.      *)
(***************************************************************************)
THEOREM MasksAreExact == VectorsSpec => []MasksAreLanes
<1>1. VectorsTypeOK => MasksAreLanes
  BY MasksOfRegisters
<1> QED
  BY <1>1, VectorsTypeCorrect, PTL
=============================================================================
