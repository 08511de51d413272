--------------------------- MODULE Utf8Cpp_proofs ---------------------------
(***************************************************************************)
(* Proofs about utf8::is_valid, for every text: the sums of masked bits    *)
(* are the code point, the checks of the code point draw the line of the   *)
(* table of legal bytes, and so the iterator that find_invalid returns is  *)
(* where the first character begins that is not legal.                     *)
(***************************************************************************)
EXTENDS Utf8Cpp, Utf8Local

(* What the lead and the first t trail bytes of n bytes from a on stand    *)
(* for.                                                                    *)
Value(s, a, n, t) ==
  CASE n = 1 -> s[a + 1]
    [] n = 2 -> (s[a + 1] - 192) * 64 + (IF t >= 1 THEN s[a + 2] - 128 ELSE 0)
    [] n = 3 -> (s[a + 1] - 224) * 4096
                  + (IF t >= 1 THEN (s[a + 2] - 128) * 64 ELSE 0)
                  + (IF t >= 2 THEN s[a + 3] - 128 ELSE 0)
    [] n = 4 -> (s[a + 1] - 240) * 262144
                  + (IF t >= 1 THEN (s[a + 2] - 128) * 4096 ELSE 0)
                  + (IF t >= 2 THEN (s[a + 3] - 128) * 64 ELSE 0)
                  + (IF t >= 3 THEN s[a + 4] - 128 ELSE 0)

(* The text before a is whole.                                             *)
Boundary(a) == Clean(input, a) /\ ~Open(input, a)

(* No legal character begins at a.                                         *)
NoCharacter(a) ==
  \A n \in 1..4 : a + n <= Size(input) => ~LegalChar(input, a + 1, n)

(* The iterator is on one of the bytes of a character: the ones behind its *)
(* lead are trail bytes, and cp is their value so far.                     *)
InCharacter ==
  /\ original_it \in 0..(end - 1)
  /\ Boundary(original_it)
  /\ length = sequence_length(octet(original_it))
  /\ length \in 1..4
  /\ it \in original_it..last_it
  /\ it < end
  /\ \A j \in (original_it + 1)..it : octet(j) \in Continuation
  /\ cp = Value(input, original_it, length, it - original_it)

Typed ==
  /\ input \in Inputs
  /\ pc \in {"find_invalid", "get_sequence", "checks", "returned"}
  /\ it \in 0..end
  /\ original_it \in 0..end
  /\ length \in 0..4
  /\ cp \in 0..bits21
  /\ err \in utf_error

(***************************************************************************)
(* The inductive invariant: between characters what has been read is       *)
(* whole, within one it is whole before the character, and find_invalid    *)
(* returns where no legal character begins.                                *)
(***************************************************************************)
IInv ==
  /\ Typed
  /\ pc = "find_invalid" => Boundary(it)
  /\ pc = "get_sequence" => InCharacter
  /\ pc = "checks" => InCharacter /\ it = last_it
  /\ pc = "returned" => Boundary(it) /\ (it # end => NoCharacter(it))
-----------------------------------------------------------------------------
LEMMA InputType ==
  ASSUME input \in Inputs
  PROVE  /\ input \in ByteSeq
         /\ end \in Nat
         /\ end = Size(input)
         /\ \A j \in 0..(end - 1) : octet(j) \in 0..255 /\ octet(j) = input[j + 1]
<1>1. input \in ByteSeq /\ end = Size(input)
  BY InputsAssumption DEF ByteSeq, Size, end
<1>2. end \in Nat /\ \A m \in 1..end : input[m] \in 0..255
  BY <1>1, SizeType
<1>3. ASSUME NEW j \in 0..(end - 1)
      PROVE  octet(j) \in 0..255 /\ octet(j) = input[j + 1]
  <2>1. j + 1 \in 1..end
    BY <1>2
  <2> QED
    BY <1>2, <2>1 DEF octet
<1> QED
  BY <1>1, <1>2, <1>3

(* A lead is told by its upper bits.                                       *)
LEMMA LeadByte ==
  ASSUME NEW b \in 0..255
  PROVE  sequence_length(b) =
           IF b < 128 THEN 1 ELSE IF b < 192 THEN 0 ELSE IF b < 224 THEN 2
           ELSE IF b < 240 THEN 3 ELSE IF b < 248 THEN 4 ELSE 0
<1>1. /\ b \div 32 = 6 <=> b \in 192..223
      /\ b \div 16 = 14 <=> b \in 224..239
      /\ b \div 8 = 30 <=> b \in 240..247
  BY SMT
<1>2. b < 128 => sequence_length(b) = 1
  BY <1>1 DEF sequence_length
<1>3. b \in 192..223 => sequence_length(b) = 2
  BY <1>1 DEF sequence_length
<1>4. b \in 224..239 => sequence_length(b) = 3
  BY <1>1 DEF sequence_length
<1>5. b \in 240..247 => sequence_length(b) = 4
  BY <1>1 DEF sequence_length
<1>6. b \in (128..191) \cup (248..255) => sequence_length(b) = 0
  BY <1>1 DEF sequence_length
<1> QED
  BY <1>2, <1>3, <1>4, <1>5, <1>6

(* The rest of it is shifted to its place in the code point.               *)
LEMMA LeadBits ==
  ASSUME NEW b \in 0..255
  PROVE  /\ lead_bits(1, b) = b
         /\ b \in 192..223 => lead_bits(2, b) = (b - 192) * 64
         /\ b \in 224..239 => lead_bits(3, b) = (b - 224) * 4096
         /\ b \in 240..247 => lead_bits(4, b) = (b - 240) * 262144
<1>1. b \in 192..223 => (b * 64) % 2048 = (b - 192) * 64
  BY SMT
<1>2. b \in 224..239 => (b * 4096) % 65536 = (b - 224) * 4096
  BY SMT
<1>3. b \in 240..247 => (b * 262144) % 2097152 = (b - 240) * 262144
  BY SMT
<1>4. /\ lead_bits(1, b) = b
      /\ lead_bits(2, b) = (b * 64) % 2048
      /\ lead_bits(3, b) = (b * 4096) % 65536
      /\ lead_bits(4, b) = (b * 262144) % 2097152
  BY SMT DEF lead_bits
<1> QED
  BY <1>1, <1>2, <1>3, <1>4, SMT

(* So is a trail byte; the bits that mark it are masked off.               *)
LEMMA TrailByte ==
  ASSUME NEW b \in 0..255
  PROVE  /\ is_trail(b) <=> b \in Continuation
         /\ b \in Continuation => /\ trail_bits(0, b) = b - 128
                                  /\ trail_bits(1, b) = (b - 128) * 64
                                  /\ trail_bits(2, b) = (b - 128) * 4096
<1>1. is_trail(b) <=> b \in Continuation
  BY DEF is_trail, Continuation
<1>2. ASSUME b \in 128..191
      PROVE  /\ b % 64 = b - 128
             /\ (b * 64) % 4096 = (b - 128) * 64
             /\ (b * 4096) % 262144 = (b - 128) * 4096
  BY <1>2
<1>3. trail_bits(0, b) = b % 64 /\ trail_bits(1, b) = (b * 64) % 4096
      /\ trail_bits(2, b) = (b * 4096) % 262144
  BY DEF trail_bits
<1> QED
  BY <1>1, <1>2, <1>3 DEF Continuation
-----------------------------------------------------------------------------
(* The whole character at hand: its value passes the checks exactly when   *)
(* it is legal.                                                            *)
LEMMA ValueOfCharacter ==
  ASSUME NEW s \in ByteSeq, NEW a \in Nat, NEW n \in 1..4, a + n <= Size(s),
         n = sequence_length(s[a + 1]),
         \A k \in 2..n : s[a + k] \in Continuation
  PROVE  is_code_point_valid(Value(s, a, n, n - 1))
           /\ ~is_overlong_sequence(Value(s, a, n, n - 1), n)
         <=> LegalChar(s, a + 1, n)
<1> DEFINE b0 == s[a + 1]
           b1 == s[a + 2]
           b2 == s[a + 3]
           b3 == s[a + 4]
           v == Value(s, a, n, n - 1)
<1>1. b0 \in 0..255
  <2>1. a + 1 \in 1..Size(s)
    BY SizeType
  <2> QED
    BY <2>1, SizeType
<1>2. (a + 1) + 1 = a + 2 /\ (a + 1) + 2 = a + 3 /\ (a + 1) + 3 = a + 4
  OBVIOUS
<1>3. /\ n >= 2 => b1 \in 128..191
      /\ n >= 3 => b2 \in 128..191
      /\ n >= 4 => b3 \in 128..191
  <2>1. n >= 2 => 2 \in 2..n
    OBVIOUS
  <2>2. n >= 3 => 3 \in 2..n
    OBVIOUS
  <2>3. n >= 4 => 4 \in 2..n
    OBVIOUS
  <2> QED
    BY <2>1, <2>2, <2>3 DEF Continuation
<1>4. n = IF b0 < 128 THEN 1 ELSE IF b0 < 192 THEN 0 ELSE IF b0 < 224 THEN 2
          ELSE IF b0 < 240 THEN 3 ELSE IF b0 < 248 THEN 4 ELSE 0
  <2>1. n = sequence_length(b0)
    OBVIOUS
  <2> HIDE DEF b0
  <2> QED
    BY <1>1, <2>1, LeadByte
<1>5. /\ n = 1 => v = b0
      /\ n = 2 => v = Value(s, a, 2, 1)
      /\ n = 3 => v = Value(s, a, 3, 2)
      /\ n = 4 => v = Value(s, a, 4, 3)
  <2>1. n = 1 => v = Value(s, a, 1, 0)
    OBVIOUS
  <2>2. Value(s, a, 1, 0) = b0
    BY DEF Value
  <2> QED
    BY <2>1, <2>2
<1>6. LegalChar(s, a + 1, n) <=>
        \/ n = 1 /\ b0 \in Ascii
        \/ n = 2 /\ b0 \in Lead2 /\ b1 \in Continuation
        \/ n = 3 /\ b0 \in Lead3 /\ b1 \in SecondBytes(b0) /\ b2 \in Continuation
        \/ n = 4 /\ b0 \in Lead4 /\ b1 \in SecondBytes(b0) /\ b2 \in Continuation
                 /\ b3 \in Continuation
  BY <1>2 DEF LegalChar
<1> HIDE DEF b0, b1, b2, b3, v
<1> DEFINE OK == is_code_point_valid(v) /\ ~is_overlong_sequence(v, n)
<1> SUFFICES OK <=> LegalChar(s, a + 1, n)
  BY DEF v
<1> HIDE DEF OK
<1>7. CASE n = 1
  <2>1. b0 < 128
    BY <1>1, <1>4, <1>7
  <2>2. OK
    BY <1>1, <1>5, <1>7, <2>1, SMT
        DEF OK, is_code_point_valid, is_surrogate, is_overlong_sequence
  <2>3. LegalChar(s, a + 1, n)
    BY <1>1, <1>6, <1>7, <2>1 DEF Ascii
  <2> QED
    BY <2>2, <2>3
<1>8. CASE n = 2
  <2>1. b0 \in 192..223
    BY <1>1, <1>4, <1>8
  <2>0. b1 \in 128..191
    BY <1>3, <1>8
  <2>2. v = (b0 - 192) * 64 + (b1 - 128)
    BY <1>5, <1>8, SMT DEF Value, b0, b1
  <2>3. v \in Nat /\ v <= 2047 /\ (v < 128 <=> b0 < 194)
    BY <2>0, <2>1, <2>2, SMT
  <2>4. OK <=> ~(b0 < 194)
    BY <1>8, <2>3, SMT
        DEF OK, is_code_point_valid, is_surrogate, is_overlong_sequence
  <2>5. LegalChar(s, a + 1, n) <=> ~(b0 < 194)
    BY <1>3, <1>6, <1>8, <2>1 DEF Continuation, Lead2
  <2> QED
    BY <2>4, <2>5
<1>9. CASE n = 3
  <2>1. b0 \in 224..239
    BY <1>1, <1>4, <1>9
  <2>0. b1 \in 128..191 /\ b2 \in 128..191
    BY <1>3, <1>9
  <2>2. v = (b0 - 224) * 4096 + (b1 - 128) * 64 + (b2 - 128)
    BY <1>5, <1>9, SMT DEF Value, b0, b1, b2
  <2>3. /\ v \in Nat /\ v <= 65535
        /\ v < 2048 <=> b0 = 224 /\ b1 < 160
        /\ v >= 55296 /\ v <= 57343 <=> b0 = 237 /\ b1 >= 160
    BY <2>0, <2>1, <2>2, SMT
  <2>4. OK <=> ~(b0 = 224 /\ b1 < 160) /\ ~(b0 = 237 /\ b1 >= 160)
    BY <1>9, <2>3, SMT
        DEF OK, is_code_point_valid, is_surrogate, is_overlong_sequence
  <2>5. LegalChar(s, a + 1, n) <=> ~(b0 = 224 /\ b1 < 160) /\ ~(b0 = 237 /\ b1 >= 160)
    BY <1>3, <1>6, <1>9, <2>1 DEF SecondBytes, Continuation, Lead3
  <2> QED
    BY <2>4, <2>5
<1>10. CASE n = 4
  <2>1. b0 \in 240..247
    BY <1>1, <1>4, <1>10
  <2>0. b1 \in 128..191 /\ b2 \in 128..191 /\ b3 \in 128..191
    BY <1>3, <1>10
  <2>2. v = (b0 - 240) * 262144 + (b1 - 128) * 4096 + (b2 - 128) * 64 + (b3 - 128)
    BY <1>5, <1>10, SMT DEF Value, b0, b1, b2, b3
  <2>3. /\ v \in Nat
        /\ v < 65536 <=> b0 = 240 /\ b1 < 144
        /\ v > 1114111 <=> b0 > 244 \/ (b0 = 244 /\ b1 >= 144)
    BY <2>0, <2>1, <2>2, SMT
  <2>4. OK <=> ~(b0 = 240 /\ b1 < 144) /\ ~(b0 > 244 \/ (b0 = 244 /\ b1 >= 144))
    BY <1>10, <2>3, SMT
        DEF OK, is_code_point_valid, is_surrogate, is_overlong_sequence
  <2>5. LegalChar(s, a + 1, n) <=>
          ~(b0 = 240 /\ b1 < 144) /\ ~(b0 > 244 \/ (b0 = 244 /\ b1 >= 144))
    BY <1>3, <1>6, <1>10, <2>1 DEF SecondBytes, Continuation, Lead4
  <2> QED
    BY <2>4, <2>5
<1> QED
  BY <1>7, <1>8, <1>9, <1>10

(* The lead alone.                                                         *)
LEMMA ValueOfLead ==
  ASSUME NEW s \in ByteSeq, NEW a \in Nat, a < Size(s),
         NEW n \in 1..4, n = sequence_length(s[a + 1])
  PROVE  /\ lead_bits(n, s[a + 1]) = Value(s, a, n, 0)
         /\ lead_bits(n, s[a + 1]) \in 0..bits21
<1> DEFINE b0 == s[a + 1]
<1>1. b0 \in 0..255
  BY SizeType
<1>2. n = IF b0 < 128 THEN 1 ELSE IF b0 < 192 THEN 0 ELSE IF b0 < 224 THEN 2
          ELSE IF b0 < 240 THEN 3 ELSE IF b0 < 248 THEN 4 ELSE 0
  <2>1. n = sequence_length(b0)
    OBVIOUS
  <2> HIDE DEF b0
  <2> QED
    BY <1>1, <2>1, LeadByte
<1>3. /\ lead_bits(1, b0) = b0
      /\ b0 \in 192..223 => lead_bits(2, b0) = (b0 - 192) * 64
      /\ b0 \in 224..239 => lead_bits(3, b0) = (b0 - 224) * 4096
      /\ b0 \in 240..247 => lead_bits(4, b0) = (b0 - 240) * 262144
  <2> HIDE DEF b0
  <2> QED
    BY <1>1, LeadBits, SMT
<1>4. bits21 \in Nat /\ bits21 >= 2097151
  BY SMT DEF bits21
<1>5. /\ Value(s, a, 1, 0) = b0
      /\ Value(s, a, 2, 0) = (b0 - 192) * 64 + 0
      /\ Value(s, a, 3, 0) = (b0 - 224) * 4096 + 0 + 0
      /\ Value(s, a, 4, 0) = (b0 - 240) * 262144 + 0 + 0 + 0
  BY SMT DEF Value
<1> HIDE DEF b0
<1> SUFFICES lead_bits(n, b0) = Value(s, a, n, 0) /\ lead_bits(n, b0) \in 0..bits21
  BY DEF b0
<1>6. CASE n = 1
  BY <1>1, <1>3, <1>4, <1>5, <1>6, SMT
<1>7. CASE n = 2
  <2>1. b0 \in 192..223
    BY <1>1, <1>2, <1>7
  <2> QED
    BY <1>3, <1>4, <1>5, <1>7, <2>1, SMT
<1>8. CASE n = 3
  <2>1. b0 \in 224..239
    BY <1>1, <1>2, <1>8
  <2> QED
    BY <1>3, <1>4, <1>5, <1>8, <2>1, SMT
<1>9. CASE n = 4
  <2>1. b0 \in 240..247
    BY <1>1, <1>2, <1>9
  <2> QED
    BY <1>3, <1>4, <1>5, <1>9, <2>1, SMT
<1> QED
  BY <1>6, <1>7, <1>8, <1>9

(* One trail byte more.                                                    *)
LEMMA ValueStep ==
  ASSUME NEW s \in ByteSeq, NEW a \in Nat, a < Size(s),
         NEW n \in 1..4, n = sequence_length(s[a + 1]), NEW t \in 0..(n - 2),
         \A k \in 2..(t + 2) : s[a + k] \in Continuation
  PROVE  LET v == Value(s, a, n, t) + trail_bits((n - 2) - t, s[a + (t + 2)])
         IN  v = Value(s, a, n, t + 1) /\ v \in 0..bits21
<1> DEFINE b0 == s[a + 1]
           b1 == s[a + 2]
           b2 == s[a + 3]
           b3 == s[a + 4]
           v == Value(s, a, n, t) + trail_bits((n - 2) - t, s[a + (t + 2)])
<1>1. b0 \in 0..255
  BY SizeType
<1>2. n = IF b0 < 128 THEN 1 ELSE IF b0 < 192 THEN 0 ELSE IF b0 < 224 THEN 2
          ELSE IF b0 < 240 THEN 3 ELSE IF b0 < 248 THEN 4 ELSE 0
  <2>1. n = sequence_length(b0)
    OBVIOUS
  <2> HIDE DEF b0
  <2> QED
    BY <1>1, <2>1, LeadByte
<1>3. /\ b1 \in Continuation
      /\ t >= 1 => b2 \in Continuation
      /\ t >= 2 => b3 \in Continuation
  <2>1. 2 \in 2..(t + 2) /\ (t >= 1 => 3 \in 2..(t + 2)) /\ (t >= 2 => 4 \in 2..(t + 2))
    OBVIOUS
  <2> QED
    BY <2>1
<1>4. bits21 \in Nat /\ bits21 >= 2097151
  BY SMT DEF bits21
<1>5. ASSUME NEW x \in Continuation
      PROVE  /\ x \in 128..191
             /\ trail_bits(0, x) = x - 128
             /\ trail_bits(1, x) = (x - 128) * 64
             /\ trail_bits(2, x) = (x - 128) * 4096
  <2>1. x \in 0..255 /\ x \in 128..191
    BY DEF Continuation
  <2> QED
    BY <2>1, TrailByte, SMT
<1>6. \/ n = 2 /\ t = 0
      \/ n = 3 /\ t = 0
      \/ n = 3 /\ t = 1
      \/ n = 4 /\ t = 0
      \/ n = 4 /\ t = 1
      \/ n = 4 /\ t = 2
  OBVIOUS
<1>7. CASE n = 2 /\ t = 0
  <2>1. b0 \in 192..223
    BY <1>1, <1>2, <1>7
  <2>2. b1 \in 128..191 /\ trail_bits(0, b1) = b1 - 128
    BY <1>3, <1>5
  <2>3. v = Value(s, a, 2, 0) + trail_bits(0, b1)
    BY <1>7, SMT
  <2>4. Value(s, a, 2, 0) = (b0 - 192) * 64 + 0
        /\ Value(s, a, 2, 1) = (b0 - 192) * 64 + (b1 - 128)
    BY SMT DEF Value
  <2> HIDE DEF b0, b1, b2, b3, v
  <2>5. v = Value(s, a, 2, 1) /\ v \in 0..bits21
    BY <1>4, <2>1, <2>2, <2>3, <2>4, SMTT(20)
  <2> QED
    BY <1>7, <2>5, SMT DEF v
<1>8. CASE n = 3 /\ t = 0
  <2>1. b0 \in 224..239
    BY <1>1, <1>2, <1>8
  <2>2. b1 \in 128..191 /\ trail_bits(1, b1) = (b1 - 128) * 64
    BY <1>3, <1>5
  <2>3. v = Value(s, a, 3, 0) + trail_bits(1, b1)
    BY <1>8, SMT
  <2>4. Value(s, a, 3, 0) = (b0 - 224) * 4096 + 0 + 0
        /\ Value(s, a, 3, 1) = (b0 - 224) * 4096 + (b1 - 128) * 64 + 0
    BY SMT DEF Value
  <2> HIDE DEF b0, b1, b2, b3, v
  <2>5. v = Value(s, a, 3, 1) /\ v \in 0..bits21
    BY <1>4, <2>1, <2>2, <2>3, <2>4, SMT
  <2> QED
    BY <1>8, <2>5, SMT DEF v
<1>9. CASE n = 3 /\ t = 1
  <2>1. b0 \in 224..239
    BY <1>1, <1>2, <1>9
  <2>2. b1 \in 128..191 /\ b2 \in 128..191 /\ trail_bits(0, b2) = b2 - 128
    BY <1>3, <1>5, <1>9
  <2>3. v = Value(s, a, 3, 1) + trail_bits(0, b2)
    BY <1>9, SMT
  <2>4. Value(s, a, 3, 1) = (b0 - 224) * 4096 + (b1 - 128) * 64 + 0
        /\ Value(s, a, 3, 2) = (b0 - 224) * 4096 + (b1 - 128) * 64 + (b2 - 128)
    BY SMT DEF Value
  <2> HIDE DEF b0, b1, b2, b3, v
  <2>5. v = Value(s, a, 3, 2) /\ v \in 0..bits21
    <3>1. v = (b0 - 224) * 4096 + (b1 - 128) * 64 + (b2 - 128)
      BY <2>1, <2>2, <2>3, <2>4, SMT
    <3>2. v \in Nat /\ v <= 2097151
      BY <2>1, <2>2, <3>1, SMT
    <3> QED
      BY <1>4, <2>4, <3>1, <3>2, SMT
  <2> QED
    BY <1>9, <2>5, SMT DEF v
<1>10. CASE n = 4 /\ t = 0
  <2>1. b0 \in 240..247
    BY <1>1, <1>2, <1>10
  <2>2. b1 \in 128..191 /\ trail_bits(2, b1) = (b1 - 128) * 4096
    BY <1>3, <1>5
  <2>3. v = Value(s, a, 4, 0) + trail_bits(2, b1)
    BY <1>10, SMT
  <2>4. Value(s, a, 4, 0) = (b0 - 240) * 262144 + 0 + 0 + 0
        /\ Value(s, a, 4, 1) = (b0 - 240) * 262144 + (b1 - 128) * 4096 + 0 + 0
    BY SMT DEF Value
  <2> HIDE DEF b0, b1, b2, b3, v
  <2>5. v = Value(s, a, 4, 1) /\ v \in 0..bits21
    BY <1>4, <2>1, <2>2, <2>3, <2>4, SMTT(20)
  <2> QED
    BY <1>10, <2>5, SMT DEF v
<1>11. CASE n = 4 /\ t = 1
  <2>1. b0 \in 240..247
    BY <1>1, <1>2, <1>11
  <2>2. b1 \in 128..191 /\ b2 \in 128..191 /\ trail_bits(1, b2) = (b2 - 128) * 64
    BY <1>3, <1>5, <1>11
  <2>3. v = Value(s, a, 4, 1) + trail_bits(1, b2)
    BY <1>11, SMT
  <2>4. Value(s, a, 4, 1) = (b0 - 240) * 262144 + (b1 - 128) * 4096 + 0 + 0
        /\ Value(s, a, 4, 2) =
             (b0 - 240) * 262144 + (b1 - 128) * 4096 + (b2 - 128) * 64 + 0
    BY SMT DEF Value
  <2> HIDE DEF b0, b1, b2, b3, v
  <2>5. v = Value(s, a, 4, 2) /\ v \in 0..bits21
    BY <1>4, <2>1, <2>2, <2>3, <2>4, SMTT(20)
  <2> QED
    BY <1>11, <2>5, SMT DEF v
<1>12. CASE n = 4 /\ t = 2
  <2>1. b0 \in 240..247
    BY <1>1, <1>2, <1>12
  <2>2. /\ b1 \in 128..191 /\ b2 \in 128..191 /\ b3 \in 128..191
        /\ trail_bits(0, b3) = b3 - 128
    BY <1>3, <1>5, <1>12
  <2>3. v = Value(s, a, 4, 2) + trail_bits(0, b3)
    BY <1>12, SMT
  <2>4. Value(s, a, 4, 2) =
             (b0 - 240) * 262144 + (b1 - 128) * 4096 + (b2 - 128) * 64 + 0
        /\ Value(s, a, 4, 3) =
             (b0 - 240) * 262144 + (b1 - 128) * 4096 + (b2 - 128) * 64 + (b3 - 128)
    BY SMT DEF Value
  <2> HIDE DEF b0, b1, b2, b3, v
  <2>5. v = Value(s, a, 4, 3) /\ v \in 0..bits21
    BY <1>4, <2>1, <2>2, <2>3, <2>4, SMT
  <2> QED
    BY <1>12, <2>5, SMT DEF v
<1> QED
  BY <1>6, <1>7, <1>8, <1>9, <1>10, <1>11, <1>12

(* A legal character has the length that its lead announces.               *)
LEMMA LengthOfLegal ==
  ASSUME NEW s \in ByteSeq, NEW a \in Nat, NEW n \in 1..4, a + n <= Size(s),
         LegalChar(s, a + 1, n)
  PROVE  /\ n = sequence_length(s[a + 1])
         /\ \A k \in 2..n : s[a + k] \in Continuation
<1>1. a + 1 \in 1..Size(s) /\ (a + 1) + n <= Size(s) + 1 /\ (a + 1) - 1 = a
  BY SizeType
<1>2. s[a + 1] \in 0..255 /\ ByteAt(s, a) = s[a + 1]
  BY <1>1, SizeType DEF ByteAt
<1>3. /\ n = LengthOf(s[a + 1])
      /\ s[a + 1] \in Ascii \cup Lead2 \cup Lead3 \cup Lead4
      /\ n >= 2 => ByteAt(s, a + 1) \in Continuation
      /\ n >= 3 => ByteAt(s, (a + 1) + 1) \in Continuation
      /\ n >= 4 => ByteAt(s, (a + 1) + 2) \in Continuation
  BY <1>1, <1>2, BytesOfChar
<1>4. n = sequence_length(s[a + 1])
  BY <1>2, <1>3, LeadByte DEF LengthOf, Ascii, Lead2, Lead3, Lead4
<1>5. ASSUME NEW k \in 2..n PROVE s[a + k] \in Continuation
  <2>1. ByteAt(s, (a + k) - 1) \in Continuation
    <3>1. k = 2 \/ (k = 3 /\ n >= 3) \/ (k = 4 /\ n >= 4)
      OBVIOUS
    <3>2. (a + 2) - 1 = a + 1 /\ (a + 3) - 1 = (a + 1) + 1 /\ (a + 4) - 1 = (a + 1) + 2
      OBVIOUS
    <3> QED
      BY <1>3, <3>1, <3>2
  <2>2. ByteAt(s, (a + k) - 1) = s[a + k]
    BY <1>1, SizeType DEF ByteAt
  <2> QED
    BY <2>1, <2>2
<1> QED
  BY <1>4, <1>5
-----------------------------------------------------------------------------
(* In a character, the bytes read so far.                                  *)
LEMMA BytesRead ==
  ASSUME Typed, InCharacter
  PROVE  /\ input \in ByteSeq /\ Size(input) = end /\ end \in Nat
         /\ original_it \in Nat /\ it \in Nat /\ original_it < Size(input)
         /\ length = sequence_length(input[original_it + 1])
         /\ it - original_it \in 0..(length - 1)
         /\ \A k \in 2..((it - original_it) + 1) : input[original_it + k] \in Continuation
<1>1. /\ input \in ByteSeq /\ end = Size(input) /\ end \in Nat
      /\ \A j \in 0..(end - 1) : octet(j) = input[j + 1]
  BY InputType DEF Typed
<1>2. /\ original_it \in 0..(end - 1) /\ it < end /\ it \in Nat /\ length \in 1..4
      /\ it \in original_it..(original_it + length - 1)
  BY DEF Typed, InCharacter, last_it
<1>3. length = sequence_length(input[original_it + 1])
  BY <1>1, <1>2 DEF InCharacter
<1>4. ASSUME NEW k \in 2..((it - original_it) + 1)
      PROVE  input[original_it + k] \in Continuation
  <2>1. (original_it + k) - 1 \in (original_it + 1)..it
    BY <1>1, <1>2
  <2>2. (original_it + k) - 1 \in 0..(end - 1)
        /\ ((original_it + k) - 1) + 1 = original_it + k
    BY <1>1, <1>2, <2>1
  <2>3. octet((original_it + k) - 1) \in Continuation
    BY <2>1 DEF InCharacter
  <2> QED
    BY <1>1, <2>2, <2>3
<1> QED
  BY <1>1, <1>2, <1>3, <1>4

(* All of them: the checks of the code point draw the line of the table.   *)
LEMMA WholeCharacter ==
  ASSUME Typed, InCharacter, it = last_it
  PROVE  /\ is_code_point_valid(cp) /\ ~is_overlong_sequence(cp, length)
              <=> LegalChar(input, original_it + 1, length)
         /\ original_it + length = it + 1
         /\ original_it + length <= Size(input)
<1>1. /\ input \in ByteSeq /\ Size(input) = end /\ end \in Nat /\ original_it \in Nat
      /\ it \in Nat /\ length = sequence_length(input[original_it + 1])
      /\ \A k \in 2..((it - original_it) + 1) : input[original_it + k] \in Continuation
  BY BytesRead
<1>2. length \in 1..4 /\ it = original_it + length - 1 /\ it < end
  BY DEF InCharacter, last_it
<1>3. it - original_it = length - 1 /\ (it - original_it) + 1 = length
      /\ original_it + length = it + 1
  BY <1>1, <1>2
<1>4. original_it + length <= Size(input)
  BY <1>1, <1>2, <1>3
<1>5. cp = Value(input, original_it, length, length - 1)
  BY <1>3 DEF InCharacter
<1> QED
  BY <1>1, <1>2, <1>3, <1>4, <1>5, ValueOfCharacter

(* A text without a legal character at it does not get past it.            *)
LEMMA NoCharacterByLength ==
  ASSUME NEW a \in Nat, input \in ByteSeq,
         a + sequence_length(input[a + 1]) <= Size(input) =>
           \/ sequence_length(input[a + 1]) = 0
           \/ \E k \in 2..sequence_length(input[a + 1]) : input[a + k] \notin Continuation
           \/ ~LegalChar(input, a + 1, sequence_length(input[a + 1]))
  PROVE  NoCharacter(a)
<1> SUFFICES ASSUME NEW n \in 1..4, a + n <= Size(input), LegalChar(input, a + 1, n)
             PROVE  FALSE
  BY DEF NoCharacter
<1>1. n = sequence_length(input[a + 1]) /\ \A k \in 2..n : input[a + k] \in Continuation
  BY LengthOfLegal
<1> QED
  BY <1>1

LEMMA InitIInv == Init => IInv
<1> SUFFICES ASSUME Init PROVE IInv
  OBVIOUS
<1>1. input \in ByteSeq /\ end \in Nat /\ end = Size(input)
  BY InputType DEF Init
<1>2. bits21 \in Nat
  BY DEF bits21
<1>3. Typed
  BY <1>1, <1>2 DEF Init, Typed, utf_error
<1>4. Boundary(0)
  <2>1. Clean(input, 0)
    BY DEF Clean
  <2>2. ~Open(input, 0)
    BY DEF Open, ByteAt
  <2> QED
    BY <2>1, <2>2 DEF Boundary
<1> QED
  BY <1>3, <1>4 DEF IInv, Init

LEMMA LeadIInv == IInv /\ Lead => IInv'
<1> SUFFICES ASSUME IInv, Lead PROVE IInv'
  OBVIOUS
<1>1. /\ Typed /\ Boundary(it) /\ input \in ByteSeq /\ end \in Nat /\ end = Size(input)
      /\ \A j \in 0..(end - 1) : octet(j) \in 0..255 /\ octet(j) = input[j + 1]
  BY InputType DEF IInv, Lead, Typed
<1>2. /\ pc' = "get_sequence" /\ original_it' = it /\ length' = sequence_length(octet(it))
      /\ cp' = lead_bits(length', octet(it)) /\ it' = it /\ input' = input /\ err' = err
      /\ it # end /\ sequence_length(octet(it)) # 0
  BY DEF Lead
<1>3. it \in 0..(end - 1) /\ end' = end /\ octet(it)' = octet(it)
  BY <1>1, <1>2 DEF Typed, end, octet
<1>4. octet(it) \in 0..255 /\ octet(it) = input[it + 1]
  BY <1>1, <1>3
<1>5. length' \in 1..4
  BY <1>2, <1>4, LeadByte
<1>6. cp' = Value(input, it, length', 0) /\ cp' \in 0..bits21
  <2>1. it \in Nat /\ it < Size(input) /\ length' = sequence_length(input[it + 1])
    BY <1>1, <1>2, <1>3, <1>4
  <2> QED
    BY <1>1, <1>2, <1>4, <1>5, <2>1, ValueOfLead
<1>7. Typed'
  BY <1>1, <1>2, <1>3, <1>5, <1>6 DEF Typed
<1>8. InCharacter'
  <2>1. Boundary(it)'
    BY <1>1, <1>2 DEF Boundary
  <2>2. it' \in original_it'..last_it' /\ it' - original_it' = 0
        /\ \A j \in (original_it' + 1)..it' : octet(j)' \in Continuation
    BY <1>1, <1>2, <1>3, <1>5 DEF last_it
  <2> QED
    BY <1>1, <1>2, <1>3, <1>5, <1>6, <2>1, <2>2 DEF InCharacter, Boundary
<1> QED
  BY <1>2, <1>7, <1>8 DEF IInv

LEMMA InvalidLeadIInv == IInv /\ InvalidLead => IInv'
<1> SUFFICES ASSUME IInv, InvalidLead PROVE IInv'
  OBVIOUS
<1>1. /\ Typed /\ Boundary(it) /\ input \in ByteSeq /\ end \in Nat /\ end = Size(input)
      /\ \A j \in 0..(end - 1) : octet(j) \in 0..255 /\ octet(j) = input[j + 1]
  BY InputType DEF IInv, InvalidLead, Typed
<1>2. /\ pc' = "returned" /\ err' = "INVALID_LEAD"
      /\ UNCHANGED <<input, it, original_it, length, cp>>
      /\ it # end /\ sequence_length(octet(it)) = 0
  BY DEF InvalidLead
<1>3. end' = end
  BY <1>2 DEF end
<1>4. it \in Nat /\ sequence_length(input[it + 1]) = 0
  <2>1. it \in 0..(end - 1)
    BY <1>1, <1>2 DEF Typed
  <2> QED
    BY <1>1, <1>2, <2>1
<1>5. NoCharacter(it)
  BY <1>1, <1>4, NoCharacterByLength
<1>6. Typed'
  BY <1>1, <1>2, <1>3 DEF Typed, utf_error
<1>7. Boundary(it)' /\ NoCharacter(it)'
  BY <1>1, <1>2, <1>5 DEF Boundary, NoCharacter
<1> QED
  BY <1>2, <1>6, <1>7 DEF IInv

LEMMA TrailIInv == IInv /\ Trail => IInv'
<1> SUFFICES ASSUME IInv, Trail PROVE IInv'
  OBVIOUS
<1> DEFINE o == original_it
           n == length
           t == it - original_it
<1>1. Typed /\ InCharacter
  BY DEF IInv, Trail
<1>2. /\ input \in ByteSeq /\ Size(input) = end /\ end \in Nat
      /\ o \in Nat /\ it \in Nat /\ o < Size(input)
      /\ n = sequence_length(input[o + 1]) /\ t \in 0..(n - 1)
      /\ \A k \in 2..(t + 1) : input[o + k] \in Continuation
  BY <1>1, BytesRead
<1>3. /\ it # last_it /\ increase_safely(it + 1) = "UTF8_OK"
      /\ it' = it + 1 /\ cp' = cp + trail_bits(last_it - (it + 1), octet(it'))
      /\ UNCHANGED <<input, pc, original_it, length, err>> /\ pc = "get_sequence"
  BY DEF Trail, last_it
<1>4. n \in 1..4 /\ last_it = o + n - 1 /\ it < end
  BY <1>1 DEF InCharacter, last_it
<1>5. t \in 0..(n - 2) /\ it = o + t
  BY <1>2, <1>3, <1>4
<1>6. it + 1 < end /\ is_trail(octet(it + 1))
  <2>1. it + 1 # end /\ is_trail(octet(it + 1))
    BY <1>3 DEF increase_safely
  <2> QED
    BY <1>2, <1>4, <2>1
<1>7. octet(it + 1) \in Continuation /\ octet(it + 1) = input[o + (t + 2)]
  <2>1. it + 1 \in 0..(end - 1) /\ (it + 1) + 1 = o + (t + 2)
    BY <1>2, <1>5, <1>6
  <2>2. octet(it + 1) \in 0..255 /\ octet(it + 1) = input[(it + 1) + 1]
    BY <1>1, <2>1, InputType DEF Typed
  <2> QED
    BY <1>6, <2>1, <2>2, TrailByte
<1>8. \A k \in 2..(t + 2) : input[o + k] \in Continuation
  <2> SUFFICES ASSUME NEW k \in 2..(t + 2) PROVE input[o + k] \in Continuation
    OBVIOUS
  <2>1. k \in 2..(t + 1) \/ k = t + 2
    BY <1>5
  <2> QED
    BY <1>2, <1>7, <2>1
<1>9. cp' = Value(input, o, n, t + 1) /\ cp' \in 0..bits21
  <2>1. last_it - (it + 1) = (n - 2) - t
    BY <1>2, <1>4, <1>5
  <2>2. cp = Value(input, o, n, t)
    BY <1>1 DEF InCharacter
  <2>3. cp' = Value(input, o, n, t) + trail_bits((n - 2) - t, input[o + (t + 2)])
    BY <1>3, <1>7, <2>1, <2>2
  <2> HIDE DEF o, n, t
  <2> QED
    BY <1>2, <1>4, <1>5, <1>8, <2>3, ValueStep
<1>10. end' = end /\ last_it' = last_it /\ it' - original_it' = t + 1
       /\ octet(original_it)' = octet(original_it)
  BY <1>2, <1>3, <1>5 DEF end, last_it, octet
<1>11. Typed'
  BY <1>1, <1>2, <1>3, <1>6, <1>9, <1>10 DEF Typed
<1>12. InCharacter'
  <2>1. it' \in original_it'..last_it' /\ it' < end'
    BY <1>2, <1>3, <1>4, <1>5, <1>6, <1>10
  <2>2. ASSUME NEW j \in (original_it + 1)..(it + 1) PROVE octet(j)' \in Continuation
    <3>1. octet(j)' = octet(j)
      BY <1>3 DEF octet
    <3>2. j \in (original_it + 1)..it \/ j = it + 1
      BY <1>2
    <3> QED
      BY <1>1, <1>7, <3>1, <3>2 DEF InCharacter
  <2>3. Boundary(original_it)'
    BY <1>1, <1>3 DEF Boundary, InCharacter
  <2>4. cp' = Value(input', original_it', length', it' - original_it')
    BY <1>3, <1>9, <1>10
  <2> QED
    BY <1>1, <1>3, <1>10, <2>1, <2>2, <2>3, <2>4 DEF InCharacter, Boundary
<1> QED
  BY <1>3, <1>11, <1>12 DEF IInv

LEMMA CutShortIInv == IInv /\ CutShort => IInv'
<1> SUFFICES ASSUME IInv, CutShort PROVE IInv'
  OBVIOUS
<1> DEFINE o == original_it
           n == length
           t == it - original_it
<1>1. Typed /\ InCharacter
  BY DEF IInv, CutShort
<1>2. /\ input \in ByteSeq /\ Size(input) = end /\ end \in Nat
      /\ o \in Nat /\ it \in Nat /\ o < Size(input)
      /\ n = sequence_length(input[o + 1]) /\ t \in 0..(n - 1)
  BY <1>1, BytesRead
<1>3. /\ it # last_it /\ increase_safely(it + 1) # "UTF8_OK"
      /\ it' = original_it /\ pc' = "returned" /\ err' = increase_safely(it + 1)
      /\ UNCHANGED <<input, original_it, length, cp>>
  BY DEF CutShort, fail
<1>4. n \in 1..4 /\ last_it = o + n - 1 /\ it < end /\ Boundary(o)
  BY <1>1 DEF InCharacter, last_it
<1>5. t \in 0..(n - 2) /\ it = o + t
  BY <1>2, <1>3, <1>4
<1>6. it + 1 = end \/ ~is_trail(octet(it + 1))
  BY <1>3 DEF increase_safely
<1>7. NoCharacter(o)
  <2>1. CASE it + 1 = end
    <3>1. ~(o + n <= Size(input))
      <4>1. o \in Nat /\ n \in Nat /\ t \in Nat /\ t + 2 <= n /\ it = o + t
        BY <1>2, <1>4, <1>5
      <4>2. Size(input) = o + t + 1
        BY <1>2, <2>1, <4>1
      <4> HIDE DEF n, o, t
      <4> QED
        BY <4>1, <4>2
    <3> QED
      BY <1>2, <3>1, NoCharacterByLength
  <2>2. CASE it + 1 # end
    <3>1. it + 1 \in 0..(end - 1) /\ (it + 1) + 1 = o + (t + 2) /\ t + 2 \in 2..n
      BY <1>2, <1>4, <1>5, <2>2
    <3>2. octet(it + 1) \in 0..255 /\ octet(it + 1) = input[(it + 1) + 1]
      BY <1>1, <3>1, InputType DEF Typed
    <3>3. input[o + (t + 2)] \notin Continuation
      BY <1>6, <2>2, <3>1, <3>2, TrailByte
    <3>4. \E k \in 2..n : input[o + k] \notin Continuation
      BY <3>1, <3>3
    <3> QED
      BY <1>2, <3>4, NoCharacterByLength
  <2> QED
    BY <2>1, <2>2
<1>8. end' = end /\ err' \in utf_error
  BY <1>3 DEF end, utf_error, increase_safely
<1>9. Typed'
  BY <1>1, <1>3, <1>8 DEF Typed
<1>10. Boundary(it)' /\ NoCharacter(it)'
  BY <1>3, <1>4, <1>7 DEF Boundary, NoCharacter
<1> QED
  BY <1>3, <1>9, <1>10 DEF IInv

LEMMA AcceptIInv == IInv /\ Accept => IInv'
<1> SUFFICES ASSUME IInv, Accept PROVE IInv'
  OBVIOUS
<1>1. Typed /\ InCharacter /\ it = last_it
  BY DEF IInv, Accept
<1>2. /\ is_code_point_valid(cp) /\ ~is_overlong_sequence(cp, length)
      /\ it' = it + 1 /\ pc' = "find_invalid"
      /\ UNCHANGED <<input, original_it, length, cp, err>>
  BY DEF Accept
<1>3. LegalChar(input, original_it + 1, length) /\ original_it + length = it + 1
      /\ original_it + length <= Size(input)
  BY <1>1, <1>2, WholeCharacter
<1>4. /\ input \in ByteSeq /\ original_it \in Nat /\ length \in 1..4 /\ it \in Nat
      /\ Size(input) = end /\ Clean(input, original_it) /\ ~Open(input, original_it)
  BY <1>1, BytesRead DEF InCharacter, Boundary
<1>5. Boundary(it + 1)
  BY <1>3, <1>4, CharacterRead DEF Boundary
<1>6. end' = end
  BY <1>2 DEF end
<1>7. it + 1 \in 0..end
  BY <1>3, <1>4
<1>8. Typed'
  BY <1>1, <1>2, <1>6, <1>7 DEF Typed
<1>9. Boundary(it)'
  BY <1>2, <1>5 DEF Boundary
<1> QED
  BY <1>2, <1>8, <1>9 DEF IInv

LEMMA RefuseIInv == IInv /\ Refuse => IInv'
<1> SUFFICES ASSUME IInv, Refuse PROVE IInv'
  OBVIOUS
<1>1. Typed /\ InCharacter /\ it = last_it
  BY DEF IInv, Refuse
<1>2. /\ ~(is_code_point_valid(cp) /\ ~is_overlong_sequence(cp, length))
      /\ it' = original_it /\ pc' = "returned"
      /\ err' \in {"INVALID_CODE_POINT", "OVERLONG_SEQUENCE"}
      /\ UNCHANGED <<input, original_it, length, cp>>
  BY DEF Refuse, fail
<1>3. ~LegalChar(input, original_it + 1, length)
  BY <1>1, <1>2, WholeCharacter
<1>4. /\ input \in ByteSeq /\ original_it \in Nat
      /\ length = sequence_length(input[original_it + 1])
      /\ Boundary(original_it)
  BY <1>1, BytesRead DEF InCharacter
<1>5. NoCharacter(original_it)
  BY <1>3, <1>4, NoCharacterByLength
<1>6. end' = end
  BY <1>2 DEF end
<1>7. Typed'
  BY <1>1, <1>2, <1>6 DEF Typed, utf_error
<1>8. Boundary(it)' /\ NoCharacter(it)'
  BY <1>2, <1>4, <1>5 DEF Boundary, NoCharacter
<1> QED
  BY <1>2, <1>7, <1>8 DEF IInv

(* The steps that only move the control.                                   *)
LEMMA ControlIInv ==
  IInv /\ (GotSequence \/ Finish \/ UNCHANGED vars) => IInv'
<1> SUFFICES ASSUME IInv, GotSequence \/ Finish \/ UNCHANGED vars PROVE IInv'
  OBVIOUS
<1>1. UNCHANGED <<input, it, original_it, length, cp, err>>
  BY DEF GotSequence, Finish, vars
<1>2. end' = end /\ last_it' = last_it /\ \A j : octet(j)' = octet(j)
  BY <1>1 DEF end, last_it, octet
<1>3. pc' \in {"find_invalid", "get_sequence", "checks", "returned"} => (Typed => Typed')
  BY <1>1, <1>2 DEF Typed
<1>4. InCharacter => InCharacter'
  BY <1>1, <1>2 DEF InCharacter, Boundary
<1>5. (Boundary(it) => Boundary(it)') /\ (NoCharacter(it) => NoCharacter(it)')
  BY <1>1 DEF Boundary, NoCharacter
<1>6. CASE GotSequence
  <2>1. pc = "get_sequence" /\ pc' = "checks" /\ it = last_it
    BY <1>6 DEF GotSequence
  <2> QED
    BY <1>1, <1>2, <1>3, <1>4, <2>1 DEF IInv
<1>7. CASE Finish
  <2>1. pc = "find_invalid" /\ pc' = "returned" /\ it = end
    BY <1>7 DEF Finish
  <2> QED
    BY <1>1, <1>2, <1>3, <1>5, <2>1 DEF IInv
<1>8. CASE UNCHANGED vars
  <2>1. pc' = pc
    BY <1>8 DEF vars
  <2>2. Typed'
    BY <1>3, <2>1 DEF IInv, Typed
  <2> QED
    BY <1>1, <1>2, <1>4, <1>5, <2>1, <2>2 DEF IInv
<1> QED
  BY <1>6, <1>7, <1>8

LEMMA IInvHolds == Spec => []IInv
<1>1. IInv /\ [Next]_vars => IInv'
  BY LeadIInv, InvalidLeadIInv, TrailIInv, CutShortIInv, AcceptIInv, RefuseIInv,
     ControlIInv DEF Next
<1> QED
  BY <1>1, InitIInv, PTL DEF Spec
-----------------------------------------------------------------------------
(* The iterator stays in the text, and the code point in its 21 bits       *)
(* (find_invalid and validate_next of core.h).                             *)
THEOREM TypeCorrect == Spec => []TypeOK
<1>1. IInv => TypeOK
  BY InputType DEF IInv, Typed, TypeOK, ByteSeq
<1> QED
  BY <1>1, IInvHolds, PTL

(* The checks of the code point and the table of legal bytes agree on      *)
(* every character that validate_next reads to its end.                    *)
THEOREM CodePointJudgesLegality == Spec => []JudgedByCodePoint
<1>1. IInv => JudgedByCodePoint
  BY WholeCharacter DEF IInv, JudgedByCodePoint
<1> QED
  BY <1>1, IInvHolds, PTL

(* find_invalid returns the place where the first illegal character        *)
(* begins: what lies before is well formed, and no longer prefix is.       *)
LEMMA ReturnedIsFirst ==
  IInv /\ pc = "returned" =>
    /\ WellFormed(SubSeq(input, 1, it))
    /\ \A n \in (it + 1)..end : ~WellFormed(SubSeq(input, 1, n))
<1> SUFFICES ASSUME IInv, pc = "returned"
             PROVE  /\ WellFormed(SubSeq(input, 1, it))
                    /\ \A n \in (it + 1)..end : ~WellFormed(SubSeq(input, 1, n))
  OBVIOUS
<1>1. /\ input \in ByteSeq /\ end \in Nat /\ end = Size(input) /\ it \in 0..end
      /\ Clean(input, it) /\ ~Open(input, it)
  BY InputType DEF IInv, Typed, Boundary
<1>2. WellFormed(SubSeq(input, 1, it))
  <2>1. it \in Nat /\ it <= Size(input)
    BY <1>1
  <2> QED
    BY <1>1, <2>1, WholePrefix
<1>3. ASSUME NEW n \in (it + 1)..end PROVE ~WellFormed(SubSeq(input, 1, n))
  <2>1. it \in Nat /\ n \in Nat /\ it < n /\ n <= Size(input) /\ it # end
    BY <1>1
  <2>2. \A m \in 1..4 : it + m <= Size(input) => ~LegalChar(input, it + 1, m)
    BY <2>1 DEF IInv, NoCharacter
  <2> QED
    BY <1>1, <2>1, <2>2, NoCharacterHere
<1> QED
  BY <1>2, <1>3

(* The same, as an invariant of the specification.                         *)
THEOREM FirstInvalidIsFound == Spec => []FoundIsFirstInvalid
<1>1. IInv => FoundIsFirstInvalid
  BY ReturnedIsFirst DEF FoundIsFirstInvalid
<1> QED
  BY <1>1, IInvHolds, PTL

(* is_valid is one step of the abstract specification: what find_invalid   *)
(* does is invisible until it returns, and then the answer is Verdict.     *)
THEOREM RefinesValidation ==
  Spec => Abs!Init /\ [][Abs!Return]_<<input, is_valid>>
<1>1. Init => Abs!Init
  <2> SUFFICES ASSUME Init PROVE Abs!Init
    OBVIOUS
  <2>1. input \in Seq(Byte) /\ is_valid = "none"
    BY InputsAssumption DEF Init, is_valid
  <2> QED
    BY <2>1 DEF Abs!Init, Abs!Byte, Byte
<1>2. IInv /\ IInv' /\ [Next]_vars => [Abs!Return]_<<input, is_valid>>
  <2> SUFFICES ASSUME IInv, IInv', [Next]_vars
               PROVE  Abs!Return \/ UNCHANGED <<input, is_valid>>
    OBVIOUS
  <2>1. input' = input /\ end' = end
    BY DEF Next, Lead, InvalidLead, Trail, CutShort, GotSequence, Accept, Refuse,
           Finish, fail, vars, end
  <2>2. pc # "returned" => is_valid = "none"
    BY DEF is_valid
  <2>3. pc' # "returned" => is_valid' = "none"
    BY DEF is_valid
  <2>4. pc = "returned" => UNCHANGED vars
    BY DEF Next, Lead, InvalidLead, Trail, CutShort, GotSequence, Accept, Refuse, Finish
  <2>5. CASE pc # "returned" /\ pc' # "returned"
    BY <2>1, <2>2, <2>3, <2>5
  <2>6. CASE pc = "returned"
    BY <2>4, <2>6 DEF vars, is_valid, end
  <2>7. CASE pc # "returned" /\ pc' = "returned"
    <3>1. is_valid' = IF it' = end THEN "SUCCESS" ELSE "UTF8_ERROR"
      BY <2>1, <2>7 DEF is_valid
    <3>2. it' = end <=> WellFormed(input)
      <4>1. /\ (pc = "returned")' /\ IInv'
        BY <2>7
      <4>2. (IInv /\ pc = "returned" =>
               /\ WellFormed(SubSeq(input, 1, it))
               /\ \A n \in (it + 1)..end : ~WellFormed(SubSeq(input, 1, n)))'
        BY ReturnedIsFirst, PTL
      <4>3. /\ WellFormed(SubSeq(input, 1, it'))
            /\ \A n \in (it' + 1)..end : ~WellFormed(SubSeq(input, 1, n))
        BY <2>1, <4>1, <4>2
      <4>4. input \in Seq(Byte) /\ end \in Nat /\ end = Len(input) /\ it' \in 0..end
        BY <2>1, InputType DEF IInv, Typed, ByteSeq, Size
      <4>5. SubSeq(input, 1, end) = input
        BY <4>4
      <4>6. it' # end => end \in (it' + 1)..end
        BY <4>4
      <4> QED
        BY <4>3, <4>5, <4>6
    <3>3. Abs!WellFormed(input) <=> WellFormed(input)
      BY DEF Abs!WellFormed, WellFormed, Abs!LegalChar, LegalChar, Abs!SecondBytes,
             SecondBytes, Abs!Ascii, Ascii, Abs!Continuation, Continuation,
             Abs!Lead2, Lead2, Abs!Lead3, Lead3, Abs!Lead4, Lead4
    <3> QED
      BY <2>1, <2>2, <2>7, <3>1, <3>2, <3>3 DEF Abs!Return, Abs!Verdict
  <2> QED
    BY <2>5, <2>6, <2>7
<1> QED
  BY <1>1, <1>2, IInvHolds, PTL DEF Spec
=============================================================================
