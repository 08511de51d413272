----------------------- MODULE CarriedChecker_proofs -----------------------
(***************************************************************************)
(* Proofs about CarriedChecker, for every block and vector width and every *)
(* input: range, basic and zwegner.                                        *)
(*                                                                         *)
(* The argument: behind bytes that are on track a lane errs exactly when   *)
(* the window that ends there is at fault, so the lanes of a vector err    *)
(* exactly when some window does (FirstLane); what a vector leaves to the  *)
(* next one is what the character cut there still needs, and it is so even *)
(* if ASCII has let it grow old; from there vector by vector to the end of *)
(* a block, and block by block to the end of the call.                     *)
(***************************************************************************)
EXTENDS CarriedChecker, Utf8Local

(***************************************************************************)
(* What the reader and the template give to a checker: the blocks that     *)
(* FullBlock and Remainder read hold the bytes from the cursor on, spaces  *)
(* behind the input, and the cursor does not wrap while the loop runs.     *)
(* (ReaderAndVectors_proofs has the same lemmas, under the names Init,     *)
(* Next and Spec of Delivery.)                                             *)
(***************************************************************************)
(* block holds the bytes of s from position e on.                          *)
Holds(block, s, e) == \A k \in Offsets : block[k] = ByteAt(s, e + k)

(* The type of a buffer.                                                   *)
LEMMA InputType ==
  ASSUME input \in Inputs
  PROVE  /\ input \in ByteSeq
         /\ Size(input) \in Nat
         /\ Size(input) <= SIZE_MAX
         /\ len = Size(input)
<1>1. input \in ByteSeq /\ Size(input) <= SIZE_MAX /\ len = Size(input)
  BY InputsAssumption DEF ByteSeq, Size, len
<1> QED
  BY <1>1, SizeType

(* What size_t keeps.                                                      *)
LEMMA SizeT ==
  /\ \A n \in Nat : size_t(n) \in 0..SIZE_MAX
  /\ \A n \in 0..SIZE_MAX : size_t(n) = n
  BY SizeMaxAssumption DEF size_t

(* The types of the reader and of the template around it.                  *)
ReaderOK ==
  /\ input \in Inputs
  /\ idx \in 0..SIZE_MAX
  /\ pc \in {"loop", "eof", "returned"}
  /\ result \in error_code \cup {"none"}
  /\ result # "none" <=> pc = "returned"

(* A full block lies in the input,                                         *)
LEMMA FullBlockHolds ==
  ASSUME ReaderOK, has_full_block
  PROVE  /\ Holds(full_block, input, idx)
         /\ DOMAIN full_block = Offsets
         /\ idx + STEP_SIZE < Size(input)
<1>1. /\ Size(input) \in Nat /\ len = Size(input)
      /\ idx \in Nat /\ STEP_SIZE \in Nat
  BY InputType, StepSizeAssumption, SizeMaxAssumption DEF ReaderOK
<1>2. idx + STEP_SIZE < Size(input)
  BY <1>1 DEF has_full_block, lenminusstep
<1>3. ASSUME NEW k \in Offsets
      PROVE  full_block[k] = ByteAt(input, idx + k)
  <2>1. k \in Nat /\ k < STEP_SIZE
    BY <1>1 DEF Offsets
  <2> QED
    BY <1>1, <1>2, <2>1 DEF full_block, ByteAt
<1> QED
  BY <1>2, <1>3 DEF Holds, full_block

(* and the copy of the remainder is padded as ByteAt is.                   *)
LEMMA RemainderHolds ==
  ASSUME ReaderOK
  PROVE  /\ Holds(get_remainder, input, idx)
         /\ DOMAIN get_remainder = Offsets
<1>1. /\ Size(input) \in Nat /\ len = Size(input)
      /\ idx \in Nat /\ STEP_SIZE \in Nat
  BY InputType, StepSizeAssumption, SizeMaxAssumption DEF ReaderOK
<1>2. ASSUME NEW k \in Offsets
      PROVE  get_remainder[k] = ByteAt(input, idx + k)
  <2>1. k \in Nat
    BY <1>1 DEF Offsets
  <2> QED
    BY <1>1, <2>1 DEF get_remainder, ByteAt, SPACE
<1> QED
  BY <1>2 DEF Holds, get_remainder

(* While the loop runs the cursor does not wrap.                           *)
LEMMA FullBlockRead ==
  ASSUME ReaderOK, FullBlock
  PROVE  /\ Holds(full_block, input, idx)
         /\ DOMAIN full_block = Offsets
         /\ idx' = idx + STEP_SIZE
         /\ idx' < Size(input)
<1>1. /\ Size(input) \in Nat /\ Size(input) <= SIZE_MAX
      /\ idx \in Nat /\ STEP_SIZE \in Nat /\ SIZE_MAX \in Nat
  BY InputType, StepSizeAssumption, SizeMaxAssumption DEF ReaderOK
<1>2. /\ Holds(full_block, input, idx)
      /\ DOMAIN full_block = Offsets
      /\ idx + STEP_SIZE < Size(input)
  BY FullBlockHolds DEF FullBlock
<1>3. idx' = idx + STEP_SIZE
  <2>1. idx + STEP_SIZE \in 0..SIZE_MAX
    BY <1>1, <1>2
  <2> QED
    BY <2>1, SizeT DEF FullBlock, advance
<1> QED
  BY <1>2, <1>3

(* The padded remainder, and where it leaves the cursor.                   *)
LEMMA RemainderRead ==
  ASSUME ReaderOK, Remainder
  PROVE  /\ Holds(get_remainder, input, idx)
         /\ DOMAIN get_remainder = Offsets
         /\ idx' \in 0..SIZE_MAX
         /\ Size(input) <= idx + STEP_SIZE
<1>1. /\ Size(input) \in Nat /\ len = Size(input)
      /\ idx \in Nat /\ STEP_SIZE \in Nat
  BY InputType, StepSizeAssumption, SizeMaxAssumption DEF ReaderOK
<1>2. Size(input) <= idx + STEP_SIZE
  BY <1>1 DEF Remainder, has_full_block, lenminusstep
<1>3. idx' \in 0..SIZE_MAX
  BY <1>1, SizeT DEF Remainder, advance
<1> QED
  BY <1>2, <1>3, RemainderHolds

-----------------------------------------------------------------------------
(* range relies on what pshufb does out of range.                          *)
Works == algorithm = "range" => Arch = "x86"

(* The bytes of s before e are on track.                                   *)
Track(s, e) ==
  /\ Clean(s, e)
  /\ e > 0 => ByteAt(s, e - 1) \notin Condemned

(* The byte at j continues what is on track before it.                     *)
Fits(s, j) == LocalOK(s, j) /\ ByteAt(s, j) \notin Condemned

(* A vector holds the bytes of s from position e on.                       *)
HoldsV(vec, s, e) ==
  /\ vec \in [Lanes -> 0..255]
  /\ \A k \in Lanes : vec[k] = ByteAt(s, e + k)

(* The last three bytes of the vector raw are the ones before e, or it is  *)
(* an older one and neither these nor those open a character.              *)
Quiet(raw) == raw[W - 1] < 192 /\ raw[W - 2] < 224 /\ raw[W - 3] < 240

Current(raw, s, e) ==
  /\ raw \in [Lanes -> 0..255]
  /\ \/ \A n \in 1..3 : raw[W - n] = ByteAt(s, e - n)
     \/ ~Open(s, e) /\ Quiet(raw)

(* m is in here if byte e + m must be a continuation.                      *)
Due(s, e) ==
  {m \in 0..2 : \E n \in 1..(3 - m) : ByteAt(s, e - n) >= <<192, 224, 240>>[n + m]}
-----------------------------------------------------------------------------
(* Whatever is condemned, no byte may follow it.                           *)
LEMMA CondemnedIsLast ==
  ASSUME algorithm \in {"range", "basic", "zwegner"},
         NEW s \in ByteSeq, NEW j \in Nat, LocalOK(s, j)
  PROVE  ByteAt(s, j - 1) \notin Condemned
<1>1. Condemned \subseteq {192, 193} \cup (245..255)
  BY DEF Condemned
<1>2. ByteAt(s, j - 1) < 192 \/ ByteAt(s, j - 1) \in Lead2 \cup Lead3 \cup Lead4
        \/ ByteAt(s, j - 1) \in Continuation
  BY DEF LocalOK, WindowOK, PairOK
<1>3. ByteAt(s, j - 1) \in 0..255
  BY ByteAtType
<1> QED
  BY <1>1, <1>2, <1>3 DEF Lead2, Lead3, Lead4, Continuation

(* One byte more.                                                          *)
LEMMA TrackStep ==
  ASSUME algorithm \in {"range", "basic", "zwegner"},
         NEW s \in ByteSeq, NEW j \in Nat
  PROVE  Track(s, j + 1) <=> Track(s, j) /\ Fits(s, j)
<1>1. Clean(s, j + 1) <=> Clean(s, j) /\ LocalOK(s, j)
  <2>1. \A i \in 0..((j + 1) - 1) : i \in 0..(j - 1) \/ i = j
    OBVIOUS
  <2>2. j \in 0..((j + 1) - 1) /\ \A i \in 0..(j - 1) : i \in 0..((j + 1) - 1)
    OBVIOUS
  <2> QED
    BY <2>1, <2>2 DEF Clean
<1>2. j + 1 > 0 /\ (j + 1) - 1 = j
  OBVIOUS
<1> QED
  BY <1>1, <1>2, CondemnedIsLast DEF Track, Fits

(* What is on track was so before.                                         *)
LEMMA TrackBefore ==
  ASSUME algorithm \in {"range", "basic", "zwegner"},
         NEW s \in ByteSeq, NEW d \in Nat, NEW e \in Nat, d <= e, Track(s, e)
  PROVE  Track(s, d)
<1>1. CASE d = e
  BY <1>1
<1>2. CASE d < e
  <2>1. Clean(s, d) /\ LocalOK(s, d)
    <3>1. d \in 0..(e - 1) /\ \A i \in 0..(d - 1) : i \in 0..(e - 1)
      BY <1>2
    <3> QED
      BY <3>1 DEF Track, Clean
  <2> QED
    BY <2>1, CondemnedIsLast DEF Track
<1> QED
  BY <1>1, <1>2

(* If each lane behind bytes on track errs exactly when its byte does not  *)
(* fit, some lane errs exactly when the vector leaves the track.           *)
LEMMA FirstLane ==
  ASSUME algorithm \in {"range", "basic", "zwegner"},
         NEW s \in ByteSeq, NEW e \in Nat, Track(s, e), NEW E,
         \A k \in Lanes : Track(s, e + k) => (k \in E <=> ~Fits(s, e + k)),
         E \subseteq Lanes
  PROVE  E = {} <=> Track(s, e + W)
<1>1. W \in Nat /\ W >= 3
  BY WidthAssumption
<1>2. ASSUME Track(s, e + W), NEW k \in Lanes
      PROVE  k \notin E
  <2>1. k \in Nat /\ e + k \in Nat /\ (e + k) + 1 \in Nat /\ (e + k) + 1 <= e + W
        /\ e + W \in Nat
    BY <1>1 DEF Lanes
  <2>2. Track(s, (e + k) + 1)
    BY <1>2, <2>1, TrackBefore
  <2>3. Track(s, e + k) /\ Fits(s, e + k)
    BY <2>1, <2>2, TrackStep
  <2> QED
    BY <2>3
<1>3. ASSUME ~Track(s, e + W)
      PROVE  E # {}
  <2> DEFINE T == {k \in 1..W : ~Track(s, e + k)}
  <2>1. T \in SUBSET Nat /\ W \in T
    BY <1>1, <1>3
  <2>2. PICK d \in T : \A k \in T : d <= k
    BY <2>1, LeastOf
  <2>3. d \in 1..W /\ ~Track(s, e + d)
    OBVIOUS
  <2> DEFINE k == d - 1
  <2>4. k \in Lanes /\ k \in Nat /\ e + k \in Nat /\ (e + k) + 1 = e + d
    BY <1>1, <2>3 DEF Lanes
  <2>5. Track(s, e + k)
    <3>1. CASE k = 0
      BY <3>1
    <3>2. CASE k # 0
      <4>1. k \in 1..W /\ ~(d <= k)
        BY <1>1, <2>3, <3>2
      <4> QED
        BY <2>2, <4>1
    <3> QED
      BY <3>1, <3>2
  <2>6. ~Fits(s, e + k)
    BY <2>3, <2>4, <2>5, TrackStep
  <2> QED
    BY <2>4, <2>5, <2>6
<1> QED
  BY <1>2, <1>3
-----------------------------------------------------------------------------
(* The byte n places before lane k of vec, which comes behind raw.         *)
Back(vec, raw, n, k) == IF k >= n THEN vec[k - n] ELSE raw[W - n + k]

(* Two windows that differ only in bytes that open nothing.                *)
Near(p3, p2, p1, q3, q2, q1) ==
  /\ p3 = q3 \/ (p3 < 240 /\ q3 < 240)
  /\ p2 = q2 \/ (p2 < 224 /\ q2 < 224)
  /\ p1 = q1 \/ /\ p1 < 192 /\ q1 < 192
                /\ p2 < 224 /\ q2 < 224
                /\ p3 < 240 /\ q3 < 240

Opens(n) == <<192, 224, 240>>[n]

(* The window of a lane holds the bytes of s, or bytes as quiet as these.  *)
LEMMA BackBytes ==
  ASSUME NEW s \in ByteSeq, NEW e \in Nat, NEW vec, NEW raw,
         HoldsV(vec, s, e), Current(raw, s, e), NEW k \in Lanes
  PROVE  /\ vec[k] = ByteAt(s, e + k)
         /\ \A n \in 1..3 : Back(vec, raw, n, k) \in 0..255
         /\ Near(Back(vec, raw, 3, k), Back(vec, raw, 2, k), Back(vec, raw, 1, k),
                 ByteAt(s, (e + k) - 3), ByteAt(s, (e + k) - 2),
                 ByteAt(s, (e + k) - 1))
<1>1. W \in Nat /\ W >= 3 /\ k \in Nat /\ k < W
  BY WidthAssumption DEF Lanes
<1>2. vec[k] = ByteAt(s, e + k)
  BY DEF HoldsV
<1>3. ASSUME NEW n \in 1..3, k >= n
      PROVE  Back(vec, raw, n, k) = ByteAt(s, (e + k) - n)
  <2>1. k - n \in Lanes /\ e + (k - n) = (e + k) - n
    BY <1>1, <1>3 DEF Lanes
  <2> QED
    BY <1>3, <2>1 DEF Back, HoldsV
<1>4. ASSUME NEW n \in 1..3, ~(k >= n)
      PROVE  /\ n - k \in 1..3
             /\ Back(vec, raw, n, k) = raw[W - (n - k)]
             /\ (e + k) - n = e - (n - k)
             /\ W - (n - k) \in Lanes
  <2>1. W - n + k = W - (n - k)
    BY <1>1
  <2> QED
    BY <1>1, <1>4, <2>1 DEF Back, Lanes
<1>5. ASSUME NEW m \in 1..3
      PROVE  \/ raw[W - m] = ByteAt(s, e - m)
             \/ /\ raw[W - m] < Opens(m)
                /\ ByteAt(s, e - m) < Opens(m)
  <2>1. CASE \A n \in 1..3 : raw[W - n] = ByteAt(s, e - n)
    BY <2>1
  <2>2. CASE ~Open(s, e) /\ Quiet(raw)
    <3>1. /\ ByteAt(s, e - 1) \in 0..255
          /\ ByteAt(s, e - 2) \in 0..255
          /\ ByteAt(s, e - 3) \in 0..255
      BY ByteAtType
    <3> QED
      BY <2>2, <3>1 DEF Open, Quiet, Opens
  <2> QED
    BY <2>1, <2>2 DEF Current
<1>6. \A n \in 1..3 : Back(vec, raw, n, k) \in 0..255
  <2> SUFFICES ASSUME NEW n \in 1..3
               PROVE  Back(vec, raw, n, k) \in 0..255
    OBVIOUS
  <2>1. CASE k >= n
    <3>1. (e + k) - n \in Int
      BY <1>1
    <3> QED
      BY <1>3, <2>1, <3>1, ByteAtType
  <2>2. CASE ~(k >= n)
    BY <1>4, <2>2 DEF Current
  <2> QED
    BY <2>1, <2>2
<1>7. ASSUME NEW n \in 1..3
      PROVE  \/ Back(vec, raw, n, k) = ByteAt(s, (e + k) - n)
             \/ /\ Back(vec, raw, n, k) < Opens(n)
                /\ ByteAt(s, (e + k) - n) < Opens(n)
                /\ k < n
  <2>1. CASE k >= n
    BY <1>3, <2>1
  <2>2. CASE ~(k >= n)
    <3>1. PICK m \in 1..3 : m = n - k
      BY <1>4, <2>2
    <3>2. Back(vec, raw, n, k) = raw[W - m] /\ (e + k) - n = e - m
      BY <1>4, <2>2, <3>1
    <3>3. /\ m <= n /\ Opens(m) <= Opens(n) /\ k < n
          /\ Opens(m) \in Nat /\ Opens(n) \in Nat
      BY <1>1, <2>2, <3>1 DEF Opens
    <3>4. Back(vec, raw, n, k) \in 0..255 /\ ByteAt(s, e - m) \in 0..255
      BY <1>6, ByteAtType
    <3> QED
      BY <1>5, <3>1, <3>2, <3>3, <3>4
  <2> QED
    BY <1>1, <2>1, <2>2
<1>8. ASSUME Back(vec, raw, 1, k) # ByteAt(s, (e + k) - 1)
      PROVE  \A n \in 1..3 : /\ Back(vec, raw, n, k) < Opens(n)
                             /\ ByteAt(s, (e + k) - n) < Opens(n)
  <2>1. k = 0
    BY <1>1, <1>3, <1>8
  <2>2. \A n \in 1..3 : Back(vec, raw, n, k) = raw[W - n] /\ (e + k) - n = e - n
    <3> SUFFICES ASSUME NEW n \in 1..3
                 PROVE  Back(vec, raw, n, k) = raw[W - n] /\ (e + k) - n = e - n
      OBVIOUS
    <3>1. ~(k >= n) /\ n - k = n
      BY <2>1
    <3> QED
      BY <1>4, <3>1
  <2>3. ~Open(s, e) /\ Quiet(raw)
    BY <1>8, <2>2 DEF Current
  <2>4. /\ ByteAt(s, e - 1) \in 0..255
        /\ ByteAt(s, e - 2) \in 0..255
        /\ ByteAt(s, e - 3) \in 0..255
    BY ByteAtType
  <2>5. /\ raw[W - 1] < Opens(1) /\ ByteAt(s, e - 1) < Opens(1)
        /\ raw[W - 2] < Opens(2) /\ ByteAt(s, e - 2) < Opens(2)
        /\ raw[W - 3] < Opens(3) /\ ByteAt(s, e - 3) < Opens(3)
    BY <2>3, <2>4 DEF Open, Quiet, Opens
  <2>6. \A n \in 1..3 : raw[W - n] < Opens(n) /\ ByteAt(s, e - n) < Opens(n)
    BY <2>5
  <2> QED
    BY <2>2, <2>6
<1>9. Opens(1) = 192 /\ Opens(2) = 224 /\ Opens(3) = 240
  BY DEF Opens
<1> QED
  BY <1>2, <1>6, <1>7, <1>8, <1>9 DEF Near
-----------------------------------------------------------------------------
(* Range, one lane: the byte b behind p3, p2 and p1.                       *)
FirstIndex(p3, p2, p1, b) ==
  R!range(R!first_len(p3), R!first_len(p2), R!first_len(p1), b)

RangeIndex(p3, p2, p1, b) == (FirstIndex(p3, p2, p1, b) + R!range2(p1)) % 256

InRange(index, b) ==
  /\ ~(R!int8(R!minv(index)) > R!int8(b))
  /\ ~(R!int8(b) > R!int8(R!maxv(index)))

RangeOK(p3, p2, p1, b) == InRange(RangeIndex(p3, p2, p1, b), b)

(* The corrections after E0, ED, F0 and F4.                                *)
LEMMA Range2Values ==
  ASSUME Arch = "x86", NEW p \in 0..255
  PROVE  R!range2(p) = IF p = 224 THEN 2
                       ELSE IF p \in {237, 240} THEN 3
                       ELSE IF p = 244 THEN 4 ELSE 0
<1> DEFINE pos == (p - 239) % 256
           t1 == <<0, 2, 0, 0, 0, 0, 0, 0, 0, 0, 0, 0, 0, 0, 3, 0>>
           t2 == <<0, 3, 0, 0, 0, 4, 0, 0, 0, 0, 0, 0, 0, 0, 0, 0>>
           i1 == R!saturating_sub(pos, 240)
           i2 == R!saturating_add(pos, 112)
<1>1. pos = IF p < 239 THEN p + 17 ELSE p - 239
  OBVIOUS
<1> HIDE DEF pos
<1>2. i1 = IF pos > 240 THEN pos - 240 ELSE 0
  BY DEF R!saturating_sub
<1>3. i2 = IF pos + 112 > 255 THEN 255 ELSE pos + 112
  BY DEF R!saturating_add
<1> HIDE DEF i1, i2
<1>4. pos \in 0..255 /\ i1 \in 0..15 /\ i2 \in 112..255
  BY <1>1, <1>2, <1>3
<1>5. R!lookup_16(t1, i1) = IF p = 224 THEN 2 ELSE IF p = 237 THEN 3 ELSE 0
  <2>1. i1 % 16 = i1 /\ i1 < 16
    BY <1>4
  <2>2. R!lookup_16(t1, i1) = t1[i1 + 1]
    BY <1>4, <2>1 DEF R!lookup_16
  <2>3. t1[i1 + 1] = IF i1 = 1 THEN 2 ELSE IF i1 = 14 THEN 3 ELSE 0
    BY <1>4
  <2>4. (i1 = 1 <=> p = 224) /\ (i1 = 14 <=> p = 237)
    BY <1>1, <1>2
  <2> QED
    BY <2>2, <2>3, <2>4
<1>6. R!lookup_16(t2, i2) = IF p = 240 THEN 3 ELSE IF p = 244 THEN 4 ELSE 0
  <2>1. CASE i2 >= 128
    <3>1. R!lookup_16(t2, i2) = 0
      BY <1>4, <2>1 DEF R!lookup_16
    <3>2. p # 240 /\ p # 244
      BY <1>1, <1>3, <2>1
    <3> QED
      BY <3>1, <3>2
  <2>2. CASE i2 < 128
    <3>1. i2 % 16 = i2 - 112
      BY <1>4, <2>2
    <3>2. R!lookup_16(t2, i2) = t2[(i2 - 112) + 1]
      BY <2>2, <3>1 DEF R!lookup_16
    <3>3. t2[(i2 - 112) + 1] = IF i2 - 112 = 1 THEN 3 ELSE IF i2 - 112 = 5 THEN 4 ELSE 0
      BY <1>4, <2>2
    <3>4. (i2 - 112 = 1 <=> p = 240) /\ (i2 - 112 = 5 <=> p = 244)
      BY <1>1, <1>3, <2>2
    <3> QED
      BY <3>2, <3>3, <3>4
  <2> QED
    BY <1>4, <2>1, <2>2
<1>7. R!range2(p) = R!lookup_16(t1, i1) + R!lookup_16(t2, i2)
  BY DEF R!range2, i1, i2, pos
<1> QED
  BY <1>5, <1>6, <1>7

(* The ranges of the indices.                                              *)
LEMMA Ranges ==
  ASSUME NEW b \in 0..255
  PROVE  /\ InRange(0, b) <=> b \in 0..127
         /\ InRange(1, b) <=> b \in 128..191
         /\ InRange(2, b) <=> b \in 128..191
         /\ InRange(3, b) <=> b \in 128..191
         /\ InRange(4, b) <=> b \in 160..191
         /\ InRange(5, b) <=> b \in 128..159
         /\ InRange(6, b) <=> b \in 144..191
         /\ InRange(7, b) <=> b \in 128..143
         /\ InRange(8, b) <=> b \in 194..244
         /\ \A i \in 9..15 : ~InRange(i, b)
<1> DEFINE lo == <<0, 128, 128, 128, 160, 128, 144, 128,
                   194, 127, 127, 127, 127, 127, 127, 127>>
           hi == <<127, 191, 191, 191, 191, 159, 191, 143,
                   244, 128, 128, 128, 128, 128, 128, 128>>
<1>1. ASSUME NEW i \in 0..15
      PROVE  R!minv(i) = lo[i + 1] /\ R!maxv(i) = hi[i + 1]
  <2>1. i % 16 = i /\ i < 16
    OBVIOUS
  <2> QED
    BY <2>1 DEF R!minv, R!maxv, R!lookup_16
<1>2. ASSUME NEW i \in 0..15
      PROVE  InRange(i, b) <=> /\ ~(R!int8(lo[i + 1]) > R!int8(b))
                               /\ ~(R!int8(b) > R!int8(hi[i + 1]))
  BY <1>1 DEF InRange
<1>3. R!int8(b) = IF b < 128 THEN b ELSE b - 256
  BY DEF R!int8
<1>4. /\ R!int8(0) = 0 /\ R!int8(127) = 127 /\ R!int8(128) = -128
      /\ R!int8(191) = -65 /\ R!int8(160) = -96 /\ R!int8(159) = -97
      /\ R!int8(144) = -112 /\ R!int8(143) = -113 /\ R!int8(194) = -62
      /\ R!int8(244) = -12
  BY DEF R!int8
<1>5. /\ lo[1] = 0 /\ lo[2] = 128 /\ lo[3] = 128 /\ lo[4] = 128 /\ lo[5] = 160
      /\ lo[6] = 128 /\ lo[7] = 144 /\ lo[8] = 128 /\ lo[9] = 194
      /\ \A i \in 9..15 : lo[i + 1] = 127
  OBVIOUS
<1>6. /\ hi[1] = 127 /\ hi[2] = 191 /\ hi[3] = 191 /\ hi[4] = 191 /\ hi[5] = 191
      /\ hi[6] = 159 /\ hi[7] = 191 /\ hi[8] = 143 /\ hi[9] = 244
      /\ \A i \in 9..15 : hi[i + 1] = 128
  OBVIOUS
<1> HIDE DEF lo, hi
<1>a. InRange(0, b) <=> b \in 0..127
  BY <1>2, <1>3, <1>4, <1>5, <1>6, 0 + 1 = 1
<1>b. InRange(1, b) <=> b \in 128..191
  BY <1>2, <1>3, <1>4, <1>5, <1>6, 1 + 1 = 2
<1>c. InRange(2, b) <=> b \in 128..191
  BY <1>2, <1>3, <1>4, <1>5, <1>6, 2 + 1 = 3
<1>d. InRange(3, b) <=> b \in 128..191
  BY <1>2, <1>3, <1>4, <1>5, <1>6, 3 + 1 = 4
<1>e. InRange(4, b) <=> b \in 160..191
  BY <1>2, <1>3, <1>4, <1>5, <1>6, 4 + 1 = 5
<1>f. InRange(5, b) <=> b \in 128..159
  BY <1>2, <1>3, <1>4, <1>5, <1>6, 5 + 1 = 6
<1>g. InRange(6, b) <=> b \in 144..191
  BY <1>2, <1>3, <1>4, <1>5, <1>6, 6 + 1 = 7
<1>h. InRange(7, b) <=> b \in 128..143
  BY <1>2, <1>3, <1>4, <1>5, <1>6, 7 + 1 = 8
<1>i. InRange(8, b) <=> b \in 194..244
  BY <1>2, <1>3, <1>4, <1>5, <1>6, 8 + 1 = 9
<1>j. ASSUME NEW i \in 9..15
      PROVE  ~InRange(i, b)
  <2>1. R!int8(lo[i + 1]) = 127 /\ R!int8(hi[i + 1]) = -128 /\ i \in 0..15
    BY <1>4, <1>5, <1>6
  <2> QED
    BY <1>2, <1>3, <2>1
<1> QED
  BY <1>a, <1>b, <1>c, <1>d, <1>e, <1>f, <1>g, <1>h, <1>i, <1>j

(* Behind bytes that are on track at most one lead is near.                *)
Single(q3, q2, q1) ==
  /\ q1 >= 192 => q2 < 224 /\ q3 < 240
  /\ q2 >= 224 => q1 \in Continuation /\ q3 < 240
  /\ q3 >= 240 => q1 \in Continuation

LEMMA SingleBehind ==
  ASSUME NEW s \in ByteSeq, NEW j \in Nat, Clean(s, j)
  PROVE  Single(ByteAt(s, j - 3), ByteAt(s, j - 2), ByteAt(s, j - 1))
<1>1. /\ ByteAt(s, j - 3) \in 0..255
      /\ ByteAt(s, j - 2) \in 0..255
      /\ ByteAt(s, j - 1) \in 0..255
  BY ByteAtType
<1> QED
  BY <1>1, BehindClean DEF Single

LeadBit(b) == IF b >= 192 THEN 8 ELSE 0

(* The index of a lane, by the one lead that is near.                      *)
IndexByLead(p3, p2, p1, b) ==
  LET base == LeadBit(b)
      r    == FirstIndex(p3, p2, p1, b)
  IN  /\ p1 < 192 /\ p2 < 224 /\ p3 < 240 => r = base
      /\ p1 < 192 /\ p2 >= 224 /\ p2 < 240 /\ p3 < 240 => r = base + 1
      /\ p1 < 192 /\ p2 >= 240 /\ p3 < 240 => r = base + 2
      /\ p1 < 192 /\ p2 < 224 /\ p3 >= 240 => r = base + 1
      /\ p1 >= 192 /\ p1 < 224 /\ p2 < 224 /\ p3 < 240 => r = base + 1
      /\ p1 >= 224 /\ p1 < 240 /\ p2 < 224 /\ p3 < 240 => r = base + 2
      /\ p1 >= 240 /\ p2 < 224 /\ p3 < 240 => r = base + 3

LEMMA RangeIndexValue ==
  ASSUME NEW p3 \in 0..255, NEW p2 \in 0..255, NEW p1 \in 0..255, NEW b \in 0..255
  PROVE  IndexByLead(p3, p2, p1, b)
<1> DEFINE base == LeadBit(b)
           l3 == R!saturating_sub(R!first_len(p3), 2)
           l2 == R!saturating_sub(R!first_len(p2), 1)
           l1 == R!first_len(p1)
           ored == {l1, l2, l3}
           r == FirstIndex(p3, p2, p1, b)
<1>1. ASSUME NEW p \in 0..255
      PROVE  R!first_len(p) = IF p < 192 THEN 0 ELSE IF p < 224 THEN 1
                              ELSE IF p < 240 THEN 2 ELSE 3
  <2>1. CASE p < 192
    BY <2>1 DEF R!first_len
  <2>2. CASE p >= 192 /\ p < 224
    BY <2>2 DEF R!first_len
  <2>3. CASE p >= 224 /\ p < 240
    BY <2>3 DEF R!first_len
  <2>4. CASE p >= 240
    BY <2>4 DEF R!first_len
  <2> QED
    BY <2>1, <2>2, <2>3, <2>4
<1>2. l3 = IF p3 < 240 THEN 0 ELSE 1
  BY <1>1 DEF R!saturating_sub
<1>3. l2 = IF p2 < 224 THEN 0 ELSE IF p2 < 240 THEN 1 ELSE 2
  BY <1>1 DEF R!saturating_sub
<1>4. l1 = IF p1 < 192 THEN 0 ELSE IF p1 < 224 THEN 1 ELSE IF p1 < 240 THEN 2 ELSE 3
  BY <1>1
<1>5. r = base + (IF ored \cap {2, 3} # {} THEN 2 ELSE 0)
               + (IF ored \cap {1, 3} # {} THEN 1 ELSE 0)
  BY DEF FirstIndex, R!range, LeadBit
<1> HIDE DEF l1, l2, l3, r
<1>6. /\ ored \cap {2, 3} # {} <=> l1 \in {2, 3} \/ l2 \in {2, 3} \/ l3 \in {2, 3}
      /\ ored \cap {1, 3} # {} <=> l1 \in {1, 3} \/ l2 \in {1, 3} \/ l3 \in {1, 3}
  OBVIOUS
<1> HIDE DEF ored
<1>7. base \in {0, 8}
  BY DEF LeadBit
<1> HIDE DEF base
<1>a. p1 < 192 /\ p2 < 224 /\ p3 < 240 => r = base
  BY <1>2, <1>3, <1>4, <1>5, <1>6, <1>7
<1>b. p1 < 192 /\ p2 >= 224 /\ p2 < 240 /\ p3 < 240 => r = base + 1
  BY <1>2, <1>3, <1>4, <1>5, <1>6, <1>7
<1>c. p1 < 192 /\ p2 >= 240 /\ p3 < 240 => r = base + 2
  BY <1>2, <1>3, <1>4, <1>5, <1>6, <1>7
<1>d. p1 < 192 /\ p2 < 224 /\ p3 >= 240 => r = base + 1
  BY <1>2, <1>3, <1>4, <1>5, <1>6, <1>7
<1>e. p1 >= 192 /\ p1 < 224 /\ p2 < 224 /\ p3 < 240 => r = base + 1
  BY <1>2, <1>3, <1>4, <1>5, <1>6, <1>7
<1>f. p1 >= 224 /\ p1 < 240 /\ p2 < 224 /\ p3 < 240 => r = base + 2
  BY <1>2, <1>3, <1>4, <1>5, <1>6, <1>7
<1>g. p1 >= 240 /\ p2 < 224 /\ p3 < 240 => r = base + 3
  BY <1>2, <1>3, <1>4, <1>5, <1>6, <1>7
<1> QED
  BY <1>a, <1>b, <1>c, <1>d, <1>e, <1>f, <1>g DEF r, base, IndexByLead

(* The bytes that range condemns.                                          *)
RangeCondemned == {192, 193} \cup (245..255)

(* A lane is in its range exactly when its window is in order, whatever    *)
(* quiet bytes stand for the oldest of the window.                         *)
LEMMA RangeLane ==
  ASSUME Arch = "x86", NEW b \in 0..255,
         NEW p3 \in 0..255, NEW p2 \in 0..255, NEW p1 \in 0..255,
         NEW q3 \in 0..255, NEW q2 \in 0..255, NEW q1 \in 0..255,
         Near(p3, p2, p1, q3, q2, q1), Single(q3, q2, q1), q1 \notin RangeCondemned
  PROVE  RangeOK(p3, p2, p1, b) <=> WindowOK(q3, q2, q1, b) /\ b \notin RangeCondemned
<1> DEFINE base == LeadBit(b)
           r == FirstIndex(p3, p2, p1, b)
           x == R!range2(p1)
<1>1. RangeOK(p3, p2, p1, b) <=> InRange((r + x) % 256, b)
  BY DEF RangeOK, RangeIndex
<1>2. x = IF p1 = 224 THEN 2 ELSE IF p1 \in {237, 240} THEN 3 ELSE IF p1 = 244 THEN 4 ELSE 0
  BY Range2Values
<1>3. /\ p1 < 192 /\ p2 < 224 /\ p3 < 240 => r = base
      /\ p1 < 192 /\ p2 >= 224 /\ p2 < 240 /\ p3 < 240 => r = base + 1
      /\ p1 < 192 /\ p2 >= 240 /\ p3 < 240 => r = base + 2
      /\ p1 < 192 /\ p2 < 224 /\ p3 >= 240 => r = base + 1
      /\ p1 >= 192 /\ p1 < 224 /\ p2 < 224 /\ p3 < 240 => r = base + 1
      /\ p1 >= 224 /\ p1 < 240 /\ p2 < 224 /\ p3 < 240 => r = base + 2
      /\ p1 >= 240 /\ p2 < 224 /\ p3 < 240 => r = base + 3
  <2>1. IndexByLead(p3, p2, p1, b)
    BY RangeIndexValue
  <2> QED
    BY <2>1 DEF IndexByLead
<1>9. base = IF b >= 192 THEN 8 ELSE 0
  BY DEF LeadBit
<1>4. ASSUME r + x \in 0..15
      PROVE  RangeOK(p3, p2, p1, b) <=> InRange(r + x, b)
  <2>1. \A m \in 0..15 : m % 256 = m
    OBVIOUS
  <2> HIDE DEF r, x
  <2> QED
    BY <1>1, <1>4, <2>1
<1> HIDE DEF r, x, base
<1>8. /\ InRange(0, b) <=> b \in 0..127
      /\ InRange(1, b) <=> b \in 128..191
      /\ InRange(2, b) <=> b \in 128..191
      /\ InRange(3, b) <=> b \in 128..191
      /\ InRange(4, b) <=> b \in 160..191
      /\ InRange(5, b) <=> b \in 128..159
      /\ InRange(6, b) <=> b \in 144..191
      /\ InRange(7, b) <=> b \in 128..143
      /\ InRange(8, b) <=> b \in 194..244
      /\ \A i \in 9..15 : ~InRange(i, b)
  BY Ranges
<1>5. CASE q1 >= 192
  <2>1. p1 = q1 /\ p2 < 224 /\ p3 < 240 /\ ~Demanded(q3, q2) /\ p1 \in 194..244
    BY <1>5 DEF Near, Single, Demanded, RangeCondemned
  <2>2. WindowOK(q3, q2, q1, b) <=> b \in SecondBytes(p1)
    BY <2>1 DEF WindowOK, PairOK, Lead2, Lead3, Lead4
  <2>3. SecondBytes(p1) = IF p1 = 224 THEN 160..191 ELSE IF p1 = 237 THEN 128..159
                          ELSE IF p1 = 240 THEN 144..191 ELSE IF p1 = 244 THEN 128..143
                          ELSE 128..191
    BY DEF SecondBytes, Continuation
  <2>4. b \in SecondBytes(p1) => b \notin RangeCondemned
    BY <2>3 DEF RangeCondemned
  <2>5. r + x = base + (IF p1 = 224 THEN 4 ELSE IF p1 = 237 THEN 5
                        ELSE IF p1 = 240 THEN 6 ELSE IF p1 = 244 THEN 7
                        ELSE IF p1 < 224 THEN 1 ELSE IF p1 < 240 THEN 2 ELSE 3)
    BY <1>2, <1>3, <1>9, <2>1
  <2>6. CASE b >= 192
    <3>1. r + x \in 9..15
      BY <1>9, <2>5, <2>6
    <3> QED
      BY <1>4, <1>8, <2>2, <2>3, <2>6, <3>1
  <2>7. CASE b < 192
    <3>1. r + x \in 0..15
      BY <1>9, <2>5, <2>7
    <3>2. InRange(r + x, b) <=> b \in SecondBytes(p1)
      BY <1>8, <1>9, <2>1, <2>3, <2>5, <2>7
    <3> QED
      BY <1>4, <2>2, <2>4, <3>1, <3>2
  <2> QED
    BY <2>6, <2>7
<1>6. CASE q1 < 192 /\ Demanded(q3, q2)
  <2>1. p1 = q1 /\ q1 \in Continuation /\ x = 0
    BY <1>2, <1>6 DEF Near, Single, Demanded
  <2>2. WindowOK(q3, q2, q1, b) <=> b \in Continuation
    BY <1>6, <2>1 DEF WindowOK
  <2>3. r = base + 1 \/ r = base + 2
    <3>1. CASE q2 >= 224
      BY <1>3, <1>6, <2>1, <3>1 DEF Near, Single
    <3>2. CASE q2 < 224
      <4>1. q3 >= 240
        BY <1>6, <3>2 DEF Demanded
      <4> QED
        BY <1>3, <1>6, <2>1, <3>2, <4>1 DEF Near
    <3> QED
      BY <3>1, <3>2
  <2>4. RangeOK(p3, p2, p1, b) <=> b \in 128..191
    <3>1. CASE b >= 192
      <4>1. r + x \in 9..15
        BY <1>9, <2>1, <2>3, <3>1
      <4> QED
        BY <1>4, <1>8, <3>1, <4>1
    <3>2. CASE b < 192
      <4>1. r + x \in {1, 2} /\ r + x \in 0..15
        BY <1>9, <2>1, <2>3, <3>2
      <4> QED
        BY <1>4, <1>8, <4>1
    <3> QED
      BY <3>1, <3>2
  <2> QED
    BY <2>2, <2>4 DEF Continuation, RangeCondemned
<1>7. CASE q1 < 192 /\ ~Demanded(q3, q2)
  <2>1. p1 < 192 /\ p2 < 224 /\ p3 < 240 /\ q2 < 224 /\ q3 < 240
    BY <1>7 DEF Near, Demanded
  <2>2. WindowOK(q3, q2, q1, b) <=> b \notin Continuation
    <3>1. q3 \in 0..239 /\ q2 \in 0..223 /\ q1 \in 0..191
      BY <1>7, <2>1
    <3> QED
      BY <3>1, QuietWindow
  <2>3. r = base /\ x = 0 /\ r + x = base /\ r + x \in 0..15
    BY <1>2, <1>3, <1>9, <2>1
  <2>4. RangeOK(p3, p2, p1, b) <=> InRange(base, b)
    BY <1>4, <2>3
  <2>5. CASE b >= 192
    BY <1>8, <1>9, <2>2, <2>4, <2>5 DEF Continuation, RangeCondemned
  <2>6. CASE b < 192
    BY <1>8, <1>9, <2>2, <2>4, <2>6 DEF Continuation, RangeCondemned
  <2> QED
    BY <2>5, <2>6
<1> QED
  BY <1>5, <1>6, <1>7
-----------------------------------------------------------------------------
(* What is Current, and how it stays so.                                   *)
LEMMA TailIsCurrent ==
  ASSUME NEW s \in ByteSeq, NEW e \in Nat, NEW vec, HoldsV(vec, s, e)
  PROVE  Current(vec, s, e + W)
<1>1. ASSUME NEW n \in 1..3
      PROVE  vec[W - n] = ByteAt(s, (e + W) - n)
  <2>1. W - n \in Lanes /\ e + (W - n) = (e + W) - n
    BY WidthAssumption DEF Lanes
  <2> QED
    BY <2>1 DEF HoldsV
<1> QED
  BY <1>1 DEF Current, HoldsV

LEMMA QuietIsCurrent ==
  ASSUME NEW s \in ByteSeq, NEW e \in Nat, NEW raw, Current(raw, s, e)
  PROVE  /\ Quiet(raw) <=> ~Open(s, e)
         /\ \A d \in Nat : ~Open(s, e) /\ ~Open(s, d) => Current(raw, s, d)
<1>1. /\ ByteAt(s, e - 1) \in 0..255
      /\ ByteAt(s, e - 2) \in 0..255
      /\ ByteAt(s, e - 3) \in 0..255
  BY ByteAtType
<1>2. Quiet(raw) <=> ~Open(s, e)
  <2>1. CASE \A n \in 1..3 : raw[W - n] = ByteAt(s, e - n)
    <3>1. /\ raw[W - 1] = ByteAt(s, e - 1)
          /\ raw[W - 2] = ByteAt(s, e - 2)
          /\ raw[W - 3] = ByteAt(s, e - 3)
      BY <2>1
    <3> QED
      BY <1>1, <3>1 DEF Quiet, Open
  <2> QED
    BY <2>1 DEF Current
<1> QED
  BY <1>2 DEF Current

(* A vector of ASCII.                                                      *)
LEMMA TrackAscii ==
  ASSUME algorithm \in {"range", "basic", "zwegner"},
         NEW s \in ByteSeq, NEW e \in Nat, NEW m \in Nat, m >= 3, Track(s, e),
         \A k \in 0..(m - 1) : ByteAt(s, e + k) < 128
  PROVE  /\ Track(s, e + m) <=> ~Open(s, e)
         /\ ~Open(s, e + m)
<1>1. /\ Clean(s, e + m) <=> ~Open(s, e)
      /\ ~Open(s, e + m)
  BY AsciiRun DEF Track
<1>2. m - 1 \in 0..(m - 1) /\ e + (m - 1) = (e + m) - 1 /\ (e + m) - 1 \in Int
  OBVIOUS
<1>3. ByteAt(s, (e + m) - 1) < 128 /\ ByteAt(s, (e + m) - 1) \in 0..255
  BY <1>2, ByteAtType
<1>4. \A c \in Condemned : c \in 192..255
  BY DEF Condemned
<1>5. ByteAt(s, (e + m) - 1) \notin Condemned
  BY <1>3, <1>4
<1> QED
  BY <1>1, <1>5 DEF Track

(* What a vector demands of the next one, by its last bytes.               *)
Wanted(raw) ==
  {m \in 0..2 : \E n \in 1..(3 - m) : raw[W - n] >= <<192, 224, 240>>[n + m]}

LEMMA WantedIsDue ==
  ASSUME NEW s \in ByteSeq, NEW e \in Nat, NEW raw, Current(raw, s, e)
  PROVE  Wanted(raw) = Due(s, e)
<1>1. CASE \A n \in 1..3 : raw[W - n] = ByteAt(s, e - n)
  <2>1. ASSUME NEW m \in 0..2, NEW n \in 1..(3 - m)
        PROVE  raw[W - n] = ByteAt(s, e - n)
    <3>1. n \in 1..3
      OBVIOUS
    <3> QED
      BY <1>1, <3>1
  <2> QED
    BY <2>1 DEF Wanted, Due
<1>2. CASE ~Open(s, e) /\ Quiet(raw)
  <2>1. ASSUME NEW m \in 0..2, NEW n \in 1..(3 - m)
        PROVE  /\ ~(raw[W - n] >= <<192, 224, 240>>[n + m])
               /\ ~(ByteAt(s, e - n) >= <<192, 224, 240>>[n + m])
    <3>1. n \in 1..3 /\ n + m \in 1..3 /\ n + m >= n /\ n \in Nat
      OBVIOUS
    <3>2. W - n \in Lanes /\ e - n \in Int
      BY <3>1, WidthAssumption DEF Lanes
    <3>3. raw[W - n] \in 0..255 /\ ByteAt(s, e - n) \in 0..255
      BY <3>2, ByteAtType DEF Current
    <3>4. /\ n = 1 => raw[W - n] < 192 /\ ByteAt(s, e - n) < 192
          /\ n = 2 => raw[W - n] < 224 /\ ByteAt(s, e - n) < 224
          /\ n = 3 => raw[W - n] < 240 /\ ByteAt(s, e - n) < 240
      BY <1>2, <3>3 DEF Quiet, Open
    <3>5. PICK j \in 1..3 : j = n + m
      BY <3>1
    <3>6. j >= n
      BY <3>1, <3>5
    <3>7. <<192, 224, 240>>[j] = IF j = 1 THEN 192 ELSE IF j = 2 THEN 224 ELSE 240
      OBVIOUS
    <3> QED
      BY <3>1, <3>3, <3>4, <3>5, <3>6, <3>7
  <2> QED
    BY <2>1 DEF Wanted, Due
<1> QED
  BY <1>1, <1>2 DEF Current
-----------------------------------------------------------------------------
(* Range, one vector.                                                      *)
LEMMA RangeVector ==
  ASSUME algorithm = "range", Arch = "x86",
         NEW s \in ByteSeq, NEW e \in Nat, NEW vec, NEW raw,
         Track(s, e), HoldsV(vec, s, e), Current(raw, s, e)
  PROVE  /\ R!check_utf8_bytes(vec, R!processed(raw)) = {} <=> Track(s, e + W)
         /\ R!check_utf8_bytes(vec, R!processed(raw)) \subseteq Lanes
<1> DEFINE E == R!check_utf8_bytes(vec, R!processed(raw))
<1>1. W \in Nat /\ W >= 3 /\ R!Lanes = Lanes
  BY WidthAssumption DEF R!Lanes, Lanes
<1>2. vec \in [Lanes -> 0..255] /\ raw \in [Lanes -> 0..255]
  BY DEF HoldsV, Current
<1>3. ASSUME NEW k \in Lanes
      PROVE  k \in E <=> ~RangeOK(Back(vec, raw, 3, k), Back(vec, raw, 2, k),
                                  Back(vec, raw, 1, k), vec[k])
  <2> DEFINE lens == R!processed(vec).first_len
             old == R!processed(raw).first_len
  <2>1. /\ \A j \in Lanes : lens[j] = R!first_len(vec[j]) /\ old[j] = R!first_len(raw[j])
        /\ R!processed(raw).raw_bytes = raw
    BY <1>1 DEF R!processed
  <2> HIDE DEF lens, old
  <2>2. ASSUME NEW n \in 1..3
        PROVE  /\ R!prev(n, lens, old)[k] = R!first_len(Back(vec, raw, n, k))
               /\ R!prev(n, vec, raw)[k] = Back(vec, raw, n, k)
    <3>1. CASE k >= n
      <4>1. k - n \in Lanes
        BY <1>1, <3>1 DEF Lanes
      <4> QED
        BY <1>1, <2>1, <3>1, <4>1 DEF R!prev, Back
    <3>2. CASE ~(k >= n)
      <4>1. W - n + k \in Lanes
        BY <1>1, <3>2 DEF Lanes
      <4> QED
        BY <1>1, <2>1, <3>2, <4>1 DEF R!prev, Back
    <3> QED
      BY <3>1, <3>2
  <2> DEFINE l3 == R!prev(3, lens, old)[k]
             l2 == R!prev(2, lens, old)[k]
             l1 == R!prev(1, lens, old)[k]
             s1 == R!prev(1, vec, raw)[k]
             i == (R!range(l3, l2, l1, vec[k]) + R!range2(s1)) % 256
  <2>3. k \in E <=> \/ R!int8(R!minv(i)) > R!int8(vec[k])
                    \/ R!int8(vec[k]) > R!int8(R!maxv(i))
    BY <1>1, <2>1 DEF R!check_utf8_bytes, lens, old
  <2>4. /\ l3 = R!first_len(Back(vec, raw, 3, k))
        /\ l2 = R!first_len(Back(vec, raw, 2, k))
        /\ l1 = R!first_len(Back(vec, raw, 1, k))
        /\ s1 = Back(vec, raw, 1, k)
    BY <2>2
  <2> HIDE DEF l3, l2, l1, s1
  <2>5. i = RangeIndex(Back(vec, raw, 3, k), Back(vec, raw, 2, k),
                       Back(vec, raw, 1, k), vec[k])
    BY <2>4 DEF RangeIndex, FirstIndex
  <2> HIDE DEF i, E
  <2> QED
    BY <2>3, <2>5 DEF RangeOK, InRange
<1>4. E \subseteq Lanes
  BY <1>1 DEF R!check_utf8_bytes
<1> HIDE DEF E
<1>5. ASSUME NEW k \in Lanes, Track(s, e + k)
      PROVE  k \in E <=> ~Fits(s, e + k)
  <2> DEFINE p(n) == Back(vec, raw, n, k)
             q(n) == ByteAt(s, (e + k) - n)
             b == ByteAt(s, e + k)
  <2>1. k \in Nat /\ e + k \in Nat
    BY <1>1 DEF Lanes
  <2>2. /\ vec[k] = b
        /\ \A n \in 1..3 : p(n) \in 0..255
        /\ Near(p(3), p(2), p(1), q(3), q(2), q(1))
    BY BackBytes
  <2>3. q(3) \in 0..255 /\ q(2) \in 0..255 /\ q(1) \in 0..255 /\ b \in 0..255
    BY <2>1, ByteAtType
  <2>4. Single(q(3), q(2), q(1))
    BY <1>5, <2>1, SingleBehind DEF Track
  <2>5. RangeCondemned = Condemned
    BY DEF RangeCondemned, Condemned
  <2>6. q(1) \notin RangeCondemned
    <3>1. CASE e + k > 0
      BY <1>5, <2>5, <3>1 DEF Track
    <3>2. CASE e + k = 0
      <4>1. q(1) = 0
        BY <3>2 DEF ByteAt
      <4> QED
        BY <4>1 DEF RangeCondemned
    <3> QED
      BY <2>1, <3>1, <3>2
  <2>7. p(3) \in 0..255 /\ p(2) \in 0..255 /\ p(1) \in 0..255
    BY <2>2
  <2> HIDE DEF p, q, b
  <2>8. RangeOK(p(3), p(2), p(1), b) <=> WindowOK(q(3), q(2), q(1), b) /\ b \notin RangeCondemned
    <3>1. PICK p3, p2, p1, q3, q2, q1, x :
            p3 = p(3) /\ p2 = p(2) /\ p1 = p(1) /\ q3 = q(3) /\ q2 = q(2) /\ q1 = q(1)
              /\ x = b
      OBVIOUS
    <3>2. /\ p3 \in 0..255 /\ p2 \in 0..255 /\ p1 \in 0..255
          /\ q3 \in 0..255 /\ q2 \in 0..255 /\ q1 \in 0..255 /\ x \in 0..255
          /\ Near(p3, p2, p1, q3, q2, q1) /\ Single(q3, q2, q1) /\ q1 \notin RangeCondemned
      BY <2>2, <2>3, <2>4, <2>6, <2>7, <3>1
    <3>3. RangeOK(p3, p2, p1, x) <=> WindowOK(q3, q2, q1, x) /\ x \notin RangeCondemned
      BY <3>2, RangeLane, ZenonT(40)
    <3> QED
      BY <3>1, <3>3
  <2> QED
    BY <1>3, <2>2, <2>5, <2>8 DEF Fits, LocalOK, p, q, b
<1>6. E = {} <=> Track(s, e + W)
  BY <1>4, <1>5, FirstLane
<1> QED
  BY <1>4, <1>6 DEF E

(* Range, a block of ASCII: the error of the fast path.                    *)
LEMMA RangeCarried ==
  ASSUME NEW c, NEW raw \in [Lanes -> 0..255], c.previous = R!processed(raw)
  PROVE  /\ R!check_carried_continuations(c) = {} <=> Quiet(raw)
         /\ R!check_carried_continuations(c) \subseteq Lanes
<1>1. /\ W \in Nat /\ W >= 3 /\ R!Lanes = Lanes
      /\ W - 1 \in Lanes /\ W - 2 \in Lanes /\ W - 3 \in Lanes
  BY WidthAssumption DEF R!Lanes, Lanes
<1>2. ASSUME NEW k \in Lanes
      PROVE  /\ c.previous.first_len[k] = R!first_len(raw[k])
             /\ raw[k] \in 0..255
             /\ R!first_len(raw[k]) = IF raw[k] < 192 THEN 0 ELSE IF raw[k] < 224 THEN 1
                                      ELSE IF raw[k] < 240 THEN 2 ELSE 3
  <2>1. c.previous.first_len[k] = R!first_len(raw[k]) /\ raw[k] \in 0..255
    BY <1>1 DEF R!processed
  <2>2. PICK p \in 0..255 : p = raw[k]
    BY <2>1
  <2>3. R!first_len(p) = IF p < 192 THEN 0 ELSE IF p < 224 THEN 1
                         ELSE IF p < 240 THEN 2 ELSE 3
    <3>1. CASE p < 192
      BY <3>1 DEF R!first_len
    <3>2. CASE p >= 192 /\ p < 224
      BY <3>2 DEF R!first_len
    <3>3. CASE p >= 224 /\ p < 240
      BY <3>3 DEF R!first_len
    <3>4. CASE p >= 240
      BY <3>4 DEF R!first_len
    <3> QED
      BY <3>1, <3>2, <3>3, <3>4
  <2> QED
    BY <2>1, <2>2, <2>3
<1>3. R!check_carried_continuations(c) = {k \in Lanes : R!first_len(raw[k]) > R!last_len[k]}
  BY <1>1, <1>2 DEF R!check_carried_continuations
<1>4. ASSUME NEW k \in Lanes
      PROVE  R!last_len[k] = IF k = W - 1 THEN 0 ELSE IF k = W - 2 THEN 1
                             ELSE IF k = W - 3 THEN 2 ELSE 9
  <2>1. k \in Int
    BY <1>1 DEF Lanes
  <2>2. R!last_len[k] = CASE k = W - 3 -> 2
                          [] k = W - 2 -> 1
                          [] k = W - 1 -> 0
                          [] OTHER     -> 9
    BY <1>1 DEF R!last_len
  <2> QED
    BY <1>1, <2>1, <2>2
<1>5. ASSUME NEW k \in Lanes
      PROVE  R!first_len(raw[k]) > R!last_len[k] <=>
               \/ k = W - 1 /\ raw[k] >= 192
               \/ k = W - 2 /\ raw[k] >= 224
               \/ k = W - 3 /\ raw[k] >= 240
  <2>1. k \in Int
    BY <1>1 DEF Lanes
  <2>2. PICK l : l = R!last_len[k]
    OBVIOUS
  <2>3. PICK f, p : f = R!first_len(raw[k]) /\ p = raw[k]
    OBVIOUS
  <2>4. /\ p \in 0..255
        /\ f = IF p < 192 THEN 0 ELSE IF p < 224 THEN 1
               ELSE IF p < 240 THEN 2 ELSE 3
        /\ l = IF k = W - 1 THEN 0 ELSE IF k = W - 2 THEN 1
               ELSE IF k = W - 3 THEN 2 ELSE 9
    BY <1>2, <1>4, <2>2, <2>3
  <2>5. f > l <=> \/ k = W - 1 /\ p >= 192
                  \/ k = W - 2 /\ p >= 224
                  \/ k = W - 3 /\ p >= 240
    BY <1>1, <2>1, <2>4
  <2> QED
    BY <2>2, <2>3, <2>5
<1>6. R!check_carried_continuations(c) = {} <=>
        ~(raw[W - 1] >= 192 \/ raw[W - 2] >= 224 \/ raw[W - 3] >= 240)
  BY <1>1, <1>3, <1>5
<1>7. raw[W - 1] \in 0..255 /\ raw[W - 2] \in 0..255 /\ raw[W - 3] \in 0..255
  BY <1>1, <1>2
<1> QED
  BY <1>3, <1>6, <1>7, SMTT(20) DEF Quiet
-----------------------------------------------------------------------------
(* The vectors of a block, by position.                                    *)
LEMMA VectorPositions ==
  /\ W \in Nat /\ W >= 3 /\ NUM_CHUNKS \in Nat /\ NUM_CHUNKS >= 1
  /\ STEP_SIZE \in Nat /\ STEP_SIZE >= 3 /\ STEP_SIZE = NUM_CHUNKS * W
  /\ \A c \in 0..NUM_CHUNKS :
       c * W \in Nat /\ c * W <= STEP_SIZE /\ (c + 1) * W = c * W + W
  /\ \A c \in 0..(NUM_CHUNKS - 1), k \in Lanes : c * W + k \in Offsets
<1>1. W \in Nat /\ W >= 3 /\ NUM_CHUNKS \in Nat /\ NUM_CHUNKS >= 1
  BY WidthAssumption, NumChunksAssumption
<1>2. STEP_SIZE = NUM_CHUNKS * W
  BY BlockAssumption
<1>3. STEP_SIZE \in Nat /\ STEP_SIZE >= 3
  <2>1. NUM_CHUNKS * W \in Nat /\ NUM_CHUNKS * W >= W
    BY <1>1, SMTT(30)
  <2> QED
    BY <1>1, <1>2, <2>1
<1>4. ASSUME NEW c \in 0..NUM_CHUNKS
      PROVE  c * W \in Nat /\ c * W <= STEP_SIZE /\ (c + 1) * W = c * W + W
  BY <1>1, <1>2, SMTT(30)
<1>5. ASSUME NEW c \in 0..(NUM_CHUNKS - 1), NEW k \in Lanes
      PROVE  c * W + k \in Offsets
  <2>1. c * W >= 0 /\ c * W + W <= NUM_CHUNKS * W /\ c * W \in Int
    BY <1>1, SMTT(30)
  <2> QED
    BY <1>1, <1>2, <2>1 DEF Offsets, Lanes
<1> QED
  BY <1>1, <1>2, <1>3, <1>4, <1>5

(* A position of a block is a lane of one of its vectors.                  *)
LEMMA VectorOfPosition ==
  ASSUME NEW p \in Offsets
  PROVE  \E c \in 0..(NUM_CHUNKS - 1), k \in Lanes : p = c * W + k
<1> DEFINE q == p \div W
           r == p % W
<1>1. W \in Nat /\ W >= 3 /\ NUM_CHUNKS \in Nat /\ STEP_SIZE = NUM_CHUNKS * W
      /\ STEP_SIZE \in Nat
  BY VectorPositions
<1>2. p \in Nat /\ p < NUM_CHUNKS * W
  BY <1>1 DEF Offsets
<1>3. q \in Int /\ r \in 0..(W - 1) /\ p = W * q + r
  BY <1>1, <1>2
<1> HIDE DEF q, r
<1>4. q >= 0
  BY <1>1, <1>2, <1>3, SMTT(30)
<1>5. q < NUM_CHUNKS
  BY <1>1, <1>2, <1>3, SMTT(30)
<1>6. q \in 0..(NUM_CHUNKS - 1) /\ r \in Lanes /\ p = q * W + r
  BY <1>1, <1>3, <1>4, <1>5 DEF Lanes
<1> QED
  BY <1>6

LEMMA VectorHolds ==
  ASSUME NEW s \in ByteSeq, NEW e \in Nat, NEW block, Holds(block, s, e),
         NEW c \in 0..(NUM_CHUNKS - 1)
  PROVE  HoldsV(chunks(block)[c], s, e + c * W)
<1>1. c * W \in Nat /\ W \in Nat
  <2>1. c \in 0..NUM_CHUNKS
    BY VectorPositions
  <2> QED
    BY <2>1, VectorPositions
<1>2. chunks(block)[c] = [k \in Lanes |-> block[c * W + k]]
  BY DEF chunks
<1>3. ASSUME NEW k \in Lanes
      PROVE  block[c * W + k] = ByteAt(s, (e + c * W) + k)
             /\ block[c * W + k] \in 0..255
  <2>1. c * W + k \in Offsets /\ e + (c * W + k) = (e + c * W) + k
        /\ e + (c * W + k) \in Int
    BY <1>1, VectorPositions DEF Lanes
  <2> QED
    BY <2>1, ByteAtType DEF Holds
<1> QED
  BY <1>2, <1>3 DEF HoldsV

(* If each vector behind bytes on track is bad exactly when it leaves the  *)
(* track, some vector is exactly when the block leaves it.                 *)
LEMMA VectorsInTurn ==
  ASSUME algorithm \in {"range", "basic", "zwegner"},
         NEW s \in ByteSeq, NEW e \in Nat, Track(s, e), NEW Bad,
         \A c \in 0..(NUM_CHUNKS - 1) :
           Track(s, e + c * W) => (c \in Bad <=> ~Track(s, e + (c + 1) * W)),
         Bad \subseteq 0..(NUM_CHUNKS - 1)
  PROVE  Bad = {} <=> Track(s, e + STEP_SIZE)
<1>1. W \in Nat /\ NUM_CHUNKS \in Nat /\ NUM_CHUNKS >= 1
      /\ STEP_SIZE \in Nat /\ STEP_SIZE = NUM_CHUNKS * W
  BY VectorPositions
<1>2. \A c \in 0..NUM_CHUNKS : c * W \in Nat /\ c * W <= STEP_SIZE
  BY VectorPositions
<1>3. ASSUME Track(s, e + STEP_SIZE), NEW c \in 0..(NUM_CHUNKS - 1)
      PROVE  c \notin Bad
  <2>1. c \in 0..NUM_CHUNKS /\ c + 1 \in 0..NUM_CHUNKS
    BY <1>1
  <2>2. /\ e + c * W \in Nat /\ e + c * W <= e + STEP_SIZE /\ e + STEP_SIZE \in Nat
        /\ e + (c + 1) * W \in Nat /\ e + (c + 1) * W <= e + STEP_SIZE
    <3>1. c * W \in Nat /\ c * W <= STEP_SIZE
          /\ (c + 1) * W \in Nat /\ (c + 1) * W <= STEP_SIZE
      BY <1>2, <2>1
    <3> QED
      BY <1>1, <3>1
  <2>3. Track(s, e + c * W) /\ Track(s, e + (c + 1) * W)
    BY <1>3, <2>2, TrackBefore
  <2> QED
    BY <2>3
<1>4. ASSUME ~Track(s, e + STEP_SIZE)
      PROVE  Bad # {}
  <2> DEFINE T == {d \in 1..NUM_CHUNKS : ~Track(s, e + d * W)}
  <2>1. T \in SUBSET Nat /\ NUM_CHUNKS \in T
    BY <1>1, <1>4
  <2>2. PICK d \in T : \A k \in T : d <= k
    BY <2>1, LeastOf
  <2>3. d \in 1..NUM_CHUNKS /\ ~Track(s, e + d * W)
    OBVIOUS
  <2>4. PICK c \in 0..(NUM_CHUNKS - 1) : c + 1 = d
    BY <1>1, <2>3
  <2>5. Track(s, e + c * W)
    <3>1. CASE c = 0
      <4>1. e + 0 * W = e
        BY <1>1
      <4> QED
        BY <3>1, <4>1
    <3>2. CASE c # 0
      <4>1. c \in 1..NUM_CHUNKS /\ ~(d <= c)
        BY <1>1, <2>4, <3>2
      <4> QED
        BY <2>2, <4>1
    <3> QED
      BY <3>1, <3>2
  <2> QED
    BY <2>3, <2>4, <2>5
<1> QED
  BY <1>3, <1>4

(* A block of ASCII, and the bytes it holds.                               *)
LEMMA AsciiBlock ==
  ASSUME algorithm \in {"range", "basic", "zwegner"},
         NEW s \in ByteSeq, NEW e \in Nat, Track(s, e), NEW block,
         DOMAIN block = Offsets, Holds(block, s, e), is_ascii(block)
  PROVE  /\ Track(s, e + STEP_SIZE) <=> ~Open(s, e)
         /\ ~Open(s, e + STEP_SIZE)
<1>1. STEP_SIZE \in Nat /\ STEP_SIZE >= 3
  BY VectorPositions
<1>2. \A k \in 0..(STEP_SIZE - 1) : ByteAt(s, e + k) < 128
  BY DEF is_ascii, Holds, Offsets
<1> QED
  BY <1>1, <1>2, TrackAscii
-----------------------------------------------------------------------------
(* Range, one block.                                                       *)
RangeState(c) ==
  /\ c = [has_error |-> c.has_error, previous |-> c.previous]
  /\ c.has_error \subseteq Lanes
  /\ c.previous.raw_bytes \in [Lanes -> 0..255]
  /\ c.previous = R!processed(c.previous.raw_bytes)

RangeContext(c, s, e) == Current(c.previous.raw_bytes, s, e)

LEMMA RangeBlock ==
  ASSUME algorithm = "range", NEW c, RangeState(c), NEW s \in ByteSeq, NEW e \in Nat,
         NEW block, DOMAIN block = Offsets, Holds(block, s, e)
  PROVE  /\ RangeState(R!check_next_input(block, c))
         /\ Arch = "x86" /\ (c.has_error = {} <=> Track(s, e))
            /\ (c.has_error = {} => RangeContext(c, s, e))
            => LET d == R!check_next_input(block, c)
               IN  /\ d.has_error = {} <=> Track(s, e + STEP_SIZE)
                   /\ d.has_error = {} => RangeContext(d, s, e + STEP_SIZE)
<1> DEFINE d == R!check_next_input(block, c)
           raw == c.previous.raw_bytes
           end == e + STEP_SIZE
<1>1. /\ W \in Nat /\ NUM_CHUNKS \in Nat /\ NUM_CHUNKS >= 1
      /\ STEP_SIZE \in Nat /\ STEP_SIZE = NUM_CHUNKS * W /\ end \in Nat
      /\ R!Lanes = Lanes /\ R!chunks(block) = chunks(block)
  BY VectorPositions DEF R!Lanes, Lanes, R!chunks, chunks
<1>2. Track(s, end) => Track(s, e)
  <2>1. e <= end
    BY <1>1
  <2> QED
    BY <1>1, <2>1, TrackBefore
<1>3. CASE is_ascii(block)
  <2> DEFINE X == R!check_carried_continuations(c)
  <2>1. d = [c EXCEPT !.has_error = c.has_error \cup X]
    BY <1>3 DEF R!check_next_input, R!is_ascii, is_ascii, R!check_ascii_block
  <2>2. /\ d = [has_error |-> c.has_error \cup X, previous |-> c.previous]
        /\ d.has_error = c.has_error \cup X /\ d.previous = c.previous
    <3>1. c = [has_error |-> c.has_error, previous |-> c.previous]
      BY DEF RangeState
    <3> HIDE DEF X, d
    <3>2. PICK h, v : h = c.has_error /\ v = c.previous
      OBVIOUS
    <3>3. d = [[has_error |-> h, previous |-> v] EXCEPT !.has_error = h \cup X]
      BY <2>1, <3>1, <3>2
    <3>4. d = [has_error |-> h \cup X, previous |-> v]
      BY <3>3
    <3> QED
      BY <3>2, <3>4
  <2>3. (X = {} <=> Quiet(raw)) /\ X \subseteq Lanes
    BY RangeCarried DEF RangeState
  <2> HIDE DEF d, X
  <2>4. RangeState(d)
    BY <2>2, <2>3 DEF RangeState
  <2>5. ASSUME c.has_error = {}, Track(s, e), RangeContext(c, s, e)
        PROVE  /\ d.has_error = {} <=> Track(s, end)
               /\ d.has_error = {} => RangeContext(d, s, end)
    <3>1. (Track(s, end) <=> ~Open(s, e)) /\ ~Open(s, end)
      BY <1>3, <2>5, AsciiBlock
    <3>2. /\ Quiet(raw) <=> ~Open(s, e)
          /\ ~Open(s, e) => Current(raw, s, end)
      BY <1>1, <2>5, <3>1, QuietIsCurrent DEF RangeContext
    <3> QED
      BY <2>2, <2>3, <2>5, <3>1, <3>2 DEF RangeContext
  <2> QED
    BY <1>2, <2>2, <2>4, <2>5 DEF d
<1>4. CASE ~is_ascii(block)
  <2> DEFINE v(i) == chunks(block)[i]
             before(i) == IF i = 0 THEN c.previous ELSE R!processed(v(i - 1))
             E(i) == R!check_utf8_bytes(v(i), before(i))
             X == UNION {E(i) : i \in 0..(NUM_CHUNKS - 1)}
  <2>1. /\ d = [has_error |-> c.has_error \cup X,
                previous |-> R!processed(v(NUM_CHUNKS - 1))]
    BY <1>1, <1>4 DEF R!check_next_input, R!is_ascii, is_ascii, R!check_nonascii_block
  <2>2. HoldsV(v(NUM_CHUNKS - 1), s, e + (NUM_CHUNKS - 1) * W)
        /\ (e + (NUM_CHUNKS - 1) * W) + W = end
        /\ e + (NUM_CHUNKS - 1) * W \in Nat
    <3>1. NUM_CHUNKS - 1 \in 0..(NUM_CHUNKS - 1) /\ NUM_CHUNKS - 1 \in 0..NUM_CHUNKS
      BY <1>1
    <3>2. ((NUM_CHUNKS - 1) + 1) * W = (NUM_CHUNKS - 1) * W + W
          /\ (NUM_CHUNKS - 1) * W \in Nat /\ (NUM_CHUNKS - 1) + 1 = NUM_CHUNKS
      BY <1>1, <3>1, VectorPositions
    <3> QED
      BY <1>1, <3>1, <3>2, VectorHolds
  <2>3. Current(v(NUM_CHUNKS - 1), s, end) /\ v(NUM_CHUNKS - 1) \in [Lanes -> 0..255]
    <3>1. PICK f : f = e + (NUM_CHUNKS - 1) * W
      OBVIOUS
    <3>2. Current(v(NUM_CHUNKS - 1), s, f + W)
      BY <2>2, <3>1, TailIsCurrent
    <3> QED
      BY <2>2, <3>1, <3>2 DEF HoldsV
  <2>4. R!processed(v(NUM_CHUNKS - 1)).raw_bytes = v(NUM_CHUNKS - 1)
    BY DEF R!processed
  <2>5. \A i \in 0..(NUM_CHUNKS - 1) : E(i) \subseteq Lanes
    BY <1>1 DEF R!check_utf8_bytes
  <2>6. RangeState(d)
    <3> HIDE DEF v, E
    <3> QED
      BY <2>1, <2>3, <2>4, <2>5 DEF RangeState
  <2>7. ASSUME Arch = "x86", c.has_error = {}, Track(s, e), RangeContext(c, s, e)
        PROVE  X = {} <=> Track(s, end)
    <3> DEFINE Bad == {i \in 0..(NUM_CHUNKS - 1) : E(i) # {}}
    <3>1. ASSUME NEW i \in 0..(NUM_CHUNKS - 1), Track(s, e + i * W)
          PROVE  E(i) = {} <=> Track(s, e + (i + 1) * W)
      <4>1. i \in 0..NUM_CHUNKS /\ i * W \in Nat /\ (i + 1) * W = i * W + W
        BY <1>1, VectorPositions
      <4>2. PICK f \in Nat : f = e + i * W
        BY <4>1
      <4>3. f + W = e + (i + 1) * W
        BY <1>1, <4>1, <4>2
      <4>4. HoldsV(v(i), s, f)
        BY <4>2, VectorHolds
      <4>5. \E r : before(i) = R!processed(r) /\ Current(r, s, f)
        <5>1. CASE i = 0
          <6>1. f = e
            BY <1>1, <4>2, <5>1
          <6> QED
            BY <2>7, <5>1, <6>1 DEF RangeState, RangeContext
        <5>2. CASE i # 0
          <6>1. i - 1 \in 0..(NUM_CHUNKS - 1) /\ i - 1 \in 0..NUM_CHUNKS
                /\ (i - 1) + 1 = i
            BY <1>1, <5>2
          <6>2. (i - 1) * W \in Nat /\ i * W = (i - 1) * W + W
            BY <6>1, VectorPositions
          <6>3. PICK g \in Nat : g = e + (i - 1) * W
            BY <6>2
          <6>4. HoldsV(v(i - 1), s, g) /\ g + W = f
            BY <1>1, <4>2, <6>1, <6>2, <6>3, VectorHolds
          <6>5. Current(v(i - 1), s, f)
            BY <6>4, TailIsCurrent
          <6> QED
            BY <5>2, <6>5
        <5> QED
          BY <5>1, <5>2
      <4>6. PICK r : before(i) = R!processed(r) /\ Current(r, s, f)
        BY <4>5
      <4> HIDE DEF v, before
      <4>7. Track(s, f)
        BY <3>1, <4>2
      <4>8. R!check_utf8_bytes(v(i), R!processed(r)) = {} <=> Track(s, f + W)
        BY <2>7, <4>4, <4>6, <4>7, RangeVector
      <4> QED
        BY <4>3, <4>6, <4>8
    <3> HIDE DEF E
    <3>2. Bad = {} <=> Track(s, end)
      <4>1. \A i \in 0..(NUM_CHUNKS - 1) :
              Track(s, e + i * W) => (i \in Bad <=> ~Track(s, e + (i + 1) * W))
        BY <3>1
      <4>2. Bad \subseteq 0..(NUM_CHUNKS - 1)
        OBVIOUS
      <4> HIDE DEF Bad
      <4> QED
        BY <2>7, <4>1, <4>2, VectorsInTurn
    <3> QED
      BY <3>2
  <2>8. d.has_error = c.has_error \cup X /\ d.previous.raw_bytes = v(NUM_CHUNKS - 1)
    BY <2>1, <2>4
  <2> HIDE DEF d, X, v
  <2> QED
    BY <1>2, <2>3, <2>6, <2>7, <2>8 DEF RangeContext, d
<1> QED
  BY <1>3, <1>4
-----------------------------------------------------------------------------
(* Basic counts the bytes that are due from a lane on, itself included.    *)
(* The count n of byte b behind p1 and p2, and the sum r of its first      *)
(* round behind p1, on track.                                              *)
CountIs(n, b, p1, p2) ==
  /\ n \in 0..4
  /\ n >= 2 <=> b >= 192 \/ p1 >= 224 \/ p2 >= 240
  /\ n >= 3 <=> b >= 224 \/ p1 >= 240
  /\ n >= 4 <=> b >= 240

SumIs(r, b, p1) ==
  /\ r \in Nat
  /\ r <= 4
  /\ r >= 3 <=> b >= 224 \/ p1 >= 240
  /\ r >= 4 <=> b >= 240

LengthOfByte(b) ==
  IF b < 128 THEN 1 ELSE IF b < 192 THEN 0 ELSE IF b < 224 THEN 2
  ELSE IF b < 240 THEN 3 ELSE 4

LEMMA BasicLength ==
  ASSUME NEW b \in 0..255
  PROVE  /\ B!continuation_length(b) = LengthOfByte(b)
         /\ LengthOfByte(b) \in 0..4
         /\ LengthOfByte(b) > 0 <=> b \notin Continuation
         /\ LengthOfByte(b) >= 2 <=> b >= 192
         /\ LengthOfByte(b) >= 3 <=> b >= 224
         /\ LengthOfByte(b) >= 4 <=> b >= 240
<1>1. CASE b < 128
  BY <1>1 DEF B!continuation_length, LengthOfByte, Continuation
<1>2. CASE b >= 128 /\ b < 192
  BY <1>2 DEF B!continuation_length, LengthOfByte, Continuation
<1>3. CASE b >= 192 /\ b < 224
  BY <1>3 DEF B!continuation_length, LengthOfByte, Continuation
<1>4. CASE b >= 224 /\ b < 240
  BY <1>4 DEF B!continuation_length, LengthOfByte, Continuation
<1>5. CASE b >= 240
  BY <1>5 DEF B!continuation_length, LengthOfByte, Continuation
<1> QED
  BY <1>1, <1>2, <1>3, <1>4, <1>5

(* A window in order, by what the lane needs of it.                        *)
OpenAfter(p3, p2, p1) == p1 >= 192 \/ p2 >= 224 \/ p3 >= 240

LEMMA WindowOpen ==
  ASSUME NEW p3 \in 0..255, NEW p2 \in 0..255, NEW p1 \in 0..255, NEW b \in 0..255,
         WindowOK(p3, p2, p1, b)
  PROVE  OpenAfter(p3, p2, p1) <=> b \in Continuation
<1>1. \A l \in Lead2 \cup Lead3 \cup Lead4 : l >= 192 /\ SecondBytes(l) \subseteq Continuation
  BY DEF Lead2, Lead3, Lead4, SecondBytes, Continuation
<1>2. CASE Demanded(p3, p2)
  BY <1>2 DEF WindowOK, OpenAfter, Demanded
<1>3. CASE ~Demanded(p3, p2)
  BY <1>1, <1>3 DEF WindowOK, PairOK, OpenAfter, Demanded
<1> QED
  BY <1>2, <1>3

(* The first round.                                                        *)
LEMMA SumRound ==
  ASSUME NEW p3 \in 0..255, NEW p2 \in 0..255, NEW p1 \in 0..255, NEW b \in 0..255,
         WindowOK(p3, p2, p1, b), NEW right \in Nat, right <= 4,
         right >= 4 <=> p1 >= 240, ~OpenAfter(p3, p2, p1) => right <= 1
  PROVE  SumIs(LengthOfByte(b) + B!saturating_sub(right, 1), b, p1)
<1> DEFINE l == LengthOfByte(b)
           x == B!saturating_sub(right, 1)
<1>1. l \in 0..4 /\ (l > 0 <=> b \notin Continuation) /\ (l >= 3 <=> b >= 224)
      /\ (l >= 4 <=> b >= 240)
  BY BasicLength
<1>2. x = IF right > 1 THEN right - 1 ELSE 0
  BY DEF B!saturating_sub
<1>3. OpenAfter(p3, p2, p1) <=> b \in Continuation
  BY WindowOpen
<1> HIDE DEF l, x
<1>4. CASE b \in Continuation
  <2>1. l = 0 /\ b < 192
    BY <1>1, <1>4 DEF Continuation
  <2> QED
    BY <1>2, <2>1 DEF SumIs, l, x
<1>5. CASE b \notin Continuation
  <2>1. right <= 1 /\ x = 0 /\ ~(p1 >= 240)
    BY <1>2, <1>3, <1>5
  <2>2. l + x = l
    BY <1>1, <2>1
  <2>3. SumIs(l + x, b, p1)
    BY <1>1, <2>1, <2>2 DEF SumIs
  <2> QED
    BY <2>3 DEF l, x
<1> QED
  BY <1>4, <1>5

(* Both rounds: what the lane counts,                                      *)
LEMMA CarryRound ==
  ASSUME NEW p3 \in 0..255, NEW p2 \in 0..255, NEW p1 \in 0..255, NEW b \in 0..255,
         WindowOK(p3, p2, p1, b), Single(p3, p2, p1), NEW r \in Nat, SumIs(r, p2, p3)
  PROVE  CountIs((LengthOfByte(b) + B!saturating_sub(LengthOfByte(p1), 1))
                   + B!saturating_sub(r, 2), b, p1, p2)
<1> DEFINE l == LengthOfByte(b)
           m == LengthOfByte(p1)
           x == B!saturating_sub(m, 1)
           y == B!saturating_sub(r, 2)
<1>1. l \in 0..4 /\ (l > 0 <=> b \notin Continuation) /\ (l >= 3 <=> b >= 224)
      /\ (l >= 4 <=> b >= 240) /\ (l >= 2 <=> b >= 192)
  BY BasicLength
<1>2. m \in 0..4 /\ (m >= 2 <=> p1 >= 192) /\ (m >= 3 <=> p1 >= 224)
      /\ (m >= 4 <=> p1 >= 240)
  BY BasicLength
<1>3. x = IF m > 1 THEN m - 1 ELSE 0
  BY DEF B!saturating_sub
<1>4. y = IF r > 2 THEN r - 2 ELSE 0
  BY DEF B!saturating_sub
<1>5. OpenAfter(p3, p2, p1) <=> b \in Continuation
  BY WindowOpen
<1> HIDE DEF l, m, x, y
<1>6. r <= 4 /\ (r >= 3 <=> p2 >= 224 \/ p3 >= 240) /\ (r >= 4 <=> p2 >= 240)
  BY DEF SumIs
<1>7. CASE b \notin Continuation
  <2>1. p1 < 192 /\ p2 < 224 /\ p3 < 240
    BY <1>5, <1>7 DEF OpenAfter
  <2>2. x = 0 /\ y = 0 /\ (l + x) + y = l
    BY <1>1, <1>2, <1>3, <1>4, <1>6, <2>1
  <2>3. CountIs((l + x) + y, b, p1, p2)
    BY <1>1, <2>1, <2>2 DEF CountIs
  <2> QED
    BY <2>3 DEF l, m, x, y
<1>8. CASE b \in Continuation
  <2>1. l = 0 /\ b < 192
    BY <1>1, <1>8 DEF Continuation
  <2>2. CASE p1 >= 192
    <3>1. p2 < 224 /\ p3 < 240 /\ y = 0
      BY <1>4, <1>6, <2>2 DEF Single
    <3>2. (l + x) + y = m - 1
      BY <1>2, <1>3, <2>1, <2>2, <3>1
    <3>3. CountIs((l + x) + y, b, p1, p2)
      BY <1>2, <2>1, <2>2, <3>1, <3>2 DEF CountIs
    <3> QED
      BY <3>3 DEF l, m, x, y
  <2>3. CASE p1 < 192
    <3>1. x = 0 /\ r >= 3
      BY <1>2, <1>3, <1>5, <1>6, <1>8, <2>3 DEF OpenAfter
    <3>2. (l + x) + y = r - 2
      BY <1>4, <2>1, <3>1
    <3>3. CountIs((l + x) + y, b, p1, p2)
      BY <1>6, <2>1, <2>3, <3>1, <3>2 DEF CountIs
    <3> QED
      BY <3>3 DEF l, m, x, y
  <2> QED
    BY <2>2, <2>3
<1> QED
  BY <1>7, <1>8

(* and when it counts more than its own length.                            *)
LEMMA Excess ==
  ASSUME NEW l \in Nat, NEW right1 \in Nat, NEW right2 \in Nat
  PROVE  (l + B!saturating_sub(right1, 1)) + B!saturating_sub(right2, 2) > l
           <=> right1 >= 2 \/ right2 >= 3
BY DEF B!saturating_sub

BasicCondemned == 245..255

Overlong(p, b) ==
  /\ B!initial_min(B!high_nibble(p)) > B!int8(p)
  /\ B!second_min(B!high_nibble(p)) > B!int8(b)

TooHigh(p, b) ==
  \/ p = 237 /\ B!int8(b) > B!int8(159)
  \/ p = 244 /\ B!int8(b) > B!int8(143)

TooLow(p, b) ==
  \/ p \in {192, 193} /\ b # 127
  \/ p = 224 /\ b \in 128..159
  \/ p = 240 /\ b \in 128..143

LEMMA BasicOverlong ==
  ASSUME NEW p \in 0..255, NEW b \in 0..255
  PROVE  Overlong(p, b) <=> TooLow(p, b)
<1> DEFINE h == B!high_nibble(p)
<1>1. h = p \div 16
  BY DEF B!high_nibble
<1>2. /\ h = 12 <=> p \in 192..207
      /\ h = 14 <=> p \in 224..239
      /\ h = 15 <=> p \in 240..255
      /\ h \in 0..15
  BY <1>1
<1> HIDE DEF h
<1>3. /\ B!int8(194) = -62 /\ B!int8(225) = -31 /\ B!int8(241) = -15
      /\ B!int8(160) = -96 /\ B!int8(144) = -112
      /\ B!int8(p) = IF p < 128 THEN p ELSE p - 256
      /\ B!int8(b) = IF b < 128 THEN b ELSE b - 256
  BY DEF B!int8
<1>4. CASE h = 12
  <2>1. B!initial_min(h) = -62 /\ B!second_min(h) = 127
    BY <1>3, <1>4 DEF B!initial_min, B!second_min
  <2> QED
    BY <1>2, <1>3, <1>4, <2>1 DEF h, Overlong, TooLow
<1>5. CASE h = 14
  <2>1. B!initial_min(h) = -31 /\ B!second_min(h) = -96
    BY <1>3, <1>5 DEF B!initial_min, B!second_min
  <2> QED
    BY <1>2, <1>3, <1>5, <2>1 DEF h, Overlong, TooLow
<1>6. CASE h = 15
  <2>1. B!initial_min(h) = -15 /\ B!second_min(h) = -112
    BY <1>3, <1>6 DEF B!initial_min, B!second_min
  <2> QED
    BY <1>2, <1>3, <1>6, <2>1 DEF h, Overlong, TooLow
<1>7. CASE h \notin {12, 14, 15}
  <2>1. B!initial_min(h) = -128
    BY <1>7 DEF B!initial_min
  <2>2. ~(-128 > B!int8(p))
    BY <1>3
  <2>3. p \notin {192, 193} /\ p # 224 /\ p # 240
    BY <1>2, <1>7
  <2> QED
    BY <2>1, <2>2, <2>3 DEF h, Overlong, TooLow
<1> QED
  BY <1>4, <1>5, <1>6, <1>7

LEMMA BasicLane ==
  ASSUME NEW b \in 0..255,
         NEW p3 \in 0..255, NEW p2 \in 0..255, NEW p1 \in 0..255,
         NEW q3 \in 0..255, NEW q2 \in 0..255, NEW q1 \in 0..255,
         Near(p3, p2, p1, q3, q2, q1), Single(q3, q2, q1), q1 \notin BasicCondemned
  PROVE  /\ B!saturating_sub(b, 244) = 0
         /\ OpenAfter(q3, q2, q1) <=> LengthOfByte(b) = 0
         /\ ~TooHigh(p1, b)
         /\ ~Overlong(p1, b)
         <=> WindowOK(q3, q2, q1, b) /\ b \notin BasicCondemned
<1> DEFINE OK == /\ B!saturating_sub(b, 244) = 0
                 /\ OpenAfter(q3, q2, q1) <=> LengthOfByte(b) = 0
                 /\ ~TooHigh(p1, b)
                 /\ ~Overlong(p1, b)
<1>1. B!saturating_sub(b, 244) = 0 <=> b \notin BasicCondemned
  BY DEF B!saturating_sub, BasicCondemned
<1>2. LengthOfByte(b) = 0 <=> b \in Continuation
  <2>1. LengthOfByte(b) \in 0..4 /\ (LengthOfByte(b) > 0 <=> b \notin Continuation)
    BY BasicLength
  <2> QED
    BY <2>1
<1>3. /\ B!int8(159) = -97 /\ B!int8(143) = -113
      /\ B!int8(b) = IF b < 128 THEN b ELSE b - 256
  BY DEF B!int8
<1>4. Overlong(p1, b) <=> TooLow(p1, b)
  BY BasicOverlong
<1>5. OK <=> /\ b \notin BasicCondemned
             /\ OpenAfter(q3, q2, q1) <=> b \in Continuation
             /\ ~TooHigh(p1, b)
             /\ ~TooLow(p1, b)
  BY <1>1, <1>2, <1>4
<1>9. b \in Continuation => (TooHigh(p1, b) <=> \/ p1 = 237 /\ b > 159
                                                \/ p1 = 244 /\ b > 143)
  BY <1>3 DEF TooHigh, Continuation
<1> HIDE DEF OK
<1>6. CASE ~(OpenAfter(q3, q2, q1) <=> b \in Continuation)
  BY <1>5, <1>6, WindowOpen DEF OK
<1>7. CASE OpenAfter(q3, q2, q1) /\ b \in Continuation
  <2>1. CASE q1 >= 192
    <3>1. p1 = q1 /\ ~Demanded(q3, q2)
      BY <2>1 DEF Near, Single, Demanded
    <3>2. WindowOK(q3, q2, q1, b) <=>
            q1 \in Lead2 \cup Lead3 \cup Lead4 /\ b \in SecondBytes(q1)
      BY <2>1, <3>1 DEF WindowOK, PairOK
    <3>3. SecondBytes(q1) = IF q1 = 224 THEN 160..191 ELSE IF q1 = 237 THEN 128..159
                            ELSE IF q1 = 240 THEN 144..191 ELSE IF q1 = 244 THEN 128..143
                            ELSE 128..191
      BY DEF SecondBytes, Continuation
    <3>4. q1 \in Lead2 \cup Lead3 \cup Lead4 <=> q1 \notin {192, 193}
      BY <2>1 DEF Lead2, Lead3, Lead4, BasicCondemned
    <3>5. b \in 128..191 /\ b # 127 /\ b \in 0..255
      BY <1>7 DEF Continuation
    <3>6. b \notin BasicCondemned
      BY <3>5 DEF BasicCondemned
    <3>7. OK <=> ~TooHigh(q1, b) /\ ~TooLow(q1, b)
      BY <1>5, <1>7, <3>1, <3>6
    <3>8. OK <=> /\ ~(q1 = 237 /\ b > 159) /\ ~(q1 = 244 /\ b > 143)
                 /\ q1 \notin {192, 193}
                 /\ ~(q1 = 224 /\ b \in 128..159) /\ ~(q1 = 240 /\ b \in 128..143)
      BY <1>7, <1>9, <3>1, <3>5, <3>7 DEF TooLow
    <3>9. b \in SecondBytes(q1) <=>
            /\ ~(q1 = 237 /\ b > 159) /\ ~(q1 = 244 /\ b > 143)
            /\ ~(q1 = 224 /\ b \in 128..159) /\ ~(q1 = 240 /\ b \in 128..143)
      BY <3>3, <3>5
    <3>a. OK <=> WindowOK(q3, q2, q1, b) /\ b \notin BasicCondemned
      BY <3>2, <3>4, <3>6, <3>8, <3>9
    <3> QED
      BY <3>a DEF OK
  <2>2. CASE q1 < 192
    <3>1. p1 < 192
      BY <2>2 DEF Near
    <3>2. Demanded(q3, q2) /\ q1 \in Continuation
      BY <1>7, <2>2 DEF OpenAfter, Demanded, Single
    <3>3. WindowOK(q3, q2, q1, b) /\ b \notin BasicCondemned
      BY <1>7, <3>2 DEF WindowOK, BasicCondemned, Continuation
    <3>4. ~TooHigh(p1, b) /\ ~TooLow(p1, b)
      BY <3>1 DEF TooHigh, TooLow
    <3> QED
      BY <1>5, <1>7, <3>3, <3>4 DEF OK
  <2> QED
    BY <2>1, <2>2
<1>8. CASE ~OpenAfter(q3, q2, q1) /\ b \notin Continuation
  <2>1. q1 < 192 /\ q2 < 224 /\ q3 < 240 /\ p1 < 192
    BY <1>8 DEF OpenAfter, Near
  <2>2. WindowOK(q3, q2, q1, b)
    <3>1. q3 \in 0..239 /\ q2 \in 0..223 /\ q1 \in 0..191
      BY <2>1
    <3> QED
      BY <1>8, <3>1, QuietWindow
  <2>3. ~TooHigh(p1, b) /\ ~TooLow(p1, b)
    BY <2>1 DEF TooHigh, TooLow
  <2> QED
    BY <1>5, <1>8, <2>2, <2>3 DEF OK
<1> QED
  BY <1>6, <1>7, <1>8
-----------------------------------------------------------------------------
(* Basic, one vector: what the two rounds bring to lane k.                 *)
First(vec, old, k) == IF k >= 1 THEN LengthOfByte(vec[k - 1]) ELSE old[W - 1]

FirstSum(vec, old, k) ==
  LengthOfByte(vec[k]) + B!saturating_sub(First(vec, old, k), 1)

Second(vec, old, k) == IF k >= 2 THEN FirstSum(vec, old, k - 2) ELSE old[W - 2 + k]

Carries(vec, old) == B!carry_continuations(B!initial_lengths(vec), old)

LEMMA Rounds ==
  ASSUME NEW vec \in [Lanes -> 0..255], NEW old \in [Lanes -> Nat]
  PROVE  /\ Carries(vec, old) \in [Lanes -> Nat]
         /\ \A k \in Lanes :
              /\ B!initial_lengths(vec)[k] = LengthOfByte(vec[k])
              /\ LengthOfByte(vec[k]) \in 0..4
              /\ First(vec, old, k) \in Nat
              /\ FirstSum(vec, old, k) \in Nat
              /\ Second(vec, old, k) \in Nat
              /\ Carries(vec, old)[k]
                   = FirstSum(vec, old, k) + B!saturating_sub(Second(vec, old, k), 2)
<1>1. W \in Nat /\ W >= 3 /\ B!Lanes = Lanes
  BY WidthAssumption DEF B!Lanes, Lanes
<1>2. ASSUME NEW k \in Lanes
      PROVE  /\ B!initial_lengths(vec)[k] = LengthOfByte(vec[k])
             /\ LengthOfByte(vec[k]) \in 0..4
  <2>1. vec[k] \in 0..255
    OBVIOUS
  <2> QED
    BY <1>1, <2>1, BasicLength DEF B!initial_lengths
<1>3. \A a \in Nat, b \in Nat : B!saturating_sub(a, b) \in Nat
  BY DEF B!saturating_sub
<1>4. ASSUME NEW k \in Lanes
      PROVE  First(vec, old, k) \in Nat
  <2>1. CASE k >= 1
    <3>1. k - 1 \in Lanes
      BY <1>1, <2>1 DEF Lanes
    <3> QED
      BY <1>2, <2>1, <3>1 DEF First
  <2>2. CASE ~(k >= 1)
    <3>1. W - 1 \in Lanes
      BY <1>1 DEF Lanes
    <3> QED
      BY <2>2, <3>1 DEF First
  <2> QED
    BY <2>1, <2>2
<1>5. ASSUME NEW k \in Lanes
      PROVE  FirstSum(vec, old, k) \in Nat
  <2>1. LengthOfByte(vec[k]) \in Nat
    BY <1>2
  <2>2. B!saturating_sub(First(vec, old, k), 1) \in Nat
    BY <1>4 DEF B!saturating_sub
  <2> QED
    BY <2>1, <2>2 DEF FirstSum
<1>6. ASSUME NEW k \in Lanes
      PROVE  Second(vec, old, k) \in Nat
  <2>1. CASE k >= 2
    <3>1. k - 2 \in Lanes
      BY <1>1, <2>1 DEF Lanes
    <3> QED
      BY <1>5, <2>1, <3>1 DEF Second
  <2>2. CASE ~(k >= 2)
    <3>1. W - 2 + k \in Lanes
      BY <1>1, <2>2 DEF Lanes
    <3> QED
      BY <2>2, <3>1 DEF Second
  <2> QED
    BY <2>1, <2>2
<1> DEFINE lens == B!initial_lengths(vec)
           right1 == B!prev(1, lens, old)
           sum == [k \in Lanes |-> lens[k] + B!saturating_sub(right1[k], 1)]
           right2 == B!prev(2, sum, old)
<1>7. Carries(vec, old) = [k \in Lanes |-> sum[k] + B!saturating_sub(right2[k], 2)]
  BY <1>1 DEF Carries, B!carry_continuations
<1>8. ASSUME NEW k \in Lanes
      PROVE  right1[k] = First(vec, old, k)
  <2>1. right1[k] = IF k >= 1 THEN lens[k - 1] ELSE old[W - 1 + k]
    BY <1>1 DEF B!prev
  <2>2. CASE k >= 1
    <3>1. k - 1 \in Lanes
      BY <1>1, <2>2 DEF Lanes
    <3> QED
      BY <1>2, <2>1, <2>2, <3>1 DEF First
  <2>3. CASE ~(k >= 1)
    <3>1. W - 1 + k = W - 1
      BY <1>1, <2>3 DEF Lanes
    <3> QED
      BY <2>1, <2>3, <3>1 DEF First
  <2> QED
    BY <2>2, <2>3
<1> HIDE DEF right1
<1>9. ASSUME NEW k \in Lanes
      PROVE  sum[k] = FirstSum(vec, old, k)
  BY <1>2, <1>8 DEF FirstSum
<1> HIDE DEF sum
<1>10. ASSUME NEW k \in Lanes
       PROVE  right2[k] = Second(vec, old, k)
  <2>1. right2[k] = IF k >= 2 THEN sum[k - 2] ELSE old[W - 2 + k]
    BY <1>1 DEF B!prev
  <2>2. CASE k >= 2
    <3>1. k - 2 \in Lanes
      BY <1>1, <2>2 DEF Lanes
    <3> QED
      BY <1>9, <2>1, <2>2, <3>1 DEF Second
  <2>3. CASE ~(k >= 2)
    BY <2>1, <2>3 DEF Second
  <2> QED
    BY <2>2, <2>3
<1> HIDE DEF right2
<1>11. ASSUME NEW k \in Lanes
       PROVE  /\ Carries(vec, old)[k]
                   = FirstSum(vec, old, k) + B!saturating_sub(Second(vec, old, k), 2)
              /\ Carries(vec, old)[k] \in Nat
  <2>1. Carries(vec, old)[k]
          = FirstSum(vec, old, k) + B!saturating_sub(Second(vec, old, k), 2)
    BY <1>7, <1>9, <1>10
  <2>2. FirstSum(vec, old, k) \in Nat /\ B!saturating_sub(Second(vec, old, k), 2) \in Nat
    BY <1>3, <1>5, <1>6
  <2> QED
    BY <2>1, <2>2
<1>12. Carries(vec, old) \in [Lanes -> Nat]
  BY <1>7, <1>11
<1> QED
  BY <1>2, <1>4, <1>5, <1>6, <1>11, <1>12

(* While on track, the last counts of a vector speak of the bytes before e. *)
CountsOf(old, s, e) ==
  /\ CountIs(old[W - 1], ByteAt(s, e - 1), ByteAt(s, e - 2), ByteAt(s, e - 3))
  /\ old[W - 2] >= 3 <=> ByteAt(s, e - 2) >= 224 \/ ByteAt(s, e - 3) >= 240
  /\ old[W - 2] <= 4
  /\ \A k \in Lanes : old[k] <= 9

(* The bytes around lane k.                                                *)
LEMMA LaneBytes ==
  ASSUME NEW s \in ByteSeq, NEW e \in Nat, NEW vec, HoldsV(vec, s, e), NEW k \in Lanes
  PROVE  /\ k \in Nat /\ e + k \in Nat
         /\ vec[k] = ByteAt(s, e + k)
         /\ ByteAt(s, e + k) \in 0..255
         /\ ByteAt(s, (e + k) - 1) \in 0..255
         /\ ByteAt(s, (e + k) - 2) \in 0..255
         /\ ByteAt(s, (e + k) - 3) \in 0..255
         /\ k >= 1 => k - 1 \in Lanes /\ vec[k - 1] = ByteAt(s, (e + k) - 1)
         /\ k >= 2 => k - 2 \in Lanes /\ vec[k - 2] = ByteAt(s, (e + k) - 2)
<1>1. W \in Nat /\ W >= 3 /\ k \in Nat /\ k < W
  BY WidthAssumption DEF Lanes
<1>2. \A j \in Lanes : vec[j] = ByteAt(s, e + j)
  BY DEF HoldsV
<1>3. \A j \in Int : ByteAt(s, j) \in 0..255
  BY ByteAtType
<1>4. k >= 1 => k - 1 \in Lanes /\ e + (k - 1) = (e + k) - 1
  BY <1>1 DEF Lanes
<1>5. k >= 2 => k - 2 \in Lanes /\ e + (k - 2) = (e + k) - 2
  BY <1>1 DEF Lanes
<1> QED
  BY <1>1, <1>2, <1>3, <1>4, <1>5

(* The first round, on track.                                              *)
LEMMA FirstRound ==
  ASSUME algorithm \in {"range", "basic", "zwegner"},
         NEW s \in ByteSeq, NEW e \in Nat, NEW vec, HoldsV(vec, s, e),
         NEW old \in [Lanes -> Nat], CountsOf(old, s, e),
         NEW k \in Lanes, Track(s, (e + k) + 1)
  PROVE  SumIs(FirstSum(vec, old, k), ByteAt(s, e + k), ByteAt(s, (e + k) - 1))
<1> DEFINE b == ByteAt(s, e + k)
           p1 == ByteAt(s, (e + k) - 1)
           p2 == ByteAt(s, (e + k) - 2)
           p3 == ByteAt(s, (e + k) - 3)
           right == First(vec, old, k)
<1>1. /\ k \in Nat /\ e + k \in Nat /\ vec[k] = b
      /\ b \in 0..255 /\ p1 \in 0..255 /\ p2 \in 0..255 /\ p3 \in 0..255
      /\ k >= 1 => k - 1 \in Lanes /\ vec[k - 1] = p1
  BY LaneBytes
<1>2. vec \in [Lanes -> 0..255]
  BY DEF HoldsV
<1>3. right \in Nat
  BY <1>2, Rounds
<1>4. WindowOK(p3, p2, p1, b)
  <2>1. Fits(s, e + k)
    BY <1>1, TrackStep
  <2> QED
    BY <2>1 DEF Fits, LocalOK
<1> HIDE DEF b, p1, p2, p3
<1>5. /\ right <= 4 /\ (right >= 4 <=> p1 >= 240)
      /\ ~OpenAfter(p3, p2, p1) => right <= 1
  <2>1. CASE k >= 1
    <3>1. right = LengthOfByte(p1)
      BY <1>1, <2>1 DEF First
    <3>2. LengthOfByte(p1) \in 0..4 /\ (LengthOfByte(p1) >= 2 <=> p1 >= 192)
          /\ (LengthOfByte(p1) >= 4 <=> p1 >= 240)
      BY <1>1, BasicLength
    <3> QED
      BY <3>1, <3>2 DEF OpenAfter
  <2>2. CASE ~(k >= 1)
    <3>1. k = 0 /\ right = old[W - 1]
      BY <1>1, <2>2 DEF First
    <3>2. p1 = ByteAt(s, e - 1) /\ p2 = ByteAt(s, e - 2) /\ p3 = ByteAt(s, e - 3)
      BY <3>1 DEF p1, p2, p3
    <3>3. CountIs(right, p1, p2, p3)
      BY <3>1, <3>2 DEF CountsOf
    <3> QED
      BY <3>3 DEF CountIs, OpenAfter
  <2> QED
    BY <2>1, <2>2
<1> HIDE DEF right
<1>6. SumIs(LengthOfByte(b) + B!saturating_sub(right, 1), b, p1)
  BY <1>1, <1>3, <1>4, <1>5, SumRound
<1> QED
  BY <1>1, <1>6 DEF FirstSum, right, b, p1

(* What the second round brings, on track.                                 *)
LEMMA SecondRound ==
  ASSUME algorithm \in {"range", "basic", "zwegner"},
         NEW s \in ByteSeq, NEW e \in Nat, NEW vec, HoldsV(vec, s, e),
         NEW old \in [Lanes -> Nat], CountsOf(old, s, e),
         NEW k \in Lanes, Track(s, e + k)
  PROVE  /\ Second(vec, old, k) >= 3 <=> \/ ByteAt(s, (e + k) - 2) >= 224
                                        \/ ByteAt(s, (e + k) - 3) >= 240
         /\ k >= 1 => SumIs(Second(vec, old, k),
                            ByteAt(s, (e + k) - 2), ByteAt(s, (e + k) - 3))
<1> DEFINE p2 == ByteAt(s, (e + k) - 2)
           p3 == ByteAt(s, (e + k) - 3)
<1>1. /\ k \in Nat /\ e + k \in Nat
      /\ k >= 2 => k - 2 \in Lanes
  BY LaneBytes
<1>2. CASE k >= 2
  <2>1. PICK j \in Lanes : j = k - 2
    BY <1>1, <1>2
  <2>2. /\ (e + j) + 1 = (e + k) - 1 /\ e + j = (e + k) - 2 /\ (e + j) - 1 = (e + k) - 3
        /\ (e + j) + 1 \in Nat /\ (e + j) + 1 <= e + k
    BY <1>1, <1>2, <2>1
  <2>3. Track(s, (e + j) + 1)
    BY <1>1, <2>2, TrackBefore
  <2>4. SumIs(FirstSum(vec, old, j), ByteAt(s, e + j), ByteAt(s, (e + j) - 1))
    BY <2>3, FirstRound
  <2>5. SumIs(Second(vec, old, k), p2, p3)
    BY <1>2, <2>1, <2>2, <2>4 DEF Second
  <2> QED
    BY <2>5 DEF SumIs
<1>3. CASE k = 1
  <2>1. Second(vec, old, k) = old[W - 1]
    <3>1. W - 2 + k = W - 1 /\ ~(k >= 2)
      BY <1>3, WidthAssumption
    <3> QED
      BY <3>1 DEF Second
  <2>2. (e + k) - 2 = e - 1 /\ (e + k) - 3 = e - 2
    BY <1>3
  <2>3. CountIs(old[W - 1], p2, p3, ByteAt(s, e - 3))
    BY <2>2 DEF CountsOf
  <2>4. SumIs(Second(vec, old, k), p2, p3)
    BY <2>1, <2>3 DEF CountIs, SumIs
  <2> QED
    BY <2>4 DEF SumIs
<1>4. CASE k = 0
  <2>1. Second(vec, old, k) = old[W - 2]
    <3>1. W - 2 + k = W - 2 /\ ~(k >= 2)
      BY <1>4, WidthAssumption
    <3> QED
      BY <3>1 DEF Second
  <2>2. (e + k) - 2 = e - 2 /\ (e + k) - 3 = e - 3
    BY <1>4
  <2> QED
    BY <1>4, <2>1, <2>2 DEF CountsOf
<1> QED
  BY <1>1, <1>2, <1>3, <1>4

(* A lane counts more than its own length exactly when it must be a        *)
(* continuation.                                                           *)
LEMMA ExcessIsOpen ==
  ASSUME algorithm \in {"range", "basic", "zwegner"},
         NEW s \in ByteSeq, NEW e \in Nat, NEW vec, HoldsV(vec, s, e),
         NEW old \in [Lanes -> Nat], CountsOf(old, s, e),
         NEW k \in Lanes, Track(s, e + k)
  PROVE  Carries(vec, old)[k] > LengthOfByte(vec[k])
           <=> OpenAfter(ByteAt(s, (e + k) - 3), ByteAt(s, (e + k) - 2),
                         ByteAt(s, (e + k) - 1))
<1> DEFINE p1 == ByteAt(s, (e + k) - 1)
           p2 == ByteAt(s, (e + k) - 2)
           p3 == ByteAt(s, (e + k) - 3)
           l == LengthOfByte(vec[k])
           r1 == First(vec, old, k)
           r2 == Second(vec, old, k)
<1>1. /\ k \in Nat /\ e + k \in Nat
      /\ p1 \in 0..255 /\ p2 \in 0..255 /\ p3 \in 0..255
      /\ k >= 1 => k - 1 \in Lanes /\ vec[k - 1] = p1
  BY LaneBytes
<1>2. vec \in [Lanes -> 0..255]
  BY DEF HoldsV
<1>3. /\ l \in Nat /\ r1 \in Nat /\ r2 \in Nat
      /\ Carries(vec, old)[k] = (l + B!saturating_sub(r1, 1)) + B!saturating_sub(r2, 2)
  <2>1. /\ LengthOfByte(vec[k]) \in 0..4
        /\ First(vec, old, k) \in Nat
        /\ Second(vec, old, k) \in Nat
        /\ Carries(vec, old)[k]
             = FirstSum(vec, old, k) + B!saturating_sub(Second(vec, old, k), 2)
    BY <1>2, Rounds
  <2> QED
    BY <2>1 DEF FirstSum
<1>4. r2 >= 3 <=> p2 >= 224 \/ p3 >= 240
  BY SecondRound
<1>5. r1 >= 2 \/ r2 >= 3 <=> OpenAfter(p3, p2, p1)
  <2>1. CASE k >= 1
    <3>1. r1 = LengthOfByte(p1)
      BY <1>1, <2>1 DEF First
    <3>2. LengthOfByte(p1) >= 2 <=> p1 >= 192
      <4> HIDE DEF p1
      <4> QED
        BY <1>1, BasicLength
    <3> QED
      BY <1>4, <3>1, <3>2 DEF OpenAfter
  <2>2. CASE ~(k >= 1)
    <3>1. k = 0 /\ r1 = old[W - 1]
      BY <1>1, <2>2 DEF First
    <3>2. p1 = ByteAt(s, e - 1) /\ p2 = ByteAt(s, e - 2) /\ p3 = ByteAt(s, e - 3)
      BY <3>1
    <3>3. CountIs(r1, p1, p2, p3)
      BY <3>1, <3>2 DEF CountsOf
    <3> HIDE DEF p1, p2, p3, r1, r2
    <3> QED
      BY <1>4, <3>3 DEF CountIs, OpenAfter
  <2> QED
    BY <2>1, <2>2
<1> HIDE DEF l, r1, r2
<1>6. (l + B!saturating_sub(r1, 1)) + B!saturating_sub(r2, 2) > l <=> r1 >= 2 \/ r2 >= 3
  BY <1>3, Excess
<1> QED
  BY <1>3, <1>5, <1>6 DEF l

(* What a lane counts, on track.                                           *)
LEMMA CountAt ==
  ASSUME algorithm \in {"range", "basic", "zwegner"},
         NEW s \in ByteSeq, NEW e \in Nat, NEW vec, HoldsV(vec, s, e),
         NEW old \in [Lanes -> Nat], CountsOf(old, s, e),
         NEW k \in Lanes, k >= 1, Track(s, (e + k) + 1)
  PROVE  CountIs(Carries(vec, old)[k], ByteAt(s, e + k),
                 ByteAt(s, (e + k) - 1), ByteAt(s, (e + k) - 2))
<1> DEFINE b == ByteAt(s, e + k)
           p1 == ByteAt(s, (e + k) - 1)
           p2 == ByteAt(s, (e + k) - 2)
           p3 == ByteAt(s, (e + k) - 3)
           r == Second(vec, old, k)
<1>1. /\ k \in Nat /\ e + k \in Nat /\ vec[k] = b
      /\ b \in 0..255 /\ p1 \in 0..255 /\ p2 \in 0..255 /\ p3 \in 0..255
      /\ vec[k - 1] = p1
  BY LaneBytes
<1>4. Track(s, e + k) /\ Fits(s, e + k)
  BY <1>1, TrackStep
<1>5. WindowOK(p3, p2, p1, b) /\ Single(p3, p2, p1)
  BY <1>1, <1>4, SingleBehind DEF Fits, LocalOK, Track
<1>6. SumIs(r, p2, p3)
  BY <1>4, SecondRound
<1>7. vec \in [Lanes -> 0..255]
  BY DEF HoldsV
<1>8. /\ Second(vec, old, k) \in Nat
      /\ Carries(vec, old)[k]
           = FirstSum(vec, old, k) + B!saturating_sub(Second(vec, old, k), 2)
  BY <1>7, Rounds
<1>9. FirstSum(vec, old, k) = LengthOfByte(b) + B!saturating_sub(LengthOfByte(p1), 1)
  BY <1>1 DEF FirstSum, First
<1> HIDE DEF b, p1, p2, p3
<1>10. CountIs((LengthOfByte(b) + B!saturating_sub(LengthOfByte(p1), 1))
                 + B!saturating_sub(r, 2), b, p1, p2)
  BY <1>1, <1>5, <1>6, <1>8, CarryRound
<1> QED
  BY <1>8, <1>9, <1>10 DEF b, p1, p2

(* What the last lanes count, and that no lane counts far, if all are on   *)
(* track.                                                                  *)
LEMMA CountsAfter ==
  ASSUME algorithm \in {"range", "basic", "zwegner"},
         NEW s \in ByteSeq, NEW e \in Nat, NEW vec, HoldsV(vec, s, e),
         NEW old \in [Lanes -> Nat], CountsOf(old, s, e), Track(s, e + W)
  PROVE  CountsOf(Carries(vec, old), s, e + W)
<1>1. W \in Nat /\ W >= 3
  BY WidthAssumption
<1>2. ASSUME NEW k \in Lanes
      PROVE  k \in Nat /\ Track(s, (e + k) + 1)
  <2>1. k \in Nat /\ (e + k) + 1 \in Nat /\ (e + k) + 1 <= e + W /\ e + W \in Nat
    BY <1>1 DEF Lanes
  <2> QED
    BY <2>1, TrackBefore
<1>3. ASSUME NEW k \in Lanes, k >= 1
      PROVE  CountIs(Carries(vec, old)[k], ByteAt(s, e + k),
                     ByteAt(s, (e + k) - 1), ByteAt(s, (e + k) - 2))
  BY <1>2, <1>3, CountAt
<1>4. /\ W - 1 \in Lanes /\ W - 1 >= 1 /\ e + (W - 1) = (e + W) - 1
      /\ (e + (W - 1)) - 1 = (e + W) - 2 /\ (e + (W - 1)) - 2 = (e + W) - 3
      /\ W - 2 \in Lanes /\ W - 2 >= 1 /\ e + (W - 2) = (e + W) - 2
      /\ (e + (W - 2)) - 1 = (e + W) - 3
  BY <1>1 DEF Lanes
<1>5. CountIs(Carries(vec, old)[W - 1], ByteAt(s, (e + W) - 1),
              ByteAt(s, (e + W) - 2), ByteAt(s, (e + W) - 3))
  BY <1>3, <1>4
<1>6. CountIs(Carries(vec, old)[W - 2], ByteAt(s, (e + W) - 2),
              ByteAt(s, (e + W) - 3), ByteAt(s, (e + (W - 2)) - 2))
  BY <1>3, <1>4
<1>7. ASSUME NEW k \in Lanes
      PROVE  Carries(vec, old)[k] <= 9
  <2>1. CASE k >= 1
    BY <1>3, <2>1 DEF CountIs
  <2>2. CASE ~(k >= 1)
    <3>1. k = 0
      BY <1>2, <2>2
    <3>2. SumIs(FirstSum(vec, old, k), ByteAt(s, e + k), ByteAt(s, (e + k) - 1))
      BY <1>2, FirstRound
    <3>3. W - 2 + k = W - 2 /\ ~(k >= 2)
      BY <1>1, <3>1
    <3>4. Second(vec, old, k) = old[W - 2] /\ old[W - 2] \in Nat /\ old[W - 2] <= 4
      BY <1>4, <3>3 DEF Second, CountsOf
    <3>5. vec \in [Lanes -> 0..255]
      BY DEF HoldsV
    <3>6. Carries(vec, old)[k]
            = FirstSum(vec, old, k) + B!saturating_sub(Second(vec, old, k), 2)
      BY <3>5, Rounds
    <3>7. FirstSum(vec, old, k) \in Nat /\ FirstSum(vec, old, k) <= 4
      BY <3>2 DEF SumIs
    <3>8. /\ B!saturating_sub(Second(vec, old, k), 2) \in Nat
          /\ B!saturating_sub(Second(vec, old, k), 2) <= 2
      BY <3>4 DEF B!saturating_sub
    <3> QED
      BY <3>6, <3>7, <3>8
  <2> QED
    BY <2>1, <2>2
<1> QED
  BY <1>5, <1>6, <1>7 DEF CountsOf, CountIs

(* A lane never counts much, whatever the bytes.                           *)
BoundsOf(old) == W >= 5 => /\ old[W - 1] <= 12
                           /\ old[W - 2] <= 12
                           /\ \A k \in Lanes : old[k] <= 31

LEMMA BoundsAfter ==
  ASSUME NEW vec \in [Lanes -> 0..255], NEW old \in [Lanes -> Nat], BoundsOf(old)
  PROVE  BoundsOf(Carries(vec, old))
<1> SUFFICES ASSUME W >= 5
             PROVE  /\ Carries(vec, old)[W - 1] <= 12
                    /\ Carries(vec, old)[W - 2] <= 12
                    /\ \A k \in Lanes : Carries(vec, old)[k] <= 31
  BY DEF BoundsOf
<1>1. W \in Nat /\ W - 1 \in Lanes /\ W - 2 \in Lanes
      /\ old[W - 1] \in 0..12 /\ old[W - 2] \in 0..12
  <2>1. W \in Nat /\ W - 1 \in Lanes /\ W - 2 \in Lanes
    BY WidthAssumption DEF Lanes
  <2>2. old[W - 1] \in Nat /\ old[W - 2] \in Nat
    BY <2>1
  <2>3. old[W - 1] <= 12 /\ old[W - 2] <= 12
    BY DEF BoundsOf
  <2> QED
    BY <2>1, <2>2, <2>3
<1>2. ASSUME NEW k \in Lanes
      PROVE  LengthOfByte(vec[k]) \in 0..4
  <2>1. vec[k] \in 0..255
    OBVIOUS
  <2> QED
    BY <2>1, BasicLength
<1>3. ASSUME NEW k \in Lanes
      PROVE  k \in Nat /\ FirstSum(vec, old, k) \in 0..15
             /\ (k >= 1 => FirstSum(vec, old, k) \in 0..7)
  <2>1. k \in Nat
    BY <1>1 DEF Lanes
  <2>2. CASE k >= 1
    <3>1. k - 1 \in Lanes
      BY <1>1, <2>2 DEF Lanes
    <3>2. First(vec, old, k) \in 0..4
      BY <1>2, <2>2, <3>1 DEF First
    <3>3. B!saturating_sub(First(vec, old, k), 1) \in 0..3
      BY <3>2 DEF B!saturating_sub
    <3> QED
      BY <1>2, <2>1, <3>3 DEF FirstSum
  <2>3. CASE ~(k >= 1)
    <3>1. First(vec, old, k) \in 0..12
      BY <1>1, <2>3 DEF First
    <3>2. B!saturating_sub(First(vec, old, k), 1) \in 0..11
      BY <3>1 DEF B!saturating_sub
    <3> QED
      BY <1>2, <2>1, <2>3, <3>2 DEF FirstSum
  <2> QED
    BY <2>2, <2>3
<1>4. ASSUME NEW k \in Lanes
      PROVE  Second(vec, old, k) \in 0..15 /\ (k >= 3 => Second(vec, old, k) \in 0..7)
  <2>1. CASE k >= 2
    <3>1. k - 2 \in Lanes /\ (k >= 3 => k - 2 >= 1)
      BY <1>1, <2>1 DEF Lanes
    <3> QED
      BY <1>3, <2>1, <3>1 DEF Second
  <2>2. CASE ~(k >= 2)
    <3>1. W - 2 + k = W - 2 \/ W - 2 + k = W - 1
      BY <1>1, <1>3, <2>2
    <3> QED
      BY <1>1, <1>3, <2>2, <3>1 DEF Second
  <2> QED
    BY <2>1, <2>2
<1>5. ASSUME NEW k \in Lanes
      PROVE  Carries(vec, old)[k] \in 0..31 /\ (k >= 3 => Carries(vec, old)[k] \in 0..12)
  <2>1. Carries(vec, old)[k]
          = FirstSum(vec, old, k) + B!saturating_sub(Second(vec, old, k), 2)
    BY Rounds
  <2>2. /\ B!saturating_sub(Second(vec, old, k), 2) \in 0..13
        /\ k >= 3 => B!saturating_sub(Second(vec, old, k), 2) \in 0..5
    BY <1>4 DEF B!saturating_sub
  <2>3. k \in Nat /\ FirstSum(vec, old, k) \in 0..15
        /\ (k >= 1 => FirstSum(vec, old, k) \in 0..7)
    BY <1>3
  <2> QED
    BY <2>1, <2>2, <2>3
<1>6. W - 1 >= 3 /\ W - 2 >= 3
  BY <1>1
<1> QED
  BY <1>1, <1>5, <1>6

(* The errors of a vector.                                                 *)
LEMMA BasicVector ==
  ASSUME algorithm = "basic",
         NEW s \in ByteSeq, NEW e \in Nat, NEW vec, NEW pb,
         Track(s, e), HoldsV(vec, s, e), Current(pb.raw_bytes, s, e),
         pb.carried_continuations \in [Lanes -> Nat],
         CountsOf(pb.carried_continuations, s, e)
  PROVE  B!check_utf8_bytes(vec, pb) = {} <=> Track(s, e + W)
<1> DEFINE E == B!check_utf8_bytes(vec, pb)
           raw == pb.raw_bytes
           old == pb.carried_continuations
           lens == B!initial_lengths(vec)
           off1 == B!prev(1, vec, raw)
<1>1. W \in Nat /\ W >= 3 /\ B!Lanes = Lanes
  BY WidthAssumption DEF B!Lanes, Lanes
<1>2. vec \in [Lanes -> 0..255] /\ raw \in [Lanes -> 0..255]
  BY DEF HoldsV, Current
<1>3. E = B!check_smaller_than_0xF4(vec) \cup B!check_continuations(lens, Carries(vec, old))
          \cup B!check_first_continuation_max(vec, off1) \cup B!check_overlong(vec, off1)
  BY DEF B!check_utf8_bytes, B!processed, Carries
<1>4. ASSUME NEW k \in Lanes
      PROVE  off1[k] = Back(vec, raw, 1, k)
  <2>1. CASE k >= 1
    BY <1>1, <2>1 DEF B!prev, Back
  <2>2. CASE ~(k >= 1)
    BY <1>1, <2>2 DEF B!prev, Back
  <2> QED
    BY <2>1, <2>2
<1> HIDE DEF lens, off1
<1>5. ASSUME NEW k \in Lanes, Track(s, e + k)
      PROVE  k \in E <=> ~Fits(s, e + k)
  <2> DEFINE p(n) == Back(vec, raw, n, k)
             q(n) == ByteAt(s, (e + k) - n)
             b == vec[k]
             car == Carries(vec, old)
  <2>1. k \in Nat /\ e + k \in Nat
    BY <1>1 DEF Lanes
  <2>2. /\ b = ByteAt(s, e + k)
        /\ \A n \in 1..3 : p(n) \in 0..255
        /\ Near(p(3), p(2), p(1), q(3), q(2), q(1))
    BY BackBytes
  <2>3. q(3) \in 0..255 /\ q(2) \in 0..255 /\ q(1) \in 0..255 /\ b \in 0..255
    BY <1>2, <2>1, ByteAtType
  <2>4. Single(q(3), q(2), q(1))
    BY <1>5, <2>1, SingleBehind DEF Track
  <2>5. BasicCondemned = Condemned
    BY DEF BasicCondemned, Condemned
  <2>6. q(1) \notin BasicCondemned
    <3>1. CASE e + k > 0
      BY <1>5, <2>5, <3>1 DEF Track
    <3>2. CASE e + k = 0
      <4>1. q(1) = 0
        BY <3>2 DEF ByteAt
      <4> QED
        BY <4>1 DEF BasicCondemned
    <3> QED
      BY <2>1, <3>1, <3>2
  <2>7. p(3) \in 0..255 /\ p(2) \in 0..255 /\ p(1) \in 0..255
    BY <2>2
  <2>8. lens[k] = LengthOfByte(b) /\ LengthOfByte(b) \in 0..4
    BY <1>2, Rounds DEF lens
  <2>9. car[k] > LengthOfByte(b) <=> OpenAfter(q(3), q(2), q(1))
    BY <1>5, ExcessIsOpen
  <2>10. off1[k] = p(1)
    BY <1>4
  <2> HIDE DEF p, q, b, car
  <2>11. k \in B!check_smaller_than_0xF4(vec) <=> ~(B!saturating_sub(b, 244) = 0)
    BY <1>1 DEF B!check_smaller_than_0xF4, b
  <2>12. k \in B!check_continuations(lens, car)
          <=> ~(OpenAfter(q(3), q(2), q(1)) <=> LengthOfByte(b) = 0)
    <3>1. k \in B!check_continuations(lens, car) <=>
            (car[k] > lens[k] <=> lens[k] > 0)
      BY <1>1 DEF B!check_continuations
    <3>2. lens[k] > 0 <=> ~(LengthOfByte(b) = 0)
      BY <2>8
    <3>3. car[k] > lens[k] <=> OpenAfter(q(3), q(2), q(1))
      BY <2>8, <2>9
    <3> QED
      BY <3>1, <3>2, <3>3
  <2>13. k \in B!check_first_continuation_max(vec, off1) <=> TooHigh(p(1), b)
    BY <1>1, <2>10 DEF B!check_first_continuation_max, TooHigh, b
  <2>14. k \in B!check_overlong(vec, off1) <=> Overlong(p(1), b)
    BY <1>1, <2>10 DEF B!check_overlong, Overlong, b
  <2>15. (/\ B!saturating_sub(b, 244) = 0
          /\ OpenAfter(q(3), q(2), q(1)) <=> LengthOfByte(b) = 0
          /\ ~TooHigh(p(1), b)
          /\ ~Overlong(p(1), b))
         <=> WindowOK(q(3), q(2), q(1), b) /\ b \notin BasicCondemned
    <3>1. PICK p3, p2, p1, q3, q2, q1, x :
            p3 = p(3) /\ p2 = p(2) /\ p1 = p(1) /\ q3 = q(3) /\ q2 = q(2) /\ q1 = q(1)
              /\ x = b
      OBVIOUS
    <3>2. /\ p3 \in 0..255 /\ p2 \in 0..255 /\ p1 \in 0..255
          /\ q3 \in 0..255 /\ q2 \in 0..255 /\ q1 \in 0..255 /\ x \in 0..255
          /\ Near(p3, p2, p1, q3, q2, q1) /\ Single(q3, q2, q1) /\ q1 \notin BasicCondemned
      BY <2>2, <2>3, <2>4, <2>6, <2>7, <3>1
    <3>3. (/\ B!saturating_sub(x, 244) = 0
           /\ OpenAfter(q3, q2, q1) <=> LengthOfByte(x) = 0
           /\ ~TooHigh(p1, x)
           /\ ~Overlong(p1, x))
          <=> WindowOK(q3, q2, q1, x) /\ x \notin BasicCondemned
      BY <3>2, BasicLane, ZenonT(40)
    <3> QED
      BY <3>1, <3>3
  <2>16. k \in E <=> ~(WindowOK(q(3), q(2), q(1), b) /\ b \notin BasicCondemned)
    BY <1>3, <2>11, <2>12, <2>13, <2>14, <2>15 DEF car
  <2> QED
    BY <2>2, <2>5, <2>16 DEF Fits, LocalOK, q
<1>6. E \subseteq Lanes
  BY <1>1, <1>3 DEF B!check_smaller_than_0xF4, B!check_continuations,
                    B!check_first_continuation_max, B!check_overlong
<1> HIDE DEF E
<1>7. E = {} <=> Track(s, e + W)
  BY <1>5, <1>6, FirstLane
<1> QED
  BY <1>7 DEF E
-----------------------------------------------------------------------------
(* Basic, one block.                                                       *)
PrevState(p) ==
  /\ p = [raw_bytes |-> p.raw_bytes, carried_continuations |-> p.carried_continuations]
  /\ p.raw_bytes \in [Lanes -> 0..255]
  /\ p.carried_continuations \in [Lanes -> Nat]
  /\ BoundsOf(p.carried_continuations)

PrevContext(p, s, e) ==
  Current(p.raw_bytes, s, e) /\ CountsOf(p.carried_continuations, s, e)

BasicState(c) ==
  /\ c = [has_error |-> c.has_error, previous |-> c.previous]
  /\ c.has_error \subseteq Lanes
  /\ PrevState(c.previous)

BasicContext(c, s, e) == PrevContext(c.previous, s, e)

(* What a vector leaves to the next one.                                   *)
LEMMA BasicProcessed ==
  ASSUME algorithm = "basic", NEW s \in ByteSeq, NEW e \in Nat, NEW vec, NEW pb,
         HoldsV(vec, s, e), PrevState(pb)
  PROVE  /\ PrevState(B!processed(vec, pb))
         /\ PrevContext(pb, s, e) /\ Track(s, e + W)
              => PrevContext(B!processed(vec, pb), s, e + W)
<1> DEFINE old == pb.carried_continuations
           d == B!processed(vec, pb)
<1>1. d = [raw_bytes |-> vec, carried_continuations |-> Carries(vec, old)]
  BY DEF B!processed, Carries
<1>2. vec \in [Lanes -> 0..255] /\ old \in [Lanes -> Nat] /\ BoundsOf(old)
  BY DEF HoldsV, PrevState
<1>3. Carries(vec, old) \in [Lanes -> Nat]
  BY <1>2, Rounds
<1>4. BoundsOf(Carries(vec, old))
  BY <1>2, BoundsAfter
<1>5. d.raw_bytes = vec /\ d.carried_continuations = Carries(vec, old)
  BY <1>1
<1>6. PrevState(d)
  BY <1>1, <1>2, <1>3, <1>4, <1>5 DEF PrevState
<1>7. ASSUME PrevContext(pb, s, e), Track(s, e + W)
      PROVE  PrevContext(d, s, e + W)
  <2>1. CountsOf(Carries(vec, old), s, e + W)
    BY <1>2, <1>7, CountsAfter DEF PrevContext
  <2>2. Current(vec, s, e + W)
    BY TailIsCurrent
  <2> QED
    BY <1>5, <2>1, <2>2 DEF PrevContext
<1> QED
  BY <1>6, <1>7

(* The recursive functions of check_next_input exist: what each vector     *)
(* leaves to the next one.                                                 *)
Leaves(vec, x) ==
  IF algorithm = "zwegner" THEN Z!check_chunk(vec, x) ELSE B!processed(vec, x)

SeenStep(f, v, first, i) == IF i = 0 THEN first ELSE Leaves(v[i - 1], f[i - 1])

HasSeen(v, first, n) == \E f : f = [i \in 0..n |-> SeenStep(f, v, first, i)]

LEMMA SeenExists ==
  ASSUME NEW v, NEW first, NEW N \in Nat
  PROVE  HasSeen(v, first, N)
<1> DEFINE Has(n) == \E f : f = [i \in 0..n |-> SeenStep(f, v, first, i)]
           T == {n \in Nat : ~Has(n)}
<1>1. Has(0)
  <2>1. [i \in 0..0 |-> first]
          = [i \in 0..0 |-> SeenStep([j \in 0..0 |-> first], v, first, i)]
    BY DEF SeenStep
  <2> QED
    BY <2>1
<1>2. ASSUME NEW n \in Nat, Has(n)
      PROVE  Has(n + 1)
  <2>1. PICK f : f = [i \in 0..n |-> SeenStep(f, v, first, i)]
    BY <1>2
  <2> DEFINE g == [i \in 0..(n + 1) |-> IF i = n + 1 THEN Leaves(v[n], f[n]) ELSE f[i]]
  <2>2. ASSUME NEW i \in 0..(n + 1)
        PROVE  g[i] = SeenStep(g, v, first, i)
    <3>1. CASE i = 0
      <4>1. i # n + 1 /\ i \in 0..n
        BY <3>1
      <4>2. f[i] = SeenStep(f, v, first, i)
        BY <2>1, <4>1
      <4> QED
        BY <3>1, <4>1, <4>2 DEF SeenStep
    <3>2. CASE i # 0 /\ i # n + 1
      <4>1. i \in 0..n /\ i - 1 \in 0..n /\ i - 1 \in 0..(n + 1) /\ i - 1 # n + 1
        BY <3>2
      <4>2. f[i] = SeenStep(f, v, first, i)
        BY <2>1, <4>1
      <4>3. g[i] = f[i] /\ g[i - 1] = f[i - 1]
        BY <3>2, <4>1
      <4> QED
        BY <3>2, <4>2, <4>3 DEF SeenStep
    <3>3. CASE i = n + 1
      <4>1. i # 0 /\ i - 1 = n /\ n \in 0..(n + 1) /\ n # n + 1
        BY <3>3
      <4>2. g[i] = Leaves(v[n], f[n]) /\ g[n] = f[n]
        BY <3>3, <4>1
      <4> QED
        BY <4>1, <4>2 DEF SeenStep
    <3> QED
      BY <3>1, <3>2, <3>3
  <2>3. g = [i \in 0..(n + 1) |-> g[i]]
    OBVIOUS
  <2> HIDE DEF g
  <2>4. g = [i \in 0..(n + 1) |-> SeenStep(g, v, first, i)]
    BY <2>2, <2>3
  <2> QED
    BY <2>4
<1>3. T = {}
  <2> SUFFICES ASSUME T # {} PROVE FALSE
    OBVIOUS
  <2>1. T \in SUBSET Nat
    OBVIOUS
  <2>2. PICK d \in T : \A k \in T : d <= k
    BY <2>1, LeastOf
  <2>3. d \in Nat /\ ~Has(d)
    OBVIOUS
  <2>4. d # 0
    BY <1>1, <2>3
  <2>5. d - 1 \in Nat /\ d - 1 \notin T /\ (d - 1) + 1 = d
    BY <2>2, <2>3, <2>4
  <2>6. Has(d - 1)
    BY <2>5
  <2>7. Has((d - 1) + 1)
    <3> HIDE DEF Has
    <3> QED
      BY <1>2, <2>5, <2>6
  <2> QED
    BY <2>3, <2>5, <2>7
<1> QED
  BY <1>3 DEF HasSeen

(* The vectors seen on the way.                                            *)
LEMMA SeenAll ==
  ASSUME algorithm = "basic", NEW s \in ByteSeq, NEW e \in Nat,
         NEW block, Holds(block, s, e), NEW first, PrevState(first), NEW f,
         f = [i \in 0..NUM_CHUNKS |-> SeenStep(f, chunks(block), first, i)]
  PROVE  \A i \in 0..NUM_CHUNKS :
           /\ PrevState(f[i])
           /\ PrevContext(first, s, e) /\ Track(s, e + i * W)
                => PrevContext(f[i], s, e + i * W)
<1> DEFINE P(i) == /\ PrevState(f[i])
                   /\ PrevContext(first, s, e) /\ Track(s, e + i * W)
                        => PrevContext(f[i], s, e + i * W)
           T == {i \in 0..NUM_CHUNKS : ~P(i)}
<1>1. W \in Nat /\ NUM_CHUNKS \in Nat
      /\ \A i \in 0..NUM_CHUNKS : i * W \in Nat /\ (i + 1) * W = i * W + W
  BY VectorPositions
<1>2. ASSUME NEW i \in 0..NUM_CHUNKS
      PROVE  f[i] = SeenStep(f, chunks(block), first, i)
  OBVIOUS
<1>3. P(0)
  <2>1. f[0] = first
    BY <1>1, <1>2 DEF SeenStep
  <2>2. e + 0 * W = e
    BY <1>1
  <2> QED
    BY <2>1, <2>2
<1>4. ASSUME NEW i \in 0..(NUM_CHUNKS - 1), P(i)
      PROVE  P(i + 1)
  <2>1. i \in 0..NUM_CHUNKS /\ i + 1 \in 0..NUM_CHUNKS /\ (i + 1) - 1 = i /\ i + 1 # 0
    BY <1>1
  <2>2. f[i + 1] = B!processed(chunks(block)[i], f[i])
    BY <1>2, <2>1 DEF SeenStep, Leaves
  <2>3. PICK g \in Nat : g = e + i * W
    BY <1>1, <2>1
  <2>4. g + W = e + (i + 1) * W /\ g <= g + W /\ g + W \in Nat
    BY <1>1, <2>1, <2>3
  <2>5. HoldsV(chunks(block)[i], s, g)
    BY <2>3, VectorHolds
  <2>6. PrevState(f[i])
    BY <1>4
  <2>7. /\ PrevState(B!processed(chunks(block)[i], f[i]))
        /\ PrevContext(f[i], s, g) /\ Track(s, g + W)
             => PrevContext(B!processed(chunks(block)[i], f[i]), s, g + W)
    BY <2>5, <2>6, BasicProcessed
  <2>8. Track(s, g + W) => Track(s, g)
    BY <2>4, TrackBefore
  <2>9. PrevContext(first, s, e) /\ Track(s, g) => PrevContext(f[i], s, g)
    BY <1>4, <2>3
  <2>10. PrevContext(first, s, e) /\ Track(s, g + W) => PrevContext(f[i + 1], s, g + W)
    BY <2>2, <2>7, <2>8, <2>9
  <2> QED
    BY <2>2, <2>4, <2>7, <2>10
<1>5. T = {}
  <2> SUFFICES ASSUME T # {} PROVE FALSE
    OBVIOUS
  <2>1. T \in SUBSET Nat
    BY <1>1
  <2>2. PICK d \in T : \A k \in T : d <= k
    BY <2>1, LeastOf
  <2>3. d \in 0..NUM_CHUNKS /\ ~P(d)
    OBVIOUS
  <2>4. d # 0
    BY <1>3, <2>3
  <2>5. d - 1 \in 0..(NUM_CHUNKS - 1) /\ d - 1 \in 0..NUM_CHUNKS /\ ~(d <= d - 1)
        /\ (d - 1) + 1 = d
    BY <1>1, <2>3, <2>4
  <2>6. P(d - 1)
    BY <2>2, <2>5
  <2>7. P((d - 1) + 1)
    <3> HIDE DEF P
    <3> QED
      BY <1>4, <2>5, <2>6
  <2> QED
    BY <2>3, <2>5, <2>7
<1> QED
  BY <1>5

(* Basic, a block of ASCII: the error of the fast path.                    *)
LEMMA BasicCarried ==
  ASSUME NEW c, NEW s \in ByteSeq, NEW e \in Nat,
         c.previous.carried_continuations \in [Lanes -> Nat]
  PROVE  /\ B!check_carried_continuations(c) \subseteq Lanes
         /\ CountsOf(c.previous.carried_continuations, s, e)
              => (B!check_carried_continuations(c) = {} <=> ~Open(s, e))
<1> DEFINE old == c.previous.carried_continuations
<1>1. W \in Nat /\ W >= 3 /\ B!Lanes = Lanes /\ W - 1 \in Lanes
  BY WidthAssumption DEF B!Lanes, Lanes
<1>2. B!check_carried_continuations(c) = {k \in Lanes : old[k] > B!last_1[k]}
  BY <1>1 DEF B!check_carried_continuations
<1>3. ASSUME NEW k \in Lanes
      PROVE  B!last_1[k] = IF k = W - 1 THEN 1 ELSE 9
  BY <1>1 DEF B!last_1
<1>4. ASSUME CountsOf(old, s, e)
      PROVE  B!check_carried_continuations(c) = {} <=> ~Open(s, e)
  <2>1. \A k \in Lanes : old[k] \in Nat /\ old[k] <= 9
    BY <1>4 DEF CountsOf
  <2>2. old[W - 1] > 1 <=> Open(s, e)
    <3>1. old[W - 1] \in Nat
      BY <1>1, <2>1
    <3>2. old[W - 1] >= 2 <=> \/ ByteAt(s, e - 1) >= 192
                              \/ ByteAt(s, e - 2) >= 224
                              \/ ByteAt(s, e - 3) >= 240
      BY <1>4 DEF CountsOf, CountIs
    <3> QED
      BY <3>1, <3>2 DEF Open
  <2> HIDE DEF old
  <2>3. ASSUME NEW k \in Lanes, old[k] > B!last_1[k]
        PROVE  Open(s, e)
    <3>1. k = W - 1
      BY <1>3, <2>1, <2>3
    <3> QED
      BY <1>3, <2>2, <2>3, <3>1
  <2>4. ASSUME Open(s, e)
        PROVE  old[W - 1] > B!last_1[W - 1]
    BY <1>1, <1>3, <2>2, <2>4
  <2> QED
    BY <1>1, <1>2, <2>3, <2>4
<1> QED
  BY <1>2, <1>4

(* CountsOf speaks only of what the last bytes open.                       *)
LEMMA CountsQuiet ==
  ASSUME NEW s \in ByteSeq, NEW e \in Nat, NEW d \in Nat, NEW old,
         CountsOf(old, s, e), ~Open(s, e), ~Open(s, d)
  PROVE  CountsOf(old, s, d)
<1>1. /\ ByteAt(s, e - 1) \in 0..255 /\ ByteAt(s, e - 2) \in 0..255
      /\ ByteAt(s, e - 3) \in 0..255 /\ ByteAt(s, d - 1) \in 0..255
      /\ ByteAt(s, d - 2) \in 0..255 /\ ByteAt(s, d - 3) \in 0..255
  BY ByteAtType
<1>2. /\ ByteAt(s, e - 1) < 192 /\ ByteAt(s, e - 2) < 224 /\ ByteAt(s, e - 3) < 240
      /\ ByteAt(s, d - 1) < 192 /\ ByteAt(s, d - 2) < 224 /\ ByteAt(s, d - 3) < 240
  BY <1>1 DEF Open
<1>3. /\ ~(ByteAt(s, e - 1) >= 224) /\ ~(ByteAt(s, e - 1) >= 240)
      /\ ~(ByteAt(s, e - 2) >= 240) /\ ~(ByteAt(s, e - 1) >= 192)
      /\ ~(ByteAt(s, e - 2) >= 224) /\ ~(ByteAt(s, e - 3) >= 240)
  BY <1>1, <1>2
<1>4. /\ ~(ByteAt(s, d - 1) >= 224) /\ ~(ByteAt(s, d - 1) >= 240)
      /\ ~(ByteAt(s, d - 2) >= 240) /\ ~(ByteAt(s, d - 1) >= 192)
      /\ ~(ByteAt(s, d - 2) >= 224) /\ ~(ByteAt(s, d - 3) >= 240)
  BY <1>1, <1>2
<1> QED
  BY <1>3, <1>4 DEF CountsOf, CountIs

LEMMA BasicBlock ==
  ASSUME algorithm = "basic", NEW c, BasicState(c), NEW s \in ByteSeq, NEW e \in Nat,
         NEW block, DOMAIN block = Offsets, Holds(block, s, e)
  PROVE  /\ BasicState(B!check_next_input(block, c))
         /\ (c.has_error = {} <=> Track(s, e))
            /\ (c.has_error = {} => BasicContext(c, s, e))
            => LET d == B!check_next_input(block, c)
               IN  /\ d.has_error = {} <=> Track(s, e + STEP_SIZE)
                   /\ d.has_error = {} => BasicContext(d, s, e + STEP_SIZE)
<1> DEFINE d == B!check_next_input(block, c)
           end == e + STEP_SIZE
<1>1. /\ W \in Nat /\ NUM_CHUNKS \in Nat /\ NUM_CHUNKS >= 1
      /\ STEP_SIZE \in Nat /\ STEP_SIZE = NUM_CHUNKS * W /\ end \in Nat
      /\ B!Lanes = Lanes /\ B!chunks(block) = chunks(block)
  BY VectorPositions DEF B!Lanes, Lanes, B!chunks, chunks
<1>2. Track(s, end) => Track(s, e)
  <2>1. e <= end
    BY <1>1
  <2> QED
    BY <1>1, <2>1, TrackBefore
<1>3. CASE is_ascii(block)
  <2> DEFINE X == B!check_carried_continuations(c)
  <2>1. d = [c EXCEPT !.has_error = c.has_error \cup X]
    BY <1>3 DEF B!check_next_input, B!is_ascii, is_ascii, B!check_ascii_block
  <2>2. /\ d = [has_error |-> c.has_error \cup X, previous |-> c.previous]
        /\ d.has_error = c.has_error \cup X /\ d.previous = c.previous
    <3>1. c = [has_error |-> c.has_error, previous |-> c.previous]
      BY DEF BasicState
    <3> HIDE DEF X, d
    <3>2. PICK h, v : h = c.has_error /\ v = c.previous
      OBVIOUS
    <3>3. d = [[has_error |-> h, previous |-> v] EXCEPT !.has_error = h \cup X]
      BY <2>1, <3>1, <3>2
    <3>4. d = [has_error |-> h \cup X, previous |-> v]
      BY <3>3
    <3> QED
      BY <3>2, <3>4
  <2>3. /\ X \subseteq Lanes
        /\ CountsOf(c.previous.carried_continuations, s, e) => (X = {} <=> ~Open(s, e))
    BY BasicCarried DEF BasicState, PrevState
  <2> HIDE DEF d, X
  <2>4. BasicState(d)
    BY <2>2, <2>3 DEF BasicState
  <2>5. ASSUME c.has_error = {}, Track(s, e), BasicContext(c, s, e)
        PROVE  /\ d.has_error = {} <=> Track(s, end)
               /\ d.has_error = {} => BasicContext(d, s, end)
    <3>1. (Track(s, end) <=> ~Open(s, e)) /\ ~Open(s, end)
      BY <1>3, <2>5, AsciiBlock
    <3>2. ~Open(s, e) => Current(c.previous.raw_bytes, s, end)
      BY <1>1, <2>5, <3>1, QuietIsCurrent DEF BasicContext, PrevContext
    <3>3. ~Open(s, e) => CountsOf(c.previous.carried_continuations, s, end)
      BY <1>1, <2>5, <3>1, CountsQuiet DEF BasicContext, PrevContext
    <3> QED
      BY <2>2, <2>3, <2>5, <3>1, <3>2, <3>3 DEF BasicContext, PrevContext
  <2> QED
    BY <1>2, <2>2, <2>4, <2>5 DEF d
<1>4. CASE ~is_ascii(block)
  <2> DEFINE v == chunks(block)
             f == CHOOSE g : g = [i \in 0..NUM_CHUNKS |-> SeenStep(g, v, c.previous, i)]
             E(i) == B!check_utf8_bytes(v[i], f[i])
             X == UNION {E(i) : i \in 0..(NUM_CHUNKS - 1)}
  <2>1. f = [i \in 0..NUM_CHUNKS |-> SeenStep(f, v, c.previous, i)]
    <3>1. HasSeen(v, c.previous, NUM_CHUNKS)
      BY <1>1, SeenExists
    <3> HIDE DEF v
    <3> QED
      BY <3>1 DEF HasSeen
  <2>2. d = [has_error |-> c.has_error \cup X, previous |-> f[NUM_CHUNKS]]
    BY <1>1, <1>4 DEF B!check_next_input, B!is_ascii, is_ascii, B!check_nonascii_block,
                      SeenStep, Leaves
  <2> HIDE DEF f
  <2>3. \A i \in 0..NUM_CHUNKS :
           /\ PrevState(f[i])
           /\ PrevContext(c.previous, s, e) /\ Track(s, e + i * W)
                => PrevContext(f[i], s, e + i * W)
    BY <2>1, SeenAll DEF BasicState
  <2>4. \A i \in 0..(NUM_CHUNKS - 1) : E(i) \subseteq Lanes
    BY <1>1 DEF B!check_utf8_bytes, B!check_smaller_than_0xF4, B!check_continuations,
                B!check_first_continuation_max, B!check_overlong
  <2>5. NUM_CHUNKS \in 0..NUM_CHUNKS /\ e + NUM_CHUNKS * W = end
    BY <1>1
  <2>6. d.has_error = c.has_error \cup X /\ d.previous = f[NUM_CHUNKS]
    BY <2>2
  <2> HIDE DEF E, d
  <2>7. BasicState(d)
    <3>1. PrevState(f[NUM_CHUNKS])
      BY <2>3, <2>5
    <3> QED
      BY <2>2, <2>4, <2>6, <3>1 DEF BasicState
  <2>8. ASSUME c.has_error = {}, Track(s, e), BasicContext(c, s, e)
        PROVE  /\ X = {} <=> Track(s, end)
               /\ X = {} => PrevContext(f[NUM_CHUNKS], s, end)
    <3> DEFINE Bad == {i \in 0..(NUM_CHUNKS - 1) : E(i) # {}}
    <3>1. ASSUME NEW i \in 0..(NUM_CHUNKS - 1), Track(s, e + i * W)
          PROVE  E(i) = {} <=> Track(s, e + (i + 1) * W)
      <4>1. i \in 0..NUM_CHUNKS /\ i * W \in Nat /\ (i + 1) * W = i * W + W
        BY <1>1, VectorPositions
      <4>2. PICK g \in Nat : g = e + i * W
        BY <4>1
      <4>3. g + W = e + (i + 1) * W
        BY <1>1, <4>1, <4>2
      <4>4. HoldsV(v[i], s, g)
        BY <4>2, VectorHolds
      <4>5. Track(s, g) /\ PrevContext(f[i], s, g) /\ PrevState(f[i])
        BY <2>3, <2>8, <3>1, <4>1, <4>2 DEF BasicContext
      <4>6. B!check_utf8_bytes(v[i], f[i]) = {} <=> Track(s, g + W)
        <5> HIDE DEF v
        <5> QED
          BY <4>4, <4>5, BasicVector DEF PrevContext, PrevState
      <4> QED
        BY <4>3, <4>6 DEF E
    <3>2. Bad = {} <=> Track(s, end)
      <4>1. \A i \in 0..(NUM_CHUNKS - 1) :
              Track(s, e + i * W) => (i \in Bad <=> ~Track(s, e + (i + 1) * W))
        BY <3>1
      <4>2. Bad \subseteq 0..(NUM_CHUNKS - 1)
        OBVIOUS
      <4> HIDE DEF Bad
      <4> QED
        BY <2>8, <4>1, <4>2, VectorsInTurn
    <3>3. X = {} <=> Track(s, end)
      BY <3>2
    <3>4. Track(s, end) => PrevContext(f[NUM_CHUNKS], s, end)
      BY <2>3, <2>5, <2>8 DEF BasicContext
    <3> QED
      BY <3>3, <3>4
  <2> HIDE DEF X
  <2> QED
    BY <1>2, <2>6, <2>7, <2>8 DEF BasicContext, d
<1> QED
  BY <1>3, <1>4
-----------------------------------------------------------------------------
(* Zwegner, masks: where no bit is set in both, a sum is a union, and a    *)
(* carry reaches one bit further than the masks.                           *)
CarryInto(a, b, i) == \E g \in 0..(i - 1) :
  /\ g \in a /\ g \in b
  /\ \A h \in (g + 1)..(i - 1) : h \in a \/ h \in b

LEMMA PlusBit ==
  ASSUME NEW a, NEW b, NEW i
  PROVE  /\ i \in Z!plus(a, b) => i \in Z!vmask2_bits
         /\ i \in Z!vmask2_bits /\ ~CarryInto(a, b, i)
              => (i \in Z!plus(a, b) <=> ~(i \in a <=> i \in b))
         /\ i \in Z!plus(a, b) => i \in a \/ i \in b \/ CarryInto(a, b, i)
<1> DEFINE p == i \in a
           q == i \in b
           r == CarryInto(a, b, i)
<1>1. i \in Z!plus(a, b) <=> i \in Z!vmask2_bits /\ (p # (q # r))
  BY Zenon DEF Z!plus, CarryInto
<1>2. p \in BOOLEAN /\ q \in BOOLEAN /\ r \in BOOLEAN
  BY DEF CarryInto
<1> HIDE DEF p, q, r
<1>3. /\ ~r => ((p # (q # r)) <=> ~(p <=> q))
      /\ (p # (q # r)) => p \/ q \/ r
  BY <1>2
<1> QED
  BY <1>1, <1>3 DEF p, q, r

LEMMA PlusBits ==
  ASSUME NEW a \in SUBSET Nat, NEW b \in SUBSET Nat, NEW m \in Nat, m < 2 * W,
         \A j \in 0..m : ~(j \in a /\ j \in b)
  PROVE  \A j \in 0..m : j \in Z!plus(a, b) <=> j \in a \/ j \in b
<1>1. W \in Nat
  BY WidthAssumption
<1> SUFFICES ASSUME NEW j \in 0..m
             PROVE  j \in Z!plus(a, b) <=> j \in a \/ j \in b
  OBVIOUS
<1>2. j \in Z!vmask2_bits
  BY <1>1 DEF Z!vmask2_bits
<1>3. ~CarryInto(a, b, j)
  <2>1. \A g \in 0..(j - 1) : g \in 0..m
    OBVIOUS
  <2> QED
    BY <2>1 DEF CarryInto
<1>4. j \in Z!plus(a, b) <=> ~(j \in a <=> j \in b)
  BY <1>2, <1>3, PlusBit
<1> QED
  BY <1>4

LEMMA PlusWidth ==
  ASSUME NEW m \in Nat, NEW a \in SUBSET (0..m), NEW b \in SUBSET (0..m)
  PROVE  Z!plus(a, b) \subseteq 0..(m + 1)
<1>1. W \in Nat
  BY WidthAssumption
<1> SUFFICES ASSUME NEW i \in Z!plus(a, b), i \notin 0..(m + 1)
             PROVE  FALSE
  OBVIOUS
<1>2. i \in Nat /\ i > m + 1
  BY <1>1, PlusBit DEF Z!vmask2_bits
<1>3. i \notin a /\ i \notin b /\ i - 1 \notin a /\ i - 1 \notin b
  BY <1>2
<1>4. PICK g \in 0..(i - 1) : /\ g \in a /\ g \in b
                             /\ \A h \in (g + 1)..(i - 1) : h \in a \/ h \in b
  BY <1>3, PlusBit DEF CarryInto
<1>5. i - 1 \in (g + 1)..(i - 1)
  BY <1>2, <1>4
<1> QED
  BY <1>3, <1>4, <1>5

(* The bits n places behind the leads of at least n + 1 bytes.             *)
Opened(vec, n) == Z!shift_left({k \in Lanes : vec[k] >= Opens(n)}, n)

LEMMA OpenedBits ==
  ASSUME NEW vec, NEW n \in 1..3
  PROVE  /\ Opened(vec, n) \subseteq 0..((W - 1) + n)
         /\ \A j \in Nat : j \in Opened(vec, n)
                             <=> j - n \in Lanes /\ vec[j - n] >= Opens(n)
<1>1. W \in Nat /\ W >= 3
  BY WidthAssumption
<1>2. Opened(vec, n) \subseteq 0..((W - 1) + n)
  BY <1>1 DEF Opened, Z!shift_left, Z!vmask2_bits, Lanes
<1>3. ASSUME NEW j \in Nat, j \in Opened(vec, n)
      PROVE  j - n \in Lanes /\ vec[j - n] >= Opens(n)
  <2>1. PICK k \in Lanes : vec[k] >= Opens(n) /\ j = k + n
    BY <1>3 DEF Opened, Z!shift_left
  <2>2. j - n = k
    BY <1>1, <2>1 DEF Lanes
  <2> QED
    BY <2>1, <2>2
<1>4. ASSUME NEW j \in Nat, j - n \in Lanes, vec[j - n] >= Opens(n)
      PROVE  j \in Opened(vec, n)
  <2>1. j = (j - n) + n /\ j \in Z!vmask2_bits
    BY <1>1, <1>4 DEF Lanes, Z!vmask2_bits
  <2> QED
    BY <1>4, <2>1 DEF Opened, Z!shift_left
<1> QED
  BY <1>2, <1>3, <1>4

(* The sum of the demands, where no two of them meet.                      *)
Apart(vec, d, j) ==
  /\ j \in d => j \notin Opened(vec, 1) /\ j \notin Opened(vec, 2)
                  /\ j \notin Opened(vec, 3)
  /\ j \in Opened(vec, 1) => j \notin Opened(vec, 2) /\ j \notin Opened(vec, 3)
  /\ j \in Opened(vec, 2) => j \notin Opened(vec, 3)

LEMMA ContRequired ==
  ASSUME NEW vec, NEW d \in SUBSET (0..3)
  PROVE  /\ Z!cont_required(vec, d) \subseteq 0..(W + 3)
         /\ Z!cont_required(vec, d) \subseteq 0..(2 * W - 1)
         /\ \A m \in 0..(W + 3) :
              m < 2 * W /\ (\A j \in 0..m : Apart(vec, d, j))
                => \A j \in 0..m : j \in Z!cont_required(vec, d)
                                     <=> \/ j \in d \/ j \in Opened(vec, 1)
                                         \/ j \in Opened(vec, 2) \/ j \in Opened(vec, 3)
<1> DEFINE x == Opened(vec, 1)
           y == Opened(vec, 2)
           z == Opened(vec, 3)
           u == Z!plus(d, x)
           v == Z!plus(u, y)
<1>1. W \in Nat /\ W >= 3 /\ W + 1 \in Nat /\ W + 2 \in Nat /\ Z!Lanes = Lanes
      /\ (W + 1) + 1 = W + 2 /\ (W + 2) + 1 = W + 3
      /\ (W - 1) + 1 = W /\ (W - 1) + 2 = W + 1 /\ (W - 1) + 3 = W + 2
  BY WidthAssumption DEF Z!Lanes, Lanes
<1>2. Z!cont_required(vec, d) = Z!plus(v, z)
  BY <1>1 DEF Z!cont_required, Opened, Opens
<1>3. x \subseteq 0..W /\ y \subseteq 0..(W + 1) /\ z \subseteq 0..(W + 2)
  <2>1. x \subseteq 0..((W - 1) + 1) /\ y \subseteq 0..((W - 1) + 2)
        /\ z \subseteq 0..((W - 1) + 3)
    BY OpenedBits
  <2> QED
    BY <1>1, <2>1
<1> HIDE DEF x, y, z
<1>4. u \subseteq 0..(W + 1)
  <2>1. d \in SUBSET (0..W) /\ x \in SUBSET (0..W)
    BY <1>1, <1>3
  <2> QED
    BY <1>1, <2>1, PlusWidth
<1>5. v \subseteq 0..(W + 2)
  <2>1. u \in SUBSET (0..(W + 1)) /\ y \in SUBSET (0..(W + 1))
    BY <1>3, <1>4
  <2>2. v \subseteq 0..((W + 1) + 1)
    BY <1>1, <2>1, PlusWidth
  <2> QED
    BY <1>1, <2>2
<1>6. Z!cont_required(vec, d) \subseteq 0..(W + 3)
  <2> HIDE DEF v
  <2>1. v \in SUBSET (0..(W + 2)) /\ z \in SUBSET (0..(W + 2))
    BY <1>3, <1>5
  <2>2. Z!plus(v, z) \subseteq 0..((W + 2) + 1)
    BY <1>1, <2>1, PlusWidth
  <2> QED
    BY <1>1, <1>2, <2>2
<1>7. ASSUME NEW m \in 0..(W + 3), m < 2 * W, \A j \in 0..m : Apart(vec, d, j)
      PROVE  \A j \in 0..m : j \in Z!cont_required(vec, d)
                               <=> j \in d \/ j \in x \/ j \in y \/ j \in z
  <2>1. m \in Nat /\ m < 2 * W
    BY <1>1, <1>7
  <2>2. d \in SUBSET Nat /\ x \in SUBSET Nat /\ y \in SUBSET Nat /\ z \in SUBSET Nat
        /\ u \in SUBSET Nat /\ v \in SUBSET Nat
    BY <1>1, <1>3, <1>4, <1>5
  <2>3. \A j \in 0..m : /\ j \in d => j \notin x /\ j \notin y /\ j \notin z
                        /\ j \in x => j \notin y /\ j \notin z
                        /\ j \in y => j \notin z
    BY <1>7 DEF Apart, x, y, z
  <2>4. \A j \in 0..m : j \in u <=> j \in d \/ j \in x
    BY <2>1, <2>2, <2>3, PlusBits
  <2> HIDE DEF u
  <2>5. \A j \in 0..m : ~(j \in u /\ j \in y)
    BY <2>3, <2>4
  <2>6. \A j \in 0..m : j \in v <=> j \in u \/ j \in y
    BY <2>1, <2>2, <2>5, PlusBits
  <2> HIDE DEF v
  <2>7. \A j \in 0..m : ~(j \in v /\ j \in z)
    BY <2>3, <2>4, <2>6
  <2>8. \A j \in 0..m : j \in Z!plus(v, z) <=> j \in v \/ j \in z
    BY <2>1, <2>2, <2>7, PlusBits
  <2> QED
    BY <1>2, <2>4, <2>6, <2>8
<1>8. Z!cont_required(vec, d) \subseteq 0..(2 * W - 1)
  BY <1>2, PlusBit DEF Z!vmask2_bits
<1> QED
  BY <1>6, <1>7, <1>8 DEF x, y, z
(* Behind clean bytes the demands on a bit come from one lead at most, the *)
(* one that opens the character in which its byte lies.                    *)
DueBit(s, e, j, n) == ByteAt(s, (e + j) - n) >= Opens(n)

LEMMA DueIs ==
  ASSUME NEW s \in ByteSeq, NEW e \in Nat
  PROVE  /\ Due(s, e) \subseteq 0..2
         /\ 0 \in Due(s, e) <=> \/ ByteAt(s, e - 1) >= 192
                                \/ ByteAt(s, e - 2) >= 224
                                \/ ByteAt(s, e - 3) >= 240
         /\ 1 \in Due(s, e) <=> \/ ByteAt(s, e - 1) >= 224
                                \/ ByteAt(s, e - 2) >= 240
         /\ 2 \in Due(s, e) <=> ByteAt(s, e - 1) >= 240
<1> DEFINE t == <<192, 224, 240>>
<1>1. t[1] = 192 /\ t[2] = 224 /\ t[3] = 240
  OBVIOUS
<1>2. \A m \in 0..2 : m \in Due(s, e) <=> \E n \in 1..(3 - m) : ByteAt(s, e - n) >= t[n + m]
  BY DEF Due
<1> HIDE DEF t
<1>3. \A n \in 1..(3 - 0) : n = 1 \/ n = 2 \/ n = 3
  OBVIOUS
<1>4. 0 \in Due(s, e) <=> \/ ByteAt(s, e - 1) >= 192
                          \/ ByteAt(s, e - 2) >= 224
                          \/ ByteAt(s, e - 3) >= 240
  <2>1. 1 + 0 = 1 /\ 2 + 0 = 2 /\ 3 + 0 = 3 /\ 1 \in 1..(3 - 0) /\ 2 \in 1..(3 - 0)
        /\ 3 \in 1..(3 - 0) /\ 0 \in 0..2
    OBVIOUS
  <2> QED
    BY <1>1, <1>2, <1>3, <2>1
<1>5. 1 \in Due(s, e) <=> ByteAt(s, e - 1) >= 224 \/ ByteAt(s, e - 2) >= 240
  <2>1. 1 + 1 = 2 /\ 2 + 1 = 3 /\ 1 \in 1..(3 - 1) /\ 2 \in 1..(3 - 1) /\ 1 \in 0..2
        /\ \A n \in 1..(3 - 1) : n = 1 \/ n = 2
    OBVIOUS
  <2> QED
    BY <1>1, <1>2, <2>1
<1>6. 2 \in Due(s, e) <=> ByteAt(s, e - 1) >= 240
  <2>1. 1 + 2 = 3 /\ 1 \in 1..(3 - 2) /\ 2 \in 0..2 /\ \A n \in 1..(3 - 2) : n = 1
    OBVIOUS
  <2> QED
    BY <1>1, <1>2, <2>1
<1> QED
  BY <1>4, <1>5, <1>6 DEF Due

(* The demands on the bits of the vector itself.                           *)
LEMMA BitsInside ==
  ASSUME NEW s \in ByteSeq, NEW e \in Nat, NEW vec, HoldsV(vec, s, e),
         NEW j \in 0..W, Clean(s, e + j)
  PROVE  /\ Apart(vec, Due(s, e), j)
         /\ (\/ j \in Due(s, e) \/ j \in Opened(vec, 1)
             \/ j \in Opened(vec, 2) \/ j \in Opened(vec, 3))
            <=> \/ ByteAt(s, (e + j) - 1) >= 192
                \/ ByteAt(s, (e + j) - 2) >= 224
                \/ ByteAt(s, (e + j) - 3) >= 240
<1> DEFINE q(n) == ByteAt(s, (e + j) - n)
<1>1. W \in Nat /\ W >= 3 /\ j \in Nat /\ e + j \in Nat
  BY WidthAssumption
<1>2. ASSUME NEW n \in 1..3
      PROVE  j \in Opened(vec, n) <=> n <= j /\ q(n) >= Opens(n)
  <2>1. j \in Opened(vec, n) <=> j - n \in Lanes /\ vec[j - n] >= Opens(n)
    BY <1>1, OpenedBits
  <2>2. j - n \in Lanes <=> n <= j
    BY <1>1 DEF Lanes
  <2>3. ASSUME n <= j
        PROVE  vec[j - n] = q(n)
    <3>1. e + (j - n) = (e + j) - n
      BY <1>1
    <3> QED
      BY <2>2, <2>3, <3>1 DEF HoldsV
  <2> QED
    BY <2>1, <2>2, <2>3
<1>3. /\ j \in Opened(vec, 1) <=> 1 <= j /\ q(1) >= 192
      /\ j \in Opened(vec, 2) <=> 2 <= j /\ q(2) >= 224
      /\ j \in Opened(vec, 3) <=> 3 <= j /\ q(3) >= 240
  <2>1. Opens(1) = 192 /\ Opens(2) = 224 /\ Opens(3) = 240
    BY DEF Opens
  <2> HIDE DEF q
  <2> QED
    BY <1>2, <2>1
<1>4. j \in Due(s, e) <=> \/ j < 1 /\ q(1) >= 192
                          \/ j < 2 /\ q(2) >= 224
                          \/ j < 3 /\ q(3) >= 240
  <2>1. CASE j = 0
    <3>1. q(1) = ByteAt(s, e - 1) /\ q(2) = ByteAt(s, e - 2) /\ q(3) = ByteAt(s, e - 3)
      BY <2>1
    <3> QED
      BY <2>1, <3>1, DueIs
  <2>2. CASE j = 1
    <3>1. q(2) = ByteAt(s, e - 1) /\ q(3) = ByteAt(s, e - 2)
      <4>1. (e + j) - 2 = e - 1 /\ (e + j) - 3 = e - 2
        BY <2>2
      <4> QED
        BY <4>1
    <3> QED
      BY <2>2, <3>1, DueIs
  <2>3. CASE j = 2
    <3>1. q(3) = ByteAt(s, e - 1)
      <4>1. (e + j) - 3 = e - 1
        BY <2>3
      <4> QED
        BY <4>1
    <3> QED
      BY <2>3, <3>1, DueIs
  <2>4. CASE j >= 3
    <3>1. j \notin 0..2
      BY <2>4
    <3> QED
      BY <1>1, <2>4, <3>1, DueIs
  <2> QED
    BY <1>1, <2>1, <2>2, <2>3, <2>4
<1>5. Single(q(3), q(2), q(1))
  BY <1>1, SingleBehind
<1>6. q(1) \in 0..255 /\ q(2) \in 0..255 /\ q(3) \in 0..255
  BY <1>1, ByteAtType
<1> HIDE DEF q
<1>7. /\ q(1) >= 192 => ~(q(2) >= 224) /\ ~(q(3) >= 240)
      /\ q(2) >= 224 => ~(q(3) >= 240)
  BY <1>5, <1>6 DEF Single
<1>8. /\ 1 <= j <=> ~(j < 1)
      /\ 2 <= j <=> ~(j < 2)
      /\ 3 <= j <=> ~(j < 3)
  BY <1>1
<1>9. Apart(vec, Due(s, e), j)
  BY <1>3, <1>4, <1>7, <1>8 DEF Apart
<1>10. (\/ j \in Due(s, e) \/ j \in Opened(vec, 1)
        \/ j \in Opened(vec, 2) \/ j \in Opened(vec, 3))
       <=> q(1) >= 192 \/ q(2) >= 224 \/ q(3) >= 240
  BY <1>3, <1>4, <1>8
<1> QED
  BY <1>9, <1>10 DEF q

(* The demands that reach into the next vector.                            *)
LEMMA BitsBeyond ==
  ASSUME NEW s \in ByteSeq, NEW e \in Nat, NEW vec, HoldsV(vec, s, e),
         NEW j \in {W + 1, W + 2, W + 3}, Clean(s, e + W)
  PROVE  /\ Apart(vec, Due(s, e), j)
         /\ (\/ j \in Due(s, e) \/ j \in Opened(vec, 1)
             \/ j \in Opened(vec, 2) \/ j \in Opened(vec, 3))
            <=> j - W \in Due(s, e + W)
<1> DEFINE q(n) == ByteAt(s, (e + W) - n)
<1>1. W \in Nat /\ W >= 3 /\ j \in Nat /\ e + W \in Nat /\ j \notin 0..2
  BY WidthAssumption
<1>2. j \notin Due(s, e)
  BY <1>1, DueIs
<1>3. ASSUME NEW n \in 1..3
      PROVE  j \in Opened(vec, n) <=> n > j - W /\ q(n - (j - W)) >= Opens(n)
  <2>1. j \in Opened(vec, n) <=> j - n \in Lanes /\ vec[j - n] >= Opens(n)
    BY <1>1, OpenedBits
  <2>2. j - n \in Lanes <=> n > j - W
    BY <1>1 DEF Lanes
  <2>3. ASSUME j - n \in Lanes
        PROVE  vec[j - n] = q(n - (j - W))
    <3>1. e + (j - n) = (e + W) - (n - (j - W))
      BY <1>1
    <3> QED
      BY <2>3, <3>1 DEF HoldsV
  <2> QED
    BY <2>1, <2>2, <2>3
<1>4. Single(q(3), q(2), q(1))
  BY <1>1, SingleBehind
<1>5. q(1) \in 0..255 /\ q(2) \in 0..255 /\ q(3) \in 0..255
  BY <1>1, ByteAtType
<1>6. Opens(1) = 192 /\ Opens(2) = 224 /\ Opens(3) = 240
  BY DEF Opens
<1>7. /\ 1 \in Due(s, e + W) <=> q(1) >= 224 \/ q(2) >= 240
      /\ 2 \in Due(s, e + W) <=> q(1) >= 240
  BY <1>1, DueIs
<1> HIDE DEF q
<1>8. q(1) >= 224 => ~(q(2) >= 240)
  BY <1>4, <1>5 DEF Single
<1>9. CASE j = W + 1
  <2>1. j - W = 1 /\ 2 - 1 = 1 /\ 3 - 1 = 2
    BY <1>1, <1>9
  <2>2. /\ j \notin Opened(vec, 1)
        /\ j \in Opened(vec, 2) <=> q(1) >= 224
        /\ j \in Opened(vec, 3) <=> q(2) >= 240
    BY <1>3, <1>6, <2>1
  <2> QED
    BY <1>2, <1>7, <1>8, <2>1, <2>2 DEF Apart
<1>10. CASE j = W + 2
  <2>1. j - W = 2 /\ 3 - 2 = 1
    BY <1>1, <1>10
  <2>2. /\ j \notin Opened(vec, 1)
        /\ j \notin Opened(vec, 2)
        /\ j \in Opened(vec, 3) <=> q(1) >= 240
    BY <1>3, <1>6, <2>1
  <2> QED
    BY <1>2, <1>7, <2>1, <2>2 DEF Apart
<1>11. CASE j = W + 3
  <2>1. j - W = 3
    BY <1>1, <1>11
  <2>2. j \notin Opened(vec, 1) /\ j \notin Opened(vec, 2) /\ j \notin Opened(vec, 3)
    BY <1>3, <2>1
  <2>3. 3 \notin Due(s, e + W)
    BY <1>1, DueIs
  <2> QED
    BY <1>2, <2>1, <2>2, <2>3 DEF Apart
<1> QED
  BY <1>9, <1>10, <1>11

(* What the sum demands of a lane behind clean bytes, and what it leaves.  *)
LEMMA LaneDemanded ==
  ASSUME NEW s \in ByteSeq, NEW e \in Nat, NEW vec, HoldsV(vec, s, e),
         NEW k \in Lanes, Clean(s, e + k)
  PROVE  k \in Z!cont_required(vec, Due(s, e))
           <=> \/ ByteAt(s, (e + k) - 1) >= 192
               \/ ByteAt(s, (e + k) - 2) >= 224
               \/ ByteAt(s, (e + k) - 3) >= 240
<1>1. W \in Nat /\ W >= 3 /\ k \in Nat /\ k \in 0..W /\ k \in 0..(W + 3) /\ k \in 0..k
      /\ k < 2 * W
  BY WidthAssumption DEF Lanes
<1>2. Due(s, e) \in SUBSET (0..3)
  BY DueIs
<1>3. \A j \in 0..k : Apart(vec, Due(s, e), j)
  <2> SUFFICES ASSUME NEW j \in 0..k
               PROVE  Apart(vec, Due(s, e), j)
    OBVIOUS
  <2>1. j \in 0..W /\ e + j <= e + k /\ e + j \in Nat /\ e + k \in Nat
    BY <1>1
  <2>2. Clean(s, e + j)
    <3>1. \A i \in 0..((e + j) - 1) : i \in 0..((e + k) - 1)
      BY <2>1
    <3> QED
      BY <3>1 DEF Clean
  <2> QED
    BY <2>1, <2>2, BitsInside
<1>4. k \in Z!cont_required(vec, Due(s, e))
        <=> \/ k \in Due(s, e) \/ k \in Opened(vec, 1)
            \/ k \in Opened(vec, 2) \/ k \in Opened(vec, 3)
  BY <1>1, <1>2, <1>3, ContRequired
<1> QED
  BY <1>1, <1>4, BitsInside

LEMMA CarriedIsDue ==
  ASSUME NEW s \in ByteSeq, NEW e \in Nat, NEW vec, HoldsV(vec, s, e), Clean(s, e + W)
  PROVE  Z!carried(vec, Due(s, e)) = Due(s, e + W)
<1> DEFINE r == Z!cont_required(vec, Due(s, e))
<1>1. W \in Nat /\ W >= 3 /\ e + W \in Nat
  BY WidthAssumption
<1>2. Due(s, e) \in SUBSET (0..3)
  BY DueIs
<1>3. ASSUME NEW j \in 0..(W + 3)
      PROVE  /\ Apart(vec, Due(s, e), j)
             /\ j >= W => ((\/ j \in Due(s, e) \/ j \in Opened(vec, 1)
                            \/ j \in Opened(vec, 2) \/ j \in Opened(vec, 3))
                           <=> j - W \in Due(s, e + W))
  <2>1. CASE j \in 0..W
    <3>1. e + j <= e + W /\ e + j \in Nat
      BY <1>1, <2>1
    <3>2. Clean(s, e + j)
      <4>1. \A i \in 0..((e + j) - 1) : i \in 0..((e + W) - 1)
        BY <1>1, <3>1
      <4> QED
        BY <4>1 DEF Clean
    <3>3. CASE j = W
      <4>1. j - W = 0
        BY <1>1, <3>3
      <4> QED
        BY <1>1, <2>1, <3>2, <3>3, <4>1, BitsInside, DueIs
    <3>4. CASE j # W
      <4>1. ~(j >= W)
        BY <1>1, <2>1, <3>4
      <4> QED
        BY <2>1, <3>2, <4>1, BitsInside
    <3> QED
      BY <3>3, <3>4
  <2>2. CASE j \notin 0..W
    <3>1. j \in {W + 1, W + 2, W + 3}
      BY <1>1, <2>2
    <3> QED
      BY <3>1, BitsBeyond
  <2> QED
    BY <2>1, <2>2
<1> HIDE DEF r
<1>4. r \subseteq 0..(W + 3) /\ r \subseteq 0..(2 * W - 1)
  BY <1>2, ContRequired DEF r
<1>5. ASSUME NEW j \in Nat, j >= W
      PROVE  j \in r <=> j - W \in Due(s, e + W)
  <2>1. CASE j \in 0..(W + 3) /\ j < 2 * W
    <3>1. \A i \in 0..j : i \in 0..(W + 3)
      BY <1>1, <2>1
    <3>2. \A i \in 0..j : Apart(vec, Due(s, e), i)
      BY <1>3, <3>1
    <3>3. j \in 0..j
      OBVIOUS
    <3>4. j \in r <=> \/ j \in Due(s, e) \/ j \in Opened(vec, 1)
                      \/ j \in Opened(vec, 2) \/ j \in Opened(vec, 3)
      BY <1>2, <2>1, <3>2, <3>3, ContRequired DEF r
    <3> QED
      BY <1>3, <1>5, <2>1, <3>4
  <2>2. CASE ~(j \in 0..(W + 3) /\ j < 2 * W)
    <3>1. j \notin r
      BY <1>1, <1>4, <2>2
    <3>2. j - W \notin 0..2
      BY <1>1, <1>5, <2>2
    <3> QED
      BY <1>1, <3>1, <3>2, DueIs
  <2> QED
    BY <2>1, <2>2
<1>6. Z!carried(vec, Due(s, e)) = {i - W : i \in {j \in r : j >= W}}
  BY DEF Z!carried, Z!shift_right, r
<1>7. ASSUME NEW m \in Due(s, e + W)
      PROVE  m \in {i - W : i \in {j \in r : j >= W}}
  <2>1. m \in 0..2
    BY <1>1, DueIs
  <2>2. m + W \in Nat /\ m + W >= W /\ (m + W) - W = m
    BY <1>1, <2>1
  <2>3. m + W \in r
    BY <1>5, <2>2
  <2> QED
    BY <2>2, <2>3
<1>8. ASSUME NEW m \in {i - W : i \in {j \in r : j >= W}}
      PROVE  m \in Due(s, e + W)
  <2>1. PICK j \in r : j >= W /\ m = j - W
    OBVIOUS
  <2>2. j \in Nat
    BY <1>4, <2>1
  <2> QED
    BY <1>5, <2>1, <2>2
<1> QED
  BY <1>6, <1>7, <1>8
-----------------------------------------------------------------------------
(* Zwegner, the tables: what they find in the byte b behind p.             *)
SpecialCase(p, b) ==
  Z!nibble_1_error(Z!high_nibble(p)) \cap Z!nibble_2_error(Z!low_nibble(p))
    \cap Z!nibble_3_error(Z!high_nibble(b))

LEMMA FirstNibble ==
  ASSUME NEW h \in 0..15
  PROVE  /\ h \notin {12, 14, 15} => Z!nibble_1_error(h) = {}
         /\ h = 12 => Z!nibble_1_error(h) = {0}
         /\ h = 14 => Z!nibble_1_error(h) = {1, 2}
         /\ h = 15 => Z!nibble_1_error(h) = {3, 4, 5}
BY DEF Z!nibble_1_error, Z!OVERLONG_2, Z!OVERLONG_3, Z!SURROGATE, Z!TOO_LARGE,
       Z!TOO_LARGE_2, Z!OVERLONG_4

LEMMA SecondNibble ==
  ASSUME NEW l \in 0..15
  PROVE  /\ l = 0 => Z!nibble_2_error(l) = {0, 1, 5}
         /\ l = 1 => Z!nibble_2_error(l) = {0}
         /\ l \in 2..3 => Z!nibble_2_error(l) = {}
         /\ l = 4 => Z!nibble_2_error(l) = {3}
         /\ l \in (5..15) \ {13} => Z!nibble_2_error(l) = {4}
         /\ l = 13 => Z!nibble_2_error(l) = {2, 4}
<1> USE DEF Z!nibble_2_error, Z!OVERLONG_2, Z!OVERLONG_3, Z!SURROGATE, Z!TOO_LARGE,
            Z!TOO_LARGE_2, Z!OVERLONG_4
<1>1. l = 0 => Z!nibble_2_error(l) = {0, 1, 5}
  OBVIOUS
<1>2. l = 1 => Z!nibble_2_error(l) = {0}
  OBVIOUS
<1>3. l \in 2..3 => Z!nibble_2_error(l) = {}
  OBVIOUS
<1>4. l = 4 => Z!nibble_2_error(l) = {3}
  OBVIOUS
<1>5. l \in (5..15) \ {13} => Z!nibble_2_error(l) = {4}
  OBVIOUS
<1>6. l = 13 => Z!nibble_2_error(l) = {2, 4}
  OBVIOUS
<1> QED
  BY <1>1, <1>2, <1>3, <1>4, <1>5, <1>6

LEMMA ThirdNibble ==
  ASSUME NEW x \in 0..15
  PROVE  /\ 0 \in Z!nibble_3_error(x) /\ 4 \in Z!nibble_3_error(x)
         /\ 1 \in Z!nibble_3_error(x) <=> x \in {8, 9}
         /\ 2 \in Z!nibble_3_error(x) <=> x \in {10, 11}
         /\ 3 \in Z!nibble_3_error(x) <=> x \in {9, 10, 11}
         /\ 5 \in Z!nibble_3_error(x) <=> x = 8
<1> USE DEF Z!nibble_3_error, Z!CARRY, Z!OVERLONG_2, Z!OVERLONG_3, Z!SURROGATE,
            Z!TOO_LARGE, Z!TOO_LARGE_2, Z!OVERLONG_4
<1>1. CASE x = 8
  BY <1>1
<1>2. CASE x = 9
  BY <1>2
<1>3. CASE x \in 10..11
  BY <1>3
<1>4. CASE x \notin 8..11
  BY <1>4
<1> QED
  BY <1>1, <1>2, <1>3, <1>4

LEMMA SpecialCases ==
  ASSUME NEW p \in 0..255, NEW b \in 0..255
  PROVE  /\ p < 192 => SpecialCase(p, b) = {}
         /\ p >= 192 /\ b \in Continuation
              => (SpecialCase(p, b) = {}
                    <=> p \in Lead2 \cup Lead3 \cup Lead4 /\ b \in SecondBytes(p))
<1> DEFINE h == Z!high_nibble(p)
           l == Z!low_nibble(p)
           x == Z!high_nibble(b)
<1>1. h \in 0..15 /\ l \in 0..15 /\ p = 16 * h + l
  BY DEF Z!high_nibble, Z!low_nibble
<1>2. x \in 0..15 /\ 16 * x <= b /\ b < 16 * x + 16
  BY DEF Z!high_nibble
<1>3. SpecialCase(p, b) = Z!nibble_1_error(h) \cap Z!nibble_2_error(l)
                            \cap Z!nibble_3_error(x)
  BY DEF SpecialCase
<1> HIDE DEF h, l, x
<1>4. h \notin {12, 14, 15} => SpecialCase(p, b) = {}
  BY <1>1, <1>3, FirstNibble
<1>5. ASSUME p >= 192, b \in Continuation
      PROVE  SpecialCase(p, b) = {}
               <=> p \in Lead2 \cup Lead3 \cup Lead4 /\ b \in SecondBytes(p)
  <2>1. b \in 128..191
    BY <1>5 DEF Continuation
  <2>2. SecondBytes(p) = IF p = 224 THEN 160..191 ELSE IF p = 237 THEN 128..159
                         ELSE IF p = 240 THEN 144..191 ELSE IF p = 244 THEN 128..143
                         ELSE 128..191
    BY DEF SecondBytes, Continuation
  <2>3. CASE h = 12
    <3>1. SpecialCase(p, b) = {} <=> 0 \notin Z!nibble_2_error(l)
      BY <1>1, <1>2, <1>3, <2>3, FirstNibble, ThirdNibble
    <3>2. 0 \in Z!nibble_2_error(l) <=> l < 2
      BY <1>1, SecondNibble
    <3>3. p \in Lead2 \cup Lead3 \cup Lead4 <=> ~(l < 2)
      BY <1>1, <2>3 DEF Lead2, Lead3, Lead4
    <3>4. SecondBytes(p) = 128..191
      BY <1>1, <2>2, <2>3
    <3> QED
      BY <2>1, <3>1, <3>2, <3>3, <3>4
  <2>4. CASE h = 13
    <3>1. p \in Lead2 /\ SecondBytes(p) = 128..191
      BY <1>1, <2>2, <2>4 DEF Lead2
    <3> QED
      BY <1>4, <2>1, <2>4, <3>1
  <2>5. CASE h = 14
    <3>1. SpecialCase(p, b) = {} <=> /\ ~(1 \in Z!nibble_2_error(l) /\ x \in {8, 9})
                                     /\ ~(2 \in Z!nibble_2_error(l) /\ x \in {10, 11})
      BY <1>1, <1>2, <1>3, <2>5, FirstNibble, ThirdNibble
    <3>2. /\ 1 \in Z!nibble_2_error(l) <=> l = 0
          /\ 2 \in Z!nibble_2_error(l) <=> l = 13
      BY <1>1, SecondNibble
    <3>3. p \in Lead3 /\ (l = 0 <=> p = 224) /\ (l = 13 <=> p = 237)
          /\ p # 240 /\ p # 244
      BY <1>1, <2>5 DEF Lead3
    <3>4. (x \in {8, 9} <=> b < 160) /\ (x \in {10, 11} <=> b >= 160)
      BY <1>2, <2>1
    <3> QED
      BY <2>1, <2>2, <3>1, <3>2, <3>3, <3>4
  <2>6. CASE h = 15
    <3>1. SpecialCase(p, b) = {} <=> /\ ~(5 \in Z!nibble_2_error(l) /\ x = 8)
                                     /\ ~(3 \in Z!nibble_2_error(l) /\ x \in {9, 10, 11})
                                     /\ 4 \notin Z!nibble_2_error(l)
      BY <1>1, <1>2, <1>3, <2>6, FirstNibble, ThirdNibble
    <3>2. /\ 5 \in Z!nibble_2_error(l) <=> l = 0
          /\ 3 \in Z!nibble_2_error(l) <=> l = 4
          /\ 4 \in Z!nibble_2_error(l) <=> l >= 5
      BY <1>1, SecondNibble
    <3>3. /\ p \in Lead2 \cup Lead3 \cup Lead4 <=> ~(l >= 5)
          /\ (l = 0 <=> p = 240) /\ (l = 4 <=> p = 244) /\ p # 224 /\ p # 237
      BY <1>1, <2>6 DEF Lead2, Lead3, Lead4
    <3>4. (x = 8 <=> b < 144) /\ (x \in {9, 10, 11} <=> b >= 144)
      BY <1>2, <2>1
    <3>5. CASE p = 240
      BY <2>1, <2>2, <3>1, <3>2, <3>3, <3>4, <3>5
    <3>6. CASE p = 244
      BY <2>1, <2>2, <3>1, <3>2, <3>3, <3>4, <3>6
    <3>7. CASE p # 240 /\ p # 244
      BY <2>1, <2>2, <3>1, <3>2, <3>3, <3>7
    <3> QED
      BY <3>5, <3>6, <3>7
  <2> QED
    BY <1>1, <1>5, <2>3, <2>4, <2>5, <2>6
<1>6. p < 192 => h \notin {12, 14, 15}
  BY <1>1
<1> QED
  BY <1>4, <1>5, <1>6

(* One lane: a clash of the mask with the byte, or a special case.         *)
LaneClear(p1, b, q3, q2, q1) ==
  /\ SpecialCase(p1, b) = {}
  /\ b \in Continuation <=> q1 >= 192 \/ q2 >= 224 \/ q3 >= 240

LEMMA ZwegnerLane ==
  ASSUME NEW b \in 0..255, NEW p1 \in 0..255,
         NEW q3 \in 0..255, NEW q2 \in 0..255, NEW q1 \in 0..255,
         p1 = q1 \/ (p1 < 192 /\ q1 < 192), Single(q3, q2, q1)
  PROVE  LaneClear(p1, b, q3, q2, q1) <=> WindowOK(q3, q2, q1, b)
<1> USE DEF LaneClear
<1>0. /\ p1 < 192 => SpecialCase(p1, b) = {}
      /\ p1 >= 192 /\ b \in Continuation
           => (SpecialCase(p1, b) = {}
                 <=> p1 \in Lead2 \cup Lead3 \cup Lead4 /\ b \in SecondBytes(p1))
  BY SpecialCases, Zenon
<1>1. CASE q1 >= 192
  <2>1. p1 = q1 /\ p1 >= 192 /\ ~Demanded(q3, q2)
    BY <1>1 DEF Single, Demanded
  <2>2. WindowOK(q3, q2, q1, b)
          <=> p1 \in Lead2 \cup Lead3 \cup Lead4 /\ b \in SecondBytes(p1)
    BY <2>1 DEF WindowOK, PairOK
  <2>3. b \in SecondBytes(p1) => b \in Continuation
    BY DEF SecondBytes, Continuation
  <2> QED
    BY <1>0, <1>1, <2>1, <2>2, <2>3
<1>2. CASE q1 < 192
  <2>1. p1 < 192
    BY <1>2
  <2>2. SpecialCase(p1, b) = {}
    BY <1>0, <2>1
  <2>3. ~(q1 >= 192)
    BY <1>2
  <2>4. CASE Demanded(q3, q2)
    <3>1. q1 \in Continuation
      BY <2>4 DEF Demanded, Single
    <3> QED
      BY <2>2, <2>3, <2>4, <3>1 DEF WindowOK, Demanded
  <2>5. CASE ~Demanded(q3, q2)
    <3>1. WindowOK(q3, q2, q1, b) <=> b \notin Continuation
      BY <1>2, <2>5 DEF WindowOK, PairOK, Lead2, Lead3, Lead4
    <3> QED
      BY <2>2, <2>3, <2>5, <3>1 DEF Demanded
  <2> QED
    BY <2>4, <2>5
<1> QED
  BY <1>1, <1>2
-----------------------------------------------------------------------------
(* Zwegner, one vector behind bytes on track.                              *)
LEMMA ZwegnerVector ==
  ASSUME algorithm = "zwegner", NEW s \in ByteSeq, NEW e \in Nat, Track(s, e),
         NEW vec, NEW before, HoldsV(vec, s, e), Current(before, s, e)
  PROVE  Z!check_special_cases(vec, before) \cup Z!check_length_errors(vec, Due(s, e)) = {}
           <=> Track(s, e + W)
<1> DEFINE SC == Z!check_special_cases(vec, before)
           LE == Z!check_length_errors(vec, Due(s, e))
           R2 == Z!cont_required(vec, Due(s, e))
           E == SC \cup LE
<1>1. W \in Nat /\ W >= 3 /\ Z!Lanes = Lanes /\ Z!vmask_bits = Lanes
  BY WidthAssumption DEF Z!Lanes, Lanes, Z!vmask_bits
<1>2. SC \subseteq Lanes /\ \A k \in Lanes :
        k \in SC <=> SpecialCase(Back(vec, before, 1, k), vec[k]) # {}
  <2>1. SC = {k \in Lanes : SpecialCase(Z!prev(1, vec, before)[k], vec[k]) # {}}
    BY <1>1 DEF Z!check_special_cases, SpecialCase
  <2>2. \A k \in Lanes : Z!prev(1, vec, before)[k] = Back(vec, before, 1, k)
    BY <1>1 DEF Z!prev, Back
  <2> HIDE DEF SC
  <2> QED
    BY <2>1, <2>2
<1>3. LE \subseteq Lanes /\ \A k \in Lanes :
        k \in LE <=> ~(vec[k] \in Continuation <=> k \in R2)
  BY <1>1 DEF Z!check_length_errors, Z!Xor, Z!vmask_t, Continuation
<1> HIDE DEF SC, LE, R2
<1>4. ASSUME NEW k \in Lanes, Track(s, e + k)
      PROVE  k \in E <=> ~Fits(s, e + k)
  <2>1. k \in Nat /\ e + k \in Nat
    BY <1>1 DEF Lanes
  <2>2. Clean(s, e + k)
    BY <1>4 DEF Track
  <2>3. PICK b, p1, p2, p3, q1, q2, q3 :
          /\ b = vec[k] /\ p1 = Back(vec, before, 1, k) /\ p2 = Back(vec, before, 2, k)
          /\ p3 = Back(vec, before, 3, k) /\ q1 = ByteAt(s, (e + k) - 1)
          /\ q2 = ByteAt(s, (e + k) - 2) /\ q3 = ByteAt(s, (e + k) - 3)
    OBVIOUS
  <2>4. /\ b = ByteAt(s, e + k) /\ p1 \in 0..255 /\ Near(p3, p2, p1, q3, q2, q1)
    <3>1. /\ vec[k] = ByteAt(s, e + k)
          /\ \A n \in 1..3 : Back(vec, before, n, k) \in 0..255
          /\ Near(Back(vec, before, 3, k), Back(vec, before, 2, k),
                  Back(vec, before, 1, k), ByteAt(s, (e + k) - 3),
                  ByteAt(s, (e + k) - 2), ByteAt(s, (e + k) - 1))
      BY BackBytes
    <3> QED
      BY <2>3, <3>1
  <2>5. b \in 0..255 /\ q1 \in 0..255 /\ q2 \in 0..255 /\ q3 \in 0..255
    BY <2>1, <2>3, <2>4, ByteAtType
  <2>6. Single(q3, q2, q1)
    BY <2>1, <2>2, <2>3, SingleBehind
  <2>7. k \in R2 <=> q1 >= 192 \/ q2 >= 224 \/ q3 >= 240
    BY <2>2, <2>3, LaneDemanded DEF R2
  <2>8. p1 = q1 \/ (p1 < 192 /\ q1 < 192)
    BY <2>4 DEF Near
  <2>9. LaneClear(p1, b, q3, q2, q1) <=> WindowOK(q3, q2, q1, b)
    BY <2>4, <2>5, <2>6, <2>8, ZwegnerLane, ZenonT(40)
  <2>10. Fits(s, e + k) <=> WindowOK(q3, q2, q1, b)
    BY <2>3, <2>4 DEF Fits, LocalOK, Condemned
  <2> QED
    BY <1>2, <1>3, <2>3, <2>7, <2>9, <2>10 DEF LaneClear
<1>5. E \subseteq Lanes
  BY <1>2, <1>3
<1> HIDE DEF E
<1>6. E = {} <=> Track(s, e + W)
  BY <1>4, <1>5, FirstLane
<1> QED
  BY <1>6 DEF E, SC, LE

(* The checker between two vectors.                                        *)
ZwegnerState(c) ==
  /\ c = [special_case_errors |-> c.special_case_errors, prev_bytes |-> c.prev_bytes,
          last_cont |-> c.last_cont, length_errors |-> c.length_errors]
  /\ c.special_case_errors \subseteq Lanes
  /\ c.prev_bytes \in [Lanes -> 0..255]
  /\ c.last_cont \subseteq 0..3
  /\ c.length_errors \subseteq Lanes

ZwegnerContext(c, s, e) ==
  /\ Current(c.prev_bytes, s, e)
  /\ c.last_cont = Due(s, e)

ZwegnerOnTrack(c, s, e) ==
  /\ ~Z!erroneous(c) <=> Track(s, e)
  /\ ~Z!erroneous(c) => ZwegnerContext(c, s, e)

LEMMA ZwegnerBytes ==
  ASSUME algorithm = "zwegner", NEW s \in ByteSeq, NEW e \in Nat, NEW vec,
         HoldsV(vec, s, e), NEW c, ZwegnerState(c)
  PROVE  LET d == Z!check_utf8_bytes(vec, c)
         IN  /\ ZwegnerState(d)
             /\ ZwegnerOnTrack(c, s, e) => ZwegnerOnTrack(d, s, e + W)
<1> DEFINE d == Z!check_utf8_bytes(vec, c)
           SC == Z!check_special_cases(vec, c.prev_bytes)
           LE == Z!check_length_errors(vec, c.last_cont)
<1>1. W \in Nat /\ W >= 3 /\ Z!Lanes = Lanes /\ Z!vmask_bits = Lanes /\ e + W \in Nat
      /\ e <= e + W
  BY WidthAssumption DEF Z!Lanes, Lanes, Z!vmask_bits
<1>2. d = [special_case_errors |-> c.special_case_errors \cup SC, prev_bytes |-> vec,
           last_cont |-> Z!carried(vec, c.last_cont),
           length_errors |-> c.length_errors \cup LE]
  BY DEF Z!check_utf8_bytes
<1>3. SC \subseteq Lanes /\ LE \subseteq Lanes
  <2>1. \A k \in Lanes : k < 256 \/ k >= 256
    BY <1>1 DEF Lanes
  <2> QED
    BY <1>1 DEF Z!check_special_cases, Z!check_length_errors, Z!Xor, Z!vmask_t
<1>4. Z!carried(vec, c.last_cont) \subseteq 0..3
  <2>1. c.last_cont \in SUBSET (0..3)
    BY DEF ZwegnerState
  <2>2. Z!cont_required(vec, c.last_cont) \subseteq 0..(W + 3)
    BY <2>1, ContRequired
  <2>3. \A j \in 0..(W + 3) : j >= W => j - W \in 0..3
    BY <1>1
  <2> QED
    BY <2>2, <2>3 DEF Z!carried, Z!shift_right
<1>5. Z!erroneous(d) <=> Z!erroneous(c) \/ SC \cup LE # {}
  <2> HIDE DEF d, SC, LE
  <2>1. d.special_case_errors = c.special_case_errors \cup SC
        /\ d.length_errors = c.length_errors \cup LE
    BY <1>2
  <2> QED
    BY <2>1 DEF Z!erroneous
<1>6. d.prev_bytes = vec /\ d.last_cont = Z!carried(vec, c.last_cont)
  BY <1>2
<1>7. ZwegnerState(d)
  <2> HIDE DEF SC, LE, d
  <2>1. vec \in [Lanes -> 0..255]
    BY DEF HoldsV
  <2>2. d.special_case_errors = c.special_case_errors \cup SC
        /\ d.length_errors = c.length_errors \cup LE
    BY <1>2
  <2> QED
    BY <1>2, <1>3, <1>4, <1>6, <2>1, <2>2 DEF ZwegnerState
<1>8. ASSUME ZwegnerOnTrack(c, s, e)
      PROVE  ZwegnerOnTrack(d, s, e + W)
  <2>1. CASE Z!erroneous(c)
    <3>1. ~Track(s, e) /\ Z!erroneous(d)
      BY <1>5, <1>8, <2>1 DEF ZwegnerOnTrack
    <3>2. ~Track(s, e + W)
      BY <1>1, <3>1, TrackBefore
    <3> QED
      BY <3>1, <3>2 DEF ZwegnerOnTrack
  <2>2. CASE ~Z!erroneous(c)
    <3>1. Track(s, e) /\ Current(c.prev_bytes, s, e) /\ c.last_cont = Due(s, e)
      BY <1>8, <2>2 DEF ZwegnerOnTrack, ZwegnerContext
    <3>2. SC \cup LE = {} <=> Track(s, e + W)
      BY <3>1, ZwegnerVector
    <3>3. Current(vec, s, e + W)
      BY TailIsCurrent
    <3>4. Track(s, e + W) => Z!carried(vec, c.last_cont) = Due(s, e + W)
      <4>1. ASSUME Track(s, e + W)
            PROVE  Z!carried(vec, Due(s, e)) = Due(s, e + W)
        <5>1. Clean(s, e + W)
          BY <4>1 DEF Track
        <5> QED
          BY <5>1, CarriedIsDue
      <4> QED
        BY <3>1, <4>1
    <3> HIDE DEF d, SC, LE
    <3> QED
      BY <1>5, <1>6, <2>2, <3>2, <3>3, <3>4 DEF ZwegnerOnTrack, ZwegnerContext
  <2> QED
    BY <2>1, <2>2
<1> QED
  BY <1>7, <1>8 DEF d

LEMMA ZwegnerAscii ==
  ASSUME algorithm = "zwegner", NEW s \in ByteSeq, NEW e \in Nat, NEW vec,
         HoldsV(vec, s, e), \A k \in Lanes : vec[k] < 128, NEW c, ZwegnerState(c)
  PROVE  LET d == Z!check_ascii(c)
         IN  /\ ZwegnerState(d)
             /\ ZwegnerOnTrack(c, s, e) => ZwegnerOnTrack(d, s, e + W)
<1> DEFINE d == Z!check_ascii(c)
           X == Z!vmask_t(c.last_cont)
<1>1. W \in Nat /\ W >= 3 /\ Z!Lanes = Lanes /\ Z!vmask_bits = Lanes /\ e + W \in Nat
      /\ e <= e + W
  BY WidthAssumption DEF Z!Lanes, Lanes, Z!vmask_bits
<1>2. d = [c EXCEPT !.length_errors = c.length_errors \cup X]
  BY DEF Z!check_ascii
<1> HIDE DEF d
<1>3. /\ d = [special_case_errors |-> c.special_case_errors, prev_bytes |-> c.prev_bytes,
              last_cont |-> c.last_cont, length_errors |-> c.length_errors \cup X]
      /\ d.special_case_errors = c.special_case_errors
      /\ d.prev_bytes = c.prev_bytes /\ d.last_cont = c.last_cont
      /\ d.length_errors = c.length_errors \cup X
  <2> HIDE DEF X
  <2>1. PICK a, b, f, g : a = c.special_case_errors /\ b = c.prev_bytes
                          /\ f = c.last_cont /\ g = c.length_errors
    OBVIOUS
  <2>2. c = [special_case_errors |-> a, prev_bytes |-> b, last_cont |-> f,
             length_errors |-> g]
    BY <2>1 DEF ZwegnerState
  <2>3. d = [special_case_errors |-> a, prev_bytes |-> b, last_cont |-> f,
             length_errors |-> g \cup X]
    BY <1>2, <2>1, <2>2
  <2> QED
    BY <2>1, <2>3
<1>4. X \subseteq Lanes /\ \A j : j \in X <=> j \in c.last_cont /\ j \in Lanes
  BY <1>1 DEF Z!vmask_t
<1> HIDE DEF X
<1>5. ZwegnerState(d)
  BY <1>3, <1>4 DEF ZwegnerState
<1>6. Z!erroneous(d) <=> Z!erroneous(c) \/ X # {}
  BY <1>3 DEF Z!erroneous
<1>7. ASSUME ZwegnerOnTrack(c, s, e)
      PROVE  ZwegnerOnTrack(d, s, e + W)
  <2>1. CASE Z!erroneous(c)
    <3>1. ~Track(s, e) /\ Z!erroneous(d)
      BY <1>6, <1>7, <2>1 DEF ZwegnerOnTrack
    <3>2. ~Track(s, e + W)
      BY <1>1, <3>1, TrackBefore
    <3> QED
      BY <3>1, <3>2 DEF ZwegnerOnTrack
  <2>2. CASE ~Z!erroneous(c)
    <3>1. Track(s, e) /\ Current(c.prev_bytes, s, e) /\ c.last_cont = Due(s, e)
      BY <1>7, <2>2 DEF ZwegnerOnTrack, ZwegnerContext
    <3>2. \A k \in 0..(W - 1) : ByteAt(s, e + k) < 128
      BY DEF HoldsV, Lanes
    <3>3. (Track(s, e + W) <=> ~Open(s, e)) /\ ~Open(s, e + W)
      BY <1>1, <3>1, <3>2, TrackAscii
    <3>4. \A d2 \in Nat : ~Open(s, d2) => Due(s, d2) = {}
      <4> SUFFICES ASSUME NEW d2 \in Nat, ~Open(s, d2)
                   PROVE  Due(s, d2) = {}
        OBVIOUS
      <4>1. /\ ByteAt(s, d2 - 1) \in 0..255 /\ ByteAt(s, d2 - 2) \in 0..255
            /\ ByteAt(s, d2 - 3) \in 0..255
        BY ByteAtType
      <4>2. /\ ~(ByteAt(s, d2 - 1) >= 192) /\ ~(ByteAt(s, d2 - 1) >= 224)
            /\ ~(ByteAt(s, d2 - 1) >= 240) /\ ~(ByteAt(s, d2 - 2) >= 224)
            /\ ~(ByteAt(s, d2 - 2) >= 240) /\ ~(ByteAt(s, d2 - 3) >= 240)
        BY <4>1 DEF Open
      <4>3. 0 \notin Due(s, d2) /\ 1 \notin Due(s, d2) /\ 2 \notin Due(s, d2)
            /\ Due(s, d2) \subseteq 0..2
        BY <4>2, DueIs
      <4>4. \A j \in 0..2 : j = 0 \/ j = 1 \/ j = 2
        OBVIOUS
      <4> QED
        BY <4>3, <4>4
    <3>5. X = {} <=> ~Open(s, e)
      <4>1. 0 \in Lanes
        BY <1>1 DEF Lanes
      <4>2. 0 \in Due(s, e) <=> Open(s, e)
        BY DueIs DEF Open
      <4> QED
        BY <1>4, <3>1, <3>4, <4>1, <4>2
    <3>6. ~Open(s, e) => Current(c.prev_bytes, s, e + W)
      BY <1>1, <3>1, <3>3, QuietIsCurrent
    <3>7. ~Open(s, e) => c.last_cont = Due(s, e + W)
      BY <1>1, <3>1, <3>3, <3>4
    <3> QED
      BY <1>3, <1>6, <2>2, <3>3, <3>5, <3>6, <3>7 DEF ZwegnerOnTrack, ZwegnerContext
  <2> QED
    BY <2>1, <2>2
<1> QED
  BY <1>5, <1>7 DEF d

LEMMA ZwegnerChunk ==
  ASSUME algorithm = "zwegner", NEW s \in ByteSeq, NEW e \in Nat, NEW vec,
         HoldsV(vec, s, e), NEW c, ZwegnerState(c)
  PROVE  /\ ZwegnerState(Z!check_chunk(vec, c))
         /\ ZwegnerOnTrack(c, s, e) => ZwegnerOnTrack(Z!check_chunk(vec, c), s, e + W)
<1>1. CASE Z!is_ascii(vec)
  <2>1. \A k \in Lanes : vec[k] < 128
    BY <1>1 DEF Z!is_ascii, HoldsV
  <2>2. Z!check_chunk(vec, c) = Z!check_ascii(c)
    BY <1>1 DEF Z!check_chunk
  <2> QED
    BY <2>1, <2>2, ZwegnerAscii
<1>2. CASE ~Z!is_ascii(vec)
  <2>1. Z!check_chunk(vec, c) = Z!check_utf8_bytes(vec, c)
    BY <1>2 DEF Z!check_chunk
  <2> QED
    BY <2>1, ZwegnerBytes
<1> QED
  BY <1>1, <1>2

(* Zwegner, one block.                                                     *)
LEMMA ZwegnerBlock ==
  ASSUME algorithm = "zwegner", NEW c, ZwegnerState(c), NEW s \in ByteSeq,
         NEW e \in Nat, NEW block, Holds(block, s, e)
  PROVE  LET d == Z!check_next_input(block, c)
         IN  /\ ZwegnerState(d)
             /\ ZwegnerOnTrack(c, s, e) => ZwegnerOnTrack(d, s, e + STEP_SIZE)
<1> DEFINE v == chunks(block)
           f == CHOOSE g : g = [i \in 0..NUM_CHUNKS |-> SeenStep(g, v, c, i)]
           P(i) == /\ ZwegnerState(f[i])
                   /\ ZwegnerOnTrack(c, s, e) => ZwegnerOnTrack(f[i], s, e + i * W)
           T == {i \in 0..NUM_CHUNKS : ~P(i)}
<1>1. /\ W \in Nat /\ NUM_CHUNKS \in Nat /\ STEP_SIZE = NUM_CHUNKS * W
      /\ \A i \in 0..NUM_CHUNKS : i * W \in Nat /\ (i + 1) * W = i * W + W
      /\ Z!Lanes = Lanes /\ Z!chunks(block) = chunks(block)
  BY VectorPositions DEF Z!Lanes, Lanes, Z!chunks, chunks
<1>2. f = [i \in 0..NUM_CHUNKS |-> SeenStep(f, v, c, i)]
  <2>1. HasSeen(v, c, NUM_CHUNKS)
    BY <1>1, SeenExists
  <2> HIDE DEF v
  <2> QED
    BY <2>1 DEF HasSeen
<1>3. Z!check_next_input(block, c) = f[NUM_CHUNKS]
  BY <1>1 DEF Z!check_next_input, SeenStep, Leaves
<1> HIDE DEF f
<1>4. ASSUME NEW i \in 0..NUM_CHUNKS
      PROVE  f[i] = SeenStep(f, v, c, i)
  <2> HIDE DEF v
  <2> QED
    BY <1>2
<1>5. P(0)
  <2>1. f[0] = c
    BY <1>1, <1>4 DEF SeenStep
  <2>2. e + 0 * W = e
    BY <1>1
  <2> QED
    BY <2>1, <2>2
<1>6. ASSUME NEW i \in 0..(NUM_CHUNKS - 1), P(i)
      PROVE  P(i + 1)
  <2>1. i \in 0..NUM_CHUNKS /\ i + 1 \in 0..NUM_CHUNKS /\ (i + 1) - 1 = i /\ i + 1 # 0
    BY <1>1
  <2>2. f[i + 1] = Z!check_chunk(v[i], f[i])
    BY <1>4, <2>1 DEF SeenStep, Leaves
  <2>3. PICK g \in Nat : g = e + i * W
    BY <1>1, <2>1
  <2>4. g + W = e + (i + 1) * W
    BY <1>1, <2>1, <2>3
  <2>5. HoldsV(v[i], s, g)
    BY <2>3, VectorHolds
  <2>6. ZwegnerState(f[i])
    BY <1>6
  <2> HIDE DEF v
  <2>7. /\ ZwegnerState(Z!check_chunk(v[i], f[i]))
        /\ ZwegnerOnTrack(f[i], s, g)
             => ZwegnerOnTrack(Z!check_chunk(v[i], f[i]), s, g + W)
    BY <2>5, <2>6, ZwegnerChunk
  <2> QED
    BY <1>6, <2>2, <2>3, <2>4, <2>7
<1>7. T = {}
  <2> SUFFICES ASSUME T # {} PROVE FALSE
    OBVIOUS
  <2>1. T \in SUBSET Nat
    BY <1>1
  <2>2. PICK d \in T : \A k \in T : d <= k
    BY <2>1, LeastOf
  <2>3. d \in 0..NUM_CHUNKS /\ ~P(d)
    OBVIOUS
  <2>4. d # 0
    BY <1>5, <2>3
  <2>5. d - 1 \in 0..(NUM_CHUNKS - 1) /\ d - 1 \in 0..NUM_CHUNKS /\ ~(d <= d - 1)
        /\ (d - 1) + 1 = d
    BY <1>1, <2>3, <2>4
  <2>6. P(d - 1)
    BY <2>2, <2>5
  <2>7. P((d - 1) + 1)
    <3> HIDE DEF P
    <3> QED
      BY <1>6, <2>5, <2>6
  <2> QED
    BY <2>3, <2>5, <2>7
<1>8. P(NUM_CHUNKS)
  <2>1. NUM_CHUNKS \in 0..NUM_CHUNKS
    BY <1>1
  <2> HIDE DEF P
  <2> QED
    BY <1>7, <2>1
<1> QED
  BY <1>1, <1>3, <1>8
-----------------------------------------------------------------------------
(* What the three checkers have in common.                                 *)
State(c) ==
  /\ algorithm = "range"   => RangeState(c)
  /\ algorithm = "basic"   => BasicState(c)
  /\ algorithm = "zwegner" => ZwegnerState(c)

Context(c, s, e) ==
  /\ algorithm = "range"   => RangeContext(c, s, e)
  /\ algorithm = "basic"   => BasicContext(c, s, e)
  /\ algorithm = "zwegner" => ZwegnerContext(c, s, e)

Errs(c) ==
  IF algorithm = "zwegner" THEN Z!erroneous(c) ELSE c.has_error # {}

Checked(block, c) ==
  IF algorithm = "range" THEN R!check_next_input(block, c)
  ELSE IF algorithm = "basic" THEN B!check_next_input(block, c)
  ELSE Z!check_next_input(block, c)

(* The checker has seen the bytes of s before e.                           *)
CheckedUpTo(c, s, e) ==
  /\ ~Errs(c) <=> Track(s, e)
  /\ ~Errs(c) => Context(c, s, e)

(* Whatever algorithm it is, a block takes the checker from one block      *)
(* boundary to the next.                                                   *)
LEMMA BlockChecked ==
  ASSUME algorithm \in {"range", "basic", "zwegner"}, NEW c, State(c),
         NEW s \in ByteSeq, NEW e \in Nat,
         NEW block, DOMAIN block = Offsets, Holds(block, s, e)
  PROVE  /\ State(Checked(block, c))
         /\ Works /\ CheckedUpTo(c, s, e) => CheckedUpTo(Checked(block, c), s, e + STEP_SIZE)
<1>1. CASE algorithm = "range"
  <2>1. Checked(block, c) = R!check_next_input(block, c) /\ RangeState(c)
    BY <1>1 DEF Checked, State
  <2>2. PICK d : d = Checked(block, c)
    OBVIOUS
  <2>3. /\ RangeState(d)
        /\ Arch = "x86" /\ (c.has_error = {} <=> Track(s, e))
           /\ (c.has_error = {} => RangeContext(c, s, e))
           => /\ d.has_error = {} <=> Track(s, e + STEP_SIZE)
              /\ d.has_error = {} => RangeContext(d, s, e + STEP_SIZE)
    BY <1>1, <2>1, <2>2, RangeBlock
  <2>4. State(d)
    BY <1>1, <2>3 DEF State
  <2>5. ASSUME Works, CheckedUpTo(c, s, e)
        PROVE  CheckedUpTo(d, s, e + STEP_SIZE)
    <3>1. Arch = "x86" /\ (c.has_error = {} <=> Track(s, e))
          /\ (c.has_error = {} => RangeContext(c, s, e))
      BY <1>1, <2>5 DEF Works, CheckedUpTo, Errs, Context
    <3> QED
      BY <1>1, <2>3, <3>1 DEF CheckedUpTo, Errs, Context
  <2> QED
    BY <2>2, <2>4, <2>5
<1>2. CASE algorithm = "basic"
  <2>1. Checked(block, c) = B!check_next_input(block, c) /\ BasicState(c)
    BY <1>2 DEF Checked, State
  <2>2. PICK d : d = Checked(block, c)
    OBVIOUS
  <2>3. /\ BasicState(d)
        /\ (c.has_error = {} <=> Track(s, e))
           /\ (c.has_error = {} => BasicContext(c, s, e))
           => /\ d.has_error = {} <=> Track(s, e + STEP_SIZE)
              /\ d.has_error = {} => BasicContext(d, s, e + STEP_SIZE)
    BY <1>2, <2>1, <2>2, BasicBlock
  <2>4. State(d)
    BY <1>2, <2>3 DEF State
  <2>5. ASSUME CheckedUpTo(c, s, e)
        PROVE  CheckedUpTo(d, s, e + STEP_SIZE)
    <3>1. (c.has_error = {} <=> Track(s, e))
          /\ (c.has_error = {} => BasicContext(c, s, e))
      BY <1>2, <2>5 DEF CheckedUpTo, Errs, Context
    <3> QED
      BY <1>2, <2>3, <3>1 DEF CheckedUpTo, Errs, Context
  <2> QED
    BY <2>2, <2>4, <2>5
<1>3. CASE algorithm = "zwegner"
  <2>1. Checked(block, c) = Z!check_next_input(block, c) /\ ZwegnerState(c)
    BY <1>3 DEF Checked, State
  <2>2. PICK d : d = Checked(block, c)
    OBVIOUS
  <2>3. ZwegnerState(d)
        /\ (ZwegnerOnTrack(c, s, e) => ZwegnerOnTrack(d, s, e + STEP_SIZE))
    BY <1>3, <2>1, <2>2, ZwegnerBlock
  <2>4. State(d)
    BY <1>3, <2>3 DEF State
  <2>5. /\ CheckedUpTo(c, s, e) <=> ZwegnerOnTrack(c, s, e)
        /\ CheckedUpTo(d, s, e + STEP_SIZE) <=> ZwegnerOnTrack(d, s, e + STEP_SIZE)
    BY <1>3 DEF CheckedUpTo, ZwegnerOnTrack, Errs, Context
  <2> QED
    BY <2>2, <2>3, <2>4, <2>5
<1> QED
  BY <1>1, <1>2, <1>3

(* So it does from the start.                                              *)
LEMMA FreshChecker ==
  ASSUME algorithm \in {"range", "basic", "zwegner"}, NEW s \in ByteSeq,
         NEW c, c = fresh(algorithm)
  PROVE  State(c) /\ CheckedUpTo(c, s, 0)
<1> DEFINE zero == [k \in Lanes |-> 0]
<1>1. W \in Nat /\ W >= 3 /\ W - 1 \in Lanes /\ W - 2 \in Lanes /\ W - 3 \in Lanes
      /\ R!Lanes = Lanes /\ B!Lanes = Lanes /\ Z!Lanes = Lanes
  BY WidthAssumption DEF Lanes, R!Lanes, B!Lanes, Z!Lanes
<1>2. ByteAt(s, 0 - 1) = 0 /\ ByteAt(s, 0 - 2) = 0 /\ ByteAt(s, 0 - 3) = 0
  BY DEF ByteAt
<1>3. Track(s, 0)
  BY DEF Track, Clean
<1>4. zero \in [Lanes -> 0..255] /\ Current(zero, s, 0)
  <2>1. ~Open(s, 0)
    BY <1>2 DEF Open
  <2>2. Quiet(zero)
    BY <1>1 DEF Quiet
  <2>3. zero \in [Lanes -> 0..255]
    OBVIOUS
  <2> HIDE DEF zero
  <2> QED
    BY <2>1, <2>2, <2>3 DEF Current
<1>5. CASE algorithm = "range"
  <2>1. c = [has_error |-> {}, previous |-> R!processed(zero)]
    BY <1>1, <1>5 DEF fresh, R!fresh
  <2> HIDE DEF zero
  <2>2. c.has_error = {} /\ c.previous = R!processed(zero) /\ c.previous.raw_bytes = zero
    BY <2>1 DEF R!processed
  <2> QED
    BY <1>3, <1>4, <1>5, <2>1, <2>2
    DEF State, RangeState, CheckedUpTo, Context, RangeContext, Errs
<1>6. CASE algorithm = "basic"
  <2>1. c = [has_error |-> {}, previous |-> [raw_bytes |-> zero,
                                             carried_continuations |-> zero]]
    BY <1>1, <1>6 DEF fresh, B!fresh
  <2>2. zero \in [Lanes -> Nat] /\ BoundsOf(zero)
    BY <1>1 DEF BoundsOf
  <2>3. CountsOf(zero, s, 0)
    BY <1>1, <1>2 DEF CountsOf, CountIs
  <2> HIDE DEF zero
  <2>4. c.has_error = {} /\ c.previous = [raw_bytes |-> zero, carried_continuations |-> zero]
        /\ c.previous.raw_bytes = zero /\ c.previous.carried_continuations = zero
    BY <2>1
  <2>5. BasicState(c)
    BY <1>4, <2>1, <2>2, <2>4 DEF BasicState, PrevState
  <2>6. BasicContext(c, s, 0)
    BY <1>4, <2>3, <2>4 DEF BasicContext, PrevContext
  <2> QED
    BY <1>3, <1>6, <2>4, <2>5, <2>6 DEF State, CheckedUpTo, Context, Errs
<1>7. CASE algorithm = "zwegner"
  <2>1. c = [special_case_errors |-> {}, prev_bytes |-> zero, last_cont |-> {},
             length_errors |-> {}]
    BY <1>1, <1>7 DEF fresh, Z!fresh
  <2> HIDE DEF zero
  <2>2. c.special_case_errors = {} /\ c.prev_bytes = zero /\ c.last_cont = {}
        /\ c.length_errors = {}
    BY <2>1
  <2>3. ZwegnerState(c)
    BY <1>4, <2>1, <2>2 DEF ZwegnerState
  <2>4. Due(s, 0) = {}
    <3>1. 0 \notin Due(s, 0) /\ 1 \notin Due(s, 0) /\ 2 \notin Due(s, 0)
          /\ Due(s, 0) \subseteq 0..2
      BY <1>2, DueIs
    <3> QED
      BY <3>1
  <2> QED
    BY <1>3, <1>4, <1>7, <2>2, <2>3, <2>4
    DEF State, CheckedUpTo, Context, ZwegnerContext, Errs, Z!erroneous
<1> QED
  BY <1>5, <1>6, <1>7
-----------------------------------------------------------------------------
(* On track, in the words of the properties.                               *)
LEMMA WholeOnTrack ==
  ASSUME NEW s \in ByteSeq
  PROVE  OnTrack(s) <=> Track(s, Size(s))
<1>1. Size(s) \in Nat /\ Len(s) = Size(s)
  BY SizeType DEF Size
<1>2. WellFormedSoFar(s) <=> Clean(s, Size(s))
  BY SoFar
<1>3. Len(s) > 0 => s[Len(s)] = ByteAt(s, Size(s) - 1)
  <2>1. ASSUME Size(s) > 0
        PROVE  ByteAt(s, Size(s) - 1) = s[Size(s)]
    <3>1. ~(Size(s) - 1 < 0) /\ Size(s) - 1 < Size(s) /\ (Size(s) - 1) + 1 = Size(s)
      BY <1>1, <2>1
    <3> QED
      BY <3>1 DEF ByteAt
  <2> QED
    BY <1>1, <2>1
<1> QED
  BY <1>1, <1>2, <1>3 DEF OnTrack, Track

LEMMA PrefixOnTrack ==
  ASSUME NEW s \in ByteSeq, NEW e \in Nat, e <= Size(s)
  PROVE  OnTrack(SubSeq(s, 1, e)) <=> Track(s, e)
<1> DEFINE t == SubSeq(s, 1, e)
<1>1. Size(s) \in Nat /\ Len(s) = Size(s) /\ s \in Seq(Byte)
  BY SizeType DEF Size, ByteSeq
<1>2. Len(t) = e
  BY <1>1
<1>3. WellFormedSoFar(t) <=> Clean(s, e)
  BY PrefixSoFar
<1>4. e > 0 => t[e] = ByteAt(s, e - 1)
  <2>1. ASSUME e > 0
        PROVE  ByteAt(s, e - 1) = s[e]
    <3>1. ~(e - 1 < 0) /\ e - 1 < Size(s) /\ (e - 1) + 1 = e
      BY <1>1, <2>1
    <3> QED
      BY <3>1 DEF ByteAt
  <2>2. ASSUME e > 0
        PROVE  t[e] = s[e]
    BY <1>1, <2>2
  <2> QED
    BY <2>1, <2>2
<1> HIDE DEF t
<1>5. OnTrack(t) <=> Track(s, e)
  BY <1>2, <1>3, <1>4 DEF OnTrack, Track
<1> QED
  BY <1>5 DEF t

(* A padding that has a byte brings out what the input leaves open.        *)
LEMMA TrackBehindTheEnd ==
  ASSUME algorithm \in {"range", "basic", "zwegner"},
         NEW s \in ByteSeq, NEW e \in Nat, Size(s) < e
  PROVE  Track(s, e) <=> WellFormed(s)
<1> DEFINE n == Size(s)
<1>1. n \in Nat /\ n < e
  BY SizeType
<1>2. ByteAt(s, n) = 32 /\ ByteAt(s, e - 1) = 32
  <2>1. ~(n < 0) /\ ~(n < n) /\ ~(e - 1 < 0) /\ ~(e - 1 < n)
    BY <1>1
  <2> QED
    BY <2>1 DEF ByteAt
<1>3. 32 \notin Condemned
  BY DEF Condemned
<1>4. ASSUME Track(s, e)
      PROVE  WellFormed(s)
  <2>1. n \in 0..(e - 1) /\ \A i \in 0..(n - 1) : i \in 0..(e - 1)
    BY <1>1
  <2>2. Clean(s, n) /\ LocalOK(s, n)
    BY <1>4, <2>1 DEF Track, Clean
  <2>3. ~Open(s, n)
    BY <1>1, <1>2, <2>2, BoundaryAtLead DEF Continuation
  <2> QED
    BY <1>1, <2>2, <2>3, CleanToTheEnd
<1>5. ASSUME WellFormed(s)
      PROVE  Track(s, e)
  <2>1. Clean(s, e)
    BY <1>5, WellFormedIsClean DEF Clean
  <2> QED
    BY <1>2, <1>3, <2>1 DEF Track
<1> QED
  BY <1>4, <1>5

(* What an answer is worth.                                                *)
Answer(s) == IF Size(s) % STEP_SIZE = 0 THEN OnTrack(s) ELSE WellFormed(s)

LEMMA Division ==
  ASSUME NEW a \in Nat, NEW b \in Nat, b > 0
  PROVE  /\ a \div b \in Int
         /\ a % b \in 0..(b - 1)
         /\ a = b * (a \div b) + (a % b)
OBVIOUS

LEMMA Multiple ==
  ASSUME NEW a \in Nat, NEW b \in Nat, b > 0, NEW n \in Nat, a = n * b
  PROVE  a % b = 0
<1> DEFINE q == a \div b
           m == a % b
<1>1. q \in Int /\ m \in 0..(b - 1) /\ a = b * q + m
  BY Division, Zenon
<1> HIDE DEF q, m
<1>2. PICK z \in Int : z = n - q
  BY <1>1
<1>3. b * z = m
  <2>1. n = q + z
    BY <1>1, <1>2
  <2>2. n * b = b * q + b * z
    BY <1>1, <2>1, SMTT(30)
  <2>3. b * q \in Int /\ b * z \in Int
    BY <1>1
  <2> QED
    BY <1>1, <2>2, <2>3
<1>4. ~(z >= 1)
  BY <1>1, <1>3, SMTT(30)
<1>5. ~(z <= -1)
  BY <1>1, <1>3, SMTT(30)
<1>6. z = 0
  BY <1>2, <1>4, <1>5
<1>7. m = 0
  BY <1>3, <1>6
<1> QED
  BY <1>7 DEF m

LEMMA LastBlock ==
  ASSUME algorithm \in {"range", "basic", "zwegner"},
         NEW s \in ByteSeq, NEW n \in Nat, NEW e \in Nat, e = n * STEP_SIZE,
         e < Size(s), Size(s) <= e + STEP_SIZE
  PROVE  Track(s, e + STEP_SIZE) <=> Answer(s)
<1> DEFINE q == Size(s) \div STEP_SIZE
           m == Size(s) % STEP_SIZE
<1>1. Size(s) \in Nat /\ STEP_SIZE \in Nat /\ STEP_SIZE > 0 /\ e + STEP_SIZE \in Nat
  BY SizeType, VectorPositions
<1>2. q \in Int /\ m \in 0..(STEP_SIZE - 1) /\ Size(s) = STEP_SIZE * q + m
  BY <1>1, Division, Zenon
<1> HIDE DEF q, m
<1>3. CASE Size(s) = e + STEP_SIZE
  <2>1. m = 0
    <3>1. Size(s) = (n + 1) * STEP_SIZE /\ n + 1 \in Nat
      BY <1>1, <1>3, SMTT(30)
    <3> QED
      BY <1>1, <3>1, Multiple, Zenon DEF m
  <2> QED
    BY <1>3, <2>1, WholeOnTrack DEF Answer, m
<1>4. CASE Size(s) < e + STEP_SIZE
  <2>1. m # 0
    <3> SUFFICES ASSUME m = 0 PROVE FALSE
      OBVIOUS
    <3>1. STEP_SIZE * q = Size(s)
      BY <1>1, <1>2
    <3>2. STEP_SIZE * n = e
      BY <1>1, SMTT(30)
    <3>3. q <= n \/ q >= n + 1
      BY <1>2
    <3>4. ~(q <= n)
      BY <1>1, <1>2, <3>1, <3>2, SMTT(30)
    <3>5. ~(q >= n + 1)
      BY <1>1, <1>2, <1>4, <3>1, <3>2, SMTT(30)
    <3> QED
      BY <3>3, <3>4, <3>5
  <2> QED
    BY <1>1, <1>4, <2>1, TrackBehindTheEnd DEF Answer, m
<1> QED
  BY <1>1, <1>3, <1>4
-----------------------------------------------------------------------------
(***************************************************************************)
(* The inductive invariant.  Between two blocks the checker stands where   *)
(* the bytes before the cursor leave it, and the cursor stands at a        *)
(* multiple of the block: so the last block ends with the input or has a   *)
(* padding, and which one fixes what the answer means.                     *)
(***************************************************************************)
IInv ==
  /\ ReaderOK
  /\ algorithm \in Algorithms
  /\ State(checker)
  /\ pc = "loop" => /\ idx <= Size(input)
                    /\ \E n \in Nat : idx = n * STEP_SIZE
                    /\ Works => CheckedUpTo(checker, input, idx)
  /\ pc = "eof" => (Works => (~Errs(checker) <=> Answer(input)))
  /\ pc = "returned" => (Works => (result = "SUCCESS" <=> Answer(input)))

(* What depends on the variables only through the namespace.               *)
LEMMA SameNamespace ==
  ASSUME algorithm' = algorithm
  PROVE  /\ Works' <=> Works
         /\ \A c : State(c)' <=> State(c)
         /\ \A c : Errs(c)' <=> Errs(c)
         /\ \A c, s, e : CheckedUpTo(c, s, e)' <=> CheckedUpTo(c, s, e)
         /\ \A s : Answer(s)' <=> Answer(s)
<1>1. Condemned' = Condemned
  BY DEF Condemned
<1> QED
  BY <1>1 DEF Works, State, Errs, CheckedUpTo, Context, Answer, Track, OnTrack

LEMMA AlgorithmIs ==
  ASSUME algorithm \in Algorithms
  PROVE  /\ algorithm \in {"range", "basic", "zwegner"}
         /\ erroneous <=> Errs(checker)
         /\ errors = IF Errs(checker) THEN "UTF8_ERROR" ELSE "SUCCESS"
         /\ \A block : check_next_input(block)
              => checker' = Checked(block, checker) /\ algorithm' = algorithm
<1>1. algorithm \in {"range", "basic", "zwegner"}
  BY AlgorithmsAssumption
<1>2. erroneous <=> Errs(checker)
  <2>1. CASE algorithm = "range"
    BY <2>1 DEF erroneous, Errs, R!erroneous
  <2>2. CASE algorithm = "basic"
    BY <2>2 DEF erroneous, Errs, B!erroneous
  <2>3. CASE algorithm = "zwegner"
    BY <2>3 DEF erroneous, Errs
  <2> QED
    BY <1>1, <2>1, <2>2, <2>3
<1>3. errors = IF Errs(checker) THEN "UTF8_ERROR" ELSE "SUCCESS"
  BY <1>2 DEF errors
<1>4. ASSUME NEW block, check_next_input(block)
      PROVE  checker' = Checked(block, checker) /\ algorithm' = algorithm
  <2>1. algorithm' = algorithm
    BY <1>4 DEF check_next_input
  <2>2. CASE algorithm = "range"
    BY <1>4, <2>1, <2>2 DEF check_next_input, Checked
  <2>3. CASE algorithm = "basic"
    BY <1>4, <2>1, <2>3 DEF check_next_input, Checked
  <2>4. CASE algorithm = "zwegner"
    BY <1>4, <2>1, <2>4 DEF check_next_input, Checked
  <2> QED
    BY <1>1, <2>1, <2>2, <2>3, <2>4
<1> QED
  BY <1>1, <1>2, <1>3, <1>4

(* It holds of a fresh checker,                                            *)
LEMMA InitIInv ==
  Init => IInv
<1> SUFFICES ASSUME Init PROVE IInv
  OBVIOUS
<1>1. ReaderOK /\ pc = "loop" /\ idx = 0
  BY SizeMaxAssumption DEF Init, ValidateInit, ReaderOK, error_code
<1>2. algorithm \in Algorithms /\ checker = fresh(algorithm)
  BY DEF Init
<1>3. input \in ByteSeq /\ Size(input) \in Nat
  BY <1>1, InputType DEF ReaderOK
<1>4. algorithm \in {"range", "basic", "zwegner"}
  BY <1>2, AlgorithmIs
<1>5. State(checker) /\ CheckedUpTo(checker, input, 0)
  BY <1>2, <1>3, <1>4, FreshChecker
<1>6. 0 = 0 * STEP_SIZE
  BY VectorPositions
<1> QED
  BY <1>1, <1>2, <1>3, <1>5, <1>6 DEF IInv

(* every step preserves it,                                                *)
LEMMA NextIInv ==
  IInv /\ [Next]_vars => IInv'
<1> SUFFICES ASSUME IInv, [Next]_vars PROVE IInv'
  OBVIOUS
<1>1. /\ input \in ByteSeq /\ Size(input) \in Nat /\ Size(input) <= SIZE_MAX
      /\ len = Size(input) /\ idx \in Nat /\ STEP_SIZE \in Nat /\ STEP_SIZE >= 3
      /\ SIZE_MAX \in Nat
  BY InputType, SizeMaxAssumption, VectorPositions DEF IInv, ReaderOK
<1>2. algorithm \in {"range", "basic", "zwegner"} /\ State(checker)
  BY AlgorithmIs DEF IInv
<1>3. CASE CheckFullBlock
  <2>1. FullBlock /\ check_next_input(full_block) /\ pc = "loop" /\ pc' = "loop"
        /\ input' = input /\ result' = result
    BY <1>3 DEF CheckFullBlock, FullBlock
  <2>2. /\ Holds(full_block, input, idx) /\ DOMAIN full_block = Offsets
        /\ idx' = idx + STEP_SIZE /\ idx' < Size(input)
    BY <2>1, FullBlockRead DEF IInv
  <2>3. checker' = Checked(full_block, checker) /\ algorithm' = algorithm
    BY <2>1, AlgorithmIs DEF IInv
  <2>4. PICK s, e, block, c :
          /\ s = input /\ e = idx /\ block = full_block /\ c = checker
    OBVIOUS
  <2>5. /\ State(Checked(block, c))
        /\ Works /\ CheckedUpTo(c, s, e)
             => CheckedUpTo(Checked(block, c), s, e + STEP_SIZE)
    <3>1. /\ State(c) /\ s \in ByteSeq /\ e \in Nat /\ DOMAIN block = Offsets
          /\ Holds(block, s, e)
      BY <1>1, <1>2, <2>2, <2>4
    <3> QED
      BY <1>2, <3>1, BlockChecked
  <2>6. PICK d, f : d = checker' /\ f = idx'
    OBVIOUS
  <2>7. State(d) /\ (Works => CheckedUpTo(d, s, f))
    BY <2>1, <2>2, <2>3, <2>4, <2>5, <2>6 DEF IInv
  <2>8. State(d)' /\ (Works' => CheckedUpTo(d, s, f)')
    BY <2>3, <2>7, SameNamespace
  <2>9. State(checker)' /\ (Works => CheckedUpTo(checker, input, idx))'
    BY <2>1, <2>4, <2>6, <2>8
  <2>10. ReaderOK'
    BY <1>1, <2>1, <2>2 DEF IInv, ReaderOK
  <2>11. (idx <= Size(input) /\ \E n \in Nat : idx = n * STEP_SIZE)'
    <3>1. PICK n \in Nat : idx = n * STEP_SIZE
      BY <2>1 DEF IInv
    <3>2. PICK k \in Nat : k = n + 1
      OBVIOUS
    <3>3. idx' = k * STEP_SIZE
      BY <1>1, <2>2, <3>1, <3>2, SMTT(30)
    <3>4. idx' <= Size(input)'
      BY <1>1, <2>1, <2>2
    <3>5. \E k2 \in Nat : idx' = k2 * STEP_SIZE
      BY <3>3
    <3> QED
      BY <3>4, <3>5
  <2> QED
    BY <2>1, <2>3, <2>9, <2>10, <2>11 DEF IInv
<1>4. CASE CheckRemainder
  <2>1. Remainder /\ check_next_input(get_remainder) /\ pc = "loop" /\ pc' = "eof"
        /\ input' = input /\ result' = result /\ idx < Size(input)
    BY <1>1, <1>4 DEF CheckRemainder, Remainder, has_remainder
  <2>2. /\ Holds(get_remainder, input, idx) /\ DOMAIN get_remainder = Offsets
        /\ idx' \in 0..SIZE_MAX /\ Size(input) <= idx + STEP_SIZE
    BY <2>1, RemainderRead DEF IInv
  <2>3. checker' = Checked(get_remainder, checker) /\ algorithm' = algorithm
    BY <2>1, AlgorithmIs DEF IInv
  <2>4. PICK s, e, block, c :
          /\ s = input /\ e = idx /\ block = get_remainder /\ c = checker
    OBVIOUS
  <2>5. /\ State(Checked(block, c))
        /\ Works /\ CheckedUpTo(c, s, e)
             => CheckedUpTo(Checked(block, c), s, e + STEP_SIZE)
    <3>1. /\ State(c) /\ s \in ByteSeq /\ e \in Nat /\ DOMAIN block = Offsets
          /\ Holds(block, s, e)
      BY <1>1, <1>2, <2>2, <2>4
    <3> QED
      BY <1>2, <3>1, BlockChecked
  <2>6. PICK d : d = checker'
    OBVIOUS
  <2>7. State(d) /\ (Works => (~Errs(d) <=> Track(s, e + STEP_SIZE)))
    BY <2>1, <2>3, <2>4, <2>5, <2>6 DEF IInv, CheckedUpTo
  <2>8. Track(s, e + STEP_SIZE) <=> Answer(s)
    <3>1. PICK n \in Nat : idx = n * STEP_SIZE
      BY <2>1 DEF IInv
    <3>2. s \in ByteSeq /\ e \in Nat /\ e = n * STEP_SIZE /\ e < Size(s)
          /\ Size(s) <= e + STEP_SIZE
      BY <1>1, <2>1, <2>2, <2>4, <3>1
    <3> QED
      BY <1>2, <3>2, LastBlock
  <2>9. State(d)' /\ (Works' => (~Errs(d)' <=> Answer(s)'))
    BY <2>3, <2>7, <2>8, SameNamespace
  <2>10. State(checker)' /\ (Works => (~Errs(checker) <=> Answer(input)))'
    BY <2>1, <2>4, <2>6, <2>9
  <2>11. ReaderOK'
    BY <1>1, <2>1, <2>2 DEF IInv, ReaderOK
  <2> QED
    BY <2>1, <2>3, <2>10, <2>11 DEF IInv
<1>5. CASE SkipRemainder
  <2>1. /\ pc = "loop" /\ pc' = "eof" /\ idx >= Size(input)
        /\ input' = input /\ idx' = idx /\ result' = result
        /\ algorithm' = algorithm /\ checker' = checker
    BY <1>1, <1>5 DEF SkipRemainder, NoRemainder, has_remainder
  <2>2. PICK s, e, c : s = input /\ e = idx /\ c = checker
    OBVIOUS
  <2>3. e = Size(s) /\ s \in ByteSeq /\ Size(s) \in Nat
    BY <1>1, <2>1, <2>2 DEF IInv
  <2>4. PICK n \in Nat : e = n * STEP_SIZE
    BY <2>1, <2>2 DEF IInv
  <2>5. Answer(s) <=> Track(s, e)
    <3>1. Size(s) % STEP_SIZE = 0
      <4>1. STEP_SIZE > 0 /\ Size(s) = n * STEP_SIZE
        BY <1>1, <2>3, <2>4
      <4> QED
        BY <1>1, <2>3, <4>1, Multiple, Zenon
    <3> QED
      BY <2>3, <3>1, WholeOnTrack DEF Answer
  <2>6. State(c) /\ (Works => (~Errs(c) <=> Answer(s)))
    BY <1>2, <2>1, <2>2, <2>5 DEF IInv, CheckedUpTo
  <2>7. State(c)' /\ (Works' => (~Errs(c)' <=> Answer(s)'))
    BY <2>1, <2>6, SameNamespace
  <2>8. State(checker)' /\ (Works => (~Errs(checker) <=> Answer(input)))'
    BY <2>1, <2>2, <2>7
  <2>9. ReaderOK'
    BY <2>1 DEF IInv, ReaderOK
  <2> QED
    BY <2>1, <2>8, <2>9 DEF IInv
<1>6. CASE CheckEof
  <2>1. /\ pc = "eof" /\ pc' = "returned" /\ result' = errors
        /\ input' = input /\ idx' = idx /\ algorithm' = algorithm /\ checker' = checker
    BY <1>6 DEF CheckEof, check_eof, Return
  <2>2. result' = IF Errs(checker) THEN "UTF8_ERROR" ELSE "SUCCESS"
    BY <2>1, AlgorithmIs DEF IInv
  <2>3. PICK s, c : s = input /\ c = checker
    OBVIOUS
  <2>4. State(c) /\ (Works => (result' = "SUCCESS" <=> Answer(s)))
    BY <1>2, <2>1, <2>2, <2>3 DEF IInv
  <2>5. State(c)' /\ (Works' => (result' = "SUCCESS" <=> Answer(s)'))
    BY <2>1, <2>4, SameNamespace
  <2>6. State(checker)' /\ (Works => (result = "SUCCESS" <=> Answer(input)))'
    BY <2>1, <2>3, <2>5
  <2>7. ReaderOK'
    BY <2>1, <2>2 DEF IInv, ReaderOK, error_code
  <2> QED
    BY <2>1, <2>6, <2>7 DEF IInv
<1>7. CASE UNCHANGED vars
  <2>1. /\ input' = input /\ idx' = idx /\ pc' = pc /\ result' = result
        /\ algorithm' = algorithm /\ checker' = checker
    BY <1>7 DEF vars, reader
  <2>2. PICK s, e, c : s = input /\ e = idx /\ c = checker
    OBVIOUS
  <2>3. /\ State(c)' /\ (Works' <=> Works) /\ (Errs(c)' <=> Errs(c))
        /\ (CheckedUpTo(c, s, e)' <=> CheckedUpTo(c, s, e))
        /\ (Answer(s)' <=> Answer(s))
    BY <1>2, <2>1, <2>2, SameNamespace
  <2>4. /\ State(checker)' /\ (Errs(checker)' <=> Errs(checker))
        /\ (CheckedUpTo(checker, input, idx)' <=> CheckedUpTo(checker, input, idx))
        /\ (Answer(input)' <=> Answer(input))
    BY <2>1, <2>2, <2>3
  <2> QED
    BY <2>1, <2>3, <2>4 DEF IInv, ReaderOK
<1> QED
  BY <1>3, <1>4, <1>5, <1>6, <1>7 DEF Next

(* and so it holds of every behaviour.                                     *)
LEMMA IInvHolds ==
  Spec => []IInv
<1> QED
  BY InitIInv, NextIInv, PTL DEF Spec

(* Every variable keeps its type; with vectors of at least five lanes the  *)
(* counts of basic never come near the sign of an int8_t, whatever bytes   *)
(* are piled up.                                                           *)
THEOREM TypeCorrect ==
  ASSUME "basic" \in Algorithms => W >= 5
  PROVE  Spec => []TypeOK
<1>1. IInv => TypeOK
  <2> SUFFICES ASSUME IInv PROVE TypeOK
    OBVIOUS
  <2>1. ValidateTypeOK /\ algorithm \in Algorithms
    BY InputsAssumption DEF IInv, ReaderOK, ValidateTypeOK
  <2>2. algorithm \in {"range", "basic", "zwegner"} /\ State(checker)
    BY AlgorithmIs DEF IInv
  <2>3. W \in Nat /\ R!Lanes = Lanes /\ B!Lanes = Lanes /\ Z!Lanes = Lanes
        /\ Z!vmask_bits = Lanes
    BY WidthAssumption DEF R!Lanes, B!Lanes, Z!Lanes, Lanes, Z!vmask_bits
  <2>4. PICK c : c = checker
    OBVIOUS
  <2>5. CASE algorithm = "range"
    <3>1. RangeState(c)
      BY <2>2, <2>4, <2>5 DEF State
    <3>2. PICK raw \in [Lanes -> 0..255] : raw = c.previous.raw_bytes
      BY <3>1 DEF RangeState
    <3>3. c.previous = [raw_bytes |-> raw, first_len |-> [k \in Lanes |-> R!first_len(raw[k])]]
      BY <2>3, <3>1, <3>2 DEF RangeState, R!processed
    <3>4. \A b \in 0..255 : R!first_len(b) \in 0..3
      BY DEF R!first_len
    <3>5. [k \in Lanes |-> R!first_len(raw[k])] \in [Lanes -> 0..3]
      BY <3>2, <3>4
    <3>6. R!utf8_checker(c)
      BY <2>3, <3>1, <3>2, <3>3, <3>5 DEF RangeState, R!utf8_checker
    <3> QED
      BY <2>1, <2>4, <2>5, <3>6 DEF TypeOK
  <2>6. CASE algorithm = "basic"
    <3>1. BasicState(c)
      BY <2>2, <2>4, <2>6 DEF State
    <3>2. W >= 5
      BY <2>6 DEF IInv
    <3>3. PICK p : p = c.previous
      OBVIOUS
    <3>4. PrevState(p)
      BY <3>1, <3>3 DEF BasicState
    <3>5. p.carried_continuations \in [Lanes -> 0..31]
      <4>1. PICK f : f = p.carried_continuations
        OBVIOUS
      <4>2. f \in [Lanes -> Nat] /\ \A k \in Lanes : f[k] <= 31
        BY <3>2, <3>4, <4>1 DEF PrevState, BoundsOf
      <4>3. \A k \in Lanes : f[k] \in 0..31
        BY <4>2
      <4> QED
        BY <4>1, <4>2, <4>3
    <3>6. p \in [raw_bytes: [Lanes -> 0..255], carried_continuations: [Lanes -> 0..31]]
      BY <3>4, <3>5 DEF PrevState
    <3>7. B!utf8_checker(c)
      BY <2>3, <3>1, <3>3, <3>6 DEF BasicState, B!utf8_checker
    <3> QED
      BY <2>1, <2>4, <2>6, <3>7 DEF TypeOK
  <2>7. CASE algorithm = "zwegner"
    <3>1. ZwegnerState(c)
      BY <2>2, <2>4, <2>7 DEF State
    <3>2. Z!utf8_checker(c)
      BY <2>3, <3>1 DEF ZwegnerState, Z!utf8_checker
    <3> QED
      BY <2>1, <2>4, <2>7, <3>2 DEF TypeOK
  <2> QED
    BY <2>2, <2>5, <2>6, <2>7
<1> QED
  BY <1>1, IInvHolds, PTL

(* Between two blocks an error is recorded exactly when the bytes consumed *)
(* so far can no longer become well formed, or end in a byte that the      *)
(* algorithm condemns: neither the fast path's old vector, nor the two     *)
(* rounds of basic, nor the carries of zwegner lose or invent one.         *)
THEOREM ErrorsAreExact ==
  Spec => [](Works => ErrorIsExact)
<1>1. IInv => (Works => ErrorIsExact)
  <2> SUFFICES ASSUME IInv, Works, pc = "loop"
               PROVE  erroneous <=> ~OnTrack(SubSeq(input, 1, idx))
    BY DEF ErrorIsExact
  <2>1. input \in ByteSeq /\ idx \in Nat /\ idx <= Size(input)
    BY InputType, SizeMaxAssumption DEF IInv, ReaderOK
  <2>2. OnTrack(SubSeq(input, 1, idx)) <=> Track(input, idx)
    BY <2>1, PrefixOnTrack
  <2>3. erroneous <=> Errs(checker)
    BY AlgorithmIs DEF IInv
  <2> QED
    BY <2>2, <2>3 DEF IInv, CheckedUpTo
<1> QED
  BY <1>1, IInvHolds, PTL

(* While no error is recorded, the checker demands of the next bytes just  *)
(* what the character cut by the cursor still needs, however long ago the  *)
(* vector that it kept was read.                                           *)
THEOREM DemandsAreDue ==
  Spec => [](Works => DemandIsDue)
<1>1. IInv => (Works => DemandIsDue)
  <2> DEFINE consumed(n) == IF n <= idx THEN input[idx - n + 1] ELSE 0
             due == {m \in 0..2 : \E n \in 1..(3 - m) :
                                    consumed(n) >= <<192, 224, 240>>[n + m]}
  <2> SUFFICES ASSUME IInv, Works, pc = "loop", ~erroneous
               PROVE  demanded = due
    BY DEF DemandIsDue
  <2>0. due = Due(input, idx)
    <3>1. input \in ByteSeq /\ idx \in Nat /\ idx <= Size(input) /\ Size(input) \in Nat
      BY InputType, SizeMaxAssumption DEF IInv, ReaderOK
    <3>2. \A n \in 1..3 : consumed(n) = ByteAt(input, idx - n)
      BY <3>1 DEF ByteAt
    <3> HIDE DEF consumed
    <3>3. ASSUME NEW m \in 0..2, NEW n \in 1..(3 - m)
          PROVE  consumed(n) = ByteAt(input, idx - n)
      <4>1. n \in 1..3
        OBVIOUS
      <4> QED
        BY <3>2, <4>1
    <3> QED
      BY <3>3 DEF Due
  <2> SUFFICES demanded = Due(input, idx)
    BY <2>0
  <2> HIDE DEF due
  <2>1. algorithm \in {"range", "basic", "zwegner"} /\ ~Errs(checker)
        /\ State(checker)
    BY AlgorithmIs DEF IInv
  <2>2. Context(checker, input, idx)
    BY <2>1 DEF IInv, CheckedUpTo
  <2>3. PICK c, s, e : c = checker /\ s = input /\ e = idx
    OBVIOUS
  <2>4. s \in ByteSeq /\ e \in Nat
    BY <2>3, InputType, SizeMaxAssumption DEF IInv, ReaderOK
  <2>5. W \in Nat /\ W >= 3 /\ R!Lanes = Lanes
    BY WidthAssumption DEF R!Lanes, Lanes
  <2>6. CASE algorithm = "range"
    <3>1. RangeState(c) /\ Current(c.previous.raw_bytes, s, e)
      BY <2>1, <2>2, <2>3, <2>6 DEF State, Context, RangeContext
    <3>2. PICK raw \in [Lanes -> 0..255] : raw = c.previous.raw_bytes
      BY <3>1 DEF RangeState
    <3>3. \A k \in Lanes : c.previous.first_len[k] = R!first_len(raw[k])
      BY <2>5, <3>1, <3>2 DEF RangeState, R!processed
    <3>4. ASSUME NEW m \in 0..2, NEW n \in 1..(3 - m)
          PROVE  c.previous.first_len[W - n] >= n + m
                   <=> raw[W - n] >= <<192, 224, 240>>[n + m]
      <4>1. W - n \in Lanes
        BY <2>5 DEF Lanes
      <4>2. PICK b \in 0..255 : b = raw[W - n]
        BY <3>2, <4>1
      <4>3. PICK t \in 1..3 : t = n + m
        OBVIOUS
      <4>4. R!first_len(b) >= t <=> b >= <<192, 224, 240>>[t]
        BY DEF R!first_len
      <4> QED
        BY <3>3, <4>1, <4>2, <4>3, <4>4
    <3>5. demanded = Wanted(raw)
      BY <2>3, <2>6, <3>4 DEF demanded, Wanted
    <3> QED
      BY <2>3, <2>4, <3>1, <3>2, <3>5, WantedIsDue
  <2>7. CASE algorithm = "basic"
    <3>1. CountsOf(c.previous.carried_continuations, s, e)
      BY <2>2, <2>3, <2>7 DEF Context, BasicContext, PrevContext
    <3>2. PICK x : x = c.previous.carried_continuations[W - 1]
      OBVIOUS
    <3>3. /\ x >= 2 <=> \/ ByteAt(s, e - 1) >= 192
                        \/ ByteAt(s, e - 2) >= 224
                        \/ ByteAt(s, e - 3) >= 240
          /\ x >= 3 <=> ByteAt(s, e - 1) >= 224 \/ ByteAt(s, e - 2) >= 240
          /\ x >= 4 <=> ByteAt(s, e - 1) >= 240
      BY <3>1, <3>2 DEF CountsOf, CountIs
    <3>4. demanded = {m \in 0..2 : x >= m + 2}
      BY <2>3, <2>7, <3>2 DEF demanded
    <3>5. /\ 0 \in demanded <=> x >= 2
          /\ 1 \in demanded <=> x >= 3
          /\ 2 \in demanded <=> x >= 4
          /\ demanded \subseteq 0..2
      BY <3>4, 0 + 2 = 2, 1 + 2 = 3, 2 + 2 = 4
    <3>6. \A m \in 0..2 : m = 0 \/ m = 1 \/ m = 2
      OBVIOUS
    <3>7. \A m \in 0..2 : m \in demanded <=> m \in Due(s, e)
      <4>1. /\ 0 \in Due(s, e) <=> x >= 2
            /\ 1 \in Due(s, e) <=> x >= 3
            /\ 2 \in Due(s, e) <=> x >= 4
        BY <2>4, <3>3, DueIs
      <4> QED
        BY <3>5, <3>6, <4>1
    <3>8. Due(s, e) \subseteq 0..2
      BY <2>4, DueIs
    <3> QED
      BY <2>3, <3>5, <3>7, <3>8
  <2>8. CASE algorithm = "zwegner"
    BY <2>2, <2>8 DEF Context, ZwegnerContext, demanded
  <2> QED
    BY <2>1, <2>6, <2>7, <2>8
<1> QED
  BY <1>1, IInvHolds, PTL

(* What SUCCESS means, since check_eof() does nothing: the input is well   *)
(* formed if its last block is padded, and can be the start of a           *)
(* well-formed one if its blocks are all full.                             *)
THEOREM VerdictIsUpToCut ==
  Spec => [](Works => VerdictUpToCut)
<1>1. IInv => (Works => VerdictUpToCut)
  BY InputType DEF IInv, ReaderOK, VerdictUpToCut, Answer
<1> QED
  BY <1>1, IInvHolds, PTL
=============================================================================
