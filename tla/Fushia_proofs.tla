--------------------------- MODULE Fushia_proofs ---------------------------
(***************************************************************************)
(* Proofs about the branching validators, for every buffer and whatever    *)
(* the lengths of the stretches of ASCII that they skip: they accept the   *)
(* well-formed buffers, and those that are so but for the overlong form of *)
(* U+FFFF, which the check "code_point < 0xffff" lets through.             *)
(***************************************************************************)
EXTENDS Fushia, Utf8Local

(* The buffer with that form replaced: what the validators really judge.   *)
judged == OverlongReplaced(input)

(* An overlong form has begun before the first e bytes end, and ends later.*)
Straddled(s, e) == \E i \in (e - 2)..e : OverlongAt(s, i)

(* Byte j, from 1, belongs to an overlong form.                            *)
Covered(s, j) == \E i \in (j - 3)..j : OverlongAt(s, i)

(* What is before a is whole.                                              *)
Boundary(a) ==
  /\ Clean(judged, a)
  /\ ~Open(judged, a)
  /\ ~Straddled(input, a)

(* The inductive invariant.                                                *)
IInv ==
  /\ window \in Windows
  /\ input \in Inputs
  /\ pos \in 0..size
  /\ result \in {"none", "SUCCESS", "UTF8_ERROR"}
  /\ Boundary(pos)
  /\ result = "SUCCESS" => pos = size
  /\ result = "UTF8_ERROR" => ~WellFormed(judged)
-----------------------------------------------------------------------------
LEMMA InputType ==
  ASSUME input \in Inputs
  PROVE  input \in ByteSeq /\ size \in Nat /\ size = Size(input)
<1>1. input \in ByteSeq /\ size = Size(input)
  BY InputsAssumption DEF ByteSeq, Size, size
<1> QED
  BY <1>1, SizeType

(* The four bytes of the overlong form.                                    *)
LEMMA OverlongBytes ==
  ASSUME NEW s \in ByteSeq, NEW i \in Int
  PROVE  OverlongAt(s, i) <=>
           /\ i >= 1 /\ i + 3 <= Size(s)
           /\ s[i] = 240 /\ s[i + 1] = 143 /\ s[i + 2] = 191 /\ s[i + 3] = 191
<1>1. Size(s) \in Nat /\ Size(s) = Len(s) /\ s \in Seq(Byte)
  BY SizeType DEF Size, ByteSeq
<1>2. CASE i >= 1 /\ i + 3 <= Size(s)
  <2> DEFINE t == SubSeq(s, i, i + 3)
  <2>1. i \in 1..(Len(s) - 3)
    BY <1>1, <1>2
  <2>2. t \in Seq(Byte) /\ Len(t) = 4
        /\ t[1] = s[i] /\ t[2] = s[i + 1] /\ t[3] = s[i + 2] /\ t[4] = s[i + 3]
    BY <1>1, <1>2
  <2>3. t = <<240, 143, 191, 191>> <=>
          t[1] = 240 /\ t[2] = 143 /\ t[3] = 191 /\ t[4] = 191
    <3> HIDE DEF t
    <3> QED
      BY <2>2
  <2> QED
    BY <1>2, <2>1, <2>2, <2>3 DEF OverlongAt, Overlong_FFFF
<1>3. CASE ~(i >= 1 /\ i + 3 <= Size(s))
  BY <1>1, <1>3 DEF OverlongAt
<1> QED
  BY <1>2, <1>3

(* Only its bytes are replaced.                                            *)
LEMMA ReplacedBytes ==
  ASSUME NEW s \in ByteSeq
  PROVE  /\ OverlongReplaced(s) \in ByteSeq
         /\ Size(OverlongReplaced(s)) = Size(s)
         /\ \A j \in 1..Size(s) :
              OverlongReplaced(s)[j] = IF Covered(s, j) THEN 97 ELSE s[j]
<1> DEFINE r == OverlongReplaced(s)
<1>1. Size(s) \in Nat /\ Size(s) = Len(s) /\ \A j \in 1..Size(s) : s[j] \in 0..255
  BY SizeType DEF Size
<1>2. r = [j \in 1..Len(s) |-> IF Covered(s, j) THEN 97 ELSE s[j]]
  BY DEF OverlongReplaced, Covered
<1>3. r \in [1..Len(s) -> 0..255]
  BY <1>1, <1>2
<1>4. r \in Seq(0..255) /\ Len(r) = Len(s)
  <2>1. Len(s) \in Nat
    BY <1>1
  <2> DEFINE m == Len(s)
  <2>2. m \in Nat /\ r \in [1..m -> 0..255]
    BY <1>3, <2>1
  <2> HIDE DEF r, m
  <2>3. r \in Seq(0..255)
    BY <2>2, SeqDef
  <2>4. DOMAIN r = 1..m
    BY <2>2
  <2>5. Len(r) = m
    BY <2>2, <2>3, <2>4, LenProperties
  <2> QED
    BY <2>3, <2>5 DEF m
<1> QED
  BY <1>1, <1>2, <1>4 DEF ByteSeq, Byte, Size

(* A byte of the overlong form is none of ASCII, and its lead comes first. *)
LEMMA CoveredByte ==
  ASSUME NEW s \in ByteSeq, NEW j \in 1..Size(s), Covered(s, j)
  PROVE  /\ s[j] >= 128
         /\ OverlongAt(s, j) \/ (s[j] \in Continuation /\ Straddled(s, j - 1))
<1>1. PICK i \in (j - 3)..j : OverlongAt(s, i)
  BY DEF Covered
<1>2. j \in Int /\ i \in Int
  BY SizeType
<1>3. s[i] = 240 /\ s[i + 1] = 143 /\ s[i + 2] = 191 /\ s[i + 3] = 191
  BY <1>1, <1>2, OverlongBytes
<1>4. j = i \/ j = i + 1 \/ j = i + 2 \/ j = i + 3
  BY <1>1, <1>2
<1>5. CASE j = i
  BY <1>1, <1>3, <1>5
<1>6. CASE j # i
  <2>1. s[j] = 143 \/ s[j] = 191
    BY <1>3, <1>4, <1>6
  <2>2. i \in ((j - 1) - 2)..(j - 1)
    BY <1>1, <1>2, <1>6
  <2> QED
    BY <1>1, <2>1, <2>2 DEF Straddled, Continuation
<1> QED
  BY <1>5, <1>6

(* An ASCII byte ends whatever was begun.                                  *)
LEMMA AsciiEndsOverlong ==
  ASSUME NEW s \in ByteSeq, NEW e \in 1..Size(s), s[e] \in Ascii
  PROVE  ~Covered(s, e) /\ ~Straddled(s, e)
<1>1. ~Covered(s, e)
  BY CoveredByte DEF Ascii
<1>2. Straddled(s, e) => Covered(s, e)
  <2>1. \A i \in (e - 2)..e : i \in (e - 3)..e
    BY SizeType
  <2> QED
    BY <2>1 DEF Straddled, Covered
<1> QED
  BY <1>1, <1>2

(* n bytes from e on that open no overlong form and go on in continuations *)
(* are left as they are, and begin none that they do not end.              *)
LEMMA Untouched ==
  ASSUME NEW s \in ByteSeq, NEW e \in Nat, NEW n \in 1..4, e + n <= Size(s),
         ~Straddled(s, e), ~OverlongAt(s, e + 1),
         \A k \in 2..n : s[e + k] \in Continuation
  PROVE  /\ \A k \in 1..n : ~Covered(s, e + k)
         /\ ~Straddled(s, e + n)
<1>1. Size(s) \in Nat
  BY SizeType
<1>2. ASSUME NEW i \in (e - 2)..(e + n), OverlongAt(s, i)
      PROVE  FALSE
  <2>1. i \in Int
    OBVIOUS
  <2>2. CASE i <= e
    <3>1. i \in (e - 2)..e
      BY <2>2
    <3> QED
      BY <1>2, <3>1 DEF Straddled
  <2>3. CASE i = e + 1
    BY <1>2, <2>3
  <2>4. CASE i > e + 1
    <3>1. (i - e) \in 2..n /\ e + (i - e) = i
      BY <2>4
    <3>2. s[i] \in Continuation
      BY <3>1
    <3>3. s[i] = 240
      BY <1>2, <2>1, OverlongBytes
    <3> QED
      BY <3>2, <3>3 DEF Continuation
  <2> QED
    BY <2>1, <2>2, <2>3, <2>4
<1>3. ASSUME NEW k \in 1..n, NEW i \in ((e + k) - 3)..(e + k) PROVE ~OverlongAt(s, i)
  <2>1. i \in (e - 2)..(e + n)
    OBVIOUS
  <2> QED
    BY <1>2, <2>1
<1>4. ASSUME NEW i \in ((e + n) - 2)..(e + n) PROVE ~OverlongAt(s, i)
  <2>1. i \in (e - 2)..(e + n)
    OBVIOUS
  <2> QED
    BY <1>2, <2>1
<1> QED
  BY <1>3, <1>4 DEF Covered, Straddled

(* What is replaced in a prefix is what is replaced in the whole.          *)
LEMMA ReplacedPrefix ==
  ASSUME NEW s \in ByteSeq, NEW e \in Nat, e <= Size(s), ~Straddled(s, e)
  PROVE  OverlongReplaced(SubSeq(s, 1, e)) = SubSeq(OverlongReplaced(s), 1, e)
<1> DEFINE t == SubSeq(s, 1, e)
           r == OverlongReplaced(s)
           u == SubSeq(r, 1, e)
<1>1. t \in ByteSeq /\ Size(t) = e /\ \A j \in 1..e : t[j] = s[j]
  BY SizeType DEF ByteSeq, Size
<1>2. r \in ByteSeq /\ Size(r) = Size(s) /\ Size(s) \in Nat
      /\ \A j \in 1..Size(s) : r[j] = IF Covered(s, j) THEN 97 ELSE s[j]
  BY ReplacedBytes, SizeType
<1>3. u \in ByteSeq /\ Size(u) = e /\ \A j \in 1..e : u[j] = r[j]
  <2> HIDE DEF r
  <2> QED
    BY <1>2 DEF ByteSeq, Size
<1>4. ASSUME NEW i \in Int, i <= e
      PROVE  OverlongAt(t, i) <=> OverlongAt(s, i)
  <2>1. OverlongAt(s, i) => i + 3 <= e
    <3>1. ~(i + 3 <= e) => i \in (e - 2)..e
      BY <1>4
    <3> QED
      BY <3>1 DEF Straddled
  <2>2. i >= 1 /\ i + 3 <= e =>
          t[i] = s[i] /\ t[i + 1] = s[i + 1] /\ t[i + 2] = s[i + 2] /\ t[i + 3] = s[i + 3]
    BY <1>1
  <2> HIDE DEF t
  <2> QED
    BY <1>1, <1>2, <2>1, <2>2, OverlongBytes
<1>5. ASSUME NEW j \in 1..e PROVE OverlongReplaced(t)[j] = u[j]
  <2>1. Covered(t, j) <=> Covered(s, j)
    <3>1. \A i \in (j - 3)..j : i \in Int /\ i <= e
      OBVIOUS
    <3> QED
      BY <1>4, <3>1 DEF Covered
  <2>2. OverlongReplaced(t)[j] = IF Covered(t, j) THEN 97 ELSE t[j]
    <3> HIDE DEF t
    <3> QED
      BY <1>1, ReplacedBytes
  <2>3. j \in 1..Size(s)
    BY <1>2
  <2>4. r[j] = IF Covered(s, j) THEN 97 ELSE s[j]
    BY <1>2, <2>3
  <2>5. u[j] = r[j] /\ t[j] = s[j]
    BY <1>1, <1>3
  <2> HIDE DEF r, t, u
  <2> QED
    BY <2>1, <2>2, <2>4, <2>5
<1>6. OverlongReplaced(t) \in ByteSeq /\ Size(OverlongReplaced(t)) = e
  <2> HIDE DEF t
  <2> QED
    BY <1>1, ReplacedBytes
<1> DEFINE v == OverlongReplaced(t)
<1>7. v \in Seq(Byte) /\ u \in Seq(Byte) /\ Len(v) = e /\ Len(u) = e
      /\ \A j \in 1..e : v[j] = u[j]
  BY <1>3, <1>5, <1>6 DEF ByteSeq, Size
<1>8. v = u
  <2> HIDE DEF u, v
  <2> QED
    BY <1>7, SeqEqual
<1> QED
  BY <1>8
-----------------------------------------------------------------------------
(* ASCII behind whole characters leaves them whole, however much of it.    *)
LEMMA AsciiStretch ==
  ASSUME NEW s \in ByteSeq, NEW e \in Nat, NEW m \in Nat \ {0},
         Clean(s, e), ~Open(s, e),
         \A k \in e..((e + m) - 1) : ByteAt(s, k) < 128
  PROVE  Clean(s, e + m) /\ ~Open(s, e + m)
<1>1. \A j \in Int : ByteAt(s, j) \in 0..255
  BY ByteAtType
<1>2. ByteAt(s, e - 1) < 192 /\ ByteAt(s, e - 2) < 224 /\ ByteAt(s, e - 3) < 240
  <2>1. ByteAt(s, e - 1) \in 0..255 /\ ByteAt(s, e - 2) \in 0..255 /\ ByteAt(s, e - 3) \in 0..255
    BY <1>1
  <2> QED
    BY <2>1 DEF Open
<1>3. ASSUME NEW j \in e..(e + m) PROVE ~Open(s, j)
  <2>1. j - 1 \in e..((e + m) - 1) \/ j - 1 = e - 1
    OBVIOUS
  <2>2. j - 2 \in e..((e + m) - 1) \/ j - 2 = e - 1 \/ j - 2 = e - 2
    OBVIOUS
  <2>3. j - 3 \in e..((e + m) - 1) \/ j - 3 = e - 1 \/ j - 3 = e - 2 \/ j - 3 = e - 3
    OBVIOUS
  <2>4. ByteAt(s, j - 1) \in 0..255 /\ ByteAt(s, j - 2) \in 0..255 /\ ByteAt(s, j - 3) \in 0..255
        /\ ByteAt(s, e - 1) \in 0..255 /\ ByteAt(s, e - 2) \in 0..255 /\ ByteAt(s, e - 3) \in 0..255
    BY <1>1
  <2>5. ByteAt(s, j - 1) < 192
    BY <1>2, <2>1, <2>4
  <2>6. ByteAt(s, j - 2) < 224
    BY <1>2, <2>2, <2>4
  <2>7. ByteAt(s, j - 3) < 240
    BY <1>2, <2>3, <2>4
  <2> QED
    BY <2>4, <2>5, <2>6, <2>7 DEF Open
<1>4. ASSUME NEW j \in 0..((e + m) - 1) PROVE LocalOK(s, j)
  <2>1. CASE j < e
    BY <2>1 DEF Clean
  <2>2. CASE j >= e
    <3>1. j \in e..(e + m) /\ j \in Nat
      BY <2>2
    <3>2. ~Open(s, j)
      BY <1>3, <3>1
    <3>3. j \in e..((e + m) - 1)
      BY <2>2
    <3>4. ByteAt(s, j) < 128 /\ ByteAt(s, j) \in 0..255
      BY <1>1, <3>1, <3>3
    <3>5. ByteAt(s, j) \notin Continuation
      BY <3>4 DEF Continuation
    <3> QED
      BY <3>1, <3>2, <3>5, WindowAtBoundary
  <2> QED
    BY <2>1, <2>2
<1>5. e + m \in e..(e + m)
  OBVIOUS
<1> QED
  BY <1>3, <1>4, <1>5 DEF Clean
-----------------------------------------------------------------------------
(* The checks of a character draw the line of the table of legal bytes,    *)
(* except that they let the overlong form of U+FFFF through.               *)
LEMMA CheckedCharacter ==
  ASSUME input \in Inputs, pos \in Nat, NEW n \in 2..4, pos + n <= size,
         n = announced(data(pos)),
         \A k \in 1..(n - 1) : data(pos + k) \in Continuation
  PROVE  in_range(n, code_point(n)) <=>
           LegalChar(input, pos + 1, n) \/ OverlongAt(input, pos + 1)
<1> DEFINE b0 == input[pos + 1]
           b1 == input[pos + 2]
           b2 == input[pos + 3]
           b3 == input[pos + 4]
           v == code_point(n)
<1>1. input \in ByteSeq /\ size \in Nat /\ size = Size(input)
  BY InputType
<1>2. b0 \in 0..255
  <2>1. pos + 1 \in 1..Size(input)
    BY <1>1
  <2> QED
    BY <1>1, <2>1, SizeType
<1>3. /\ (pos + 1) + 1 = pos + 2 /\ (pos + 1) + 2 = pos + 3 /\ (pos + 1) + 3 = pos + 4
      /\ (pos + 2) + 1 = pos + 3 /\ (pos + 3) + 1 = pos + 4 /\ pos + 1 >= 1
  OBVIOUS
<1>4. data(pos) = b0 /\ data(pos + 1) = b1 /\ data(pos + 2) = b2 /\ data(pos + 3) = b3
  BY <1>3 DEF data
<1>5. /\ b1 \in 128..191
      /\ n >= 3 => b2 \in 128..191
      /\ n >= 4 => b3 \in 128..191
  <2>1. 1 \in 1..(n - 1)
    OBVIOUS
  <2>2. n >= 3 => 2 \in 1..(n - 1)
    OBVIOUS
  <2>3. n >= 4 => 3 \in 1..(n - 1)
    OBVIOUS
  <2>4. \A k \in 1..(n - 1) : data(pos + k) \in 128..191
    BY DEF Continuation
  <2> HIDE DEF b1, b2, b3
  <2> QED
    BY <1>4, <2>1, <2>2, <2>3, <2>4
<1>6. /\ n = 2 => b0 \in 192..223
      /\ n = 3 => b0 \in 224..239
      /\ n = 4 => b0 \in 240..247
  <2>1. n = announced(b0)
    BY <1>4
  <2> HIDE DEF b0
  <2>2. b0 \in 0..127 => announced(b0) = 1
    BY DEF announced
  <2>3. b0 \in 192..223 => announced(b0) = 2
    BY DEF announced
  <2>4. b0 \in 224..239 => announced(b0) = 3
    BY DEF announced
  <2>5. b0 \in 240..247 => announced(b0) = 4
    BY DEF announced
  <2>6. b0 \in (128..191) \cup (248..255) => announced(b0) = 0
    BY DEF announced
  <2> QED
    BY <1>2, <2>1, <2>2, <2>3, <2>4, <2>5, <2>6
<1>7. LegalChar(input, pos + 1, n) <=>
        \/ n = 2 /\ b0 \in Lead2 /\ b1 \in Continuation
        \/ n = 3 /\ b0 \in Lead3 /\ b1 \in SecondBytes(b0) /\ b2 \in Continuation
        \/ n = 4 /\ b0 \in Lead4 /\ b1 \in SecondBytes(b0) /\ b2 \in Continuation
                 /\ b3 \in Continuation
  BY <1>3 DEF LegalChar
<1>8. OverlongAt(input, pos + 1) <=>
        pos + 4 <= Size(input) /\ b0 = 240 /\ b1 = 143 /\ b2 = 191 /\ b3 = 191
  <2>1. pos + 1 \in Int
    OBVIOUS
  <2>2. OverlongAt(input, pos + 1) <=>
          /\ pos + 1 >= 1 /\ (pos + 1) + 3 <= Size(input)
          /\ input[pos + 1] = 240 /\ input[(pos + 1) + 1] = 143
          /\ input[(pos + 1) + 2] = 191 /\ input[(pos + 1) + 3] = 191
    BY <1>1, <2>1, OverlongBytes
  <2> QED
    BY <1>3, <2>2
<1>9. v = code_point(n)
  OBVIOUS
<1> HIDE DEF b0, b1, b2, b3, v
<1> DEFINE OK == in_range(n, v)
<1> SUFFICES OK <=> LegalChar(input, pos + 1, n) \/ OverlongAt(input, pos + 1)
  BY <1>9
<1> HIDE DEF OK
<1>10. CASE n = 2
  <2>1. b0 \in 192..223 /\ b1 \in 128..191
    BY <1>5, <1>6, <1>10
  <2>2. v = (b0 % 32) * 64 + (b1 % 64)
    BY <1>4, <1>9, <1>10, SMT DEF code_point
  <2>7. b0 % 32 = b0 - 192 /\ b1 % 64 = b1 - 128
    BY <2>1, SMT
  <2>8. v = (b0 - 192) * 64 + (b1 - 128)
    BY <2>2, <2>7, SMT
  <2>3. v \in Nat /\ v <= 2047 /\ (v < 128 <=> b0 < 194)
    BY <2>1, <2>8, SMT
  <2>4. OK <=> ~(b0 < 194)
    BY <1>10, <2>3, SMT DEF OK, in_range
  <2>5. LegalChar(input, pos + 1, n) <=> ~(b0 < 194)
    BY <1>7, <1>10, <2>1 DEF Continuation, Lead2
  <2>6. ~OverlongAt(input, pos + 1)
    BY <1>8, <2>1
  <2> QED
    BY <2>4, <2>5, <2>6
<1>11. CASE n = 3
  <2>1. b0 \in 224..239 /\ b1 \in 128..191 /\ b2 \in 128..191
    BY <1>5, <1>6, <1>11
  <2>2. v = (b0 % 16) * 4096 + (b1 % 64) * 64 + (b2 % 64)
    BY <1>4, <1>9, <1>11, SMT DEF code_point
  <2>7. b0 % 16 = b0 - 224 /\ b1 % 64 = b1 - 128 /\ b2 % 64 = b2 - 128
    BY <2>1, SMT
  <2>8. v = (b0 - 224) * 4096 + (b1 - 128) * 64 + (b2 - 128)
    BY <2>2, <2>7, SMT
  <2>3. /\ v \in Nat /\ v <= 65535
        /\ v < 2048 <=> b0 = 224 /\ b1 < 160
        /\ v > 55295 /\ v < 57344 <=> b0 = 237 /\ b1 >= 160
    BY <2>1, <2>8, SMT
  <2>4. OK <=> ~(b0 = 224 /\ b1 < 160) /\ ~(b0 = 237 /\ b1 >= 160)
    BY <1>11, <2>3, SMT DEF OK, in_range
  <2>5. LegalChar(input, pos + 1, n) <=> ~(b0 = 224 /\ b1 < 160) /\ ~(b0 = 237 /\ b1 >= 160)
    BY <1>7, <1>11, <2>1 DEF SecondBytes, Continuation, Lead3
  <2>6. ~OverlongAt(input, pos + 1)
    BY <1>8, <2>1
  <2> QED
    BY <2>4, <2>5, <2>6
<1>12. CASE n = 4
  <2>1. b0 \in 240..247 /\ b1 \in 128..191 /\ b2 \in 128..191 /\ b3 \in 128..191
    BY <1>5, <1>6, <1>12
  <2>2. v = (b0 % 8) * 262144 + (b1 % 64) * 4096 + (b2 % 64) * 64 + (b3 % 64)
    BY <1>4, <1>9, <1>12, SMT DEF code_point
  <2>7. b0 % 8 = b0 - 240 /\ b1 % 64 = b1 - 128 /\ b2 % 64 = b2 - 128 /\ b3 % 64 = b3 - 128
    BY <2>1, SMT
  <2>8. v = (b0 - 240) * 262144 + (b1 - 128) * 4096 + (b2 - 128) * 64 + (b3 - 128)
    BY <2>2, <2>7, SMT
  <2>3. /\ v \in Nat
        /\ v < 65535 <=> b0 = 240 /\ b1 < 144 /\ ~(b1 = 143 /\ b2 = 191 /\ b3 = 191)
        /\ v > 1114111 <=> b0 > 244 \/ (b0 = 244 /\ b1 >= 144)
    BY <2>1, <2>8, SMT
  <2>4. OK <=> /\ ~(b0 = 240 /\ b1 < 144 /\ ~(b1 = 143 /\ b2 = 191 /\ b3 = 191))
               /\ ~(b0 > 244 \/ (b0 = 244 /\ b1 >= 144))
    BY <1>12, <2>3, SMT DEF OK, in_range
  <2>5. LegalChar(input, pos + 1, n) <=>
          ~(b0 = 240 /\ b1 < 144) /\ ~(b0 > 244 \/ (b0 = 244 /\ b1 >= 144))
    BY <1>7, <1>12, <2>1 DEF SecondBytes, Continuation, Lead4
  <2>6. OverlongAt(input, pos + 1) <=> b0 = 240 /\ b1 = 143 /\ b2 = 191 /\ b3 = 191
    BY <1>1, <1>8, <1>12
  <2> QED
    BY <2>1, <2>4, <2>5, <2>6
<1> QED
  BY <1>10, <1>11, <1>12
-----------------------------------------------------------------------------
(* The bytes of the buffer and of the judged one.                          *)
LEMMA JudgedBytes ==
  ASSUME input \in Inputs
  PROVE  /\ judged \in ByteSeq /\ Size(judged) = size
         /\ \A j \in 1..size : judged[j] = IF Covered(input, j) THEN 97 ELSE input[j]
  BY InputType, ReplacedBytes DEF judged

LEMMA InitIInv == Init => IInv
<1> SUFFICES ASSUME Init PROVE IInv
  OBVIOUS
<1>1. pos = 0 /\ input \in Inputs /\ window \in Windows /\ result = "none"
  BY DEF Init
<1>2. input \in ByteSeq /\ size \in Nat
  BY <1>1, InputType
<1>3. Clean(judged, 0) /\ ~Open(judged, 0)
  BY DEF Clean, Open, ByteAt
<1>4. ~Straddled(input, 0)
  <2>1. \A i \in (0 - 2)..0 : i \in Int /\ ~(i >= 1)
    OBVIOUS
  <2> QED
    BY <1>2, <2>1, OverlongBytes DEF Straddled
<1> QED
  BY <1>1, <1>2, <1>3, <1>4 DEF IInv, Boundary

(* A stretch of m bytes of ASCII is read.                                  *)
LEMMA AsciiRead ==
  ASSUME IInv, NEW m \in Nat \ {0}, pos + m <= size,
         \A k \in pos..((pos + m) - 1) : data(k) \in Ascii
  PROVE  Boundary(pos + m)
<1>1. input \in ByteSeq /\ size \in Nat /\ size = Size(input) /\ pos \in Nat /\ pos \in 0..size
  BY InputType DEF IInv
<1>2. judged \in ByteSeq /\ Size(judged) = size
      /\ \A j \in 1..size : judged[j] = IF Covered(input, j) THEN 97 ELSE input[j]
  BY JudgedBytes DEF IInv
<1>3. ASSUME NEW k \in pos..((pos + m) - 1)
      PROVE  ByteAt(judged, k) < 128 /\ ~Straddled(input, k + 1)
  <2>1. k \in Nat /\ k + 1 \in 1..size /\ ~(k < 0) /\ k < size
    BY <1>1
  <2>2. input[k + 1] \in Ascii
    BY DEF data
  <2>3. ~Covered(input, k + 1) /\ ~Straddled(input, k + 1)
    BY <1>1, <2>1, <2>2, AsciiEndsOverlong
  <2>4. ByteAt(judged, k) = input[k + 1]
    BY <1>2, <2>1, <2>3 DEF ByteAt
  <2> QED
    BY <2>2, <2>3, <2>4 DEF Ascii
<1>4. Clean(judged, pos + m) /\ ~Open(judged, pos + m)
  <2>1. Clean(judged, pos) /\ ~Open(judged, pos)
    BY DEF IInv, Boundary
  <2> QED
    BY <1>1, <1>2, <1>3, <2>1, AsciiStretch
<1>5. ~Straddled(input, pos + m)
  <2>1. (pos + m) - 1 \in pos..((pos + m) - 1) /\ ((pos + m) - 1) + 1 = pos + m
    BY <1>1
  <2> QED
    BY <1>3, <2>1
<1> QED
  BY <1>4, <1>5 DEF Boundary

LEMMA SkipAsciiIInv == IInv /\ SkipAscii => IInv'
<1> SUFFICES ASSUME IInv, SkipAscii PROVE IInv'
  OBVIOUS
<1>1. /\ window > 0 /\ pos + window <= size
      /\ \A k \in pos..(pos + (window - 1)) : data(k) \in Ascii
      /\ pos' = pos + window /\ UNCHANGED <<window, input, result>> /\ result = "none"
  BY DEF SkipAscii, ascii_window, advance
<1>2. size \in Nat /\ pos \in Nat /\ window \in Nat \ {0} /\ input \in Inputs
  BY <1>1, InputType, WindowsAssumption DEF IInv
<1>3. Boundary(pos + window)
  <2>1. pos + (window - 1) = (pos + window) - 1
    BY <1>2
  <2> QED
    BY <1>1, <1>2, <2>1, AsciiRead
<1> QED
  BY <1>1, <1>2, <1>3 DEF IInv, Boundary, judged, size

LEMMA AsciiByteIInv == IInv /\ AsciiByte => IInv'
<1> SUFFICES ASSUME IInv, AsciiByte PROVE IInv'
  OBVIOUS
<1>1. /\ pos < size /\ result = "none" /\ announced(data(pos)) = 1
      /\ pos' = pos + 1 /\ UNCHANGED <<window, input, result>>
  BY DEF AsciiByte, Reading, advance
<1>2. input \in ByteSeq /\ size \in Nat /\ size = Size(input) /\ pos \in Nat
  BY InputType DEF IInv
<1>3. data(pos) \in Ascii
  <2> DEFINE b == data(pos)
  <2>1. b \in 0..255
    <3>1. pos + 1 \in 1..Size(input)
      BY <1>1, <1>2
    <3> QED
      BY <1>2, <3>1, SizeType DEF data
  <2>2. announced(b) = 1
    BY <1>1
  <2> HIDE DEF b
  <2>3. b \in 192..223 => announced(b) = 2
    BY DEF announced
  <2>4. b \in 224..239 => announced(b) = 3
    BY DEF announced
  <2>5. b \in 240..247 => announced(b) = 4
    BY DEF announced
  <2>6. b \in (128..191) \cup (248..255) => announced(b) = 0
    BY DEF announced
  <2>7. b \in 0..127
    BY <2>1, <2>2, <2>3, <2>4, <2>5, <2>6
  <2> QED
    BY <2>7 DEF Ascii, b
<1>4. \A k \in pos..((pos + 1) - 1) : data(k) \in Ascii
  <2>1. \A k \in pos..((pos + 1) - 1) : k = pos
    BY <1>2
  <2> QED
    BY <1>3, <2>1
<1>5. Boundary(pos + 1)
  <2>1. 1 \in Nat \ {0} /\ pos + 1 <= size
    BY <1>1, <1>2
  <2> QED
    BY <1>4, <2>1, AsciiRead
<1> QED
  BY <1>1, <1>2, <1>5 DEF IInv, Boundary, judged, size

(* n bytes from pos on that begin no overlong form are judged as they are. *)
LEMMA JudgedAsIs ==
  ASSUME IInv, NEW n \in 1..4, pos + n <= size, ~OverlongAt(input, pos + 1),
         \A k \in 1..(n - 1) : data(pos + k) \in Continuation
  PROVE  /\ \A k \in 1..n : judged[pos + k] = input[pos + k]
         /\ ~Straddled(input, pos + n)
<1>1. input \in ByteSeq /\ size \in Nat /\ size = Size(input) /\ pos \in Nat
  BY InputType DEF IInv
<1>2. ASSUME NEW k \in 2..n PROVE input[pos + k] \in Continuation
  <2>1. k - 1 \in 1..(n - 1) /\ (pos + (k - 1)) + 1 = pos + k
    BY <1>1
  <2> QED
    BY <2>1 DEF data
<1>3. ~Straddled(input, pos)
  BY DEF IInv, Boundary
<1>4. (\A k \in 1..n : ~Covered(input, pos + k)) /\ ~Straddled(input, pos + n)
  BY <1>1, <1>2, <1>3, Untouched
<1>5. ASSUME NEW k \in 1..n PROVE judged[pos + k] = input[pos + k]
  <2>1. pos + k \in 1..size
    BY <1>1
  <2>2. judged[pos + k] = IF Covered(input, pos + k) THEN 97 ELSE input[pos + k]
    BY <2>1, JudgedBytes DEF IInv
  <2> QED
    BY <1>4, <2>2
<1> QED
  BY <1>4, <1>5

(* The same bytes are a character in both or in neither.                   *)
LEMMA SameCharacter ==
  ASSUME NEW s, NEW t, NEW a \in Nat, NEW n \in 1..4,
         \A k \in 1..n : s[a + k] = t[a + k]
  PROVE  LegalChar(s, a + 1, n) <=> LegalChar(t, a + 1, n)
<1>1. (a + 1) + 1 = a + 2 /\ (a + 1) + 2 = a + 3 /\ (a + 1) + 3 = a + 4
  OBVIOUS
<1>2. /\ s[a + 1] = t[a + 1]
      /\ n >= 2 => s[a + 2] = t[a + 2]
      /\ n >= 3 => s[a + 3] = t[a + 3]
      /\ n >= 4 => s[a + 4] = t[a + 4]
  <2>1. 1 \in 1..n /\ (n >= 2 => 2 \in 1..n) /\ (n >= 3 => 3 \in 1..n) /\ (n >= 4 => 4 \in 1..n)
    OBVIOUS
  <2> QED
    BY <2>1
<1> QED
  BY <1>1, <1>2 DEF LegalChar

LEMMA CharacterIInv == IInv /\ Character => IInv'
<1> SUFFICES ASSUME IInv, Character PROVE IInv'
  OBVIOUS
<1> DEFINE n == announced(data(pos))
<1>1. /\ n \in 2..4 /\ pos + n <= size
      /\ \A k \in 1..(n - 1) : data(pos + k) \in Continuation
      /\ in_range(n, code_point(n)) /\ result = "none"
      /\ pos' = pos + n /\ UNCHANGED <<window, input, result>>
  BY DEF Character, Reading, character, advance
<1>2. input \in ByteSeq /\ size \in Nat /\ size = Size(input) /\ pos \in Nat
      /\ input \in Inputs
  BY InputType DEF IInv
<1>3. judged \in ByteSeq /\ Size(judged) = size
  BY <1>2, JudgedBytes
<1>4. Clean(judged, pos) /\ ~Open(judged, pos) /\ ~Straddled(input, pos)
  BY DEF IInv, Boundary
<1>5. n = announced(data(pos))
  OBVIOUS
<1> HIDE DEF n
<1>6. LegalChar(input, pos + 1, n) \/ OverlongAt(input, pos + 1)
  BY <1>1, <1>2, <1>5, CheckedCharacter
<1>7. Boundary(pos + n)
  <2>1. CASE ~OverlongAt(input, pos + 1)
    <3>1. n \in 1..4
      BY <1>1
    <3>2. (\A k \in 1..n : judged[pos + k] = input[pos + k]) /\ ~Straddled(input, pos + n)
      BY <1>1, <2>1, <3>1, JudgedAsIs
    <3>3. LegalChar(judged, pos + 1, n)
      BY <1>2, <1>6, <2>1, <3>1, <3>2, SameCharacter
    <3>4. Clean(judged, pos + n) /\ ~Open(judged, pos + n)
      BY <1>1, <1>2, <1>3, <1>4, <3>1, <3>3, CharacterRead
    <3> QED
      BY <3>2, <3>4 DEF Boundary
  <2>2. CASE OverlongAt(input, pos + 1)
    <3>1. pos + 1 \in Int /\ (pos + 1) + 3 = pos + 4
      BY <1>2
    <3>2. pos + 4 <= size /\ input[pos + 1] = 240
      BY <1>2, <2>2, <3>1, OverlongBytes
    <3>3. n = 4
      BY <1>5, <3>2 DEF announced, data
    <3>4. ASSUME NEW k \in pos..((pos + 4) - 1) PROVE ByteAt(judged, k) < 128
      <4>1. k \in Nat /\ k + 1 \in 1..size /\ ~(k < 0) /\ k < size
        BY <1>2, <3>2
      <4>2. pos + 1 \in ((k + 1) - 3)..(k + 1)
        BY <1>2
      <4>3. judged[k + 1] = 97
        BY <1>2, <2>2, <4>1, <4>2, JudgedBytes DEF Covered
      <4> QED
        BY <1>3, <4>1, <4>3 DEF ByteAt
    <3>5. Clean(judged, pos + 4) /\ ~Open(judged, pos + 4)
      BY <1>2, <1>3, <1>4, <3>4, AsciiStretch
    <3>6. ASSUME NEW i \in ((pos + 4) - 2)..(pos + 4) PROVE ~OverlongAt(input, i)
      <4>1. i \in Int /\ pos + 1 < i /\ (i = pos + 2 \/ i = pos + 3 \/ i = pos + 4)
        BY <1>2
      <4>2. /\ input[pos + 2] # 240 /\ input[pos + 3] # 240 /\ input[pos + 4] # 240
        BY <1>2, <2>2, <3>1, OverlongBytes
      <4> QED
        BY <1>2, <4>1, <4>2, OverlongBytes
    <3> QED
      BY <3>3, <3>5, <3>6 DEF Boundary, Straddled
  <2> QED
    BY <2>1, <2>2
<1> QED
  BY <1>1, <1>2, <1>7 DEF IInv, Boundary, judged, size

LEMMA MalformedIInv == IInv /\ Malformed => IInv'
<1> SUFFICES ASSUME IInv, Malformed PROVE IInv'
  OBVIOUS
<1> DEFINE b == data(pos)
           m == announced(b)
<1>1. /\ pos < size /\ result = "none" /\ m # 1 /\ ~character(m)
      /\ result' = "UTF8_ERROR" /\ UNCHANGED <<window, input, pos>>
  BY DEF Malformed, Reading, return
<1>2. input \in ByteSeq /\ size \in Nat /\ size = Size(input) /\ pos \in Nat
      /\ input \in Inputs
  BY InputType DEF IInv
<1>3. judged \in ByteSeq /\ Size(judged) = size
      /\ \A j \in 1..size : judged[j] = IF Covered(input, j) THEN 97 ELSE input[j]
  BY <1>2, JudgedBytes
<1>4. Clean(judged, pos) /\ ~Open(judged, pos) /\ ~Straddled(input, pos)
  BY DEF IInv, Boundary
<1>5. b = input[pos + 1] /\ pos + 1 \in 1..size
  BY <1>1, <1>2 DEF data
<1>6. m \in 2..4 /\ pos + m <= size
        /\ (\A k \in 1..(m - 1) : data(pos + k) \in Continuation)
        => ~LegalChar(input, pos + 1, m) /\ ~OverlongAt(input, pos + 1)
  <2> SUFFICES ASSUME m \in 2..4, pos + m <= size,
                      \A k \in 1..(m - 1) : data(pos + k) \in Continuation
               PROVE  ~LegalChar(input, pos + 1, m) /\ ~OverlongAt(input, pos + 1)
    OBVIOUS
  <2>1. ~in_range(m, code_point(m))
    BY <1>1 DEF character
  <2>2. m = announced(data(pos))
    OBVIOUS
  <2> HIDE DEF m
  <2> QED
    BY <1>2, <2>1, <2>2, CheckedCharacter
<1>7. ~OverlongAt(input, pos + 1)
  <2> SUFFICES ASSUME OverlongAt(input, pos + 1) PROVE FALSE
    OBVIOUS
  <2>1. pos + 1 \in Int /\ (pos + 1) + 3 = pos + 4 /\ (pos + 1) + 2 = pos + 3
        /\ (pos + 1) + 1 = pos + 2
    BY <1>2
  <2>2. pos + 4 <= size /\ input[pos + 1] = 240 /\ input[pos + 2] = 143
        /\ input[pos + 3] = 191 /\ input[pos + 4] = 191
    BY <1>2, <2>1, OverlongBytes
  <2>3. m = 4
    BY <1>5, <2>2 DEF announced
  <2>4. data(pos + 1) = 143 /\ data(pos + 2) = 191 /\ data(pos + 3) = 191
    <3>1. (pos + 2) + 1 = pos + 3 /\ (pos + 3) + 1 = pos + 4
      BY <1>2
    <3> QED
      BY <2>1, <2>2, <3>1 DEF data
  <2>5. \A k \in 1..3 : data(pos + k) \in Continuation
    <3>1. \A k \in 1..3 : k = 1 \/ k = 2 \/ k = 3
      OBVIOUS
    <3> QED
      BY <2>4, <3>1 DEF Continuation
  <2>6. 4 - 1 = 3 /\ 4 \in 2..4
    OBVIOUS
  <2> HIDE DEF m
  <2> QED
    BY <1>6, <2>2, <2>3, <2>5, <2>6
<1>8. judged[pos + 1] = b
  <2>1. (pos + 1) - 1 = pos
    BY <1>2
  <2>2. ~Covered(input, pos + 1)
    BY <1>2, <1>4, <1>5, <1>7, <2>1, CoveredByte
  <2> QED
    BY <1>3, <1>5, <2>2
<1>9. ASSUME NEW n \in 1..4, pos + n <= size, LegalChar(judged, pos + 1, n)
      PROVE  FALSE
  <2>1. b \in 0..255
    BY <1>2, <1>5, SizeType
  <2>2. ASSUME NEW k \in 2..n PROVE judged[pos + k] \in Continuation /\ pos + k \in 1..size
    <3>1. pos + 1 \in 1..Size(judged) /\ (pos + 1) + n <= Size(judged) + 1
      BY <1>2, <1>3, <1>5, <1>9
    <3>2. (pos + 1) + 1 = pos + 2 /\ (pos + 1) + 2 = pos + 3 /\ (pos + 1) + 3 = pos + 4
          /\ (pos + 1) - 1 = pos /\ pos + 1 \in Nat
      BY <1>2
    <3>3. k = 2 \/ k = 3 \/ k = 4
      OBVIOUS
    <3>4. pos + k \in 1..size
      BY <1>2, <1>9
    <3>5. CASE k = 2
      <4>1. ByteAt(judged, pos + 1) \in Continuation
        BY <1>3, <1>9, <3>1, <3>2, BytesOfChar
      <4>2. ByteAt(judged, pos + 1) = judged[(pos + 1) + 1]
        BY <1>2, <1>3, <3>2, <3>4, <3>5 DEF ByteAt
      <4> QED
        BY <3>2, <3>4, <3>5, <4>1, <4>2
    <3>6. CASE k = 3
      <4>1. judged[(pos + 1) + 2] \in Continuation
        BY <1>9, <3>6 DEF LegalChar
      <4> QED
        BY <3>2, <3>4, <3>6, <4>1
    <3>7. CASE k = 4
      <4>1. judged[(pos + 1) + 3] \in Continuation
        BY <1>9, <3>7 DEF LegalChar
      <4> QED
        BY <3>2, <3>4, <3>7, <4>1
    <3> QED
      BY <3>3, <3>5, <3>6, <3>7
  <2>3. ASSUME NEW k \in 2..n PROVE input[pos + k] = judged[pos + k]
    <3>1. judged[pos + k] = IF Covered(input, pos + k) THEN 97 ELSE input[pos + k]
      BY <1>3, <2>2
    <3>2. judged[pos + k] # 97
      BY <2>2 DEF Continuation
    <3> QED
      BY <3>1, <3>2
  <2>4. ASSUME NEW k \in 1..n PROVE judged[pos + k] = input[pos + k]
    <3>1. CASE k = 1
      BY <1>5, <1>8, <3>1
    <3>2. CASE k # 1
      <4>1. k \in 2..n
        BY <3>2
      <4> QED
        BY <2>3, <4>1
    <3> QED
      BY <3>1, <3>2
  <2>5. LegalChar(input, pos + 1, n)
    BY <1>2, <1>9, <2>4, SameCharacter
  <2>6. m = n
    <3>1. b = input[pos + 1]
      BY <1>5
    <3> HIDE DEF b
    <3>2. CASE n = 1
      <4>1. b \in 0..127
        BY <2>5, <3>1, <3>2 DEF LegalChar, Ascii
      <4> QED
        BY <3>2, <4>1 DEF announced
    <3>3. CASE n = 2
      <4>1. b \in 194..223
        BY <2>5, <3>1, <3>3 DEF LegalChar, Lead2
      <4> QED
        BY <3>3, <4>1 DEF announced
    <3>4. CASE n = 3
      <4>1. b \in 224..239
        BY <2>5, <3>1, <3>4 DEF LegalChar, Lead3
      <4> QED
        BY <3>4, <4>1 DEF announced
    <3>5. CASE n = 4
      <4>1. b \in 240..244
        BY <2>5, <3>1, <3>5 DEF LegalChar, Lead4
      <4> QED
        BY <3>5, <4>1 DEF announced
    <3> QED
      BY <3>2, <3>3, <3>4, <3>5
  <2> HIDE DEF m, b
  <2>7. n \in 2..4
    BY <1>1, <2>6
  <2>8. ASSUME NEW k \in 1..(n - 1) PROVE data(pos + k) \in Continuation
    <3>1. k + 1 \in 2..n /\ pos + (k + 1) = (pos + k) + 1
      BY <1>2
    <3>2. input[pos + (k + 1)] \in Continuation
      BY <2>2, <2>3, <3>1
    <3> QED
      BY <3>1, <3>2 DEF data
  <2> QED
    BY <1>6, <1>9, <2>5, <2>6, <2>7, <2>8
<1>10. ~WellFormed(judged)
  <2>1. \A n \in 1..4 : pos + n <= Size(judged) => ~LegalChar(judged, pos + 1, n)
    BY <1>3, <1>9
  <2>2. ~WellFormed(SubSeq(judged, 1, Size(judged)))
    <3>1. pos < Size(judged) /\ Size(judged) \in Nat /\ Size(judged) <= Size(judged)
      BY <1>1, <1>2, <1>3
    <3> QED
      BY <1>2, <1>3, <1>4, <2>1, <3>1, NoCharacterHere
  <2>3. SubSeq(judged, 1, Size(judged)) = judged
    BY <1>3 DEF ByteSeq, Size
  <2> QED
    BY <2>2, <2>3
<1> QED
  BY <1>1, <1>10 DEF IInv, Boundary, judged, size

LEMMA FinishIInv == IInv /\ Finish => IInv'
<1> SUFFICES ASSUME IInv, Finish PROVE IInv'
  OBVIOUS
<1>1. pos >= size /\ result' = "SUCCESS" /\ UNCHANGED <<window, input, pos>>
  BY DEF Finish, return
<1>2. pos = size
  BY <1>1, InputType DEF IInv
<1> QED
  BY <1>1, <1>2 DEF IInv, Boundary, judged, size

THEOREM IInvHolds == Spec => []IInv
<1>1. IInv /\ [Next]_vars => IInv'
  <2>1. IInv /\ UNCHANGED vars => IInv'
    BY DEF IInv, Boundary, judged, size, vars
  <2> QED
    BY <2>1, SkipAsciiIInv, AsciiByteIInv, CharacterIInv, MalformedIInv, FinishIInv
        DEF Next
<1> QED
  BY <1>1, InitIInv, PTL DEF Spec

(* The types of the state; the loop never reads behind the buffer.         *)
THEOREM TypeCorrect == Spec => []TypeOK
<1>1. IInv => TypeOK
  BY InputsAssumption DEF IInv, TypeOK
<1> QED
  BY <1>1, IInvHolds, PTL

(* However many bytes of ASCII are skipped at a time, what has been read   *)
(* is whole (but for the overlong form that the range check lets through). *)
THEOREM LoopStaysAtBoundaries == Spec => []PosAtBoundary
<1>1. IInv => PosAtBoundary
  <2> SUFFICES ASSUME IInv PROVE PosAtBoundary
    OBVIOUS
  <2>1. input \in ByteSeq /\ size \in Nat /\ size = Size(input) /\ pos \in Nat /\ pos <= size
    BY InputType DEF IInv
  <2>2. Clean(judged, pos) /\ ~Open(judged, pos) /\ ~Straddled(input, pos)
    BY DEF IInv, Boundary
  <2>3. OverlongReplaced(SubSeq(input, 1, pos)) = SubSeq(judged, 1, pos)
    BY <2>1, <2>2, ReplacedPrefix DEF judged
  <2>4. judged \in ByteSeq /\ Size(judged) = size
    BY JudgedBytes DEF IInv
  <2>5. WellFormed(SubSeq(judged, 1, pos))
    BY <2>1, <2>2, <2>4, WholePrefix
  <2> QED
    BY <2>3, <2>5 DEF PosAtBoundary
<1> QED
  BY <1>1, IInvHolds, PTL

(* The verdict of every variant: the input is well formed, or it is so but *)
(* for overlong forms of U+FFFF.                                           *)
THEOREM VerdictIsButOverlong == Spec => []VerdictButOverlong
<1>1. IInv => VerdictButOverlong
  <2> SUFFICES ASSUME IInv, result # "none"
               PROVE  result = "SUCCESS" <=> WellFormed(judged)
    BY DEF VerdictButOverlong, judged
  <2>1. judged \in ByteSeq /\ Size(judged) = size /\ size \in Nat
    BY JudgedBytes, InputType DEF IInv
  <2>2. CASE result = "SUCCESS"
    <3>1. Clean(judged, Size(judged)) /\ ~Open(judged, Size(judged))
      BY <2>1, <2>2 DEF IInv, Boundary
    <3>2. WellFormed(SubSeq(judged, 1, Size(judged)))
      <4>1. Size(judged) \in Nat /\ Size(judged) <= Size(judged)
        BY <2>1
      <4> QED
        BY <2>1, <3>1, <4>1, WholePrefix
    <3>3. SubSeq(judged, 1, Size(judged)) = judged
      BY <2>1 DEF ByteSeq, Size
    <3> QED
      BY <2>2, <3>2, <3>3
  <2>3. CASE result = "UTF8_ERROR"
    BY <2>3 DEF IInv
  <2> QED
    BY <2>2, <2>3 DEF IInv
<1> QED
  BY <1>1, IInvHolds, PTL
=============================================================================
