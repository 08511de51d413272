----------------------------- MODULE Utf8Local -----------------------------
(***************************************************************************)
(* Well-formedness as a local condition.  The lookup algorithms look at    *)
(* four consecutive bytes at a time; here is the condition on four bytes   *)
(* that, required at every position, amounts to WellFormed.                *)
(*                                                                         *)
(* Positions count from 0, as the reader's cursor does.  Zeros stand       *)
(* before the input (a fresh checker) and spaces behind it (the padding of *)
(* get_remainder).                                                         *)
(***************************************************************************)
EXTENDS Utf8, SequenceTheorems, WellFoundedInduction, TLAPS

(* Names of their own keep the provers from unfolding these two.           *)
ByteSeq == Seq(Byte)
Size(s) == Len(s)

ByteAt(s, j) == IF j < 0 THEN 0 ELSE IF j < Size(s) THEN s[j + 1] ELSE 32

(* b may follow p when no earlier lead asks for b to be a continuation.    *)
PairOK(p, b) ==
  \/ /\ p < 192
     /\ b \notin Continuation
  \/ /\ p \in Lead2 \cup Lead3 \cup Lead4
     /\ b \in SecondBytes(p)

(* A lead two or three places back asks for a continuation.                *)
Demanded(p3, p2) == p2 >= 224 \/ p3 >= 240

WindowOK(p3, p2, p1, b) ==
  \/ /\ Demanded(p3, p2)
     /\ p1 \in Continuation
     /\ b \in Continuation
  \/ /\ ~Demanded(p3, p2)
     /\ PairOK(p1, b)

LocalOK(s, j) ==
  WindowOK(ByteAt(s, j - 3), ByteAt(s, j - 2), ByteAt(s, j - 1), ByteAt(s, j))

(* The three bytes before position e leave a character unfinished.         *)
Open(s, e) ==
  \/ ByteAt(s, e - 1) >= 192
  \/ ByteAt(s, e - 2) >= 224
  \/ ByteAt(s, e - 3) >= 240

(* No window that ends before position e is in error.                      *)
Clean(s, e) == \A j \in 0..(e - 1) : LocalOK(s, j)

(* The class of a lead byte fixes the length of its character.             *)
LengthOf(lead) ==
  IF lead < 192 THEN 1 ELSE IF lead < 224 THEN 2 ELSE IF lead < 240 THEN 3 ELSE 4
-----------------------------------------------------------------------------
(* The type of an input.                                                   *)
LEMMA SizeType ==
  ASSUME NEW s \in ByteSeq
  PROVE  /\ Size(s) \in Nat
         /\ \A i \in 1..Size(s) : s[i] \in 0..255
<1>1. s \in Seq(0..255)
  BY DEF ByteSeq, Byte
<1>2. Len(s) \in Nat /\ \A i \in 1..Len(s) : s[i] \in 0..255
  BY <1>1, LenProperties, ElementOfSeq
<1> QED
  BY <1>2 DEF Size

(* Whatever the position, there is a byte there.                           *)
LEMMA ByteAtType ==
  ASSUME NEW s \in ByteSeq, NEW j \in Int
  PROVE  ByteAt(s, j) \in 0..255
<1>1. Size(s) \in Nat
  BY SizeType
<1>2. CASE 0 <= j /\ j < Size(s)
  <2>1. j + 1 \in 1..Size(s)
    BY <1>1, <1>2
  <2>2. s[j + 1] \in 0..255
    BY <2>1, SizeType
  <2> QED
    BY <1>2, <2>2 DEF ByteAt
<1>3. CASE ~(0 <= j /\ j < Size(s))
  BY <1>3, <1>1 DEF ByteAt
<1> QED
  BY <1>2, <1>3

(* Facts about four bytes; the positions come in below.                    *)
LEMMA WindowAfterLead ==
  ASSUME NEW p3, NEW p2, NEW p1 \in 192..255, NEW b,
         WindowOK(p3, p2, p1, b)
  PROVE  /\ p1 \in Lead2 \cup Lead3 \cup Lead4
         /\ b \in SecondBytes(p1)
         /\ b \in Continuation
<1>1. PairOK(p1, b)
  BY DEF WindowOK, Continuation
<1>2. p1 \in Lead2 \cup Lead3 \cup Lead4 /\ b \in SecondBytes(p1)
  BY <1>1 DEF PairOK
<1>3. SecondBytes(p1) \subseteq Continuation
  BY DEF SecondBytes, Continuation
<1> QED
  BY <1>2, <1>3

(* Every byte before e that opens a character gets its continuations.      *)
LEMMA LeadIsCompleted ==
  ASSUME NEW s \in ByteSeq, NEW e \in Nat, Clean(s, e),
         NEW i \in 0..(e - 1), ByteAt(s, i) >= 192
  PROVE  /\ i + 1 < e =>
              /\ ByteAt(s, i) \in Lead2 \cup Lead3 \cup Lead4
              /\ ByteAt(s, i + 1) \in SecondBytes(ByteAt(s, i))
              /\ ByteAt(s, i + 1) \in Continuation
         /\ i + 2 < e /\ ByteAt(s, i) >= 224 => ByteAt(s, i + 2) \in Continuation
         /\ i + 3 < e /\ ByteAt(s, i) >= 240 => ByteAt(s, i + 3) \in Continuation
<1>1. ByteAt(s, i) \in 192..255
  <2>1. ByteAt(s, i) \in 0..255
    BY ByteAtType
  <2> QED
    BY <2>1
<1>2. ASSUME i + 1 < e
      PROVE  /\ ByteAt(s, i) \in Lead2 \cup Lead3 \cup Lead4
             /\ ByteAt(s, i + 1) \in SecondBytes(ByteAt(s, i))
             /\ ByteAt(s, i + 1) \in Continuation
  <2>1. LocalOK(s, i + 1)
    BY <1>2 DEF Clean
  <2>2. (i + 1) - 1 = i
    OBVIOUS
  <2> QED
    BY <1>1, <2>1, <2>2, WindowAfterLead DEF LocalOK
<1>3. ASSUME i + 2 < e, ByteAt(s, i) >= 224
      PROVE  ByteAt(s, i + 2) \in Continuation
  <2>1. LocalOK(s, i + 2)
    BY <1>3 DEF Clean
  <2>2. (i + 2) - 2 = i
    OBVIOUS
  <2> QED
    BY <1>3, <2>1, <2>2 DEF LocalOK, WindowOK, Demanded
<1>4. ASSUME i + 3 < e, ByteAt(s, i) >= 240
      PROVE  ByteAt(s, i + 3) \in Continuation
  <2>1. LocalOK(s, i + 3)
    BY <1>4 DEF Clean
  <2>2. (i + 3) - 3 = i
    OBVIOUS
  <2> QED
    BY <1>4, <2>1, <2>2 DEF LocalOK, WindowOK, Demanded
<1> QED
  BY <1>2, <1>3, <1>4
-----------------------------------------------------------------------------
(* A byte that is not padding lies in the input.                           *)
LEMMA ByteAtInside ==
  ASSUME NEW s \in ByteSeq, NEW j \in Nat, ByteAt(s, j) # 32
  PROVE  j < Size(s) /\ ByteAt(s, j) = s[j + 1]
  BY SizeType DEF ByteAt

(* In a clean input each byte that is not a continuation starts a legal    *)
(* character of the length its class announces.                            *)
LEMMA CharFromClean ==
  ASSUME NEW s \in ByteSeq, Clean(s, Size(s) + 3),
         NEW i \in 0..(Size(s) - 1), ByteAt(s, i) \notin Continuation
  PROVE  LET n == LengthOf(ByteAt(s, i))
         IN  i + n <= Size(s) /\ LegalChar(s, i + 1, n)
<1> DEFINE b == ByteAt(s, i)
<1>1. Size(s) \in Nat /\ i \in Nat /\ b \in 0..255 /\ b = s[i + 1]
  <2>1. b \in 0..255
    BY ByteAtType
  <2> QED
    BY <2>1, SizeType DEF ByteAt
<1>2. CASE b < 128
  BY <1>1, <1>2 DEF LegalChar, LengthOf, Ascii
<1>3. CASE b >= 192
  <2>1. /\ b \in Lead2 \cup Lead3 \cup Lead4
        /\ ByteAt(s, i + 1) \in SecondBytes(b)
        /\ ByteAt(s, i + 1) \in Continuation
        /\ b >= 224 => ByteAt(s, i + 2) \in Continuation
        /\ b >= 240 => ByteAt(s, i + 3) \in Continuation
    BY <1>1, <1>3, LeadIsCompleted
  <2>2. \A m \in 1..3 : ByteAt(s, i + m) \in Continuation =>
          i + m < Size(s) /\ ByteAt(s, i + m) = s[(i + 1) + m]
    <3> SUFFICES ASSUME NEW m \in 1..3, ByteAt(s, i + m) \in Continuation
                 PROVE  i + m < Size(s) /\ ByteAt(s, i + m) = s[(i + 1) + m]
      OBVIOUS
    <3>1. i + m \in Nat /\ ByteAt(s, i + m) # 32
      BY <1>1 DEF Continuation
    <3> QED
      BY <3>1, <1>1, ByteAtInside
  <2>3. CASE b < 224
    <3>1. b \in Lead2 /\ LengthOf(b) = 2
      BY <1>1, <1>3, <2>1, <2>3 DEF Lead2, Lead3, Lead4, LengthOf
    <3> QED
      BY <3>1, <1>1, <2>1, <2>2 DEF LegalChar
  <2>4. CASE 224 <= b /\ b < 240
    <3>1. b \in Lead3 /\ LengthOf(b) = 3
      BY <1>1, <2>1, <2>4 DEF Lead2, Lead3, Lead4, LengthOf
    <3> QED
      BY <3>1, <1>1, <2>1, <2>2, <2>4 DEF LegalChar
  <2>5. CASE 240 <= b
    <3>1. b \in Lead4 /\ LengthOf(b) = 4
      BY <1>1, <2>1, <2>5 DEF Lead2, Lead3, Lead4, LengthOf
    <3> QED
      BY <3>1, <1>1, <2>1, <2>2, <2>5 DEF LegalChar
  <2> QED
    BY <1>1, <2>3, <2>4, <2>5
<1> QED
  BY <1>1, <1>2, <1>3 DEF Continuation

(* One direction: where no window is in error every byte lies in a legal   *)
(* character.                                                              *)
LEMMA CleanIsWellFormed ==
  ASSUME NEW s \in ByteSeq, Clean(s, Size(s) + 3)
  PROVE  WellFormed(s)
<1> SUFFICES ASSUME NEW q \in 1..Size(s)
             PROVE  \E i \in 1..q, n \in 1..4 :
                      q < i + n /\ i + n <= Size(s) + 1 /\ LegalChar(s, i, n)
  BY DEF WellFormed, Size
<1> DEFINE j == q - 1
           b == ByteAt(s, j)
<1>0. Size(s) \in Nat /\ j \in 0..(Size(s) - 1) /\ q = j + 1
  BY SizeType
<1>1. \A k \in Int : ByteAt(s, k) \in 0..255
  BY ByteAtType
(* A lead d places back whose character is longer than d covers byte j.    *)
<1>2. ASSUME NEW d \in 0..3, ByteAt(s, j - d) \notin Continuation,
             d < LengthOf(ByteAt(s, j - d)), j - d >= 0
      PROVE  \E i \in 1..q, n \in 1..4 :
               q < i + n /\ i + n <= Size(s) + 1 /\ LegalChar(s, i, n)
  <2> DEFINE n == LengthOf(ByteAt(s, j - d))
  <2>1. j - d \in 0..(Size(s) - 1)
    BY <1>0, <1>2
  <2>2. (j - d) + n <= Size(s) /\ LegalChar(s, (j - d) + 1, n)
    BY <1>2, <2>1, CharFromClean
  <2>3. n \in 1..4
    BY DEF LengthOf
  <2> HIDE DEF n, j
  <2>4. (j - d) + 1 \in 1..q /\ q < (j - d) + 1 + n /\ (j - d) + 1 + n <= Size(s) + 1
    BY <1>0, <1>2, <2>1, <2>2, <2>3 DEF n
  <2> QED
    BY <2>2, <2>3, <2>4
<1>3. CASE b \notin Continuation
  <2>1. 0 < LengthOf(b) /\ j - 0 = j
    BY DEF LengthOf
  <2> QED
    BY <1>0, <1>2, <1>3, <2>1
<1>4. CASE b \in Continuation
  <2>1. LocalOK(s, j)
    BY <1>0 DEF Clean
  <2>2. \A k \in Int : k < 0 => ByteAt(s, k) = 0
    BY DEF ByteAt
  <2>a. /\ ByteAt(s, j - 1) \in 0..255
        /\ ByteAt(s, j - 2) \in 0..255
        /\ ByteAt(s, j - 3) \in 0..255
    BY <1>0, <1>1
  <2>3. \/ ByteAt(s, j - 1) \in 192..255
        \/ ByteAt(s, j - 2) \in 224..255
        \/ ByteAt(s, j - 3) \in 240..255
    <3> DEFINE p1 == ByteAt(s, j - 1)
               p2 == ByteAt(s, j - 2)
               p3 == ByteAt(s, j - 3)
    <3>1. WindowOK(p3, p2, p1, b)
      BY <2>1 DEF LocalOK
    <3> HIDE DEF b, p1, p2, p3
    <3>2. p1 \in 0..255 /\ p2 \in 0..255 /\ p3 \in 0..255
      BY <2>a DEF p1, p2, p3
    <3>3. CASE Demanded(p3, p2)
      BY <3>2, <3>3 DEF Demanded, p1, p2, p3
    <3>4. CASE PairOK(p1, b)
      <4>1. p1 \in 192..255
        BY <1>4, <3>2, <3>4 DEF PairOK, Lead2, Lead3, Lead4
      <4> QED
        BY <4>1 DEF p1
    <3> QED
      BY <3>1, <3>3, <3>4 DEF WindowOK
  <2>4. \A d \in 1..3 : ByteAt(s, j - d) >= 192 => j - d >= 0
    BY <1>0, <2>2
  <2>5. CASE ByteAt(s, j - 1) \in 192..255
    <3>1. 1 < LengthOf(ByteAt(s, j - 1)) /\ ByteAt(s, j - 1) \notin Continuation
      BY <2>5 DEF LengthOf, Continuation
    <3> QED
      BY <1>2, <2>4, <2>5, <3>1
  <2>6. CASE ByteAt(s, j - 2) \in 224..255
    <3>1. 2 < LengthOf(ByteAt(s, j - 2)) /\ ByteAt(s, j - 2) \notin Continuation
      BY <2>6 DEF LengthOf, Continuation
    <3> QED
      BY <1>2, <2>4, <2>6, <3>1
  <2>7. CASE ByteAt(s, j - 3) \in 240..255
    <3>1. 3 < LengthOf(ByteAt(s, j - 3)) /\ ByteAt(s, j - 3) \notin Continuation
      BY <2>7 DEF LengthOf, Continuation
    <3> QED
      BY <1>2, <2>4, <2>7, <3>1
  <2> QED
    BY <2>3, <2>5, <2>6, <2>7
<1> QED
  BY <1>3, <1>4
-----------------------------------------------------------------------------
(* A legal character seen from one of its bytes, d places after its lead.  *)
LEMMA BytesOfChar ==
  ASSUME NEW s \in ByteSeq, NEW i \in 1..Size(s), NEW n \in 1..4,
         i + n <= Size(s) + 1, LegalChar(s, i, n)
  PROVE  /\ n = LengthOf(ByteAt(s, i - 1))
         /\ ByteAt(s, i - 1) \in Ascii \cup Lead2 \cup Lead3 \cup Lead4
         /\ n >= 2 => /\ ByteAt(s, i) \in SecondBytes(ByteAt(s, i - 1))
                      /\ ByteAt(s, i) \in Continuation
         /\ n >= 3 => ByteAt(s, i + 1) \in Continuation
         /\ n >= 4 => ByteAt(s, i + 2) \in Continuation
<1>1. \A k \in 0..3 : k < n => ByteAt(s, (i - 1) + k) = s[i + k]
  BY SizeType DEF ByteAt
<1>2. /\ ByteAt(s, i - 1) = s[i]
      /\ n >= 2 => ByteAt(s, i) = s[i + 1]
      /\ n >= 3 => ByteAt(s, i + 1) = s[i + 2]
      /\ n >= 4 => ByteAt(s, i + 2) = s[i + 3]
  BY <1>1, (i - 1) + 1 = i, (i - 1) + 2 = i + 1, (i - 1) + 3 = i + 2,
     (i - 1) + 0 = i - 1, i + 0 = i
<1>3. \A p \in Ascii \cup Lead2 \cup Lead3 \cup Lead4 :
        /\ SecondBytes(p) \subseteq Continuation
        /\ p \in Lead2 => SecondBytes(p) = Continuation /\ LengthOf(p) = 2
        /\ p \in Lead3 => LengthOf(p) = 3
        /\ p \in Lead4 => LengthOf(p) = 4
        /\ p \in Ascii => LengthOf(p) = 1
  BY DEF SecondBytes, Continuation, LengthOf, Ascii, Lead2, Lead3, Lead4
<1> QED
  BY <1>2, <1>3 DEF LegalChar

(* In a well-formed input a byte that is not a continuation starts the     *)
(* character that covers it.                                               *)
LEMMA LeadOfWellFormed ==
  ASSUME NEW s \in ByteSeq, WellFormed(s), NEW i \in Int, ByteAt(s, i) >= 192
  PROVE  /\ ByteAt(s, i) \in Lead2 \cup Lead3 \cup Lead4
         /\ ByteAt(s, i + 1) \in SecondBytes(ByteAt(s, i))
         /\ ByteAt(s, i + 1) \in Continuation
         /\ ByteAt(s, i) >= 224 => ByteAt(s, i + 2) \in Continuation
         /\ ByteAt(s, i) >= 240 => ByteAt(s, i + 3) \in Continuation
<1> DEFINE q == i + 1
<1>1. q \in 1..Size(s) /\ q - 1 = i
  BY SizeType DEF ByteAt
<1>2. PICK k \in 1..q, n \in 1..4 :
        q < k + n /\ k + n <= Size(s) + 1 /\ LegalChar(s, k, n)
  BY <1>1 DEF WellFormed, Size
<1> HIDE DEF q
<1>3. k \in 1..Size(s)
  BY <1>1, <1>2, SizeType
<1>4. /\ n = LengthOf(ByteAt(s, k - 1))
      /\ ByteAt(s, k - 1) \in Ascii \cup Lead2 \cup Lead3 \cup Lead4
      /\ n >= 2 => /\ ByteAt(s, k) \in SecondBytes(ByteAt(s, k - 1))
                   /\ ByteAt(s, k) \in Continuation
      /\ n >= 3 => ByteAt(s, k + 1) \in Continuation
      /\ n >= 4 => ByteAt(s, k + 2) \in Continuation
  BY <1>2, <1>3, BytesOfChar
<1>5. ByteAt(s, q - 1) \notin Continuation
  BY <1>1 DEF Continuation
<1>6. k = q
  <2>1. q - 1 = k => n >= 2
    BY <1>1, <1>2, SizeType
  <2>2. q - 1 = k + 1 => n >= 3
    BY <1>1, <1>2, SizeType
  <2>3. q - 1 = k + 2 => n >= 4
    BY <1>1, <1>2, SizeType
  <2>4. k = q \/ q - 1 = k \/ q - 1 = k + 1 \/ q - 1 = k + 2
    BY <1>1, <1>2
  <2> QED
    BY <1>4, <1>5, <2>1, <2>2, <2>3, <2>4
<1>7. k - 1 = i /\ k = i + 1 /\ k + 1 = i + 2 /\ k + 2 = i + 3
  BY <1>1, <1>6
<1> DEFINE b == ByteAt(s, i)
<1>8. n = LengthOf(b) /\ b \in Ascii \cup Lead2 \cup Lead3 \cup Lead4 /\ b >= 192
  BY <1>4, <1>7
<1> HIDE DEF b
<1>9. /\ n >= 2
      /\ b \in Lead2 \cup Lead3 \cup Lead4
      /\ b >= 224 => n >= 3
      /\ b >= 240 => n >= 4
  BY <1>8 DEF LengthOf, Ascii, Lead2, Lead3, Lead4
<1> QED
  BY <1>4, <1>7, <1>9 DEF b

(* In a well-formed input a continuation stands behind a lead.             *)
LEMMA ContinuationOfWellFormed ==
  ASSUME NEW s \in ByteSeq, WellFormed(s), NEW i \in Int,
         ByteAt(s, i) \in Continuation
  PROVE  \/ ByteAt(s, i - 1) >= 192
         \/ ByteAt(s, i - 2) >= 224
         \/ ByteAt(s, i - 3) >= 240
<1> DEFINE q == i + 1
<1>1. q \in 1..Size(s) /\ q - 1 = i
  BY SizeType DEF ByteAt, Continuation
<1>2. PICK k \in 1..q, n \in 1..4 :
        q < k + n /\ k + n <= Size(s) + 1 /\ LegalChar(s, k, n)
  BY <1>1 DEF WellFormed, Size
<1> HIDE DEF q
<1>3. k \in 1..Size(s)
  BY <1>1, <1>2, SizeType
<1> DEFINE b == ByteAt(s, k - 1)
<1>4. n = LengthOf(b) /\ b \in Ascii \cup Lead2 \cup Lead3 \cup Lead4
  BY <1>2, <1>3, BytesOfChar
<1>5. k = q \/ k = q - 1 \/ k = q - 2 \/ k = q - 3
  BY <1>1, <1>2
<1>6. k = q => b \in Continuation
  BY <1>1
<1>7. /\ k = q - 1 => b = ByteAt(s, i - 1) /\ n >= 2
      /\ k = q - 2 => b = ByteAt(s, i - 2) /\ n >= 3
      /\ k = q - 3 => b = ByteAt(s, i - 3) /\ n >= 4
  BY <1>1, <1>2
<1> HIDE DEF b
<1>8. /\ b \notin Continuation
      /\ n >= 2 => b >= 192
      /\ n >= 3 => b >= 224
      /\ n >= 4 => b >= 240
  BY <1>4 DEF LengthOf, Ascii, Lead2, Lead3, Lead4, Continuation
<1> QED
  BY <1>5, <1>6, <1>7, <1>8

(* The other direction: no window of a well-formed input is in error, the  *)
(* windows that reach into the padding included.                           *)
LEMMA WellFormedIsClean ==
  ASSUME NEW s \in ByteSeq, WellFormed(s), NEW j \in Int
  PROVE  LocalOK(s, j)
<1> DEFINE b == ByteAt(s, j)
           p1 == ByteAt(s, j - 1)
           p2 == ByteAt(s, j - 2)
           p3 == ByteAt(s, j - 3)
<1>1. b \in 0..255 /\ p1 \in 0..255 /\ p2 \in 0..255 /\ p3 \in 0..255
  BY ByteAtType
<1>2. p1 >= 192 => p1 \in Lead2 \cup Lead3 \cup Lead4 /\ b \in SecondBytes(p1)
  BY LeadOfWellFormed, j - 1 \in Int, (j - 1) + 1 = j
<1>3. p2 >= 224 => p1 \in Continuation /\ b \in Continuation
  <2>1. p2 >= 224 => p2 >= 192
    BY <1>1
  <2> QED
    BY <2>1, LeadOfWellFormed, j - 2 \in Int, (j - 2) + 1 = j - 1, (j - 2) + 2 = j
<1>4. p3 >= 240 => p1 \in Continuation /\ b \in Continuation
  <2>1. p3 >= 240 => p3 >= 192 /\ p3 >= 224
    BY <1>1
  <2> QED
    BY <2>1, LeadOfWellFormed, j - 3 \in Int, (j - 3) + 2 = j - 1, (j - 3) + 3 = j
<1>5. b \in Continuation => p1 >= 192 \/ p2 >= 224 \/ p3 >= 240
  BY ContinuationOfWellFormed
<1> HIDE DEF b, p1, p2, p3
<1>6. p1 < 192 \/ p1 >= 192
  BY <1>1
<1>7. WindowOK(p3, p2, p1, b)
  BY <1>1, <1>2, <1>3, <1>4, <1>5, <1>6 DEF WindowOK, PairOK, Demanded
<1> QED
  BY <1>7 DEF LocalOK, b, p1, p2, p3

(***************************************************************************)
(* The windows of four bytes decide well-formedness, whatever the input:   *)
(* what makes a validator that never looks further back than three bytes   *)
(* possible at all.                                                        *)
(***************************************************************************)
THEOREM LocalCharacterization ==
  ASSUME NEW s \in ByteSeq
  PROVE  WellFormed(s) <=> Clean(s, Size(s) + 3)
  BY CleanIsWellFormed, WellFormedIsClean, SizeType DEF Clean
-----------------------------------------------------------------------------
(* A run of ASCII bytes cannot finish a character, and leaves none open.   *)
LEMMA AsciiRun ==
  ASSUME NEW s \in ByteSeq, NEW e \in Nat, NEW m \in Nat, m >= 3, Clean(s, e),
         \A k \in 0..(m - 1) : ByteAt(s, e + k) < 128
  PROVE  /\ Clean(s, e + m) <=> ~Open(s, e)
         /\ ~Open(s, e + m)
<1>1. \A j \in Int : ByteAt(s, j) \in 0..255
  BY ByteAtType
<1>2. \A j \in e..(e + m - 1) : ByteAt(s, j) \in 0..127
  <2> SUFFICES ASSUME NEW j \in e..(e + m - 1) PROVE ByteAt(s, j) \in 0..127
    OBVIOUS
  <2>1. j - e \in 0..(m - 1) /\ e + (j - e) = j /\ j \in Int
    OBVIOUS
  <2>2. ByteAt(s, j) \in 0..255
    BY <2>1, ByteAtType
  <2>3. ByteAt(s, e + (j - e)) < 128
    BY <2>1
  <2> QED
    BY <2>1, <2>2, <2>3
<1>3. ~Open(s, e + m)
  <2>1. /\ (e + m) - 1 \in e..(e + m - 1)
        /\ (e + m) - 2 \in e..(e + m - 1)
        /\ (e + m) - 3 \in e..(e + m - 1)
    OBVIOUS
  <2>2. /\ ByteAt(s, (e + m) - 1) \in 0..127
        /\ ByteAt(s, (e + m) - 2) \in 0..127
        /\ ByteAt(s, (e + m) - 3) \in 0..127
    BY <1>2, <2>1
  <2> QED
    BY <2>2 DEF Open
<1>4. ASSUME Open(s, e)
      PROVE  ~Clean(s, e + m)
  <2>1. ByteAt(s, e) \in 0..127
    BY <1>1, <1>2
  <2>2. ~LocalOK(s, e)
    BY <1>1, <1>4, <2>1
    DEF Open, LocalOK, WindowOK, Demanded, PairOK, SecondBytes, Continuation
  <2>3. e \in 0..(e + m - 1)
    OBVIOUS
  <2> QED
    BY <2>2, <2>3 DEF Clean
<1>5. ASSUME ~Open(s, e), NEW j \in 0..(e + m - 1)
      PROVE  LocalOK(s, j)
  <2>1. CASE j < e
    <3>1. j \in 0..(e - 1)
      BY <2>1
    <3> QED
      BY <3>1 DEF Clean
  <2>2. CASE j >= e
    <3>1. /\ ByteAt(s, e - 1) \in 0..191
          /\ ByteAt(s, e - 2) \in 0..223
          /\ ByteAt(s, e - 3) \in 0..239
      <4>1. /\ ByteAt(s, e - 1) \in 0..255
            /\ ByteAt(s, e - 2) \in 0..255
            /\ ByteAt(s, e - 3) \in 0..255
        BY ByteAtType
      <4> QED
        BY <1>5, <4>1 DEF Open
    <3>2. ByteAt(s, j) \in 0..127
      BY <1>1, <1>2, <2>2
    <3>3. ByteAt(s, j - 1) \in 0..191
      BY <1>1, <1>2, <2>2, <3>1
    <3>4. ByteAt(s, j - 2) \in 0..223
      <4>1. j - 2 \in e..(e + m - 1) \/ j - 2 = e - 1 \/ j - 2 = e - 2
        BY <2>2
      <4>2. j - 2 \in e..(e + m - 1) => ByteAt(s, j - 2) \in 0..127
        BY <1>2
      <4> QED
        BY <3>1, <4>1, <4>2
    <3>5. ByteAt(s, j - 3) \in 0..239
      <4>1. j - 3 \in e..(e + m - 1) \/ j - 3 = e - 1 \/ j - 3 = e - 2 \/ j - 3 = e - 3
        BY <2>2
      <4>2. j - 3 \in e..(e + m - 1) => ByteAt(s, j - 3) \in 0..127
        BY <1>2
      <4> QED
        BY <3>1, <4>1, <4>2
    <3> QED
      BY <3>2, <3>3, <3>4, <3>5 DEF LocalOK, WindowOK, Demanded, PairOK, Continuation
  <2> QED
    BY <2>1, <2>2
<1> QED
  BY <1>3, <1>4, <1>5 DEF Clean

(* At the end of the input nothing may be open.                            *)
LEMMA CleanToTheEnd ==
  ASSUME NEW s \in ByteSeq, NEW e \in Nat, Size(s) <= e
  PROVE  Clean(s, e) /\ ~Open(s, e) <=> WellFormed(s)
<1> DEFINE n == Size(s)
<1>1. n \in Nat /\ n <= e
  BY SizeType
<1>2. \A j \in Nat : j >= n => ByteAt(s, j) < 128
  BY <1>1 DEF ByteAt
<1>3. WellFormed(s) <=> Clean(s, n + 3)
  BY LocalCharacterization
<1> HIDE DEF n
<1>4. ASSUME NEW a \in Nat, NEW c \in Nat, n <= a, a + 3 <= c
      PROVE  Clean(s, c) <=> Clean(s, a) /\ ~Open(s, a)
  <2>1. \A k \in 0..((c - a) - 1) : ByteAt(s, a + k) < 128
    BY <1>1, <1>2, <1>4
  <2>2. c - a \in Nat /\ c - a >= 3 /\ a + (c - a) = c
    BY <1>4
  <2>3. Clean(s, a) => (Clean(s, a + (c - a)) <=> ~Open(s, a))
    BY <2>1, <2>2, AsciiRun
  <2>4. Clean(s, c) => Clean(s, a)
    BY <1>4 DEF Clean
  <2> QED
    BY <2>2, <2>3, <2>4
<1>5. Clean(s, n + 3) <=> Clean(s, n) /\ ~Open(s, n)
  BY <1>1, <1>4
<1>6. Clean(s, e + 3) <=> Clean(s, n) /\ ~Open(s, n)
  BY <1>1, <1>4
<1>7. Clean(s, e + 3) <=> Clean(s, e) /\ ~Open(s, e)
  BY <1>1, <1>4
<1> QED
  BY <1>3, <1>5, <1>6, <1>7

(* A set of numbers has a least one.                                       *)
LEMMA LeastOf ==
  ASSUME NEW T \in SUBSET Nat, T # {}
  PROVE  \E d \in T : \A k \in T : d <= k
<1> DEFINE R == {ss \in Nat \X Nat : ss[1] < ss[2]}
<1>1. IsWellFoundedOn(R, Nat)
  BY NatLessThanWellFounded DEF OpToRel
<1>2. PICK d \in T : \A k \in T : ~(<<k, d>> \in R)
  <2> HIDE DEF R
  <2> QED
    BY <1>1, WFMin
<1>3. \A k \in T : ~(k < d)
  BY <1>2
<1> QED
  BY <1>3

(* A prefix that is not clean has a first window in error.                 *)
LEMMA FirstFault ==
  ASSUME NEW s, NEW e \in Nat, ~Clean(s, e)
  PROVE  \E j \in 0..(e - 1) : Clean(s, j) /\ ~LocalOK(s, j)
<1> DEFINE T == {j \in 0..(e - 1) : ~LocalOK(s, j)}
<1>1. T \in SUBSET Nat /\ T # {}
  BY DEF Clean
<1>2. PICK j \in T : \A i \in T : j <= i
  <2> HIDE DEF T
  <2> QED
    BY <1>1, LeastOf
<1>3. Clean(s, j)
  BY <1>2 DEF Clean
<1> QED
  BY <1>3
-----------------------------------------------------------------------------
(* Bytes that ask for nothing.                                             *)
LEMMA QuietWindow ==
  ASSUME NEW p3 \in 0..239, NEW p2 \in 0..223, NEW p1 \in 0..191, NEW b
  PROVE  WindowOK(p3, p2, p1, b) <=> b \notin Continuation
<1>1. ~Demanded(p3, p2)
  BY DEF Demanded
<1>2. PairOK(p1, b) <=> b \notin Continuation
  BY DEF PairOK, Lead2, Lead3, Lead4
<1> QED
  BY <1>1, <1>2 DEF WindowOK

(* No window that ends in a..(e-1) is in error.                            *)
CleanFrom(s, a, e) == \A j \in a..(e - 1) : LocalOK(s, j)

(* A segment is a text of its own: its bytes, zeros before, spaces behind. *)
LEMMA SegmentBytes ==
  ASSUME NEW s \in ByteSeq, NEW a \in Nat, NEW e \in Nat, a <= e, e <= Size(s)
  PROVE  /\ SubSeq(s, a + 1, e) \in ByteSeq
         /\ Size(SubSeq(s, a + 1, e)) = e - a
         /\ \A m \in 0..((e - a) - 1) :
              ByteAt(SubSeq(s, a + 1, e), m) = ByteAt(s, a + m)
<1> DEFINE t == SubSeq(s, a + 1, e)
<1>1. \A i \in (a + 1)..e : s[i] \in Byte
  BY SizeType DEF Byte
<1>2. /\ t \in Seq(Byte)
      /\ Len(t) = IF a + 1 <= e THEN e - (a + 1) + 1 ELSE 0
      /\ \A i \in 1..(e - (a + 1) + 1) : t[i] = s[(a + 1) + i - 1]
  <2> HIDE DEF t
  <2>1. t = SubSeq(s, a + 1, e) /\ a + 1 \in Int /\ e \in Int
    BY DEF t
  <2> QED
    BY <1>1, <2>1, SubSeqProperties
<1> HIDE DEF t
<1>3. t \in ByteSeq /\ Size(t) = e - a
  BY <1>2 DEF ByteSeq, Size
<1>4. ASSUME NEW m \in 0..((e - a) - 1)
      PROVE  ByteAt(t, m) = ByteAt(s, a + m)
  <2>1. m + 1 \in 1..(e - (a + 1) + 1) /\ (a + 1) + (m + 1) - 1 = a + m + 1
    OBVIOUS
  <2>2. t[m + 1] = s[a + m + 1]
    BY <1>2, <2>1
  <2> QED
    BY <1>3, <2>2, SizeType DEF ByteAt
<1> QED
  BY <1>3, <1>4 DEF t

(***************************************************************************)
(* A segment that starts where no character is open has the windows of the *)
(* text it is cut from, though it does not see the bytes before.           *)
(***************************************************************************)
LEMMA SegmentWindows ==
  ASSUME NEW s \in ByteSeq, NEW a \in Nat, NEW e \in Nat, a <= e, e <= Size(s),
         ~Open(s, a)
  PROVE  /\ Clean(SubSeq(s, a + 1, e), e - a) <=> CleanFrom(s, a, e)
         /\ Open(SubSeq(s, a + 1, e), e - a) <=> Open(s, e)
<1> DEFINE t == SubSeq(s, a + 1, e)
<1>1. t \in ByteSeq /\ Size(t) = e - a
  BY SegmentBytes
<1>2. \A m \in 0..((e - a) - 1) : ByteAt(t, m) = ByteAt(s, a + m)
  BY SegmentBytes
<1> HIDE DEF t
<1>3. \A j \in Int : ByteAt(s, j) \in 0..255 /\ ByteAt(t, j) \in 0..255
  BY <1>1, ByteAtType
<1>4. \A m \in Int : m < 0 => ByteAt(t, m) = 0
  BY DEF ByteAt
<1>5. /\ ByteAt(s, a - 1) \in 0..191
      /\ ByteAt(s, a - 2) \in 0..223
      /\ ByteAt(s, a - 3) \in 0..239
  <2>1. /\ ByteAt(s, a - 1) \in 0..255
        /\ ByteAt(s, a - 2) \in 0..255
        /\ ByteAt(s, a - 3) \in 0..255
    BY <1>3
  <2> QED
    BY <2>1 DEF Open
(* What the segment has n places before its m-th byte, and the text there. *)
<1>6. ASSUME NEW m \in 0..(e - a), NEW n \in 1..3
      PROVE  \/ /\ m >= n
                /\ ByteAt(t, m - n) = ByteAt(s, (a + m) - n)
             \/ /\ m < n
                /\ ByteAt(t, m - n) = 0
                /\ (a + m) - n = a - (n - m)
                /\ n - m \in 1..3
  <2>1. CASE m >= n
    <3>1. m - n \in 0..((e - a) - 1) /\ a + (m - n) = (a + m) - n
      BY <2>1
    <3> QED
      BY <1>2, <2>1, <3>1
  <2>2. CASE m < n
    <3>1. m - n \in Int /\ m - n < 0 /\ (a + m) - n = a - (n - m) /\ n - m \in 1..3
      BY <2>2
    <3> QED
      BY <1>4, <2>2, <3>1
  <2> QED
    BY <2>1, <2>2
<1>7. ASSUME NEW m \in 0..(e - a)
      PROVE  /\ \/ ByteAt(t, m - 1) = ByteAt(s, (a + m) - 1)
                \/ /\ m = 0
                   /\ ByteAt(t, m - 1) < 192 /\ ByteAt(s, (a + m) - 1) < 192
             /\ \/ ByteAt(t, m - 2) = ByteAt(s, (a + m) - 2)
                \/ /\ ByteAt(t, m - 2) < 224 /\ ByteAt(s, (a + m) - 2) < 224
             /\ \/ ByteAt(t, m - 3) = ByteAt(s, (a + m) - 3)
                \/ /\ ByteAt(t, m - 3) < 240 /\ ByteAt(s, (a + m) - 3) < 240
             /\ m = 0 => /\ ByteAt(t, m - 2) < 224 /\ ByteAt(s, (a + m) - 2) < 224
                         /\ ByteAt(t, m - 3) < 240 /\ ByteAt(s, (a + m) - 3) < 240
  <2>1. CASE m = 0
    <3>1. (a + m) - 1 = a - 1 /\ (a + m) - 2 = a - 2 /\ (a + m) - 3 = a - 3
      BY <2>1
    <3>2. ByteAt(t, m - 1) = 0 /\ ByteAt(t, m - 2) = 0 /\ ByteAt(t, m - 3) = 0
      BY <1>4, <2>1
    <3> QED
      BY <1>5, <2>1, <3>1, <3>2
  <2>2. CASE m = 1
    <3>1. (a + m) - 2 = a - 1 /\ (a + m) - 3 = a - 2
      BY <2>2
    <3>2. ByteAt(t, m - 2) = 0 /\ ByteAt(t, m - 3) = 0
      BY <1>4, <2>2
    <3>3. ByteAt(t, m - 1) = ByteAt(s, (a + m) - 1)
      BY <1>6, <2>2
    <3> QED
      BY <1>5, <2>2, <3>1, <3>2, <3>3
  <2>3. CASE m = 2
    <3>1. (a + m) - 3 = a - 1
      BY <2>3
    <3>2. ByteAt(t, m - 3) = 0
      BY <1>4, <2>3
    <3>3. /\ ByteAt(t, m - 1) = ByteAt(s, (a + m) - 1)
          /\ ByteAt(t, m - 2) = ByteAt(s, (a + m) - 2)
      BY <1>6, <2>3
    <3> QED
      BY <1>5, <2>3, <3>1, <3>2, <3>3
  <2>4. CASE m >= 3
    <3>1. /\ ByteAt(t, m - 1) = ByteAt(s, (a + m) - 1)
          /\ ByteAt(t, m - 2) = ByteAt(s, (a + m) - 2)
          /\ ByteAt(t, m - 3) = ByteAt(s, (a + m) - 3)
      BY <1>6, <2>4
    <3> QED
      BY <2>4, <3>1
  <2> QED
    BY <2>1, <2>2, <2>3, <2>4
<1>8. ASSUME NEW m \in 0..((e - a) - 1)
      PROVE  LocalOK(t, m) <=> LocalOK(s, a + m)
  <2>1. ByteAt(t, m) = ByteAt(s, a + m)
    BY <1>2
  <2>2. /\ m - 1 \in Int /\ m - 2 \in Int /\ m - 3 \in Int /\ a + m \in Int
        /\ (a + m) - 1 \in Int /\ (a + m) - 2 \in Int /\ (a + m) - 3 \in Int
        /\ m \in 0..(e - a)
    OBVIOUS
  <2> DEFINE p1 == ByteAt(t, m - 1)
             p2 == ByteAt(t, m - 2)
             p3 == ByteAt(t, m - 3)
             q1 == ByteAt(s, (a + m) - 1)
             q2 == ByteAt(s, (a + m) - 2)
             q3 == ByteAt(s, (a + m) - 3)
             b == ByteAt(s, a + m)
  <2>3. /\ p1 \in 0..255 /\ p2 \in 0..255 /\ p3 \in 0..255
        /\ q1 \in 0..255 /\ q2 \in 0..255 /\ q3 \in 0..255 /\ b \in 0..255
    BY <1>3, <2>2
  <2>4. /\ p1 = q1 \/ (m = 0 /\ p1 < 192 /\ q1 < 192)
        /\ p2 = q2 \/ (p2 < 224 /\ q2 < 224)
        /\ p3 = q3 \/ (p3 < 240 /\ q3 < 240)
        /\ m = 0 => p2 < 224 /\ q2 < 224 /\ p3 < 240 /\ q3 < 240
    BY <1>7, <2>2
  <2> HIDE DEF p1, p2, p3, q1, q2, q3, b
  <2>5. CASE p1 = q1
    <3>1. Demanded(p3, p2) <=> Demanded(q3, q2)
      BY <2>3, <2>4 DEF Demanded
    <3> QED
      BY <2>1, <2>5, <3>1 DEF LocalOK, WindowOK, p1, p2, p3, q1, q2, q3, b
  <2>6. CASE p1 # q1
    <3>1. /\ p1 \in 0..191 /\ p2 \in 0..223 /\ p3 \in 0..239
          /\ q1 \in 0..191 /\ q2 \in 0..223 /\ q3 \in 0..239
      BY <2>3, <2>4, <2>6
    <3>2. /\ WindowOK(p3, p2, p1, b) <=> b \notin Continuation
          /\ WindowOK(q3, q2, q1, b) <=> b \notin Continuation
      BY <3>1, QuietWindow
    <3> QED
      BY <2>1, <3>2 DEF LocalOK, p1, p2, p3, q1, q2, q3, b
  <2> QED
    BY <2>5, <2>6
<1>9. Clean(t, e - a) <=> CleanFrom(s, a, e)
  <2>1. ASSUME Clean(t, e - a), NEW j \in a..(e - 1)
        PROVE  LocalOK(s, j)
    <3>1. j - a \in 0..((e - a) - 1) /\ a + (j - a) = j
      OBVIOUS
    <3> QED
      BY <1>8, <2>1, <3>1 DEF Clean
  <2>2. ASSUME CleanFrom(s, a, e), NEW m \in 0..((e - a) - 1)
        PROVE  LocalOK(t, m)
    <3>1. a + m \in a..(e - 1)
      OBVIOUS
    <3> QED
      BY <1>8, <2>2, <3>1 DEF CleanFrom
  <2> QED
    BY <2>1, <2>2 DEF Clean, CleanFrom
<1>10. Open(t, e - a) <=> Open(s, e)
  <2>1. e - a \in 0..(e - a) /\ a + (e - a) = e
    OBVIOUS
  <2> DEFINE p(n) == ByteAt(t, (e - a) - n)
             q(n) == ByteAt(s, e - n)
  <2>2. /\ p(1) = q(1) \/ (p(1) < 192 /\ q(1) < 192)
        /\ p(2) = q(2) \/ (p(2) < 224 /\ q(2) < 224)
        /\ p(3) = q(3) \/ (p(3) < 240 /\ q(3) < 240)
    BY <1>7, <2>1
  <2>3. /\ p(1) \in 0..255 /\ p(2) \in 0..255 /\ p(3) \in 0..255
        /\ q(1) \in 0..255 /\ q(2) \in 0..255 /\ q(3) \in 0..255
    BY <1>3
  <2>4. Open(t, e - a) <=> p(1) >= 192 \/ p(2) >= 224 \/ p(3) >= 240
    BY DEF Open
  <2>5. Open(s, e) <=> q(1) >= 192 \/ q(2) >= 224 \/ q(3) >= 240
    BY DEF Open
  <2> HIDE DEF p, q
  <2> QED
    BY <2>2, <2>3, <2>4, <2>5
<1> QED
  BY <1>9, <1>10 DEF t

(* So a segment that starts where no character is open is well formed when *)
(* its windows are clean and none is open at its end,                      *)
LEMMA WholeSegment ==
  ASSUME NEW s \in ByteSeq, NEW a \in Nat, NEW e \in Nat, a <= e, e <= Size(s),
         ~Open(s, a)
  PROVE  WellFormed(SubSeq(s, a + 1, e)) <=> CleanFrom(s, a, e) /\ ~Open(s, e)
<1> DEFINE t == SubSeq(s, a + 1, e)
<1>1. t \in ByteSeq /\ Size(t) = e - a
  BY SegmentBytes
<1>2. /\ Clean(t, e - a) <=> CleanFrom(s, a, e)
      /\ Open(t, e - a) <=> Open(s, e)
  BY SegmentWindows
<1> HIDE DEF t
<1>3. Clean(t, e - a) /\ ~Open(t, e - a) <=> WellFormed(t)
  <2>1. e - a \in Nat /\ Size(t) <= e - a
    BY <1>1
  <2> QED
    BY <1>1, <2>1, CleanToTheEnd
<1> QED
  BY <1>2, <1>3 DEF t

(* and a prefix is such a segment.                                         *)
LEMMA WholePrefix ==
  ASSUME NEW s \in ByteSeq, NEW e \in Nat, e <= Size(s)
  PROVE  /\ WellFormed(SubSeq(s, 1, e)) <=> Clean(s, e) /\ ~Open(s, e)
         /\ Clean(SubSeq(s, 1, e), e) <=> Clean(s, e)
<1>1. ~Open(s, 0)
  BY DEF Open, ByteAt
<1>2. 0 + 1 = 1 /\ e - 0 = e
  OBVIOUS
<1>3. WellFormed(SubSeq(s, 0 + 1, e)) <=> CleanFrom(s, 0, e) /\ ~Open(s, e)
  BY <1>1, WholeSegment
<1>4. Clean(SubSeq(s, 0 + 1, e), e - 0) <=> CleanFrom(s, 0, e)
  BY <1>1, SegmentWindows
<1> QED
  BY <1>2, <1>3, <1>4 DEF Clean, CleanFrom

(* Nothing is open where a byte that is not a continuation fits.           *)
LEMMA BoundaryAtLead ==
  ASSUME NEW s \in ByteSeq, NEW i \in Nat, LocalOK(s, i),
         ByteAt(s, i) \notin Continuation
  PROVE  ~Open(s, i)
<1> DEFINE p1 == ByteAt(s, i - 1)
           p2 == ByteAt(s, i - 2)
           p3 == ByteAt(s, i - 3)
           b == ByteAt(s, i)
<1>1. p1 \in 0..255 /\ p2 \in 0..255 /\ p3 \in 0..255 /\ b \in 0..255
  BY ByteAtType
<1>2. WindowOK(p3, p2, p1, b) /\ b \notin Continuation
  BY DEF LocalOK
<1>3. Open(s, i) <=> p1 >= 192 \/ p2 >= 224 \/ p3 >= 240
  BY DEF Open
<1> HIDE DEF p1, p2, p3, b
<1>4. ~Demanded(p3, p2) /\ PairOK(p1, b)
  BY <1>2 DEF WindowOK
<1>5. CASE p1 >= 192
  <2>1. p1 \in 192..255
    BY <1>1, <1>5
  <2>2. b \in Continuation
    BY <1>2, <2>1, WindowAfterLead
  <2> QED
    BY <1>2, <2>2
<1>6. CASE p1 < 192
  BY <1>1, <1>3, <1>4, <1>6 DEF Demanded
<1> QED
  BY <1>1, <1>5, <1>6

(* A byte that starts nothing behind a boundary must not continue.         *)
LEMMA WindowAtBoundary ==
  ASSUME NEW s \in ByteSeq, NEW i \in Nat, ~Open(s, i)
  PROVE  LocalOK(s, i) <=> ByteAt(s, i) \notin Continuation
<1>1. ByteAt(s, i - 1) \in 0..191 /\ ByteAt(s, i - 2) \in 0..223 /\ ByteAt(s, i - 3) \in 0..239
  <2>1. ByteAt(s, i - 1) \in 0..255 /\ ByteAt(s, i - 2) \in 0..255 /\ ByteAt(s, i - 3) \in 0..255
    BY ByteAtType
  <2> QED
    BY <2>1 DEF Open
<1> QED
  BY <1>1, QuietWindow DEF LocalOK

(***************************************************************************)
(* Behind a clean prefix at most one lead is near, and what it leads has   *)
(* been a continuation so far: the comment in neon/implementations.h.      *)
(***************************************************************************)
LEMMA BehindClean ==
  ASSUME NEW s \in ByteSeq, NEW j \in Nat, Clean(s, j)
  PROVE  /\ ByteAt(s, j - 1) >= 192 => /\ ByteAt(s, j - 2) < 192
                                       /\ ByteAt(s, j - 3) < 224
         /\ ByteAt(s, j - 2) >= 224 => /\ ByteAt(s, j - 1) \in Continuation
                                       /\ ByteAt(s, j - 3) < 192
         /\ ByteAt(s, j - 3) >= 240 => ByteAt(s, j - 1) \in Continuation
<1> DEFINE p(n) == ByteAt(s, j - n)
<1>1. \A n \in 1..5 : p(n) \in 0..255 /\ (j < n => p(n) = 0)
  BY ByteAtType DEF ByteAt
<1>2. ASSUME j >= 1
      PROVE  WindowOK(p(4), p(3), p(2), p(1))
  <2>1. j - 1 \in 0..(j - 1) /\ (j - 1) - 1 = j - 2 /\ (j - 1) - 2 = j - 3
        /\ (j - 1) - 3 = j - 4
    BY <1>2
  <2> QED
    BY <2>1 DEF Clean, LocalOK
<1>3. ASSUME j >= 2
      PROVE  WindowOK(p(5), p(4), p(3), p(2))
  <2>1. j - 2 \in 0..(j - 1) /\ (j - 2) - 1 = j - 3 /\ (j - 2) - 2 = j - 4
        /\ (j - 2) - 3 = j - 5
    BY <1>3
  <2> QED
    BY <2>1 DEF Clean, LocalOK
<1> HIDE DEF p
<1>4. p(1) >= 192 => p(2) < 192 /\ p(3) < 224
  BY <1>1, <1>2 DEF WindowOK, PairOK, Demanded, SecondBytes, Continuation
<1>5. p(2) >= 224 => p(3) < 192
  BY <1>1, <1>3 DEF WindowOK, PairOK, SecondBytes, Continuation
<1>6. ASSUME p(2) >= 224
      PROVE  p(1) \in Continuation
  <2>1. p(2) \in 192..255 /\ WindowOK(p(4), p(3), p(2), p(1))
    BY <1>1, <1>2, <1>6
  <2> QED
    BY <2>1, WindowAfterLead
<1>7. p(3) >= 240 => p(1) \in Continuation
  BY <1>1, <1>2 DEF WindowOK, Demanded
<1> QED
  BY <1>4, <1>5, <1>6, <1>7 DEF p

(***************************************************************************)
(* The bytes so far can still become well formed exactly when their        *)
(* windows are clean.                                                      *)
(***************************************************************************)
LEMMA SoFar ==
  ASSUME NEW s \in ByteSeq
  PROVE  WellFormedSoFar(s) <=> Clean(s, Size(s))
<1> DEFINE N == Size(s)
<1>1. N \in Nat /\ N = Len(s)
  BY SizeType DEF Size
<1> HIDE DEF N
<1>a. \A j \in Int : ByteAt(s, j) \in 0..255
  BY ByteAtType
<1>b. \A j \in 0..(N - 1) : s[j + 1] = ByteAt(s, j)
  BY <1>1 DEF ByteAt, N
<1>2. WellFormed(s) <=> Clean(s, N) /\ ~Open(s, N)
  BY <1>1, CleanToTheEnd DEF N
<1>3. \A m \in 1..3 : m <= N =>
        (WellFormed(SubSeq(s, 1, Len(s) - m)) <=> Clean(s, N - m) /\ ~Open(s, N - m))
  BY <1>1, WholePrefix DEF N
<1>4. ASSUME Clean(s, N), NEW m \in 1..3, m <= N, ByteAt(s, N - m) >= 192
      PROVE  WellFormed(SubSeq(s, 1, Len(s) - m))
  <2>1. N - m \in 0..(N - 1) /\ N - m \in Nat
    BY <1>1, <1>4
  <2>2. LocalOK(s, N - m) /\ Clean(s, N - m)
    BY <1>1, <1>4, <2>1 DEF Clean
  <2>3. ByteAt(s, N - m) \notin Continuation
    BY <1>4 DEF Continuation
  <2> QED
    BY <1>3, <1>4, <2>1, <2>2, <2>3, BoundaryAtLead
<1>5. ASSUME Clean(s, N), Open(s, N) PROVE WellFormedSoFar(s)
  <2>0. \A j \in Int : j < 0 => ByteAt(s, j) = 0
    BY DEF ByteAt
  <2> DEFINE h1 == ByteAt(s, N - 1)
             h2 == ByteAt(s, N - 2)
             h3 == ByteAt(s, N - 3)
  <2>1. \/ h1 >= 192 /\ N >= 1
        \/ h2 >= 224 /\ N >= 2
        \/ h3 >= 240 /\ N >= 3
    BY <1>1, <1>5, <2>0 DEF Open
  <2>2. h1 \in 0..255 /\ h2 \in 0..255 /\ h3 \in 0..255
    BY <1>1, <1>a, SMTT(20)
  <2>3. ASSUME NEW m \in 1..3, m <= N, ByteAt(s, N - m) >= 192, Pending(s, m)
        PROVE  WellFormedSoFar(s)
    BY <1>1, <1>4, <1>5, <2>3 DEF WellFormedSoFar
  <2>4. /\ N >= 1 => s[Len(s)] = h1
        /\ N >= 2 => s[Len(s) - 1] = h2
        /\ N >= 3 => s[Len(s) - 2] = h3
    <3>1. /\ N >= 1 => N - 1 \in 0..(N - 1)
          /\ N >= 2 => N - 2 \in 0..(N - 1)
          /\ N >= 3 => N - 3 \in 0..(N - 1)
          /\ (N - 1) + 1 = Len(s) /\ (N - 2) + 1 = Len(s) - 1
          /\ (N - 3) + 1 = Len(s) - 2
      BY <1>1
    <3> QED
      BY <1>b, <3>1
  <2>5. /\ (Len(s) - 1) + 1 = Len(s)
        /\ (Len(s) - 2) + 1 = Len(s) - 1
        /\ (Len(s) - 3) + 1 = Len(s) - 2
        /\ ((Len(s) - 2) + 1) + 1 = Len(s)
        /\ ((Len(s) - 3) + 1) + 1 = Len(s) - 1
        /\ ((Len(s) - 3) + 1) + 2 = Len(s)
    BY <1>1
  <2>a. /\ ByteAt(s, N - 1) = h1 /\ ByteAt(s, N - 2) = h2 /\ ByteAt(s, N - 3) = h3
    OBVIOUS
  <2>6. N >= 1 => (Pending(s, 1) <=> h1 \in 192..255)
    BY <2>4, <2>5 DEF Pending
  <2>7. N >= 2 => (Pending(s, 2) <=> h2 \in Lead3 \cup Lead4 /\ h1 \in SecondBytes(h2))
    <3> HIDE DEF h1, h2, h3
    <3> DEFINE i == Len(s) - 2 + 1
    <3>1. Pending(s, 2) <=> /\ s[i] \in Lead3 \cup Lead4
                            /\ s[i + 1] \in SecondBytes(s[i])
      BY DEF Pending
    <3>2. i = Len(s) - 1 /\ i + 1 = Len(s)
      BY <2>5
    <3> HIDE DEF i
    <3> QED
      BY <1>1, <2>4, <3>1, <3>2
  <2>8. N >= 3 => (Pending(s, 3) <=> /\ h3 \in Lead4
                                     /\ h2 \in SecondBytes(h3)
                                     /\ h1 \in Continuation)
    <3> HIDE DEF h1, h2, h3
    <3> DEFINE i == Len(s) - 3 + 1
    <3>1. Pending(s, 3) <=> /\ s[i] \in Lead4
                            /\ s[i + 1] \in SecondBytes(s[i])
                            /\ s[i + 2] \in Continuation
      BY DEF Pending
    <3>2. i = Len(s) - 2 /\ i + 1 = Len(s) - 1 /\ i + 2 = Len(s)
      BY <2>5
    <3> HIDE DEF i
    <3>3. N >= 3 => N >= 2 /\ N >= 1
      BY <1>1
    <3> QED
      BY <2>4, <3>1, <3>2, <3>3
  <2>9. N >= 2 /\ h2 >= 192 => h2 \in Lead2 \cup Lead3 \cup Lead4 /\ h1 \in SecondBytes(h2)
    <3>1. N >= 2 => /\ N - 2 \in 0..(N - 1) /\ (N - 2) + 1 < N /\ (N - 2) + 1 = N - 1
      BY <1>1
    <3> QED
      BY <1>1, <1>5, <3>1, LeadIsCompleted
  <2>10. N >= 3 /\ h3 >= 192 => /\ h3 \in Lead2 \cup Lead3 \cup Lead4
                                /\ h2 \in SecondBytes(h3)
                                /\ h3 >= 224 => h1 \in Continuation
    <3>1. N >= 3 => /\ N - 3 \in 0..(N - 1) /\ (N - 3) + 1 < N /\ (N - 3) + 2 < N
                    /\ (N - 3) + 1 = N - 2 /\ (N - 3) + 2 = N - 1
      BY <1>1
    <3> QED
      BY <1>1, <1>5, <3>1, LeadIsCompleted
  <2> HIDE DEF h1, h2, h3
  <2>12. CASE h1 >= 192 /\ N >= 1
    BY <2>2, <2>3, <2>6, <2>a, <2>12
  <2>13. CASE h2 >= 224 /\ N >= 2
    <3>1. h2 \in Lead3 \cup Lead4 /\ h1 \in SecondBytes(h2) /\ h2 >= 192
      BY <2>2, <2>9, <2>13 DEF Lead2, Lead3, Lead4
    <3> QED
      BY <2>3, <2>7, <2>a, <2>13, <3>1
  <2>14. CASE h3 >= 240 /\ N >= 3
    <3>1. /\ h3 \in Lead4 /\ h2 \in SecondBytes(h3) /\ h1 \in Continuation
          /\ h3 >= 192
      BY <2>2, <2>10, <2>14 DEF Lead2, Lead3, Lead4
    <3> QED
      BY <2>3, <2>8, <2>a, <2>14, <3>1
  <2> QED
    BY <2>1, <2>12, <2>13, <2>14
<1>6. ASSUME NEW m \in 1..3, m <= N, Pending(s, m), Clean(s, N - m), ~Open(s, N - m)
      PROVE  Clean(s, N)
  <2> DEFINE e == N - m
             b == ByteAt(s, e)
             c == ByteAt(s, e + 1)
             d == ByteAt(s, e + 2)
  <2>1. e \in Nat /\ N = e + m
    BY <1>1, <1>6
  <2>2. Len(s) - m + 1 = e + 1
    BY <1>1
  <2>3. s[e + 1] = b /\ (m >= 2 => s[(e + 1) + 1] = c) /\ (m >= 3 => s[(e + 1) + 2] = d)
    <3>1. e \in 0..(N - 1) /\ (m >= 2 => e + 1 \in 0..(N - 1))
          /\ (m >= 3 => e + 2 \in 0..(N - 1))
      BY <1>1, <2>1
    <3>2. (e + 1) + 1 = e + 2 /\ (e + 1) + 2 = (e + 2) + 1
      BY <1>1
    <3> HIDE DEF e
    <3> QED
      BY <1>b, <2>1, <3>1, <3>2
  <2>4. /\ b >= 192
        /\ m >= 2 => b \in Lead3 \cup Lead4 /\ c \in SecondBytes(b)
        /\ m >= 3 => b \in Lead4 /\ d \in Continuation
    <3> HIDE DEF e, b, c, d
    <3>1. \/ m = 1 /\ b \in 192..255
          \/ m = 2 /\ b \in Lead3 \cup Lead4 /\ c \in SecondBytes(b)
          \/ m = 3 /\ b \in Lead4 /\ c \in SecondBytes(b) /\ d \in Continuation
      <4>1. \/ m = 1 /\ s[e + 1] \in 192..255
            \/ /\ m = 2
               /\ s[e + 1] \in Lead3 \cup Lead4
               /\ s[(e + 1) + 1] \in SecondBytes(s[e + 1])
            \/ /\ m = 3
               /\ s[e + 1] \in Lead4
               /\ s[(e + 1) + 1] \in SecondBytes(s[e + 1])
               /\ s[(e + 1) + 2] \in Continuation
        BY <1>6, <2>2 DEF Pending
      <4> QED
        BY <2>3, <4>1
    <3> QED
      BY <3>1 DEF Lead3, Lead4
  <2>5. \A j \in Int : ByteAt(s, j) \in 0..255
    BY <1>a
  <2> DEFINE p1 == ByteAt(s, e - 1)
             p2 == ByteAt(s, e - 2)
  <2>6. p1 < 192 /\ p2 < 224
    BY <1>6, <2>5, <2>1, SMTT(20) DEF Open
  <2>7. LocalOK(s, e)
    <3>1. b \notin Continuation
      BY <2>4 DEF Continuation
    <3> QED
      BY <1>6, <2>1, <3>1, WindowAtBoundary
  <2>8. b \in 0..255 /\ c \in 0..255 /\ d \in 0..255 /\ p1 \in 0..255 /\ p2 \in 0..255
    BY <2>1, <2>5
  <2>9. m >= 2 => LocalOK(s, e + 1)
    <3>1. (e + 1) - 1 = e /\ (e + 1) - 2 = e - 1 /\ (e + 1) - 3 = e - 2
      BY <2>1
    <3> HIDE DEF e, b, c, p1, p2
    <3>2. m >= 2 => WindowOK(p2, p1, b, c)
      BY <2>4, <2>6, <2>8 DEF WindowOK, Demanded, PairOK
    <3> QED
      BY <3>1, <3>2 DEF LocalOK, b, c, p1, p2
  <2>10. m >= 3 => LocalOK(s, e + 2)
    <3>1. (e + 2) - 1 = e + 1 /\ (e + 2) - 2 = e /\ (e + 2) - 3 = e - 1
      BY <2>1
    <3>2. SecondBytes(b) \subseteq Continuation
      BY DEF SecondBytes, Continuation
    <3> HIDE DEF e, b, c, d, p1
    <3>3. m >= 3 => WindowOK(p1, b, c, d)
      BY <2>4, <2>8, <3>2 DEF WindowOK, Demanded, Lead4
    <3> QED
      BY <3>1, <3>3 DEF LocalOK, b, c, d, p1
  <2> HIDE DEF e, b, c, d, p1, p2
  <2>11. ASSUME NEW j \in 0..(N - 1) PROVE LocalOK(s, j)
    <3>1. j < e \/ j = e \/ (m >= 2 /\ j = e + 1) \/ (m >= 3 /\ j = e + 2)
      BY <1>1, <2>1
    <3>2. j < e => LocalOK(s, j)
      BY <1>6, <2>1 DEF Clean, e
    <3> QED
      BY <2>7, <2>9, <2>10, <3>1, <3>2
  <2> QED
    BY <2>11 DEF Clean
<1>7. ASSUME WellFormedSoFar(s) PROVE Clean(s, N)
  <2>1. CASE WellFormed(s)
    BY <1>2, <2>1
  <2>2. CASE \E n \in 1..3 : /\ n <= Len(s)
                             /\ Pending(s, n)
                             /\ WellFormed(SubSeq(s, 1, Len(s) - n))
    <3>1. PICK m \in 1..3 : /\ m <= N
                            /\ Pending(s, m)
                            /\ WellFormed(SubSeq(s, 1, Len(s) - m))
      BY <1>1, <2>2
    <3> QED
      BY <1>3, <1>6, <3>1
  <2> QED
    BY <1>7, <2>1, <2>2 DEF WellFormedSoFar
<1>8. ASSUME Clean(s, N) PROVE WellFormedSoFar(s)
  BY <1>2, <1>5, <1>8 DEF WellFormedSoFar
<1> QED
  BY <1>7, <1>8 DEF N

(* The same of a prefix.                                                   *)
LEMMA PrefixSoFar ==
  ASSUME NEW s \in ByteSeq, NEW e \in Nat, e <= Size(s)
  PROVE  WellFormedSoFar(SubSeq(s, 1, e)) <=> Clean(s, e)
<1> DEFINE t == SubSeq(s, 1, e)
<1>1. t \in ByteSeq /\ Size(t) = e
  <2>1. 0 + 1 = 1 /\ e - 0 = e
    OBVIOUS
  <2>2. SubSeq(s, 0 + 1, e) \in ByteSeq /\ Size(SubSeq(s, 0 + 1, e)) = e - 0
    BY SegmentBytes
  <2> QED
    BY <2>1, <2>2
<1>2. Clean(t, e) <=> Clean(s, e)
  BY WholePrefix
<1> HIDE DEF t
<1>3. WellFormedSoFar(t) <=> Clean(t, Size(t))
  BY <1>1, SoFar
<1> QED
  BY <1>1, <1>2, <1>3 DEF t
-----------------------------------------------------------------------------
(* A legal character may follow at i, and the cutting go on behind it.     *)
CutsAt(s, f, i) ==
  \/ i = Len(s) + 1
  \/ \E n \in 1..4 : i + n <= Len(s) + 1 /\ LegalChar(s, i, n) /\ f[i + n]

Cuts(s) == 1..(Len(s) + 1)

(***************************************************************************)
(* The recursive function of Decodes exists: i can be cut when a set of    *)
(* places holds i and, with each place in it, the end of a character that  *)
(* starts there.                                                           *)
(***************************************************************************)
LEMMA DecodesExists ==
  ASSUME NEW s \in ByteSeq
  PROVE  \E f : f = [i \in Cuts(s) |-> CutsAt(s, f, i)]
<1> DEFINE Closed(C) ==
             \A i \in C : \/ i = Len(s) + 1
                          \/ \E n \in 1..4 : /\ i + n <= Len(s) + 1
                                             /\ LegalChar(s, i, n)
                                             /\ i + n \in C
           g == [i \in Cuts(s) |-> \E C \in SUBSET Cuts(s) : i \in C /\ Closed(C)]
<1>1. Len(s) \in Nat
  BY SizeType DEF Size
<1>2. ASSUME NEW i \in Cuts(s), g[i] PROVE CutsAt(s, g, i)
  <2>1. PICK C \in SUBSET Cuts(s) : i \in C /\ Closed(C)
    BY <1>2
  <2>2. CASE i = Len(s) + 1
    BY <2>2 DEF CutsAt
  <2>3. CASE \E n \in 1..4 : i + n <= Len(s) + 1 /\ LegalChar(s, i, n) /\ i + n \in C
    <3>1. PICK n \in 1..4 : i + n <= Len(s) + 1 /\ LegalChar(s, i, n) /\ i + n \in C
      BY <2>3
    <3>2. i + n \in Cuts(s) /\ g[i + n]
      BY <2>1, <3>1
    <3> HIDE DEF g
    <3> QED
      BY <3>1, <3>2 DEF CutsAt
  <2> QED
    BY <2>1, <2>2, <2>3
<1>3. ASSUME NEW i \in Cuts(s), CutsAt(s, g, i) PROVE g[i]
  <2>1. CASE i = Len(s) + 1
    <3>1. {i} \in SUBSET Cuts(s) /\ i \in {i} /\ Closed({i})
      BY <2>1
    <3> QED
      BY <3>1
  <2>2. CASE \E n \in 1..4 : i + n <= Len(s) + 1 /\ LegalChar(s, i, n) /\ g[i + n]
    <3>1. PICK n \in 1..4 : i + n <= Len(s) + 1 /\ LegalChar(s, i, n) /\ g[i + n]
      BY <2>2
    <3>2. i + n \in Cuts(s)
      BY <1>1, <3>1 DEF Cuts
    <3>3. PICK C \in SUBSET Cuts(s) : i + n \in C /\ Closed(C)
      BY <3>1, <3>2
    <3>4. C \cup {i} \in SUBSET Cuts(s) /\ i \in C \cup {i}
      BY <3>3
    <3>5. Closed(C \cup {i})
      <4> SUFFICES ASSUME NEW k \in C \cup {i}, k # Len(s) + 1
                   PROVE  \E m \in 1..4 : /\ k + m <= Len(s) + 1
                                          /\ LegalChar(s, k, m)
                                          /\ k + m \in C \cup {i}
        OBVIOUS
      <4>1. CASE k \in C
        BY <3>3, <4>1
      <4>2. CASE k = i
        BY <3>1, <3>3, <4>2
      <4> QED
        BY <4>1, <4>2
    <3> HIDE DEF Closed
    <3> QED
      BY <3>4, <3>5
  <2> QED
    BY <1>3, <2>1, <2>2 DEF CutsAt
<1>4. \A i \in Cuts(s) : g[i] <=> CutsAt(s, g, i)
  <2> HIDE DEF g
  <2> QED
    BY <1>2, <1>3
<1>5. g = [i \in Cuts(s) |-> CutsAt(s, g, i)]
  <2>1. \A i \in Cuts(s) : g[i] = CutsAt(s, g, i)
    <3>1. \A i \in Cuts(s) : g[i] \in BOOLEAN
      OBVIOUS
    <3>2. \A i \in Cuts(s) : CutsAt(s, g, i) \in BOOLEAN
      BY DEF CutsAt
    <3> HIDE DEF g
    <3> QED
      BY <1>4, <3>1, <3>2
  <2>2. g = [i \in Cuts(s) |-> g[i]]
    OBVIOUS
  <2> HIDE DEF g
  <2> QED
    BY <2>1, <2>2
<1> QED
  BY <1>5

(* A character of a well-formed input, and what stands behind it.          *)
LEMMA CharOfWellFormed ==
  ASSUME NEW s \in ByteSeq, WellFormed(s), NEW i \in 1..Size(s),
         ByteAt(s, i - 1) \notin Continuation
  PROVE  \E n \in 1..4 : /\ i + n <= Size(s) + 1
                         /\ LegalChar(s, i, n)
                         /\ ByteAt(s, (i + n) - 1) \notin Continuation
<1>1. Size(s) \in Nat
  BY SizeType
<1>2. Clean(s, Size(s) + 3)
  BY LocalCharacterization
<1> DEFINE b == ByteAt(s, i - 1)
           n == LengthOf(b)
           e == (i - 1) + n
<1>3. i - 1 \in 0..(Size(s) - 1) /\ (i - 1) + 1 = i /\ i - 1 \in Nat
  BY <1>1
<1>4. (i - 1) + n <= Size(s) /\ LegalChar(s, i, n)
  <2>1. (i - 1) + n <= Size(s) /\ LegalChar(s, (i - 1) + 1, n)
    BY <1>2, <1>3, CharFromClean
  <2> QED
    BY <1>3, <2>1
<1>5. n \in 1..4
  BY DEF LengthOf
<1>6. e \in Nat /\ e + 1 = i + n /\ (i + n) - 1 = e /\ e = (i - 1) + n
  <2> HIDE DEF n
  <2> QED
    BY <1>3, <1>5
<1>7. ASSUME ByteAt(s, e) \in Continuation PROVE FALSE
  <2>1. /\ b \in Ascii \cup Lead2 \cup Lead3 \cup Lead4
        /\ n >= 2 => ByteAt(s, i) \in Continuation
        /\ n >= 3 => ByteAt(s, i + 1) \in Continuation
        /\ n >= 4 => ByteAt(s, i + 2) \in Continuation
    <3>1. i + n <= Size(s) + 1
      BY <1>1, <1>4, <1>6
    <3> HIDE DEF n
    <3> QED
      BY <1>4, <1>5, <3>1, BytesOfChar
  <2>2. \/ ByteAt(s, e - 1) >= 192
        \/ ByteAt(s, e - 2) >= 224
        \/ ByteAt(s, e - 3) >= 240
    BY <1>6, <1>7, ContinuationOfWellFormed
  <2> DEFINE p1 == ByteAt(s, (i - 1) - 1)
             p2 == ByteAt(s, (i - 1) - 2)
             p3 == ByteAt(s, (i - 1) - 3)
  <2>3. p1 < 192 /\ p2 < 224 /\ p3 < 240
    <3>1. ~Open(s, i - 1)
      <4>1. LocalOK(s, i - 1)
        BY <1>3, WellFormedIsClean
      <4> QED
        BY <1>3, <4>1, BoundaryAtLead
    <3>2. p1 \in 0..255 /\ p2 \in 0..255 /\ p3 \in 0..255
      BY <1>3, ByteAtType
    <3> QED
      BY <3>1, <3>2 DEF Open
  <2>4. b \in 0..255
    BY <1>3, ByteAtType
  <2>5. CASE n = 1
    <3>1. e - 1 = i - 1 /\ e - 2 = (i - 1) - 1 /\ e - 3 = (i - 1) - 2
      BY <1>3, <1>6, <2>5
    <3>2. b < 192
      BY <2>1, <2>5, <2>4 DEF LengthOf
    <3>3. p1 \in 0..255 /\ p2 \in 0..255
      BY <1>3, ByteAtType
    <3> HIDE DEF b, p1, p2, e, n
    <3>4. p1 < 224 /\ p2 < 240
      BY <2>3, <3>3
    <3>5. ByteAt(s, e - 1) = b /\ ByteAt(s, e - 2) = p1 /\ ByteAt(s, e - 3) = p2
      BY <3>1 DEF b, p1, p2
    <3> QED
      BY <2>2, <2>4, <3>2, <3>3, <3>4, <3>5
  <2>6. CASE n = 2
    <3>1. e - 1 = i /\ e - 2 = i - 1 /\ e - 3 = (i - 1) - 1
      BY <1>3, <1>6, <2>6
    <3>2. b < 224
      BY <2>1, <2>6, <2>4 DEF LengthOf
    <3>3. p1 \in 0..255 /\ ByteAt(s, i) \in Continuation
      BY <1>3, <2>1, <2>6, ByteAtType
    <3> HIDE DEF b, p1, p2, e, n
    <3>4. p1 < 240 /\ ByteAt(s, i) < 192
      BY <2>3, <3>3 DEF Continuation
    <3>5. ByteAt(s, e - 1) = ByteAt(s, i) /\ ByteAt(s, e - 2) = b /\ ByteAt(s, e - 3) = p1
      BY <3>1 DEF b, p1, p2
    <3> QED
      BY <2>2, <2>4, <3>2, <3>3, <3>4, <3>5 DEF Continuation
  <2>7. CASE n = 3
    <3>1. e - 1 = i + 1 /\ e - 2 = i /\ e - 3 = i - 1
      BY <1>3, <1>6, <2>7
    <3>2. b < 240
      BY <2>1, <2>7, <2>4 DEF LengthOf
    <3>3. ByteAt(s, i) \in Continuation /\ ByteAt(s, i + 1) \in Continuation
      BY <1>3, <2>1, <2>7
    <3> HIDE DEF b, p1, p2, e, n
    <3>5. ByteAt(s, e - 1) = ByteAt(s, i + 1) /\ ByteAt(s, e - 2) = ByteAt(s, i)
          /\ ByteAt(s, e - 3) = b
      BY <3>1 DEF b
    <3> QED
      BY <2>2, <2>4, <3>2, <3>3, <3>5 DEF Continuation
  <2>8. CASE n = 4
    <3>1. e - 1 = i + 2 /\ e - 2 = i + 1 /\ e - 3 = i
      BY <1>3, <1>6, <2>8
    <3>3. ByteAt(s, i) \in Continuation /\ ByteAt(s, i + 1) \in Continuation
          /\ ByteAt(s, i + 2) \in Continuation
      BY <1>3, <2>1, <2>8
    <3> HIDE DEF b, p1, p2, e, n
    <3> QED
      BY <2>2, <3>1, <3>3 DEF Continuation
  <2> QED
    BY <1>5, <2>5, <2>6, <2>7, <2>8
<1> HIDE DEF e
<1>8. i + n <= Size(s) + 1 /\ ByteAt(s, (i + n) - 1) \notin Continuation
  <2>1. i + n <= Size(s) + 1
    <3> HIDE DEF n
    <3> QED
      BY <1>1, <1>4, <1>5, <1>6
  <2> QED
    BY <1>6, <1>7, <2>1
<1> QED
  BY <1>4, <1>5, <1>8

(***************************************************************************)
(* The two definitions of the language agree: every byte lies in a legal   *)
(* character exactly when the bytes can be cut into legal characters.      *)
(***************************************************************************)
THEOREM DecodesIsWellFormed ==
  ASSUME NEW s \in ByteSeq
  PROVE  Decodes(s) <=> WellFormed(s)
<1> DEFINE f == CHOOSE f : f = [i \in Cuts(s) |-> CutsAt(s, f, i)]
<1>1. Len(s) \in Nat /\ Size(s) = Len(s)
  BY SizeType DEF Size
<1>2. f = [i \in Cuts(s) |-> CutsAt(s, f, i)]
  BY DecodesExists
<1>3. Decodes(s) <=> f[1]
  BY DEF Decodes, Cuts, CutsAt
<1> HIDE DEF f
<1>5. \A i \in Cuts(s) : f[i] <=> CutsAt(s, f, i)
  <2>1. \A i \in Cuts(s) : f[i] = CutsAt(s, f, i)
    BY <1>2
  <2> QED
    BY <2>1
(* The last cut before a byte starts the character it lies in.             *)
<1>6. ASSUME f[1] PROVE WellFormed(s)
  <2> SUFFICES ASSUME NEW j \in 1..Len(s)
               PROVE  \E i \in 1..j, n \in 1..4 :
                        j < i + n /\ i + n <= Len(s) + 1 /\ LegalChar(s, i, n)
    BY DEF WellFormed
  <2> DEFINE T == {d \in 0..(j - 1) : f[j - d]}
  <2>1. T \in SUBSET Nat /\ j - 1 \in T
    <3>1. j - 1 \in 0..(j - 1) /\ j - (j - 1) = 1
      BY <1>1
    <3> QED
      BY <1>6, <3>1
  <2>2. PICK d \in T : \A k \in T : d <= k
    <3> HIDE DEF T
    <3> QED
      BY <2>1, LeastOf
  <2>3. d \in 0..(j - 1) /\ f[j - d]
    OBVIOUS
  <2>4. \A k \in 0..(j - 1) : f[j - k] => ~(k < d)
    BY <2>2, <2>3
  <2> HIDE DEF T
  <2>5. j - d \in Cuts(s) /\ j - d # Len(s) + 1 /\ j - d \in 1..j
    BY <1>1, <2>3 DEF Cuts
  <2>6. PICK n \in 1..4 : /\ (j - d) + n <= Len(s) + 1
                          /\ LegalChar(s, j - d, n)
                          /\ f[(j - d) + n]
    BY <1>5, <2>3, <2>5 DEF CutsAt
  <2>7. j < (j - d) + n
    <3>1. SUFFICES ASSUME n <= d PROVE FALSE
      BY <2>3
    <3>2. d - n \in 0..(j - 1) /\ d - n < d /\ j - (d - n) = (j - d) + n
      BY <2>3, <3>1
    <3> QED
      BY <2>4, <2>6, <3>2
  <2> QED
    BY <2>5, <2>6, <2>7
(* The last byte that starts a character but no cut would start none.      *)
<1>7. ASSUME WellFormed(s) PROVE f[1]
  <2> SUFFICES ASSUME ~f[1] PROVE FALSE
    OBVIOUS
  <2> DEFINE T == {d \in 0..Len(s) : /\ ~f[(Len(s) + 1) - d]
                                     /\ ByteAt(s, Len(s) - d) \notin Continuation}
  <2>1. Len(s) \in T
    <3>1. Len(s) \in 0..Len(s) /\ (Len(s) + 1) - Len(s) = 1 /\ Len(s) - Len(s) = 0
      BY <1>1
    <3>2. ByteAt(s, 0) \notin Continuation
      <4>1. LocalOK(s, 0)
        BY <1>7, WellFormedIsClean
      <4>2. ~Open(s, 0)
        BY DEF Open, ByteAt
      <4> QED
        BY <4>1, <4>2, WindowAtBoundary
    <3> QED
      BY <3>1, <3>2
  <2>2. PICK d \in T : \A k \in T : d <= k
    <3>1. T \in SUBSET Nat
      OBVIOUS
    <3> HIDE DEF T
    <3> QED
      BY <2>1, <3>1, LeastOf
  <2> DEFINE i == (Len(s) + 1) - d
  <2>3. d \in 0..Len(s) /\ ~f[i] /\ ByteAt(s, Len(s) - d) \notin Continuation
    OBVIOUS
  <2>4. \A k \in 0..Len(s) : ~f[(Len(s) + 1) - k]
                             /\ ByteAt(s, Len(s) - k) \notin Continuation => ~(k < d)
    BY <2>2, <2>3
  <2> HIDE DEF T
  <2>5. i \in Cuts(s) /\ Len(s) - d = i - 1 /\ d = (Len(s) + 1) - i
    BY <1>1, <2>3 DEF Cuts
  <2> HIDE DEF i
  <2>6. ~CutsAt(s, f, i)
    BY <1>5, <2>3, <2>5
  <2>7. i # Len(s) + 1
    BY <2>6 DEF CutsAt
  <2>8. i \in 1..Size(s) /\ ByteAt(s, i - 1) \notin Continuation
    BY <1>1, <2>3, <2>5, <2>7 DEF Cuts
  <2>9. PICK n \in 1..4 : /\ i + n <= Size(s) + 1
                          /\ LegalChar(s, i, n)
                          /\ ByteAt(s, (i + n) - 1) \notin Continuation
    BY <1>7, <2>8, CharOfWellFormed
  <2>10. f[i + n]
    <3>1. /\ d - n \in 0..Len(s) /\ d - n < d
          /\ (Len(s) + 1) - (d - n) = i + n
          /\ Len(s) - (d - n) = (i + n) - 1
      BY <1>1, <2>3, <2>5, <2>8, <2>9
    <3> QED
      BY <2>4, <2>9, <3>1
  <2>11. CutsAt(s, f, i)
    BY <1>1, <2>9, <2>10 DEF CutsAt
  <2> QED
    BY <2>6, <2>11
<1> QED
  BY <1>3, <1>6, <1>7
-----------------------------------------------------------------------------
(* For readers that go from character to character: behind a text that is  *)
(* whole, a legal character leaves the text whole.                         *)
LEMMA CharacterRead ==
  ASSUME NEW s \in ByteSeq, NEW a \in Nat, NEW n \in 1..4, a + n <= Size(s),
         Clean(s, a), ~Open(s, a), LegalChar(s, a + 1, n)
  PROVE  Clean(s, a + n) /\ ~Open(s, a + n)
<1> DEFINE B(j) == ByteAt(s, j)
<1>1. Size(s) \in Nat /\ \A j \in Int : B(j) \in 0..255
  BY SizeType, ByteAtType
<1>2. a < Size(s) /\ a + 1 \in 1..Size(s) /\ (a + 1) - 1 = a /\ (a + 1) + n <= Size(s) + 1
  BY <1>1
<1>3. /\ n = LengthOf(B(a))
      /\ B(a) \in Ascii \cup Lead2 \cup Lead3 \cup Lead4
      /\ n >= 2 => B(a + 1) \in SecondBytes(B(a)) /\ B(a + 1) \in Continuation
      /\ n >= 3 => B((a + 1) + 1) \in Continuation
      /\ n >= 4 => B((a + 1) + 2) \in Continuation
  BY <1>2, BytesOfChar
<1>4. (a + 1) + 1 = a + 2 /\ (a + 1) + 2 = a + 3
  OBVIOUS
<1>5. B(a - 1) < 192 /\ B(a - 2) < 224 /\ B(a - 3) < 240
  <2>1. B(a - 1) \in Int /\ B(a - 2) \in Int /\ B(a - 3) \in Int
    BY <1>1, SMTT(20)
  <2> QED
    BY <2>1 DEF Open
<1>6. LocalOK(s, a)
  <2>1. B(a) \notin Continuation
    BY <1>3 DEF Ascii, Lead2, Lead3, Lead4, Continuation
  <2> QED
    BY <2>1, WindowAtBoundary
<1>7. n >= 2 => LocalOK(s, a + 1)
  <2>1. (a + 1) - 1 = a /\ (a + 1) - 2 = a - 1 /\ (a + 1) - 3 = a - 2
    OBVIOUS
  <2>2. n >= 2 => WindowOK(B(a - 2), B(a - 1), B(a), B(a + 1))
    BY <1>1, <1>3, <1>5, SMTT(20)
       DEF WindowOK, Demanded, PairOK, LengthOf, Ascii, Lead2, Lead3, Lead4
  <2> QED
    BY <2>1, <2>2 DEF LocalOK
<1>8. n >= 3 => LocalOK(s, a + 2)
  <2>1. (a + 2) - 1 = a + 1 /\ (a + 2) - 2 = a /\ (a + 2) - 3 = a - 1
    OBVIOUS
  <2>2. n >= 3 => WindowOK(B(a - 1), B(a), B(a + 1), B(a + 2))
    BY <1>1, <1>3, <1>4, <1>5 DEF WindowOK, Demanded, LengthOf
  <2> QED
    BY <2>1, <2>2 DEF LocalOK
<1>9. n >= 4 => LocalOK(s, a + 3)
  <2>1. (a + 3) - 1 = a + 2 /\ (a + 3) - 2 = a + 1 /\ (a + 3) - 3 = a
    OBVIOUS
  <2>2. n >= 4 => WindowOK(B(a), B(a + 1), B(a + 2), B(a + 3))
    BY <1>1, <1>3, <1>4, <1>5 DEF WindowOK, Demanded, LengthOf
  <2> QED
    BY <2>1, <2>2 DEF LocalOK
<1>10. Clean(s, a + n)
  <2> SUFFICES ASSUME NEW j \in 0..((a + n) - 1) PROVE LocalOK(s, j)
    BY DEF Clean
  <2>1. \/ j \in 0..(a - 1) \/ j = a \/ (j = a + 1 /\ n >= 2)
        \/ (j = a + 2 /\ n >= 3) \/ (j = a + 3 /\ n >= 4)
    OBVIOUS
  <2> QED
    BY <1>6, <1>7, <1>8, <1>9, <2>1 DEF Clean
<1>11. ~Open(s, a + n)
  <2> SUFFICES ~(\/ B((a + n) - 1) >= 192
                \/ B((a + n) - 2) >= 224
                \/ B((a + n) - 3) >= 240)
    BY DEF Open
  <2>1. /\ B(a) \in 0..255 /\ B(a + 1) \in 0..255 /\ B(a + 2) \in 0..255
        /\ B(a + 3) \in 0..255 /\ B(a - 1) \in 0..255 /\ B(a - 2) \in 0..255
    BY <1>1
  <2>2. CASE n = 1
    <3>1. B(a) < 128
      BY <1>1, <1>3, <2>2 DEF LengthOf, Ascii, Lead2, Lead3, Lead4
    <3>2. (a + n) - 1 = a /\ (a + n) - 2 = a - 1 /\ (a + n) - 3 = a - 2
      BY <2>2
    <3> QED
      BY <1>5, <2>1, <3>1, <3>2
  <2>3. CASE n = 2
    <3>1. B(a) < 224 /\ B(a + 1) < 192
      BY <1>1, <1>3, <2>3 DEF LengthOf, Continuation
    <3>2. (a + n) - 1 = a + 1 /\ (a + n) - 2 = a /\ (a + n) - 3 = a - 1
      BY <2>3
    <3> QED
      BY <1>5, <2>1, <3>1, <3>2
  <2>4. CASE n = 3
    <3>1. B(a) < 240 /\ B(a + 1) < 192 /\ B(a + 2) < 192
      BY <1>1, <1>3, <1>4, <2>4 DEF LengthOf, Continuation
    <3>2. (a + n) - 1 = a + 2 /\ (a + n) - 2 = a + 1 /\ (a + n) - 3 = a
      BY <2>4
    <3> QED
      BY <2>1, <3>1, <3>2
  <2>5. CASE n = 4
    <3>1. B(a + 1) < 192 /\ B(a + 2) < 192 /\ B(a + 3) < 192
      BY <1>1, <1>3, <1>4, <2>5 DEF Continuation
    <3>2. (a + n) - 1 = a + 3 /\ (a + n) - 2 = a + 2 /\ (a + n) - 3 = a + 1
      BY <2>5
    <3> QED
      BY <2>1, <3>1, <3>2
  <2> QED
    BY <2>2, <2>3, <2>4, <2>5
<1> QED
  BY <1>10, <1>11

(* Where no legal character begins, no longer prefix is well formed.       *)
LEMMA NoCharacterHere ==
  ASSUME NEW s \in ByteSeq, NEW a \in Nat, Clean(s, a), ~Open(s, a),
         \A n \in 1..4 : a + n <= Size(s) => ~LegalChar(s, a + 1, n),
         NEW e \in Nat, a < e, e <= Size(s)
  PROVE  ~WellFormed(SubSeq(s, 1, e))
<1> DEFINE p == SubSeq(s, 1, e)
<1> SUFFICES ASSUME WellFormed(p) PROVE FALSE
  OBVIOUS
<1>1. Size(s) \in Nat
  BY SizeType
<1>2. p \in ByteSeq /\ Size(p) = e /\ \A k \in 1..e : p[k] = s[k]
  <2>1. s \in Seq(Byte) /\ e \in 0..Len(s)
    BY <1>1 DEF ByteSeq, Size
  <2> QED
    BY <2>1 DEF ByteSeq, Size
<1>3. ByteAt(s, a) \notin Continuation
  <2>1. Clean(s, e)
    BY WholePrefix
  <2>2. LocalOK(s, a)
    BY <2>1 DEF Clean
  <2> QED
    BY <2>2, WindowAtBoundary
<1>4. ByteAt(p, a) = ByteAt(s, a)
  BY <1>1, <1>2 DEF ByteAt
<1> HIDE DEF p
<1>5. a + 1 \in 1..Size(p) /\ (a + 1) - 1 = a
  BY <1>2
<1>6. PICK n \in 1..4 : (a + 1) + n <= Size(p) + 1 /\ LegalChar(p, a + 1, n)
  BY <1>2, <1>3, <1>4, <1>5, CharOfWellFormed
<1>7. a + n <= e
  BY <1>2, <1>6
<1>8. LegalChar(s, a + 1, n)
  <2>1. p[a + 1] = s[a + 1]
    BY <1>2, <1>7
  <2>2. n >= 2 => p[(a + 1) + 1] = s[(a + 1) + 1]
    BY <1>2, <1>7
  <2>3. n >= 3 => p[(a + 1) + 2] = s[(a + 1) + 2]
    BY <1>2, <1>7
  <2>4. n >= 4 => p[(a + 1) + 3] = s[(a + 1) + 3]
    BY <1>2, <1>7
  <2> QED
    BY <1>6, <2>1, <2>2, <2>3, <2>4 DEF LegalChar
<1> QED
  BY <1>1, <1>7, <1>8
=============================================================================
