-------------------------- MODULE Programs_proofs --------------------------
(***************************************************************************)
(* Proofs about the generator and the two programs that call it, for every *)
(* range of draws, every length asked for and any number of flips.         *)
(*                                                                         *)
(* While the generator draws, its text is well formed but for the lead it  *)
(* may have pushed last, whose length and value fit what is drawn next.    *)
(* What unit.cpp does to the text afterwards only keeps its type; what     *)
(* benchstream.cpp cuts stays well formed, and no byte between the cut and *)
(* the place the search set out from could have stopped it.                *)
(***************************************************************************)
EXTENDS Programs, Utf8Local

(* No zero among the first n bytes.                                        *)
NoZero(s, n) == \A i \in 1..n : s[i] # 0

(* byte opens a character of n bytes, n > 1: PushHead lets it through.     *)
Opens(n, byte) ==
  \/ n = 2 /\ byte \in Lead2
  \/ n = 3 /\ byte \in Lead3
  \/ n = 4 /\ byte \in Lead4

(* The last byte of s is a lead of an n-byte character, the rest is whole. *)
WholeButLead(s, n) ==
  /\ Size(s) > 0
  /\ Opens(n, s[Size(s)])
  /\ WellFormed(SubSeq(s, 1, Size(s) - 1))

(* A text as generate returns it.                                          *)
Returned(s) ==
  /\ WellFormed(s)
  /\ Size(s) \in (output_bytes + 1)..(output_bytes + 4)
  /\ NoZero(s, Size(s) - 1)
  /\ s[Size(s)] = 0

(* The invariant of the generator.                                         *)
GInv ==
  /\ bytes_count \subseteq 1..4
  /\ output_bytes \in Nat
  /\ result \in ByteSeq
  /\ at \in {"while", "head", "second", "returned", "taken"}
  /\ length \in 1..4
  /\ candidate \in 0..255
  /\ at = "while" => /\ WellFormed(result)
                     /\ NoZero(result, Size(result))
                     /\ Size(result) <= output_bytes + 3
  /\ at = "head" => /\ WellFormed(result)
                    /\ NoZero(result, Size(result))
                    /\ Size(result) < output_bytes
  /\ at = "second" => /\ WholeButLead(result, length)
                      /\ NoZero(result, Size(result))
                      /\ Size(result) <= output_bytes
  /\ at = "returned" => Returned(result)

(* Nothing that the search has passed could have stopped it.               *)
Passed(i) == i \in (s2 + 2)..(s1 - size + 1) => UTF8[i] \notin 64..127

(* The invariant of the two programs.                                      *)
PInv ==
  /\ program \in Callers
  /\ pc \in IF program = "unit"
            THEN {"generate", "flip", "fixed", "done", "aborted"}
            ELSE {"generate", "search", "done", "overrun"}
  /\ flip \in 0..MaxFlips
  /\ s2 \in 0..s1
  /\ pc = "generate" <=> at # "taken"
  /\ pc = "generate" => flip = 0 /\ s2 = 0
  /\ pc = "aborted" => flip > 0 /\ \E i \in DOMAIN UTF8 : OverlongAt(UTF8, i)
  /\ program = "benchstream" =>
       /\ output_bytes > 1
       /\ pc # "generate" => /\ Returned(UTF8)
                             /\ s2 <= s1 - size
                             /\ \A i \in Nat : Passed(i)
       /\ pc = "done" => UTF8[s2 + 1] \in 64..127
       /\ pc = "overrun" => s2 = 0 /\ UTF8[1] \notin 64..127

IInv == GInv /\ PInv
-----------------------------------------------------------------------------
(* A legal character behind a well-formed text leaves it well formed.      *)
LEMMA OneMore ==
  ASSUME NEW s \in ByteSeq, NEW t \in ByteSeq, NEW n \in 1..4, WellFormed(s),
         Size(t) = Size(s) + n, \A k \in 1..Size(s) : t[k] = s[k],
         LegalChar(t, Size(s) + 1, n)
  PROVE  WellFormed(t)
<1>1. Size(s) \in Nat /\ Size(t) \in Nat
  BY SizeType
<1> SUFFICES ASSUME NEW j \in 1..Size(t)
             PROVE  \E i \in 1..j, m \in 1..4 :
                      j < i + m /\ i + m <= Size(t) + 1 /\ LegalChar(t, i, m)
  BY DEF WellFormed, Size
<1>2. CASE j <= Size(s)
  <2>1. j \in 1..Size(s)
    BY <1>1, <1>2
  <2>2. PICK i \in 1..j, m \in 1..4 :
          j < i + m /\ i + m <= Size(s) + 1 /\ LegalChar(s, i, m)
    BY <2>1 DEF WellFormed, Size
  <2>3. \A d \in 0..(m - 1) : t[i + d] = s[i + d]
    BY <1>1, <2>1, <2>2
  <2>4. LegalChar(t, i, m)
    <3>1. t[i] = s[i]
      BY <2>1, <2>2, <1>1
    <3>2. m >= 2 => t[i + 1] = s[i + 1]
      BY <2>3
    <3>3. m >= 3 => t[i + 2] = s[i + 2]
      BY <2>3
    <3>4. m = 4 => t[i + 3] = s[i + 3]
      BY <2>3
    <3> QED
      BY <2>2, <3>1, <3>2, <3>3, <3>4 DEF LegalChar
  <2>5. i + m <= Size(t) + 1
    BY <1>1, <2>2
  <2> QED
    BY <2>2, <2>4, <2>5
<1>3. CASE j > Size(s)
  <2>1. Size(s) + 1 \in 1..j /\ j < (Size(s) + 1) + n /\ (Size(s) + 1) + n <= Size(t) + 1
    BY <1>1, <1>3
  <2> QED
    BY <2>1
<1> QED
  BY <1>1, <1>2, <1>3

(* One byte more.                                                          *)
LEMMA Appended ==
  ASSUME NEW s \in ByteSeq, NEW byte \in 0..255
  PROVE  /\ Append(s, byte) \in ByteSeq
         /\ Size(Append(s, byte)) = Size(s) + 1
         /\ Append(s, byte)[Size(s) + 1] = byte
         /\ \A k \in 1..Size(s) : Append(s, byte)[k] = s[k]
<1>1. Size(s) \in Nat /\ s \in Seq(0..255)
  BY SizeType DEF ByteSeq, Byte
<1> QED
  BY <1>1, AppendProperties DEF ByteSeq, Byte, Size

(* The bytes of a prefix, and the prefix of one byte less.                 *)
LEMMA Prefix ==
  ASSUME NEW s \in ByteSeq, NEW e \in Nat, e <= Size(s)
  PROVE  /\ SubSeq(s, 1, e) \in ByteSeq
         /\ Size(SubSeq(s, 1, e)) = e
         /\ \A k \in 1..e : SubSeq(s, 1, e)[k] = s[k]
<1>1. Size(s) \in Nat /\ s \in Seq(Byte) /\ Size(s) = Len(s)
  BY SizeType DEF ByteSeq, Size
<1> QED
  BY <1>1 DEF ByteSeq, Size

LEMMA Shorter ==
  ASSUME NEW s \in ByteSeq, NEW t \in ByteSeq, Size(t) = Size(s) + 1,
         \A k \in 1..Size(s) : t[k] = s[k]
  PROVE  SubSeq(t, 1, Size(t) - 1) = s
<1>1. Size(s) \in Nat /\ s \in Seq(Byte) /\ t \in Seq(Byte) /\ Size(t) - 1 = Size(s)
  BY SizeType DEF ByteSeq
<1> DEFINE u == SubSeq(t, 1, Size(s))
<1>2. u \in Seq(Byte) /\ Len(u) = Size(s) /\ \A k \in 1..Size(s) : u[k] = t[k]
  BY <1>1 DEF Size
<1>3. u = s
  <2> HIDE DEF u
  <2> QED
    BY <1>1, <1>2, SeqEqual DEF Size
<1> QED
  BY <1>1, <1>3
-----------------------------------------------------------------------------
(* What the inner loops let through of what the distributions yield.       *)
LEMMA HeadKept ==
  ASSUME length \in 1..4, NEW byte \in drawn_head
  PROVE  /\ byte \in 0..255
         /\ ~head_refused(length, byte) =>
              IF length = 1 THEN byte \in 1..127 ELSE Opens(length, byte)
<1>1. PICK d \in val[bits_of_head[length]] : byte = head_of[length] + d
  BY DEF drawn_head
<1>2. CASE length = 1
  <2>1. d \in 0..127 /\ byte = d
    <3>1. bits_of_head[1] = 7 /\ head_of[1] = 0
      BY DEF bits_of_head, head_of
    <3>2. val[7] \subseteq 0..127
      <4>1. 2^7 - 1 = 127 /\ 7 \in 3..7
        OBVIOUS
      <4> QED
        BY <4>1, valAssumption
    <3> QED
      BY <1>1, <1>2, <3>1, <3>2
  <2> QED
    BY <1>2, <2>1 DEF head_refused
<1>3. CASE length = 2
  <2>1. d \in 0..31 /\ byte = 192 + d
    <3>1. bits_of_head[2] = 5 /\ head_of[2] = 192
      BY DEF bits_of_head, head_of
    <3>2. val[5] \subseteq 0..31
      <4>1. 2^5 - 1 = 31 /\ 5 \in 3..7
        OBVIOUS
      <4> QED
        BY <4>1, valAssumption
    <3> QED
      BY <1>1, <1>3, <3>1, <3>2
  <2> QED
    BY <1>3, <2>1 DEF head_refused, Opens, Lead2
<1>4. CASE length = 3
  <2>1. d \in 0..15 /\ byte = 224 + d
    <3>1. bits_of_head[3] = 4 /\ head_of[3] = 224
      BY DEF bits_of_head, head_of
    <3>2. val[4] \subseteq 0..15
      <4>1. 2^4 - 1 = 15 /\ 4 \in 3..7
        OBVIOUS
      <4> QED
        BY <4>1, valAssumption
    <3> QED
      BY <1>1, <1>4, <3>1, <3>2
  <2> QED
    BY <1>4, <2>1 DEF head_refused, Opens, Lead3
<1>5. CASE length = 4
  <2>1. d \in 0..7 /\ byte = 240 + d
    <3>1. bits_of_head[4] = 3 /\ head_of[4] = 240
      BY DEF bits_of_head, head_of
    <3>2. val[3] \subseteq 0..7
      <4>1. 2^3 - 1 = 7 /\ 3 \in 3..7
        OBVIOUS
      <4> QED
        BY <4>1, valAssumption
    <3> QED
      BY <1>1, <1>5, <3>1, <3>2
  <2> QED
    BY <1>5, <2>1 DEF head_refused, Opens, Lead4
<1> QED
  BY <1>2, <1>3, <1>4, <1>5

LEMMA Draws6 ==
  val[6] \subseteq 0..63
<1>1. 2^6 - 1 = 63 /\ 6 \in 3..7
  OBVIOUS
<1> QED
  BY <1>1, valAssumption

LEMMA SecondKept ==
  ASSUME NEW n, NEW head, Opens(n, head), NEW byte \in drawn_second
  PROVE  /\ byte \in Continuation
         /\ ~second_refused(head, byte) => byte \in SecondBytes(head)
<1>1. byte \in 128..191
  BY Draws6 DEF drawn_second
<1>2. head \in 194..244
  BY DEF Opens, Lead2, Lead3, Lead4
<1> QED
  BY <1>1, <1>2 DEF second_refused, SecondBytes, Continuation

LEMMA TrailsKept ==
  ASSUME NEW n \in 0..2, NEW t \in trails(n)
  PROVE  t \in ByteSeq /\ Size(t) = n /\ \A k \in 1..n : t[k] \in Continuation
<1>1. PICK d \in [1..n -> val[6]] : t = [k \in 1..n |-> 128 + d[k]]
  BY DEF trails
<1>2. ASSUME NEW k \in 1..n PROVE t[k] \in 128..191
  <2>1. d[k] \in 0..63
    BY <1>1, Draws6
  <2>2. PICK x \in 0..63 : x = d[k]
    BY <2>1
  <2>3. t[k] = 128 + x
    BY <1>1, <2>2
  <2>4. 128 + x \in 128..191
    OBVIOUS
  <2> QED
    BY <2>3, <2>4
<1>3. n \in Nat /\ t \in [1..n -> Byte]
  BY <1>1, <1>2 DEF Byte
<1>4. t \in Seq(Byte) /\ DOMAIN t = 1..n
  BY <1>3, SeqDef
<1>5. Len(t) = n
  BY <1>3, <1>4, LenProperties
<1> QED
  BY <1>2, <1>4, <1>5 DEF ByteSeq, Size, Continuation
-----------------------------------------------------------------------------
(* The steps of the generator.                                             *)
LEMMA GenerateGInv ==
  ASSUME NEW lengths \in SUBSET (1..4), NEW bytes \in Nat, generate(lengths, bytes)
  PROVE  GInv
<1>1. <<>> \in ByteSeq /\ Size(<<>>) = 0 /\ WellFormed(<<>>)
  BY DEF ByteSeq, Size, WellFormed
<1> QED
  BY <1>1 DEF generate, GInv, NoZero

LEMMA SwitchGInv == GInv /\ Switch => GInv'
<1> SUFFICES ASSUME GInv, Switch PROVE GInv'
  OBVIOUS
<1>1. Size(result) < output_bytes /\ Size(result) \in Nat
  BY SizeType DEF GInv, Switch, Size
<1> QED
  BY <1>1 DEF GInv, Switch

LEMMA RedrawGInv == GInv /\ Redraw => GInv'
<1> SUFFICES ASSUME GInv, Redraw PROVE GInv'
  OBVIOUS
<1>1. candidate' \in 0..255
  <2>1. CASE \E byte \in drawn_head : candidate' = byte
    BY <2>1, HeadKept DEF GInv
  <2>2. CASE \E byte \in drawn_second : candidate' = byte
    BY <2>2, Draws6 DEF drawn_second
  <2> QED
    BY <2>1, <2>2 DEF Redraw
<1> QED
  BY <1>1 DEF GInv, Redraw, WholeButLead, Returned

LEMMA PushHeadGInv == GInv /\ PushHead => GInv'
<1> SUFFICES ASSUME GInv, PushHead PROVE GInv'
  OBVIOUS
<1>1. /\ at = "head" /\ result \in ByteSeq /\ length \in 1..4 /\ output_bytes \in Nat
      /\ WellFormed(result) /\ NoZero(result, Size(result))
      /\ Size(result) < output_bytes
      /\ at' = (IF length = 1 THEN "while" ELSE "second")
      /\ UNCHANGED <<bytes_count, output_bytes, length>>
  BY DEF GInv, PushHead
<1>2. PICK byte \in drawn_head : /\ ~head_refused(length, byte)
                                /\ candidate' = byte
                                /\ result' = Append(result, byte)
  BY DEF PushHead
<1>3. /\ byte \in 0..255
      /\ IF length = 1 THEN byte \in 1..127 ELSE Opens(length, byte)
  BY <1>1, <1>2, HeadKept
<1>4. byte # 0
  BY <1>3 DEF Opens, Lead2, Lead3, Lead4
<1>5. /\ result' \in ByteSeq /\ Size(result') = Size(result) + 1
      /\ result'[Size(result) + 1] = byte
      /\ \A k \in 1..Size(result) : result'[k] = result[k]
  BY <1>1, <1>2, <1>3, Appended
<1>6. Size(result) \in Nat
  BY <1>1, SizeType
<1>7. NoZero(result', Size(result'))
  <2> SUFFICES ASSUME NEW i \in 1..(Size(result) + 1) PROVE result'[i] # 0
    BY <1>5 DEF NoZero
  <2>1. i \in 1..Size(result) \/ i = Size(result) + 1
    BY <1>6
  <2> QED
    BY <1>1, <1>4, <1>5, <2>1 DEF NoZero
<1>8. CASE length = 1
  <2>1. LegalChar(result', Size(result) + 1, 1)
    BY <1>3, <1>5, <1>8 DEF LegalChar, Ascii
  <2>2. WellFormed(result')
    BY <1>1, <1>5, <2>1, OneMore
  <2>3. Size(result') <= output_bytes' + 3 /\ at' = "while"
    BY <1>1, <1>5, <1>6, <1>8
  <2> QED
    BY <1>1, <1>2, <1>3, <1>5, <1>7, <2>2, <2>3 DEF GInv
<1>9. CASE length # 1
  <2>1. SubSeq(result', 1, Size(result') - 1) = result
    BY <1>1, <1>5, Shorter
  <2>2. WholeButLead(result', length')
    <3>1. Size(result') > 0 /\ Size(result') = Size(result) + 1 /\ length' = length
      BY <1>1, <1>5, <1>6
    <3>2. Opens(length', result'[Size(result')])
      BY <1>3, <1>5, <1>9, <3>1
    <3>3. WellFormed(SubSeq(result', 1, Size(result') - 1))
      BY <1>1, <2>1
    <3> QED
      BY <3>1, <3>2, <3>3 DEF WholeButLead
  <2>3. Size(result') <= output_bytes' /\ at' = "second"
    BY <1>1, <1>5, <1>6, <1>9
  <2> QED
    BY <1>1, <1>2, <1>3, <1>5, <1>7, <2>2, <2>3 DEF GInv
<1> QED
  BY <1>8, <1>9

LEMMA PushSecondGInv == GInv /\ PushSecond => GInv'
<1> SUFFICES ASSUME GInv, PushSecond PROVE GInv'
  OBVIOUS
<1> DEFINE s == result
           z == Size(s)
           p == SubSeq(s, 1, z - 1)
<1>1. /\ at = "second" /\ at' = "while" /\ s \in ByteSeq
      /\ length \in 1..4 /\ output_bytes \in Nat
      /\ z > 0 /\ Opens(length, s[z]) /\ WellFormed(p)
      /\ NoZero(s, z) /\ z <= output_bytes
      /\ UNCHANGED <<bytes_count, output_bytes, length>>
  BY DEF GInv, PushSecond, WholeButLead
<1>2. PICK byte \in drawn_second, t \in trails(length - 2) :
        /\ ~second_refused(s[z], byte)
        /\ candidate' = byte
        /\ result' = s \o <<byte>> \o t
  BY DEF PushSecond, Size
<1>3. length \in 2..4 /\ length - 2 \in 0..2
  BY <1>1 DEF Opens
<1>4. byte \in Continuation /\ byte \in SecondBytes(s[z])
  BY <1>1, <1>2, SecondKept
<1>5. t \in ByteSeq /\ Size(t) = length - 2
      /\ \A k \in 1..(length - 2) : t[k] \in Continuation
  BY <1>3, TrailsKept
<1>6. z \in Nat
  BY <1>1, SizeType
<1>7. /\ result' \in ByteSeq /\ Size(result') = z + 1 + (length - 2)
      /\ \A k \in 1..z : result'[k] = s[k]
      /\ result'[z + 1] = byte
      /\ \A k \in 1..(length - 2) : result'[(z + 1) + k] = t[k]
  <2> DEFINE u == Append(s, byte)
  <2>1. byte \in 0..255
    BY <1>4 DEF Continuation
  <2>2. /\ u \in ByteSeq /\ Size(u) = z + 1 /\ u[z + 1] = byte
        /\ \A k \in 1..z : u[k] = s[k]
    BY <1>1, <2>1, Appended
  <2>3. s \o <<byte>> = u
    BY <1>1, <2>1, AppendIsConcat DEF ByteSeq, Byte
  <2>4. result' = u \o t
    BY <1>2, <2>3
  <2> HIDE DEF u, s, z
  <2>5. u \in Seq(Byte) /\ t \in Seq(Byte) /\ Len(u) = z + 1 /\ Len(t) = length - 2
    BY <1>5, <2>2 DEF ByteSeq, Size
  <2>6. u \o t \in Seq(Byte) /\ Len(u \o t) = Len(u) + Len(t)
        /\ \A i \in 1..(Len(u) + Len(t)) :
              (u \o t)[i] = IF i <= Len(u) THEN u[i] ELSE t[i - Len(u)]
    BY <2>5, ConcatProperties
  <2>7. result' \in ByteSeq /\ Size(result') = z + 1 + (length - 2)
    BY <2>4, <2>5, <2>6 DEF ByteSeq, Size
  <2>8. \A k \in 1..(z + 1) : result'[k] = u[k]
    BY <1>3, <1>6, <2>4, <2>5, <2>6
  <2>9. ASSUME NEW k \in 1..(length - 2) PROVE result'[(z + 1) + k] = t[k]
    <3>1. (z + 1) + k \in 1..((z + 1) + (length - 2)) /\ ~((z + 1) + k <= z + 1)
          /\ ((z + 1) + k) - (z + 1) = k
      BY <1>3, <1>6
    <3> QED
      BY <2>4, <2>5, <2>6, <3>1
  <2> QED
    BY <1>6, <2>2, <2>7, <2>8, <2>9
<1>8. p \in ByteSeq /\ Size(p) = z - 1 /\ \A k \in 1..(z - 1) : p[k] = s[k]
  <2>1. z - 1 \in Nat /\ z - 1 <= Size(s)
    BY <1>1, <1>6
  <2> HIDE DEF s, z
  <2> QED
    BY <1>1, <2>1, Prefix
<1> HIDE DEF p, s
<1>9. LegalChar(result', z, length)
  <2> DEFINE r == result'
  <2>1. r[z] = s[z] /\ r[z + 1] = byte
    BY <1>1, <1>6, <1>7
  <2>2. length >= 3 => r[z + 2] \in Continuation
    <3>1. length >= 3 => 1 \in 1..(length - 2) /\ (z + 1) + 1 = z + 2
      BY <1>3, <1>6
    <3> QED
      BY <1>5, <1>7, <3>1
  <2>3. length >= 4 => r[z + 3] \in Continuation
    <3>1. length >= 4 => 2 \in 1..(length - 2) /\ (z + 1) + 2 = z + 3
      BY <1>3, <1>6
    <3> QED
      BY <1>5, <1>7, <3>1
  <2> HIDE DEF r
  <2>4. LegalChar(r, z, length)
    BY <1>1, <1>3, <1>4, <2>1, <2>2, <2>3 DEF LegalChar, Opens
  <2> QED
    BY <2>4 DEF r
<1>10. WellFormed(result')
  <2>1. Size(p) + 1 = z /\ Size(result') = Size(p) + length
    BY <1>3, <1>6, <1>7, <1>8
  <2>2. \A k \in 1..Size(p) : result'[k] = p[k]
    BY <1>6, <1>7, <1>8
  <2> QED
    BY <1>1, <1>3, <1>7, <1>8, <1>9, <2>1, <2>2, OneMore
<1>11. NoZero(result', Size(result'))
  <2> SUFFICES ASSUME NEW i \in 1..(z + 1 + (length - 2)) PROVE result'[i] # 0
    BY <1>7 DEF NoZero
  <2>1. CASE i <= z
    BY <1>1, <1>6, <1>7, <2>1 DEF NoZero
  <2>2. CASE i = z + 1
    BY <1>4, <1>7, <2>2 DEF Continuation
  <2>3. CASE i > z + 1
    <3>1. i - (z + 1) \in 1..(length - 2) /\ (z + 1) + (i - (z + 1)) = i
      BY <1>3, <1>6, <2>3
    <3>2. result'[i] \in Continuation
      BY <1>5, <1>7, <3>1
    <3> QED
      BY <3>2 DEF Continuation
  <2> QED
    BY <1>3, <1>6, <2>1, <2>2, <2>3
<1>12. Size(result') <= output_bytes' + 3 /\ candidate' \in 0..255
  BY <1>1, <1>2, <1>3, <1>4, <1>6, <1>7 DEF Continuation
<1> QED
  BY <1>1, <1>7, <1>10, <1>11, <1>12 DEF GInv

LEMMA PushEosGInv == GInv /\ PushEos => GInv'
<1> SUFFICES ASSUME GInv, PushEos PROVE GInv'
  OBVIOUS
<1>1. /\ result \in ByteSeq /\ output_bytes \in Nat
      /\ WellFormed(result) /\ NoZero(result, Size(result))
      /\ Size(result) <= output_bytes + 3 /\ Size(result) >= output_bytes
      /\ at' = "returned" /\ result' = Append(result, 0)
      /\ UNCHANGED <<bytes_count, output_bytes, length, candidate>>
  BY DEF GInv, PushEos, Size
<1>2. /\ result' \in ByteSeq /\ Size(result') = Size(result) + 1
      /\ result'[Size(result) + 1] = 0
      /\ \A k \in 1..Size(result) : result'[k] = result[k]
  <2>1. 0 \in 0..255
    OBVIOUS
  <2> QED
    BY <1>1, <2>1, Appended
<1>3. Size(result) \in Nat
  BY <1>1, SizeType
<1>4. LegalChar(result', Size(result) + 1, 1)
  BY <1>2 DEF LegalChar, Ascii
<1>5. WellFormed(result')
  <2>1. 1 \in 1..4
    OBVIOUS
  <2> QED
    BY <1>1, <1>2, <1>4, <2>1, OneMore
<1>6. Size(result') - 1 = Size(result)
      /\ Size(result') \in (output_bytes' + 1)..(output_bytes' + 4)
  BY <1>1, <1>2, <1>3
<1>7. NoZero(result', Size(result') - 1)
  BY <1>1, <1>2, <1>6 DEF NoZero
<1>8. Returned(result)'
  BY <1>2, <1>5, <1>6, <1>7 DEF Returned
<1> QED
  BY <1>1, <1>2, <1>8 DEF GInv

LEMMA GenerateStep == GInv /\ Generate => GInv'
  BY SwitchGInv, RedrawGInv, PushHeadGInv, PushSecondGInv, PushEosGInv
  DEF Generate, Push
-----------------------------------------------------------------------------
(* What a flip makes of a byte is a byte.                                  *)
LEMMA FlippedByte ==
  ASSUME NEW byte \in Byte, NEW bit \in 0..7
  PROVE  with_bit_flipped(byte, bit) \in Byte
<1> USE DEF Byte
<1>1. 2^0 = 1 /\ 2^1 = 2 /\ 2^2 = 4 /\ 2^3 = 8
      /\ 2^4 = 16 /\ 2^5 = 32 /\ 2^6 = 64 /\ 2^7 = 128
  OBVIOUS
<1>2. ASSUME NEW w \in {1, 2, 4, 8, 16, 32, 64, 128}
      PROVE  (IF (byte \div w) % 2 = 0 THEN byte + w ELSE byte - w) \in 0..255
  <2>1. CASE w = 1 \/ w = 2
    BY <2>1
  <2>2. CASE w = 4 \/ w = 8
    BY <2>2
  <2>3. CASE w = 16 \/ w = 32
    BY <2>3
  <2>4. CASE w = 64 \/ w = 128
    BY <2>4
  <2> QED
    BY <2>1, <2>2, <2>3, <2>4
<1>3. /\ bit = 0 => 2^bit = 1
      /\ bit = 1 => 2^bit = 2
      /\ bit = 2 => 2^bit = 4
      /\ bit = 3 => 2^bit = 8
      /\ bit = 4 => 2^bit = 16
      /\ bit = 5 => 2^bit = 32
      /\ bit = 6 => 2^bit = 64
      /\ bit = 7 => 2^bit = 128
  BY <1>1
<1>4. 2^bit \in {1, 2, 4, 8, 16, 32, 64, 128}
  BY <1>3
<1> QED
  BY <1>2, <1>4 DEF with_bit_flipped

(* A text with no overlong U+FFFF in it is judged as it is.                *)
LEMMA NothingReplaced ==
  ASSUME NEW s \in ByteSeq, \A i \in DOMAIN s : ~OverlongAt(s, i)
  PROVE  OverlongReplaced(s) = s
<1>1. Len(s) \in Nat /\ s \in Seq(Byte) /\ DOMAIN s = 1..Len(s)
  BY SizeType, LenProperties DEF Size, ByteSeq
<1>2. ASSUME NEW i PROVE ~OverlongAt(s, i)
  <2>1. OverlongAt(s, i) => i \in DOMAIN s
    BY <1>1 DEF OverlongAt
  <2> QED
    BY <2>1
<1>3. OverlongReplaced(s) = [j \in 1..Len(s) |-> s[j]]
  BY <1>2 DEF OverlongReplaced
<1>4. s = [j \in 1..Len(s) |-> s[j]]
  BY <1>1
<1> QED
  BY <1>3, <1>4

(* So the validators that unit.cpp compares agree on it.                   *)
LEMMA AgreeButOnOverlong ==
  ASSUME NEW s \in ByteSeq, ~answers_agree(s)
  PROVE  \E i \in DOMAIN s : OverlongAt(s, i)
<1> SUFFICES ASSUME \A i \in DOMAIN s : ~OverlongAt(s, i) PROVE FALSE
  OBVIOUS
<1>1. OverlongReplaced(s) = s
  BY NothingReplaced
<1>2. CASE WellFormed(s)
  <2>1. accepting(s) = Validators
    BY <1>2 DEF accepting
  <2> QED
    BY <2>1 DEF answers_agree, compared
<1>3. CASE ~WellFormed(s)
  <2>1. accepting(s) = {}
    BY <1>1, <1>3 DEF accepting
  <2> QED
    BY <2>1 DEF answers_agree, compared
<1> QED
  BY <1>2, <1>3
-----------------------------------------------------------------------------
(* Characters in front of position a, one after the other.                 *)
Cut(s, a) == Clean(s, a) /\ ~Open(s, a)

LEMMA CutStart ==
  ASSUME NEW s \in ByteSeq
  PROVE  Cut(s, 0)
  BY DEF Cut, Clean, Open, ByteAt

LEMMA CutStep ==
  ASSUME NEW s \in ByteSeq, NEW a \in Nat, NEW n \in 1..4, a + n <= Size(s),
         Cut(s, a), LegalChar(s, a + 1, n)
  PROVE  Cut(s, a + n)
  BY CharacterRead DEF Cut

LEMMA CutEnd ==
  ASSUME NEW s \in ByteSeq, Cut(s, Size(s))
  PROVE  WellFormed(s)
  BY SizeType, CleanToTheEnd DEF Cut

(* One character.                                                          *)
LEMMA OneCharacter ==
  ASSUME NEW s \in ByteSeq, NEW n \in 1..4, Size(s) = n, LegalChar(s, 1, n)
  PROVE  WellFormed(s)
<1>1. Cut(s, 0 + n)
  <2>1. 0 \in Nat /\ 0 + n <= Size(s) /\ 0 + 1 = 1
    OBVIOUS
  <2> QED
    BY <2>1, CutStart, CutStep
<1> QED
  BY <1>1, CutEnd

hangul ==
  <<236, 149, 136, 235, 133, 149, 237, 149, 152, 236, 132, 184, 236, 154,
    148, 44, 32, 236, 132, 184, 236, 131, 129>>

LEMMA HangulIsWellFormed ==
  hangul \in ByteSeq /\ WellFormed(hangul)
<1> DEFINE s == hangul
<1>1. s \in ByteSeq /\ Size(s) = 23
  BY DEF hangul, ByteSeq, Size, Byte
<1>2. /\ LegalChar(s, 1, 3) /\ LegalChar(s, 4, 3) /\ LegalChar(s, 7, 3)
      /\ LegalChar(s, 10, 3) /\ LegalChar(s, 13, 3) /\ LegalChar(s, 16, 1)
      /\ LegalChar(s, 17, 1) /\ LegalChar(s, 18, 3) /\ LegalChar(s, 21, 3)
  BY DEF hangul, LegalChar, Lead3, Continuation, SecondBytes, Ascii
<1> HIDE DEF s
<1>3. Cut(s, 3)
  BY <1>1, <1>2, CutStart, CutStep
<1>4. Cut(s, 6)
  BY <1>1, <1>2, <1>3, CutStep
<1>5. Cut(s, 9)
  BY <1>1, <1>2, <1>4, CutStep
<1>6. Cut(s, 12)
  BY <1>1, <1>2, <1>5, CutStep
<1>7. Cut(s, 15)
  BY <1>1, <1>2, <1>6, CutStep
<1>8. Cut(s, 16)
  BY <1>1, <1>2, <1>7, CutStep
<1>9. Cut(s, 17)
  BY <1>1, <1>2, <1>8, CutStep
<1>10. Cut(s, 20)
  BY <1>1, <1>2, <1>9, CutStep
<1>11. Cut(s, 23)
  BY <1>1, <1>2, <1>10, CutStep
<1> QED
  BY <1>1, <1>11, CutEnd DEF s

LEMMA GoodSequences ==
  ASSUME NEW s \in goodsequences
  PROVE  s \in ByteSeq /\ WellFormed(s)
<1> DEFINE One(c, n) == c \in ByteSeq /\ Size(c) = n /\ LegalChar(c, 1, n)
<1>1. One(<<97>>, 1)
  BY DEF ByteSeq, Byte, Size, LegalChar, Ascii, Lead2, Lead3, Lead4, SecondBytes,
         Continuation
<1>2. One(<<195, 177>>, 2)
  BY DEF ByteSeq, Byte, Size, LegalChar, Ascii, Lead2, Lead3, Lead4, SecondBytes,
         Continuation
<1>3. One(<<226, 130, 161>>, 3)
  BY DEF ByteSeq, Byte, Size, LegalChar, Ascii, Lead2, Lead3, Lead4, SecondBytes,
         Continuation
<1>4. One(<<240, 144, 140, 188>>, 4)
  BY DEF ByteSeq, Byte, Size, LegalChar, Ascii, Lead2, Lead3, Lead4, SecondBytes,
         Continuation
<1>5. One(<<194, 128>>, 2)
  BY DEF ByteSeq, Byte, Size, LegalChar, Ascii, Lead2, Lead3, Lead4, SecondBytes,
         Continuation
<1>6. One(<<240, 144, 128, 128>>, 4)
  BY DEF ByteSeq, Byte, Size, LegalChar, Ascii, Lead2, Lead3, Lead4, SecondBytes,
         Continuation
<1>7. One(<<238, 128, 128>>, 3)
  BY DEF ByteSeq, Byte, Size, LegalChar, Ascii, Lead2, Lead3, Lead4, SecondBytes,
         Continuation
<1>8. One(<<239, 187, 191>>, 3)
  BY DEF ByteSeq, Byte, Size, LegalChar, Ascii, Lead2, Lead3, Lead4, SecondBytes,
         Continuation
<1> HIDE DEF One
<1>9. s = hangul \/ \E n \in 1..4 : One(s, n)
  BY <1>1, <1>2, <1>3, <1>4, <1>5, <1>6, <1>7, <1>8 DEF goodsequences, hangul
<1>10. ASSUME NEW n \in 1..4, One(s, n) PROVE s \in ByteSeq /\ WellFormed(s)
  BY <1>10, OneCharacter DEF One
<1> QED
  BY <1>9, <1>10, HangulIsWellFormed

(* The window that ends at position j is in error, and no byte of s is the *)
(* second one of the overlong form.                                        *)
Refused(s, j) ==
  /\ s \in ByteSeq
  /\ j \in 0..(Size(s) + 2)
  /\ ~LocalOK(s, j)
  /\ \A i \in 1..Size(s) : s[i] # 143

LEMMA RefusedByAll ==
  ASSUME NEW s, NEW j, Refused(s, j)
  PROVE  accepting(s) = {}
<1>1. s \in ByteSeq /\ Size(s) \in Nat /\ ~Clean(s, Size(s) + 3)
  BY SizeType DEF Refused, Clean
<1>2. ~WellFormed(s)
  BY <1>1, LocalCharacterization
<1>3. ASSUME NEW i \in DOMAIN s PROVE ~OverlongAt(s, i)
  <2> SUFFICES ASSUME OverlongAt(s, i) PROVE FALSE
    OBVIOUS
  <2>1. i \in 1..(Len(s) - 3) /\ SubSeq(s, i, i + 3) = Overlong_FFFF
    BY DEF OverlongAt
  <2>2. SubSeq(s, i, i + 3)[2] = s[i + 1]
    BY SMTT(30), <1>1, <2>1 DEF ByteSeq, Size
  <2>3. i + 1 \in 1..Size(s)
    BY <1>1, <2>1 DEF Size
  <2>4. Overlong_FFFF[2] = 143
    BY DEF Overlong_FFFF
  <2>5. s[i + 1] = 143
    BY Zenon, <2>1, <2>2, <2>4
  <2> QED
    BY <2>3, <2>5 DEF Refused
<1> QED
  BY <1>1, <1>2, <1>3, NothingReplaced DEF accepting

(* A lead behind fifteen digits lacks what it asks for.                    *)
LEMMA LeadLast ==
  ASSUME NEW s \in ByteSeq, Size(s) = 16, s[16] \in 192..255,
         \A i \in 1..15 : s[i] \in 48..57
  PROVE  Refused(s, 16)
<1>1. s[15] \in 48..57 /\ s[14] \in 48..57
  OBVIOUS
<1>2. \A i \in 1..16 : s[i] # 143
  OBVIOUS
<1>3. ~LocalOK(s, 16)
  BY <1>1
  DEF LocalOK, ByteAt, WindowOK, Demanded, PairOK, Lead2, Lead3, Lead4,
      SecondBytes, Continuation
<1> QED
  BY <1>2, <1>3 DEF Refused

LEMMA Extended ==
  ASSUME NEW d \in ByteSeq, NEW byte \in 0..255
  PROVE  \E s \in ByteSeq : /\ s = Append(d, byte)
                            /\ Size(s) = Size(d) + 1
                            /\ s[Size(d) + 1] = byte
                            /\ \A i \in 1..Size(d) : s[i] = d[i]
  BY Appended

LEMMA BehindDigits ==
  ASSUME NEW d \in ByteSeq, Size(d) = 15, NEW byte \in 0..255, byte >= 192
  PROVE  (\A i \in 1..15 : d[i] \in 48..57) => Refused(Append(d, byte), 16)
<1>1. PICK s \in ByteSeq : /\ s = Append(d, byte)
                          /\ Size(s) = Size(d) + 1
                          /\ s[Size(d) + 1] = byte
                          /\ \A i \in 1..Size(d) : s[i] = d[i]
  BY Extended
<1>2. Size(s) = 15 + 1 /\ s[15 + 1] = byte /\ \A i \in 1..15 : s[i] = d[i]
  BY <1>1
<1>3. Size(s) = 16 /\ s[16] \in 192..255
  BY <1>2
<1> HAVE \A i \in 1..15 : d[i] \in 48..57
<1>4. \A i \in 1..15 : s[i] \in 48..57
  BY <1>2
<1>5. Refused(s, 16)
  BY <1>3, <1>4, LeadLast
<1> QED
  BY <1>1, <1>5

LEMMA DigitsAndLead ==
  ASSUME NEW byte \in 0..255, byte >= 192
  PROVE  Refused(digits \o <<byte>>, 16)
<1>1. digits \o <<byte>> = Append(digits, byte)
  BY DEF digits
<1>2. digits \in ByteSeq /\ Size(digits) = 15
  BY DEF digits, ByteSeq, Byte, Size
<1>3. \A i \in 1..15 : digits[i] \in 48..57
  BY DEF digits
<1>4. Refused(Append(digits, byte), 16)
  <2>1. PICK d \in ByteSeq : d = digits
    BY <1>2
  <2>2. Size(d) = 15
    BY <1>2, <2>1
  <2>3. (\A i \in 1..15 : d[i] \in 48..57) => Refused(Append(d, byte), 16)
    BY <2>2, BehindDigits
  <2>4. \A i \in 1..15 : d[i] \in 48..57
    BY <1>3, <2>1
  <2> QED
    BY <2>1, <2>3, <2>4
<1> QED
  BY <1>1, <1>4

LEMMA BadSequences ==
  ASSUME NEW s \in badsequences
  PROVE  \E j : Refused(s, j)
<1> DEFINE Fault(x) == \E j : Refused(x, j)
<1> DEFINE b1 == <<195, 40>>
<1> DEFINE b2 == <<160, 161>>
<1> DEFINE b3 == <<226, 40, 161>>
<1> DEFINE b4 == <<226, 130, 40>>
<1> DEFINE b5 == <<240, 40, 140, 188>>
<1> DEFINE b6 == <<240, 144, 40, 188>>
<1> DEFINE b7 == <<240, 40, 140, 40>>
<1> DEFINE b8 == <<192, 159>>
<1> DEFINE b9 == <<245, 255, 255, 255>>
<1> DEFINE b10 == <<237, 160, 129>>
<1> DEFINE b11 == <<248, 144, 128, 128, 128>>
<1> DEFINE b12 == digits \o <<237>>
<1> DEFINE b13 == digits \o <<241>>
<1> DEFINE b14 == digits \o <<194>>
<1> DEFINE b15 == <<194, 127>>
<1> DEFINE b16 == <<206>>
<1> DEFINE b17 == <<206, 186, 225>>
<1> DEFINE b18 == <<206, 186, 225, 189>>
<1> DEFINE b19 == <<206, 186, 225, 189, 185, 207>>
<1> DEFINE b20 == <<206, 186, 225, 189, 185, 207, 131, 206>>
<1> DEFINE b21 == <<206, 186, 225, 189, 185, 207, 131, 206, 188, 206>>
<1> DEFINE b22 == <<223>>
<1> DEFINE b23 == <<239, 191>>
<1> DEFINE b24 == <<128>>
<1> DEFINE b25 == <<145, 133, 149, 158>>
<1> DEFINE b26 == <<108, 2, 142, 24>>
<1> DEFINE b27 == <<207, 207, 207>>
<1>1. Fault(b1)
  <2>1. Refused(b1, 1)
    BY DEF Refused, ByteSeq, Byte, Size, LocalOK, ByteAt, WindowOK, Demanded,
           PairOK, Lead2, Lead3, Lead4, SecondBytes, Continuation
  <2> QED
    BY <2>1
<1>2. Fault(b2)
  <2>1. Refused(b2, 0)
    BY DEF Refused, ByteSeq, Byte, Size, LocalOK, ByteAt, WindowOK, Demanded,
           PairOK, Lead2, Lead3, Lead4, SecondBytes, Continuation
  <2> QED
    BY <2>1
<1>3. Fault(b3)
  <2>1. Refused(b3, 1)
    BY DEF Refused, ByteSeq, Byte, Size, LocalOK, ByteAt, WindowOK, Demanded,
           PairOK, Lead2, Lead3, Lead4, SecondBytes, Continuation
  <2> QED
    BY <2>1
<1>4. Fault(b4)
  <2>1. Refused(b4, 2)
    BY DEF Refused, ByteSeq, Byte, Size, LocalOK, ByteAt, WindowOK, Demanded,
           PairOK, Lead2, Lead3, Lead4, SecondBytes, Continuation
  <2> QED
    BY <2>1
<1>5. Fault(b5)
  <2>1. Refused(b5, 1)
    BY DEF Refused, ByteSeq, Byte, Size, LocalOK, ByteAt, WindowOK, Demanded,
           PairOK, Lead2, Lead3, Lead4, SecondBytes, Continuation
  <2> QED
    BY <2>1
<1>6. Fault(b6)
  <2>1. Refused(b6, 2)
    BY DEF Refused, ByteSeq, Byte, Size, LocalOK, ByteAt, WindowOK, Demanded,
           PairOK, Lead2, Lead3, Lead4, SecondBytes, Continuation
  <2> QED
    BY <2>1
<1>7. Fault(b7)
  <2>1. Refused(b7, 1)
    BY DEF Refused, ByteSeq, Byte, Size, LocalOK, ByteAt, WindowOK, Demanded,
           PairOK, Lead2, Lead3, Lead4, SecondBytes, Continuation
  <2> QED
    BY <2>1
<1>8. Fault(b8)
  <2>1. Refused(b8, 1)
    BY DEF Refused, ByteSeq, Byte, Size, LocalOK, ByteAt, WindowOK, Demanded,
           PairOK, Lead2, Lead3, Lead4, SecondBytes, Continuation
  <2> QED
    BY <2>1
<1>9. Fault(b9)
  <2>1. Refused(b9, 1)
    BY DEF Refused, ByteSeq, Byte, Size, LocalOK, ByteAt, WindowOK, Demanded,
           PairOK, Lead2, Lead3, Lead4, SecondBytes, Continuation
  <2> QED
    BY <2>1
<1>10. Fault(b10)
  <2>1. Refused(b10, 1)
    BY DEF Refused, ByteSeq, Byte, Size, LocalOK, ByteAt, WindowOK, Demanded,
           PairOK, Lead2, Lead3, Lead4, SecondBytes, Continuation
  <2> QED
    BY <2>1
<1>11. Fault(b11)
  <2>1. Refused(b11, 1)
    BY DEF Refused, ByteSeq, Byte, Size, LocalOK, ByteAt, WindowOK, Demanded,
           PairOK, Lead2, Lead3, Lead4, SecondBytes, Continuation
  <2> QED
    BY <2>1
<1>12. Fault(b12)
  BY DigitsAndLead
<1>13. Fault(b13)
  BY DigitsAndLead
<1>14. Fault(b14)
  BY DigitsAndLead
<1>15. Fault(b15)
  <2>1. Refused(b15, 1)
    BY DEF Refused, ByteSeq, Byte, Size, LocalOK, ByteAt, WindowOK, Demanded,
           PairOK, Lead2, Lead3, Lead4, SecondBytes, Continuation
  <2> QED
    BY <2>1
<1>16. Fault(b16)
  <2>1. Refused(b16, 1)
    BY DEF Refused, ByteSeq, Byte, Size, LocalOK, ByteAt, WindowOK, Demanded,
           PairOK, Lead2, Lead3, Lead4, SecondBytes, Continuation
  <2> QED
    BY <2>1
<1>17. Fault(b17)
  <2>1. Refused(b17, 3)
    BY DEF Refused, ByteSeq, Byte, Size, LocalOK, ByteAt, WindowOK, Demanded,
           PairOK, Lead2, Lead3, Lead4, SecondBytes, Continuation
  <2> QED
    BY <2>1
<1>18. Fault(b18)
  <2>1. Refused(b18, 4)
    BY DEF Refused, ByteSeq, Byte, Size, LocalOK, ByteAt, WindowOK, Demanded,
           PairOK, Lead2, Lead3, Lead4, SecondBytes, Continuation
  <2> QED
    BY <2>1
<1>19. Fault(b19)
  <2>1. Refused(b19, 6)
    BY DEF Refused, ByteSeq, Byte, Size, LocalOK, ByteAt, WindowOK, Demanded,
           PairOK, Lead2, Lead3, Lead4, SecondBytes, Continuation
  <2> QED
    BY <2>1
<1>20. Fault(b20)
  <2>1. Refused(b20, 8)
    BY DEF Refused, ByteSeq, Byte, Size, LocalOK, ByteAt, WindowOK, Demanded,
           PairOK, Lead2, Lead3, Lead4, SecondBytes, Continuation
  <2> QED
    BY <2>1
<1>21. Fault(b21)
  <2>1. Refused(b21, 10)
    BY DEF Refused, ByteSeq, Byte, Size, LocalOK, ByteAt, WindowOK, Demanded,
           PairOK, Lead2, Lead3, Lead4, SecondBytes, Continuation
  <2> QED
    BY <2>1
<1>22. Fault(b22)
  <2>1. Refused(b22, 1)
    BY DEF Refused, ByteSeq, Byte, Size, LocalOK, ByteAt, WindowOK, Demanded,
           PairOK, Lead2, Lead3, Lead4, SecondBytes, Continuation
  <2> QED
    BY <2>1
<1>23. Fault(b23)
  <2>1. Refused(b23, 2)
    BY DEF Refused, ByteSeq, Byte, Size, LocalOK, ByteAt, WindowOK, Demanded,
           PairOK, Lead2, Lead3, Lead4, SecondBytes, Continuation
  <2> QED
    BY <2>1
<1>24. Fault(b24)
  <2>1. Refused(b24, 0)
    BY DEF Refused, ByteSeq, Byte, Size, LocalOK, ByteAt, WindowOK, Demanded,
           PairOK, Lead2, Lead3, Lead4, SecondBytes, Continuation
  <2> QED
    BY <2>1
<1>25. Fault(b25)
  <2>1. Refused(b25, 0)
    BY DEF Refused, ByteSeq, Byte, Size, LocalOK, ByteAt, WindowOK, Demanded,
           PairOK, Lead2, Lead3, Lead4, SecondBytes, Continuation
  <2> QED
    BY <2>1
<1>26. Fault(b26)
  <2>1. Refused(b26, 2)
    BY DEF Refused, ByteSeq, Byte, Size, LocalOK, ByteAt, WindowOK, Demanded,
           PairOK, Lead2, Lead3, Lead4, SecondBytes, Continuation
  <2> QED
    BY <2>1
<1>27. Fault(b27)
  <2>1. Refused(b27, 1)
    BY DEF Refused, ByteSeq, Byte, Size, LocalOK, ByteAt, WindowOK, Demanded,
           PairOK, Lead2, Lead3, Lead4, SecondBytes, Continuation
  <2> QED
    BY <2>1
<1>28. badsequences = {
      b1, b2, b3, b4, b5, b6, b7, b8, b9, b10, b11, b12, b13, b14, b15, b16,
      b17, b18, b19, b20, b21, b22, b23, b24, b25, b26}
      \cup {b27}
  BY ZenonT(120) DEF badsequences
<1> HIDE DEF Fault, b1, b2, b3, b4, b5, b6, b7, b8, b9, b10, b11, b12, b13, b14, b15, b16,
     b17, b18, b19, b20, b21, b22, b23, b24, b25, b26, b27
<1>29. Fault(s)
  BY Zenon, <1>1, <1>2, <1>3, <1>4, <1>5, <1>6, <1>7, <1>8, <1>9, <1>10, <1>11,
     <1>12, <1>13, <1>14, <1>15, <1>16, <1>17, <1>18, <1>19, <1>20, <1>21,
     <1>22, <1>23, <1>24, <1>25, <1>26, <1>27, <1>28
<1> QED
  BY <1>29 DEF Fault

(* unit.cpp asks of the fixed sequences what the lookup validators answer. *)
LEMMA FixedTestsPass ==
  fixed_tests_pass
<1>1. ASSUME NEW s \in goodsequences PROVE Lookups \subseteq accepting(s)
  BY GoodSequences DEF accepting, Validators
<1>2. ASSUME NEW s \in badsequences PROVE Lookups \cap accepting(s) = {}
  BY BadSequences, RefusedByAll
<1> QED
  BY <1>1, <1>2 DEF fixed_tests_pass
-----------------------------------------------------------------------------
(* What benchstream.cpp takes off the end is a part of the text.           *)
LEMMA SizeInside ==
  ASSUME output_bytes \in Nat, output_bytes > 1, Returned(UTF8), UTF8 \in ByteSeq
  PROVE  /\ size \in 1..output_bytes
         /\ s1 \in Nat /\ s1 = Size(UTF8)
         /\ s1 - size \in 1..(s1 - 1)
<1>1. size \in 1..output_bytes
  BY DEF size
<1>2. s1 \in Nat /\ s1 = Size(UTF8) /\ s1 \in (output_bytes + 1)..(output_bytes + 4)
  BY SizeType DEF s1, Size, Returned
<1> QED
  BY <1>1, <1>2

LEMMA InitIInv == Init => IInv
<1> SUFFICES ASSUME Init PROVE IInv
  OBVIOUS
<1>1. CASE program = "unit"
  <2>1. PICK n \in UnitBytes : generate(1..4, n)
    BY <1>1 DEF Init
  <2>2. n \in Nat
    BY BoundsAssumption
  <2>3. GInv
    BY <2>1, <2>2, GenerateGInv
  <2>4. at = "while" /\ result = <<>> /\ Len(result) = 0
    BY <2>1 DEF generate
  <2> QED
    BY <1>1, <2>3, <2>4, BoundsAssumption DEF Init, IInv, PInv, s1, UTF8
<1>2. CASE program = "benchstream"
  <2>1. PICK n \in Sizes : generate(1..2, 2 * n)
    BY <1>2 DEF Init
  <2>2. n \in Nat /\ n > 0
    BY BoundsAssumption
  <2>3. 2 * n \in Nat /\ 2 * n > 1 /\ 1..2 \in SUBSET (1..4)
    BY <2>2
  <2>4. GInv
    BY <2>1, <2>3, GenerateGInv
  <2>5. at = "while" /\ result = <<>> /\ Len(result) = 0 /\ output_bytes > 1
    BY <2>1, <2>3 DEF generate
  <2> QED
    BY <1>2, <2>4, <2>5, BoundsAssumption DEF Init, IInv, PInv, s1, UTF8
<1> QED
  BY <1>1, <1>2 DEF Init

LEMMA GeneratingIInv == IInv /\ Generating => IInv'
<1> SUFFICES ASSUME IInv, Generating PROVE IInv'
  OBVIOUS
<1>1. GInv'
  BY GenerateStep DEF IInv, Generating
<1>2. pc = "generate" /\ UNCHANGED <<program, pc, flip, s2>>
  BY DEF Generating
<1>3. at' # "taken" /\ output_bytes' = output_bytes
  BY <1>2 DEF Generating, Generate, Switch, Redraw, Push, PushHead, PushSecond,
              PushEos, IInv, PInv
<1>4. Len(result') \in Nat
  BY <1>1 DEF GInv, ByteSeq
<1>5. PInv'
  BY <1>2, <1>3, <1>4 DEF IInv, PInv, s1, UTF8
<1> QED
  BY <1>1, <1>5 DEF IInv

LEMMA AcceptGeneratedIInv == IInv /\ AcceptGenerated => IInv'
<1> SUFFICES ASSUME IInv, AcceptGenerated PROVE IInv'
  OBVIOUS
<1>1. /\ pc = "generate" /\ at = "returned" /\ program = "unit" /\ at' = "taken"
      /\ UNCHANGED <<bytes_count, output_bytes, result, length, candidate>>
      /\ UNCHANGED <<program, flip, s2>>
  BY DEF AcceptGenerated, take
<1>2. WellFormed(UTF8)
  BY <1>1 DEF IInv, GInv, Returned, UTF8
<1>3. pc' = "flip"
  BY <1>2 DEF AcceptGenerated, accepting
<1>4. GInv'
  BY <1>1 DEF IInv, GInv
<1>5. PInv'
  BY <1>1, <1>3 DEF IInv, PInv, s1, UTF8
<1> QED
  BY <1>4, <1>5 DEF IInv

LEMMA FlipIInv == IInv /\ Flip => IInv'
<1> SUFFICES ASSUME IInv, Flip PROVE IInv'
  OBVIOUS
<1>1. /\ pc = "flip" /\ flip < MaxFlips /\ flip' = flip + 1
      /\ pc' = (IF answers_agree(result') THEN "flip" ELSE "aborted")
      /\ UNCHANGED <<bytes_count, output_bytes, at, length, candidate, program, s2>>
  BY DEF Flip
<1>2. at = "taken" /\ program = "unit"
  BY <1>1 DEF IInv, PInv
<1>3. PICK i \in DOMAIN result, bit \in 0..7 :
        result' = [result EXCEPT ![i] = with_bit_flipped(result[i], bit)]
  BY DEF Flip, UTF8
<1>4. result' \in ByteSeq /\ Len(result') = Len(result) /\ Len(result) \in Nat
  <2>1. result \in Seq(Byte)
    BY DEF IInv, GInv, ByteSeq
  <2>2. with_bit_flipped(result[i], bit) \in Byte
    BY <2>1, FlippedByte
  <2> QED
    BY <1>3, <2>1, <2>2 DEF ByteSeq
<1>5. GInv'
  BY <1>1, <1>2, <1>4 DEF IInv, GInv
<1>6. pc' = "aborted" => flip' > 0 /\ \E k \in DOMAIN UTF8' : OverlongAt(UTF8', k)
  <2> SUFFICES ASSUME pc' = "aborted"
               PROVE  flip' > 0 /\ \E k \in DOMAIN UTF8' : OverlongAt(UTF8', k)
    OBVIOUS
  <2>1. ~answers_agree(result')
    BY <1>1
  <2>2. \E k \in DOMAIN result' : OverlongAt(result', k)
    BY <1>4, <2>1, AgreeButOnOverlong
  <2>3. flip' > 0
    BY <1>1 DEF IInv, PInv
  <2> QED
    BY <2>2, <2>3 DEF UTF8
<1>7. PInv'
  BY <1>1, <1>2, <1>4, <1>6, BoundsAssumption DEF IInv, PInv, s1, UTF8
<1> QED
  BY <1>5, <1>7 DEF IInv

LEMMA FlipsDoneIInv == IInv /\ FlipsDone => IInv'
<1> SUFFICES ASSUME IInv, FlipsDone PROVE IInv'
  OBVIOUS
<1>1. pc = "flip" /\ pc' = "fixed" /\ UNCHANGED <<generator, program, flip, s2>>
  BY DEF FlipsDone
<1>2. GInv'
  BY <1>1 DEF IInv, GInv, PInv, generator
<1>3. PInv'
  BY <1>1 DEF IInv, PInv, generator, s1, UTF8
<1> QED
  BY <1>2, <1>3 DEF IInv

LEMMA FixedTestsIInv == IInv /\ FixedTests => IInv'
<1> SUFFICES ASSUME IInv, FixedTests PROVE IInv'
  OBVIOUS
<1>1. pc = "fixed" /\ pc' = "done" /\ UNCHANGED <<generator, program, flip, s2>>
  BY FixedTestsPass DEF FixedTests
<1>2. GInv'
  BY <1>1 DEF IInv, GInv, PInv, generator
<1>3. PInv'
  BY <1>1 DEF IInv, PInv, generator, s1, UTF8
<1> QED
  BY <1>2, <1>3 DEF IInv

LEMMA MeasureIInv == IInv /\ Measure => IInv'
<1> SUFFICES ASSUME IInv, Measure PROVE IInv'
  OBVIOUS
<1>1. /\ pc = "generate" /\ at = "returned" /\ program = "benchstream"
      /\ at' = "taken" /\ pc' = "search" /\ s2' = s1 - size
      /\ UNCHANGED <<bytes_count, output_bytes, result, length, candidate>>
      /\ UNCHANGED <<program, flip>>
  BY DEF Measure, take
<1>2. output_bytes \in Nat /\ output_bytes > 1 /\ Returned(UTF8) /\ UTF8 \in ByteSeq
  BY <1>1 DEF IInv, GInv, PInv, UTF8
<1>3. s1 \in Nat /\ s1 - size \in 0..s1 /\ s1 - size \in Nat /\ size \in Nat
  BY <1>2, SizeInside
<1>4. UNCHANGED <<s1, size>> /\ Returned(UTF8)'
  BY <1>1, <1>2 DEF s1, size, UTF8, Returned
<1>5. \A i \in Nat : Passed(i)'
  BY <1>1, <1>3, <1>4 DEF Passed
<1>6. GInv'
  BY <1>1 DEF IInv, GInv
<1>7. PInv'
  BY <1>1, <1>3, <1>4, <1>5 DEF IInv, PInv
<1> QED
  BY <1>6, <1>7 DEF IInv

LEMMA StepBackIInv == IInv /\ StepBack => IInv'
<1> SUFFICES ASSUME IInv, StepBack PROVE IInv'
  OBVIOUS
<1>1. /\ pc = "search" /\ int8(UTF8[s2 + 1]) < 64
      /\ \/ s2 = 0 /\ pc' = "overrun" /\ s2' = s2
         \/ s2 # 0 /\ pc' = "search" /\ s2' = s2 - 1
      /\ UNCHANGED <<bytes_count, output_bytes, result, at, length, candidate>>
      /\ UNCHANGED <<program, flip>>
  BY DEF StepBack, generator
<1>2. at = "taken" /\ program = "benchstream"
  BY <1>1, CallersAssumption DEF IInv, PInv
<1>3. /\ output_bytes \in Nat /\ output_bytes > 1 /\ Returned(UTF8) /\ UTF8 \in ByteSeq
      /\ s2 \in 0..s1 /\ s2 <= s1 - size /\ \A i \in Nat : Passed(i)
  BY <1>1, <1>2 DEF IInv, GInv, PInv, UTF8
<1>4. size \in Nat /\ s1 \in Nat /\ s1 = Size(UTF8) /\ s1 - size \in 1..(s1 - 1)
  BY <1>3, SizeInside
<1>5. UTF8[s2 + 1] \notin 64..127
  <2>1. s2 + 1 \in 1..Size(UTF8)
    BY <1>3, <1>4
  <2>2. UTF8[s2 + 1] \in 0..255
    BY <1>3, <2>1, SizeType
  <2> QED
    BY <1>1, <2>2 DEF int8
<1>6. UNCHANGED <<s1, size, UTF8>> /\ Returned(UTF8)'
  BY <1>1, <1>3 DEF s1, size, UTF8, Returned
<1>7. s2' \in 0..s1 /\ s2' <= s1 - size
  BY <1>1, <1>3, <1>4
<1>8. \A i \in Nat : Passed(i)'
  <2> SUFFICES ASSUME NEW i \in Nat, i \in (s2' + 2)..(s1 - size + 1)
               PROVE  UTF8[i] \notin 64..127
    BY <1>6 DEF Passed
  <2>1. CASE i = s2 + 1
    BY <1>5, <2>1
  <2>2. CASE i # s2 + 1
    <3>1. i \in (s2 + 2)..(s1 - size + 1)
      BY <1>1, <1>3, <1>4, <2>2
    <3> QED
      BY <1>3, <3>1 DEF Passed
  <2> QED
    BY <2>1, <2>2
<1>9. pc' = "overrun" => s2' = 0 /\ UTF8[1] \notin 64..127
  BY <1>1, <1>5
<1>10. GInv'
  BY <1>1, <1>2 DEF IInv, GInv
<1>11. PInv'
  BY <1>1, <1>2, <1>3, <1>6, <1>7, <1>8, <1>9 DEF IInv, PInv
<1> QED
  BY <1>10, <1>11 DEF IInv

(* In front of a byte of ASCII a well-formed text can be cut.              *)
LEMMA CutAtAscii ==
  ASSUME NEW s \in ByteSeq, WellFormed(s), NEW n \in Nat, n < Size(s),
         s[n + 1] \in 64..127
  PROVE  WellFormed(SubSeq(s, 1, n)) /\ WellFormed(SubSeq(s, n + 1, Size(s)))
<1>1. Size(s) \in Nat
  BY SizeType
<1>2. ByteAt(s, n) = s[n + 1]
  BY <1>1 DEF ByteAt
<1>3. ByteAt(s, n) \notin Continuation
  BY <1>2 DEF Continuation
<1>4. ~Open(s, n)
  BY <1>3, WellFormedIsClean, BoundaryAtLead
<1>5. Clean(s, n)
  BY WellFormedIsClean DEF Clean
<1>6. WellFormed(SubSeq(s, 1, n))
  BY <1>1, <1>4, <1>5, WholePrefix
<1>7. Clean(s, Size(s)) /\ ~Open(s, Size(s))
  BY <1>1, CleanToTheEnd
<1>8. CleanFrom(s, n, Size(s))
  BY <1>1, WellFormedIsClean DEF CleanFrom
<1>9. WellFormed(SubSeq(s, n + 1, Size(s)))
  BY <1>1, <1>4, <1>7, <1>8, WholeSegment
<1> QED
  BY <1>6, <1>9

LEMMA RunDiffIInv == IInv /\ RunDiff => IInv'
<1> SUFFICES ASSUME IInv, RunDiff PROVE IInv'
  OBVIOUS
<1>1. /\ pc = "search" /\ int8(UTF8[s2 + 1]) >= 64
      /\ pc' = (IF \A n \in {s1, s2} : measured \subseteq accepting(SubSeq(UTF8, 1, n))
                THEN "done" ELSE "bug")
      /\ UNCHANGED <<bytes_count, output_bytes, result, at, length, candidate>>
      /\ UNCHANGED <<program, flip, s2>>
  BY DEF RunDiff, generator
<1>2. at = "taken" /\ program = "benchstream"
  BY <1>1, CallersAssumption DEF IInv, PInv
<1>3. /\ output_bytes \in Nat /\ output_bytes > 1 /\ Returned(UTF8) /\ UTF8 \in ByteSeq
      /\ s2 \in 0..s1 /\ s2 <= s1 - size /\ \A i \in Nat : Passed(i)
  BY <1>1, <1>2 DEF IInv, GInv, PInv, UTF8
<1>4. size \in Nat /\ s1 \in Nat /\ s1 = Size(UTF8) /\ s1 - size \in 1..(s1 - 1)
  BY <1>3, SizeInside
<1>5. UTF8[s2 + 1] \in 64..127
  <2>1. s2 + 1 \in 1..Size(UTF8)
    BY <1>3, <1>4
  <2>2. UTF8[s2 + 1] \in 0..255
    BY <1>3, <2>1, SizeType
  <2> QED
    BY <1>1, <2>2 DEF int8
<1>6. WellFormed(UTF8)
  BY <1>3 DEF Returned
<1>7. WellFormed(SubSeq(UTF8, 1, s2))
  BY <1>3, <1>4, <1>5, <1>6, CutAtAscii
<1>8. WellFormed(SubSeq(UTF8, 1, s1))
  BY <1>3, <1>4, <1>6, CleanToTheEnd, WholePrefix
<1>9. measured \subseteq Validators
  BY DEF measured, Validators, Lookups, Shiftless
<1>10. \A n \in {s1, s2} : accepting(SubSeq(UTF8, 1, n)) = Validators
  BY <1>7, <1>8 DEF accepting
<1>11. pc' = "done"
  BY <1>1, <1>9, <1>10
<1>12. UNCHANGED <<s1, size, UTF8>> /\ Returned(UTF8)'
  BY <1>1, <1>3 DEF s1, size, UTF8, Returned
<1>13. \A i \in Nat : Passed(i)'
  BY <1>1, <1>3, <1>12 DEF Passed
<1>14. GInv'
  BY <1>1, <1>2 DEF IInv, GInv
<1>15. PInv'
  BY <1>1, <1>2, <1>3, <1>5, <1>11, <1>12, <1>13 DEF IInv, PInv
<1> QED
  BY <1>14, <1>15 DEF IInv

LEMMA StutterIInv == IInv /\ UNCHANGED vars => IInv'
<1> SUFFICES ASSUME IInv, UNCHANGED vars PROVE IInv'
  OBVIOUS
<1>1. /\ UNCHANGED <<bytes_count, output_bytes, result, at, length, candidate>>
      /\ UNCHANGED <<program, pc, flip, s2>>
  BY DEF vars, generator
<1>2. UNCHANGED <<s1, size, UTF8>>
  BY <1>1 DEF s1, size, UTF8
<1>3. \A t : Returned(t)' <=> Returned(t)
  BY <1>1 DEF Returned
<1>4. GInv'
  BY <1>1, <1>3 DEF IInv, GInv
<1>5. \A i \in Nat : Passed(i)' <=> Passed(i)
  BY <1>1, <1>2 DEF Passed
<1>6. PInv'
  BY <1>1, <1>2, <1>3, <1>5 DEF IInv, PInv
<1> QED
  BY <1>4, <1>6 DEF IInv

LEMMA Invariant == Spec => []IInv
<1>1. IInv /\ [Next]_vars => IInv'
  BY GeneratingIInv, AcceptGeneratedIInv, FlipIInv, FlipsDoneIInv, FixedTestsIInv,
     MeasureIInv, StepBackIInv, RunDiffIInv, StutterIInv DEF Next
<1> QED
  BY <1>1, InitIInv, PTL DEF Spec
-----------------------------------------------------------------------------
(***************************************************************************)
(* Type correctness of the programs: random_utf8.cpp pushes bytes only, a  *)
(* flip leaves a byte a byte, and the index of the search stays in the     *)
(* text until the step that ends it.                                       *)
(***************************************************************************)
THEOREM ProgramsTypeCorrect == Spec => []TypeOK
<1>1. IInv => TypeOK
  BY CallersAssumption DEF IInv, GInv, PInv, TypeOK, ByteSeq, Byte, ended, s1, UTF8
<1> QED
  BY <1>1, Invariant, PTL

(***************************************************************************)
(* Whatever is drawn, whatever lengths are allowed and however many bytes  *)
(* are asked for, generate returns a well-formed text of that length or at *)
(* most one character more, with its only zero at the end.                 *)
(***************************************************************************)
THEOREM GeneratedTextIsWellFormed == Spec => []GeneratedIsWellFormed
<1>1. IInv => GeneratedIsWellFormed
  <2> SUFFICES ASSUME IInv, at = "returned" PROVE
        /\ WellFormed(result)
        /\ Len(result) \in (output_bytes + 1)..(output_bytes + 4)
        /\ \A i \in 1..Len(result) : result[i] = 0 <=> i = Len(result)
    BY DEF GeneratedIsWellFormed
  <2>1. Returned(result) /\ result \in ByteSeq
    BY DEF IInv, GInv
  <2> QED
    BY <2>1, SizeType DEF Returned, NoZero, Size
<1> QED
  BY <1>1, Invariant, PTL

(***************************************************************************)
(* However many bits unit.cpp flips in however long a text, it aborts only *)
(* when it has flipped some and the text holds an F0 8F BF BF.             *)
(***************************************************************************)
THEOREM AbortsOnOverlongAlone == Spec => []AbortsOnlyOnOverlong
<1>1. IInv => AbortsOnlyOnOverlong
  BY DEF IInv, PInv, AbortsOnlyOnOverlong
<1> QED
  BY <1>1, Invariant, PTL

(***************************************************************************)
(* Whatever size benchstream.cpp is run with, it cuts its text between two *)
(* characters, measures as much as it was told to and reports no bug; and  *)
(* it leaves the buffer only when no byte on the way could stop it.        *)
(***************************************************************************)
THEOREM CutIsAtBoundary == Spec => []CutAtBoundary
<1>1. IInv => CutAtBoundary
  <2> SUFFICES ASSUME IInv PROVE CutAtBoundary
    OBVIOUS
  <2>1. pc # "bug"
    BY DEF IInv, PInv
  <2>2. ASSUME program = "benchstream", pc # "generate"
        PROVE  /\ output_bytes \in Nat /\ output_bytes > 1
               /\ Returned(UTF8) /\ UTF8 \in ByteSeq
               /\ s2 \in 0..s1 /\ s2 <= s1 - size /\ \A i \in Nat : Passed(i)
               /\ size \in Nat /\ s1 \in Nat /\ s1 = Size(UTF8)
               /\ s1 - size \in 1..(s1 - 1)
    <3>1. /\ output_bytes \in Nat /\ output_bytes > 1
          /\ Returned(UTF8) /\ UTF8 \in ByteSeq
          /\ s2 \in 0..s1 /\ s2 <= s1 - size /\ \A i \in Nat : Passed(i)
      BY <2>2 DEF IInv, GInv, PInv, UTF8
    <3> QED
      BY <3>1, SizeInside
  <2>3. ASSUME program = "benchstream", pc = "done"
        PROVE  /\ WellFormed(SubSeq(UTF8, 1, s2))
               /\ WellFormed(SubSeq(UTF8, s2 + 1, s1))
               /\ s1 - s2 >= size
    <3>1. UTF8[s2 + 1] \in 64..127
      BY <2>3 DEF IInv, PInv
    <3>2. WellFormed(UTF8)
      BY <2>2, <2>3 DEF Returned
    <3>3. s2 \in Nat /\ s2 < Size(UTF8) /\ s1 - s2 >= size
      BY <2>2, <2>3
    <3> QED
      BY <2>2, <2>3, <3>1, <3>2, <3>3, CutAtAscii
  <2>4. ASSUME pc = "overrun"
        PROVE  \A i \in 1..(s1 - size + 1) : UTF8[i] \notin 64..127
    <3>1. program = "benchstream"
      BY <2>4, CallersAssumption DEF IInv, PInv
    <3>2. s2 = 0 /\ UTF8[1] \notin 64..127
      BY <2>4, <3>1 DEF IInv, PInv
    <3>3. ASSUME NEW i \in 1..(s1 - size + 1), i # 1 PROVE UTF8[i] \notin 64..127
      <4>1. i \in Nat /\ i \in (s2 + 2)..(s1 - size + 1)
        BY <2>2, <2>4, <3>1, <3>2, <3>3
      <4> QED
        BY <2>2, <2>4, <3>1, <4>1 DEF Passed
    <3> QED
      BY <3>2, <3>3
  <2> QED
    BY <2>1, <2>3, <2>4 DEF CutAtBoundary
<1> QED
  BY <1>1, Invariant, PTL
=============================================================================
