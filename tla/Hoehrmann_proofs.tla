-------------------------- MODULE Hoehrmann_proofs --------------------------
(***************************************************************************)
(* Proofs about the automata and the cut of the input in parts: for every  *)
(* input, every value of SMALL and every function.                         *)
(*                                                                         *)
(* The state of an automaton is a function of the last three bytes it has  *)
(* read, as long as the windows of what it has read are clean              *)
(* (Utf8Local); of a part it reads the bytes as if they were a text of     *)
(* their own.                                                              *)
(***************************************************************************)
EXTENDS Hoehrmann, Utf8Local

(* Bytes that open no character, whatever follows.                         *)
Doomed == {192, 193} \cup (245..255)

(* The state behind three bytes, the last one last, that are in order.     *)
Due(p3, p2, p1) ==
  CASE p1 \in Lead2                  -> 2
    [] p1 = 224                      -> 4
    [] p1 = 237                      -> 5
    [] p1 \in Lead3 \ {224, 237}     -> 3
    [] p1 = 240                      -> 6
    [] p1 = 244                      -> 8
    [] p1 \in 241..243               -> 7
    [] OTHER -> IF p2 >= 240 THEN 3
                ELSE IF p2 >= 224 \/ p3 >= 240 THEN 2 ELSE UTF8_ACCEPT
-----------------------------------------------------------------------------
(* The class of a byte.                                                    *)
LEMMA Classes ==
  ASSUME NEW b \in 0..255
  PROVE  /\ b \in 128..143 => utf8d(b) = 1
         /\ b \in 144..159 => utf8d(b) = 9
         /\ b \in 160..191 => utf8d(b) = 7
         /\ b \in Doomed => utf8d(b) = 8
         /\ b \in Lead2 => utf8d(b) = 2
         /\ b = 224 => utf8d(b) = 10
         /\ b \in Lead3 \ {224, 237} => utf8d(b) = 3
         /\ b = 237 => utf8d(b) = 4
         /\ b = 240 => utf8d(b) = 11
         /\ b \in 241..243 => utf8d(b) = 6
         /\ b = 244 => utf8d(b) = 5
<1>1. b \in 128..143 => utf8d(b) = 1
  BY DEF utf8d, Ascii
<1>2. b \in 144..159 => utf8d(b) = 9
  BY DEF utf8d, Ascii
<1>3. b \in 160..191 => utf8d(b) = 7
  BY DEF utf8d, Ascii
<1>4. b \in Doomed => utf8d(b) = 8
  BY DEF utf8d, Ascii, Doomed
<1>5. b \in Lead2 => utf8d(b) = 2
  BY DEF utf8d, Ascii, Lead2
<1>6. b = 224 => utf8d(b) = 10
  BY DEF utf8d, Ascii
<1>7. b \in Lead3 \ {224, 237} => utf8d(b) = 3
  BY DEF utf8d, Ascii, Lead3
<1>8. b = 237 => utf8d(b) = 4
  BY DEF utf8d, Ascii
<1>9. b = 240 => utf8d(b) = 11
  BY DEF utf8d, Ascii
<1>10. b \in 241..243 => utf8d(b) = 6
  BY DEF utf8d, Ascii
<1>11. b = 244 => utf8d(b) = 5
  BY DEF utf8d, Ascii
<1> QED
  BY <1>1, <1>2, <1>3, <1>4, <1>5, <1>6, <1>7, <1>8, <1>9, <1>10, <1>11

(* The rows of the table, by the class of the byte.                        *)
RowsOf(b) ==
  /\ updatestate(0, b) = IF b \in Ascii \cup Lead2 \cup Lead3 \cup Lead4
                         THEN Due(0, 0, b) ELSE 1
  /\ updatestate(1, b) = 1
  /\ updatestate(2, b) = IF b \in Continuation THEN 0 ELSE 1
  /\ updatestate(3, b) = IF b \in Continuation THEN 2 ELSE 1
  /\ updatestate(4, b) = IF b \in 160..191 THEN 2 ELSE 1
  /\ updatestate(5, b) = IF b \in 128..159 THEN 2 ELSE 1
  /\ updatestate(6, b) = IF b \in 144..191 THEN 3 ELSE 1
  /\ updatestate(7, b) = IF b \in Continuation THEN 3 ELSE 1
  /\ updatestate(8, b) = IF b \in 128..143 THEN 3 ELSE 1

LEMMA Rows ==
  ASSUME NEW b \in Byte
  PROVE  RowsOf(b)
<1> USE DEF RowsOf, updatestate, UTF8_REJECT, UTF8_ACCEPT, Byte
<1>1. CASE b \in Ascii
  <2>1. utf8d(b) = 0
    BY <1>1 DEF utf8d, Ascii
  <2>2. \A x \in 1..8 : utf8d_transition(x, 0) = 1
    BY DEF utf8d_transition
  <2>3. utf8d_transition(0, 0) = 0
    BY DEF utf8d_transition
  <2>4. Due(0, 0, b) = 0
    BY <1>1 DEF Due, Ascii, Lead2, Lead3
  <2> QED
    BY <1>1, <2>1, <2>2, <2>3, <2>4 DEF Ascii, Continuation
<1>2. CASE b \in Continuation
  <2>1. /\ b \in 128..143 => utf8d(b) = 1
        /\ b \in 144..159 => utf8d(b) = 9
        /\ b \in 160..191 => utf8d(b) = 7
    BY Classes
  <2>2. \A y \in {1, 7, 9} : /\ utf8d_transition(1, y) = 1
                             /\ utf8d_transition(2, y) = 0
                             /\ utf8d_transition(3, y) = 2
                             /\ utf8d_transition(7, y) = 3
    BY DEF utf8d_transition
  <2>3. /\ utf8d_transition(0, 1) = 1
        /\ utf8d_transition(0, 7) = 1
        /\ utf8d_transition(0, 9) = 1
    BY DEF utf8d_transition
  <2>4. /\ utf8d_transition(4, 1) = 1
        /\ utf8d_transition(4, 7) = 2
        /\ utf8d_transition(4, 9) = 1
        /\ utf8d_transition(5, 1) = 2
        /\ utf8d_transition(5, 7) = 1
        /\ utf8d_transition(5, 9) = 2
    BY DEF utf8d_transition
  <2>5. /\ utf8d_transition(6, 1) = 1
        /\ utf8d_transition(6, 7) = 3
        /\ utf8d_transition(6, 9) = 3
        /\ utf8d_transition(8, 1) = 3
        /\ utf8d_transition(8, 7) = 1
        /\ utf8d_transition(8, 9) = 1
    BY DEF utf8d_transition
  <2>6. b \in 128..143 \/ b \in 144..159 \/ b \in 160..191
    BY <1>2 DEF Continuation
  <2>7. b \notin Ascii \cup Lead2 \cup Lead3 \cup Lead4
    BY <1>2 DEF Continuation, Ascii, Lead2, Lead3, Lead4
  <2>8. CASE b \in 128..143
    <3>1. utf8d(b) = 1 /\ b \notin 160..191 /\ b \in 128..159 /\ b \notin 144..191
      BY <2>1, <2>8
    <3> QED
      BY <1>2, <2>2, <2>3, <2>4, <2>5, <2>7, <2>8, <3>1
  <2>9. CASE b \in 144..159
    <3>1. utf8d(b) = 9 /\ b \notin 160..191 /\ b \in 128..159 /\ b \in 144..191
          /\ b \notin 128..143
      BY <2>1, <2>9
    <3> QED
      BY <1>2, <2>2, <2>3, <2>4, <2>5, <2>7, <2>9, <3>1
  <2>10. CASE b \in 160..191
    <3>1. utf8d(b) = 7 /\ b \notin 128..159 /\ b \in 144..191 /\ b \notin 128..143
      BY <2>1, <2>10
    <3> QED
      BY <1>2, <2>2, <2>3, <2>4, <2>5, <2>7, <2>10, <3>1
  <2> QED
    BY <2>6, <2>8, <2>9, <2>10
<1>3. CASE b \in 192..255
  <2>1. /\ b \in Doomed => utf8d(b) = 8
        /\ b \in Lead2 => utf8d(b) = 2
        /\ b = 224 => utf8d(b) = 10
        /\ b \in Lead3 \ {224, 237} => utf8d(b) = 3
        /\ b = 237 => utf8d(b) = 4
        /\ b = 240 => utf8d(b) = 11
        /\ b \in 241..243 => utf8d(b) = 6
        /\ b = 244 => utf8d(b) = 5
    BY Classes
  <2>2. \A y \in {2, 3, 4, 5, 6, 8, 10, 11}, x \in 1..8 : utf8d_transition(x, y) = 1
    BY DEF utf8d_transition
  <2>3. /\ utf8d_transition(0, 8) = 1
        /\ utf8d_transition(0, 2) = 2
        /\ utf8d_transition(0, 3) = 3
        /\ utf8d_transition(0, 4) = 5
        /\ utf8d_transition(0, 5) = 8
        /\ utf8d_transition(0, 6) = 7
        /\ utf8d_transition(0, 10) = 4
        /\ utf8d_transition(0, 11) = 6
    BY DEF utf8d_transition
  <2>4. \/ b \in Doomed \/ b \in Lead2 \/ b = 224 \/ b \in Lead3 \ {224, 237}
        \/ b = 237 \/ b = 240 \/ b \in 241..243 \/ b = 244
    BY <1>3 DEF Doomed, Lead2, Lead3
  <2>5. utf8d(b) \in {2, 3, 4, 5, 6, 8, 10, 11}
    BY <2>1, <2>4
  <2>6. \A x \in 1..8 : updatestate(x, b) = 1
    BY <2>2, <2>5
  <2>7. updatestate(0, b) = IF b \in Ascii \cup Lead2 \cup Lead3 \cup Lead4
                            THEN Due(0, 0, b) ELSE 1
    <3>1. CASE b \in Doomed
      <4>1. b \notin Ascii \cup Lead2 \cup Lead3 \cup Lead4
        BY <3>1 DEF Doomed, Ascii, Lead2, Lead3, Lead4
      <4> QED
        BY <2>1, <2>3, <3>1, <4>1
    <3>2. CASE b \notin Doomed
      <4>1. b \in Ascii \cup Lead2 \cup Lead3 \cup Lead4
        BY <1>3, <3>2 DEF Doomed, Lead2, Lead3, Lead4
      <4>2. utf8d_transition(0, utf8d(b)) = Due(0, 0, b)
        BY <2>1, <2>3, <2>4, <3>2 DEF Due, Lead2, Lead3
      <4> QED
        BY <4>1, <4>2
    <3> QED
      BY <3>1, <3>2
  <2> QED
    BY <1>3, <2>6, <2>7 DEF Continuation
<1> QED
  BY <1>1, <1>2, <1>3 DEF Ascii, Continuation

(* Three bytes of which at most one asks for more, and it has been served. *)
Calm(p3, p2, p1) ==
  /\ p1 >= 192 => p2 < 192 /\ p3 < 224
  /\ p2 >= 224 => p1 \in Continuation /\ p3 < 192
  /\ p3 >= 240 => p1 \in Continuation

(* The state behind b, if the window that ends there is clean.             *)
DueNext(p3, p2, p1, b) ==
  IF WindowOK(p3, p2, p1, b) /\ b \notin Doomed THEN Due(p2, p1, b) ELSE UTF8_REJECT

(***************************************************************************)
(* One step of the automaton is one window: it goes on as long as the      *)
(* window is clean and the byte is not doomed.                             *)
(***************************************************************************)
LEMMA DueStep ==
  ASSUME NEW p3 \in Byte, NEW p2 \in Byte, NEW p1 \in Byte, NEW b \in Byte,
         Calm(p3, p2, p1), p1 \notin Doomed
  PROVE  updatestate(Due(p3, p2, p1), b) = DueNext(p3, p2, p1, b)
<1>0. RowsOf(b)
  BY Rows
<1> USE DEF Byte
<1>1. b \in Continuation => b \notin Doomed /\ b < 192
  BY DEF Continuation, Doomed
<1>2. CASE p1 >= 192
  <2>1. p2 < 192 /\ p3 < 224 /\ ~Demanded(p3, p2) /\ p1 \notin Continuation
    BY <1>2 DEF Calm, Demanded, Continuation
  <2>2. p1 \in Lead2 \cup Lead3 \cup Lead4
    BY <1>2 DEF Doomed, Lead2, Lead3, Lead4
  <2>3. WindowOK(p3, p2, p1, b) <=> b \in SecondBytes(p1)
    BY <1>2, <2>1, <2>2 DEF WindowOK, PairOK
  <2>4. SecondBytes(p1) \subseteq Continuation
    BY DEF SecondBytes, Continuation
  <2>5. b \in Continuation =>
          Due(p2, p1, b) = IF p1 >= 240 THEN 3 ELSE IF p1 >= 224 THEN 2 ELSE 0
    BY <2>1 DEF Due, Continuation, Lead2, Lead3, UTF8_ACCEPT
  <2>6. updatestate(Due(p3, p2, p1), b) =
          IF b \in SecondBytes(p1)
          THEN IF p1 >= 240 THEN 3 ELSE IF p1 >= 224 THEN 2 ELSE 0
          ELSE 1
    <3>1. CASE p1 \in Lead2
      <4>1. Due(p3, p2, p1) = 2
        BY <3>1 DEF Due, Lead2, Lead3
      <4>2. p1 \in 194..223
        BY <3>1 DEF Lead2
      <4>3. SecondBytes(p1) = Continuation
        BY <4>2 DEF SecondBytes
      <4> QED
        BY <4>1, <4>2, <4>3, <1>0 DEF RowsOf
    <3>2. CASE p1 = 224
      <4>1. Due(p3, p2, p1) = 4 /\ SecondBytes(p1) = 160..191
        BY <3>2 DEF Due, SecondBytes, Lead2
      <4> QED
        BY <3>2, <4>1, <1>0 DEF RowsOf
    <3>3. CASE p1 = 237
      <4>1. Due(p3, p2, p1) = 5 /\ SecondBytes(p1) = 128..159
        BY <3>3 DEF Due, SecondBytes, Lead2
      <4> QED
        BY <3>3, <4>1, <1>0 DEF RowsOf
    <3>4. CASE p1 \in Lead3 \ {224, 237}
      <4>1. Due(p3, p2, p1) = 3 /\ SecondBytes(p1) = Continuation
            /\ p1 >= 224 /\ p1 < 240
        BY <3>4 DEF Due, SecondBytes, Lead2, Lead3
      <4> QED
        BY <4>1, <1>0 DEF RowsOf
    <3>5. CASE p1 = 240
      <4>1. Due(p3, p2, p1) = 6 /\ SecondBytes(p1) = 144..191
        BY <3>5 DEF Due, SecondBytes, Lead2, Lead3
      <4> QED
        BY <3>5, <4>1, <1>0 DEF RowsOf
    <3>6. CASE p1 \in 241..243
      <4>1. Due(p3, p2, p1) = 7 /\ SecondBytes(p1) = Continuation /\ p1 >= 240
        BY <3>6 DEF Due, SecondBytes, Lead2, Lead3
      <4> QED
        BY <4>1, <1>0 DEF RowsOf
    <3>7. CASE p1 = 244
      <4>1. Due(p3, p2, p1) = 8 /\ SecondBytes(p1) = 128..143
        BY <3>7 DEF Due, SecondBytes, Lead2, Lead3
      <4> QED
        BY <3>7, <4>1, <1>0 DEF RowsOf
    <3> QED
      BY <2>2, <3>1, <3>2, <3>3, <3>4, <3>5, <3>6, <3>7 DEF Lead3, Lead4
  <2> QED
    BY <1>1, <2>3, <2>4, <2>5, <2>6 DEF UTF8_REJECT, DueNext
<1>3. CASE p1 < 192 /\ Demanded(p3, p2)
  <2>1. p1 \in Continuation
    BY <1>3 DEF Calm, Demanded
  <2>2. WindowOK(p3, p2, p1, b) <=> b \in Continuation
    BY <1>3, <2>1 DEF WindowOK
  <2>3. Due(p3, p2, p1) = IF p2 >= 240 THEN 3 ELSE 2
    BY <1>3 DEF Due, Lead2, Lead3, Demanded
  <2>4. b \in Continuation => Due(p2, p1, b) = IF p2 >= 240 THEN 2 ELSE 0
    BY <1>3 DEF Due, Continuation, Lead2, Lead3, UTF8_ACCEPT
  <2> QED
    BY <1>1, <2>2, <2>3, <2>4, <1>0 DEF RowsOf, UTF8_REJECT, DueNext
<1>4. CASE p1 < 192 /\ ~Demanded(p3, p2)
  <2>1. Due(p3, p2, p1) = 0
    BY <1>4 DEF Due, Lead2, Lead3, Demanded, UTF8_ACCEPT
  <2>2. WindowOK(p3, p2, p1, b) <=> b \notin Continuation
    BY <1>4 DEF WindowOK, PairOK, Lead2, Lead3, Lead4
  <2>3. b \in Ascii \cup Lead2 \cup Lead3 \cup Lead4 <=>
          b \notin Continuation /\ b \notin Doomed
    BY DEF Ascii, Lead2, Lead3, Lead4, Continuation, Doomed
  <2>4. b \notin Continuation => Due(p2, p1, b) = Due(0, 0, b)
    BY <1>4 DEF Due, Demanded, Continuation, Lead2, Lead3, UTF8_ACCEPT
  <2> QED
    BY <2>1, <2>2, <2>3, <2>4, <1>0 DEF RowsOf, UTF8_REJECT, DueNext
<1> QED
  BY <1>2, <1>3, <1>4
-----------------------------------------------------------------------------
(* The automaton has not rejected the first n bytes of s.                  *)
Alive(s, n) == Clean(s, n) /\ ByteAt(s, n - 1) \notin Doomed

(* Its state behind them.                                                  *)
StateOf(s, n) ==
  IF Alive(s, n)
  THEN Due(ByteAt(s, n - 3), ByteAt(s, n - 2), ByteAt(s, n - 1))
  ELSE UTF8_REJECT

(* The states; it accepts exactly the texts that are well formed so far    *)
(* and leave no character open; the first state accepts.                   *)
LEMMA StateAccepts ==
  ASSUME NEW s \in ByteSeq, NEW n \in Nat
  PROVE  /\ StateOf(s, n) \in 0..8
         /\ StateOf(s, n) = 0 <=> Clean(s, n) /\ ~Open(s, n)
         /\ StateOf(s, n) = 1 <=> ~Alive(s, n)
         /\ StateOf(s, 0) = 0
<1>1. ByteAt(s, n - 1) \in 0..255 /\ ByteAt(s, n - 2) \in 0..255 /\ ByteAt(s, n - 3) \in 0..255
  BY ByteAtType
<1> DEFINE d == Due(ByteAt(s, n - 3), ByteAt(s, n - 2), ByteAt(s, n - 1))
<1>2. Alive(s, n) =>
        /\ d \in {0, 2, 3, 4, 5, 6, 7, 8}
        /\ d = 0 <=> ~Open(s, n)
  <2> SUFFICES ASSUME Alive(s, n)
               PROVE  /\ d \in {0, 2, 3, 4, 5, 6, 7, 8}
                      /\ d = 0 <=> ~Open(s, n)
    OBVIOUS
  <2>1. ByteAt(s, n - 1) \notin Doomed
    BY DEF Alive
  <2>2. /\ d \in {0, 2, 3, 4, 5, 6, 7, 8}
        /\ d = 0 <=> /\ ByteAt(s, n - 1) < 192
                     /\ ByteAt(s, n - 2) < 224
                     /\ ByteAt(s, n - 3) < 240
    <3> DEFINE p1 == ByteAt(s, n - 1)
               p2 == ByteAt(s, n - 2)
               p3 == ByteAt(s, n - 3)
    <3>1. p1 \in 0..255 /\ p2 \in 0..255 /\ p3 \in 0..255 /\ p1 \notin Doomed
      BY <1>1, <2>1
    <3>2. d = Due(p3, p2, p1)
      OBVIOUS
    <3> HIDE DEF d, p1, p2, p3
    <3>3. CASE p1 < 192
      <4>1. d \in {0, 2, 3} /\ (d = 0 <=> p2 < 224 /\ p3 < 240)
        BY <3>1, <3>2, <3>3 DEF Due, Lead2, Lead3, UTF8_ACCEPT
      <4> QED
        BY <3>3, <4>1 DEF p1, p2, p3
    <3>4. CASE p1 >= 192
      <4>1. p1 \in Lead2 \/ p1 = 224 \/ p1 = 237 \/ p1 \in Lead3 \ {224, 237}
            \/ p1 = 240 \/ p1 = 244 \/ p1 \in 241..243
        BY <3>1, <3>4 DEF Doomed, Lead2, Lead3
      <4>2. d \in {2, 3, 4, 5, 6, 7, 8}
        BY <3>2, <4>1 DEF Due, Lead2, Lead3
      <4>3. ~(p1 < 192)
        BY <3>1, <3>4
      <4> QED
        BY <4>2, <4>3 DEF p1, p2, p3
    <3> QED
      BY <3>1, <3>3, <3>4
  <2> HIDE DEF d
  <2> QED
    BY <1>1, <2>2 DEF Open
<1>3. Clean(s, n) /\ ~Open(s, n) => Alive(s, n)
  BY <1>1 DEF Alive, Open, Doomed
<1>4. StateOf(s, n) = IF Alive(s, n) THEN d ELSE 1
  BY DEF StateOf, UTF8_REJECT
<1>5. StateOf(s, 0) = 0
  <2>1. ByteAt(s, 0 - 1) = 0 /\ ByteAt(s, 0 - 2) = 0 /\ ByteAt(s, 0 - 3) = 0
    BY DEF ByteAt
  <2>2. Alive(s, 0)
    BY <2>1 DEF Alive, Clean, Doomed
  <2>3. Due(0, 0, 0) = 0
    BY DEF Due, Lead2, Lead3, UTF8_ACCEPT
  <2> QED
    BY <2>1, <2>2, <2>3 DEF StateOf
<1>6. Alive(s, n) => Clean(s, n)
  BY DEF Alive
<1> HIDE DEF d
<1> QED
  BY <1>2, <1>3, <1>4, <1>5, <1>6

(* What is rejected stays rejected.                                        *)
LEMMA AliveStep ==
  ASSUME NEW s \in ByteSeq, NEW n \in Nat
  PROVE  Alive(s, n + 1) <=> /\ Alive(s, n)
                             /\ LocalOK(s, n)
                             /\ ByteAt(s, n) \notin Doomed
<1>1. Clean(s, n + 1) <=> Clean(s, n) /\ LocalOK(s, n)
  BY DEF Clean
<1>2. (n + 1) - 1 = n
  OBVIOUS
<1>3. LocalOK(s, n) => ByteAt(s, n - 1) \notin Doomed
  <2>1. ByteAt(s, n - 1) \in 0..255
    BY ByteAtType
  <2> QED
    BY <2>1 DEF LocalOK, WindowOK, PairOK, Doomed, Continuation, Lead2, Lead3, Lead4
<1> QED
  BY <1>1, <1>2, <1>3 DEF Alive

LEMMA AliveBefore ==
  ASSUME NEW s \in ByteSeq, NEW n \in Nat, NEW m \in 0..n, Alive(s, n)
  PROVE  Alive(s, m)
<1>1. CASE m = n
  BY <1>1
<1>2. CASE m < n
  <2>1. LocalOK(s, m) /\ Clean(s, m + 1)
    BY <1>2 DEF Alive, Clean
  <2>2. Clean(s, m)
    BY <2>1 DEF Clean
  <2>3. ByteAt(s, m - 1) \notin Doomed
    <3>1. ByteAt(s, m - 1) \in 0..255
      BY ByteAtType
    <3> QED
      BY <2>1, <3>1 DEF LocalOK, WindowOK, PairOK, Doomed, Continuation, Lead2, Lead3, Lead4
  <2> QED
    BY <2>2, <2>3 DEF Alive
<1> QED
  BY <1>1, <1>2

(* The automaton, byte by byte.                                            *)
LEMMA StateStep ==
  ASSUME NEW s \in ByteSeq, NEW n \in Nat
  PROVE  updatestate(StateOf(s, n), ByteAt(s, n)) = StateOf(s, n + 1)
<1>1. /\ ByteAt(s, n) \in 0..255
      /\ ByteAt(s, n - 1) \in 0..255
      /\ ByteAt(s, n - 2) \in 0..255
      /\ ByteAt(s, n - 3) \in 0..255
  BY ByteAtType
<1>2. (n + 1) - 1 = n /\ (n + 1) - 2 = n - 1 /\ (n + 1) - 3 = n - 2
  OBVIOUS
<1>3. CASE ~Alive(s, n)
  <2>1. ~Alive(s, n + 1)
    BY <1>3, AliveStep
  <2>2. updatestate(1, ByteAt(s, n)) = 1
    <3>1. ByteAt(s, n) \in Byte
      BY <1>1 DEF Byte
    <3>2. RowsOf(ByteAt(s, n))
      BY <3>1, Rows
    <3> QED
      BY <3>2 DEF RowsOf
  <2> QED
    BY <1>3, <2>1, <2>2 DEF StateOf, UTF8_REJECT
<1>4. CASE Alive(s, n)
  <2>1. Calm(ByteAt(s, n - 3), ByteAt(s, n - 2), ByteAt(s, n - 1))
    <3>1. Clean(s, n)
      BY <1>4 DEF Alive
    <3> QED
      BY <3>1, BehindClean DEF Calm
  <2>2. ByteAt(s, n - 1) \notin Doomed
    BY <1>4 DEF Alive
  <2>3. updatestate(Due(ByteAt(s, n - 3), ByteAt(s, n - 2), ByteAt(s, n - 1)), ByteAt(s, n)) =
          IF LocalOK(s, n) /\ ByteAt(s, n) \notin Doomed
          THEN Due(ByteAt(s, n - 2), ByteAt(s, n - 1), ByteAt(s, n)) ELSE UTF8_REJECT
    <3>1. LocalOK(s, n) <=> WindowOK(ByteAt(s, n - 3), ByteAt(s, n - 2),
                                     ByteAt(s, n - 1), ByteAt(s, n))
      BY DEF LocalOK
    <3>2. /\ ByteAt(s, n) \in Byte
          /\ ByteAt(s, n - 1) \in Byte
          /\ ByteAt(s, n - 2) \in Byte
          /\ ByteAt(s, n - 3) \in Byte
      BY <1>1 DEF Byte
    <3>3. updatestate(Due(ByteAt(s, n - 3), ByteAt(s, n - 2), ByteAt(s, n - 1)), ByteAt(s, n))
            = DueNext(ByteAt(s, n - 3), ByteAt(s, n - 2), ByteAt(s, n - 1), ByteAt(s, n))
      BY <2>1, <2>2, <3>2, DueStep
    <3> QED
      BY <3>1, <3>3 DEF DueNext
  <2>4. Alive(s, n + 1) <=> LocalOK(s, n) /\ ByteAt(s, n) \notin Doomed
    BY <1>4, AliveStep
  <2> QED
    BY <1>2, <1>4, <2>3, <2>4 DEF StateOf
<1> QED
  BY <1>3, <1>4
-----------------------------------------------------------------------------
(* A part is read as a text of its own, the rest of s from position a.     *)
Rest(s, a) == SubSeq(s, a + 1, Size(s))

LEMMA RestBytes ==
  ASSUME NEW s \in ByteSeq, NEW a \in Nat, a <= Size(s)
  PROVE  /\ Rest(s, a) \in ByteSeq
         /\ Size(Rest(s, a)) = Size(s) - a
         /\ \A m \in Nat : a + m < Size(s) => ByteAt(Rest(s, a), m) = s[a + m + 1]
<1>1. Size(s) \in Nat
  BY SizeType
<1>2. /\ Rest(s, a) \in ByteSeq
      /\ Size(Rest(s, a)) = Size(s) - a
      /\ \A m \in 0..((Size(s) - a) - 1) : ByteAt(Rest(s, a), m) = ByteAt(s, a + m)
  BY <1>1, SegmentBytes DEF Rest
<1>3. ASSUME NEW m \in Nat, a + m < Size(s)
      PROVE  ByteAt(Rest(s, a), m) = s[a + m + 1]
  <2>1. m \in 0..((Size(s) - a) - 1)
    BY <1>1, <1>3
  <2>2. ByteAt(s, a + m) = s[a + m + 1]
    BY <1>1, <1>3 DEF ByteAt
  <2> QED
    BY <1>2, <2>1, <2>2
<1> QED
  BY <1>2, <1>3

(* The first n bytes of the rest.                                          *)
LEMMA RestPrefix ==
  ASSUME NEW s \in ByteSeq, NEW a \in Nat, NEW n \in Nat, a + n <= Size(s)
  PROVE  SubSeq(Rest(s, a), 1, n) = SubSeq(s, a + 1, a + n)
<1> DEFINE t == Rest(s, a)
           u == SubSeq(t, 1, n)
           v == SubSeq(s, a + 1, a + n)
<1>0. Size(s) \in Nat /\ a <= Size(s)
  BY SizeType
<1>a. /\ Size(t) = Size(s) - a /\ t \in ByteSeq
      /\ \A m \in Nat : a + m < Size(s) => ByteAt(t, m) = s[a + m + 1]
  BY <1>0, RestBytes
<1>1. Size(s) \in Nat /\ Size(t) = Size(s) - a /\ t \in ByteSeq
  BY <1>0, <1>a
<1>2. \A k \in 1..n : t[k] = s[a + k] /\ t[k] \in Byte
  <2> SUFFICES ASSUME NEW k \in 1..n
               PROVE  t[k] = s[a + k] /\ t[k] \in Byte
    OBVIOUS
  <2>1. k - 1 \in Nat /\ a + (k - 1) < Size(s) /\ a + (k - 1) + 1 = a + k
        /\ (k - 1) + 1 = k /\ 0 <= k - 1 /\ k - 1 < Size(t) /\ k \in 1..Size(t)
    BY <1>1
  <2>2. ByteAt(t, k - 1) = s[a + k]
    <3>1. ByteAt(t, k - 1) = s[a + (k - 1) + 1]
      BY <1>a, <2>1
    <3> QED
      BY <2>1, <3>1
  <2>3. ByteAt(t, k - 1) = t[k]
    BY <1>1, <2>1 DEF ByteAt
  <2>4. t[k] \in 0..255
    BY <1>1, <2>1, SizeType
  <2> QED
    BY <2>2, <2>3, <2>4 DEF Byte
<1> HIDE DEF t
<1>3. /\ u \in Seq(Byte)
      /\ Len(u) = IF 1 <= n THEN n - 1 + 1 ELSE 0
      /\ \A k \in 1..(n - 1 + 1) : u[k] = t[1 + k - 1]
  <2> HIDE DEF u
  <2>1. u = SubSeq(t, 1, n) /\ 1 \in Int /\ n \in Int /\ \A k \in 1..n : t[k] \in Byte
    BY <1>2 DEF u
  <2> QED
    BY <2>1, SubSeqProperties
<1>4. /\ v \in Seq(Byte)
      /\ Len(v) = IF a + 1 <= a + n THEN a + n - (a + 1) + 1 ELSE 0
      /\ \A k \in 1..(a + n - (a + 1) + 1) : v[k] = s[(a + 1) + k - 1]
  <2> HIDE DEF v
  <2>1. \A k \in (a + 1)..(a + n) : s[k] \in Byte
    <3>1. \A k \in (a + 1)..(a + n) : k \in 1..Size(s)
      BY <1>1
    <3> QED
      BY <3>1, SizeType DEF Byte
  <2>2. v = SubSeq(s, a + 1, a + n) /\ a + 1 \in Int /\ a + n \in Int
    BY DEF v
  <2> QED
    BY <2>1, <2>2, SubSeqProperties
<1> HIDE DEF u, v
<1>5. Len(u) = n /\ Len(v) = n
  BY <1>3, <1>4
<1>6. \A k \in 1..n : u[k] = v[k]
  <2> SUFFICES ASSUME NEW k \in 1..n PROVE u[k] = v[k]
    OBVIOUS
  <2>1. /\ k \in 1..(n - 1 + 1) /\ 1 + k - 1 = k
        /\ k \in 1..(a + n - (a + 1) + 1) /\ (a + 1) + k - 1 = a + k
    OBVIOUS
  <2> QED
    BY <1>2, <1>3, <1>4, <2>1
<1>7. u = v
  BY <1>3, <1>4, <1>5, <1>6, SeqEqual
<1> QED
  BY <1>7 DEF t, u, v

(* The automaton of a part accepts what it has read when that is well      *)
(* formed.                                                                 *)
LEMMA AcceptsWellFormed ==
  ASSUME NEW s \in ByteSeq, NEW a \in Nat, NEW n \in Nat, a + n <= Size(s)
  PROVE  StateOf(Rest(s, a), n) = 0 <=> WellFormed(SubSeq(s, a + 1, a + n))
<1>1. Size(s) \in Nat /\ a <= Size(s) /\ n <= Size(s) - a
  BY SizeType
<1>2. Rest(s, a) \in ByteSeq /\ n <= Size(Rest(s, a))
  BY <1>1, RestBytes
<1>3. StateOf(Rest(s, a), n) = 0 <=> Clean(Rest(s, a), n) /\ ~Open(Rest(s, a), n)
  BY <1>2, StateAccepts
<1>4. WellFormed(SubSeq(Rest(s, a), 1, n)) <=> Clean(Rest(s, a), n) /\ ~Open(Rest(s, a), n)
  BY <1>2, WholePrefix
<1> QED
  BY <1>3, <1>4, RestPrefix

(* A well-formed input does not start with a continuation.                 *)
LEMMA WellFormedStart ==
  ASSUME NEW s \in ByteSeq, WellFormed(s)
  PROVE  ByteAt(s, 0) \notin Continuation
<1>1. LocalOK(s, 0)
  BY WellFormedIsClean
<1>2. ~Open(s, 0)
  BY DEF Open, ByteAt
<1> QED
  BY <1>1, <1>2, WindowAtBoundary

(* A place of a well-formed input where a part may start or end.           *)
LEMMA WellFormedBoundary ==
  ASSUME NEW s \in ByteSeq, WellFormed(s), NEW a \in Nat, ByteAt(s, a) \notin Continuation
  PROVE  ~Open(s, a)
<1>1. LocalOK(s, a)
  BY WellFormedIsClean
<1> QED
  BY <1>1, BoundaryAtLead

(* The parts of a well-formed input are well formed,                       *)
LEMMA PartOfWellFormed ==
  ASSUME NEW s \in ByteSeq, WellFormed(s), NEW a \in Nat, NEW n \in Nat,
         a + n <= Size(s), ByteAt(s, a) \notin Continuation,
         ByteAt(s, a + n) \notin Continuation
  PROVE  StateOf(Rest(s, a), n) = 0
<1>1. ~Open(s, a) /\ ~Open(s, a + n) /\ CleanFrom(s, a, a + n)
  <2>1. a + n \in Nat
    OBVIOUS
  <2> QED
    BY <2>1, WellFormedBoundary, WellFormedIsClean DEF CleanFrom
<1>2. WellFormed(SubSeq(s, a + 1, a + n))
  <2>1. a + n \in Nat /\ a <= a + n
    OBVIOUS
  <2> QED
    BY <1>1, <2>1, WholeSegment
<1> QED
  BY <1>2, AcceptsWellFormed

(* and on no prefix of one does an automaton reject.                       *)
LEMMA AliveInWellFormed ==
  ASSUME NEW s \in ByteSeq, WellFormed(s), NEW a \in Nat, NEW n \in Nat,
         a + n <= Size(s), ByteAt(s, a) \notin Continuation
  PROVE  Alive(Rest(s, a), n)
<1>1. Size(s) \in Nat /\ a <= Size(s) /\ n <= Size(s) - a /\ Size(s) - a \in Nat
      /\ a + (Size(s) - a) = Size(s)
  BY SizeType
<1>2. Rest(s, a) \in ByteSeq
  BY <1>1, RestBytes
<1>3. ByteAt(s, a + (Size(s) - a)) \notin Continuation
  <2>1. ByteAt(s, Size(s)) = 32
    BY <1>1 DEF ByteAt
  <2> QED
    BY <1>1, <2>1 DEF Continuation
<1>4. StateOf(Rest(s, a), Size(s) - a) = 0
  BY <1>1, <1>3, PartOfWellFormed
<1>5. Alive(Rest(s, a), Size(s) - a)
  BY <1>1, <1>2, <1>4, StateAccepts
<1> QED
  BY <1>1, <1>2, <1>5, AliveBefore

(* The parts put together.                                                 *)
LEMMA JoinParts ==
  ASSUME NEW s \in ByteSeq, NEW a \in Nat, NEW n \in Nat, a + n <= Size(s),
         Clean(s, a), ~Open(s, a), StateOf(Rest(s, a), n) = 0
  PROVE  Clean(s, a + n) /\ ~Open(s, a + n)
<1>1. a + n \in Nat /\ a <= a + n
  OBVIOUS
<1>2. WellFormed(SubSeq(s, a + 1, a + n))
  BY AcceptsWellFormed
<1>3. CleanFrom(s, a, a + n) /\ ~Open(s, a + n)
  BY <1>1, <1>2, WholeSegment
<1>4. ASSUME NEW j \in 0..((a + n) - 1) PROVE LocalOK(s, j)
  <2>1. j \in 0..(a - 1) \/ j \in a..((a + n) - 1)
    OBVIOUS
  <2> QED
    BY <1>3, <2>1 DEF Clean, CleanFrom
<1> QED
  BY <1>3, <1>4 DEF Clean

(* dfa, which has one part, ends on what could become well formed.         *)
LEMMA DfaVerdict ==
  ASSUME NEW s \in ByteSeq
  PROVE  StateOf(Rest(s, 0), Size(s)) # 1 <=>
           /\ WellFormedSoFar(s)
           /\ Size(s) > 0 => s[Size(s)] \notin Doomed
<1>1. Size(s) \in Nat /\ s \in Seq(Byte) /\ Len(s) = Size(s)
  BY SizeType DEF ByteSeq, Size
<1>2. Rest(s, 0) = s
  <2>1. SubSeq(s, 1, Len(s)) = s
    BY <1>1, SubSeqFull
  <2>2. 0 + 1 = 1
    OBVIOUS
  <2> QED
    BY <1>1, <2>1, <2>2 DEF Rest
<1>3. StateOf(s, Size(s)) # 1 <=> Alive(s, Size(s))
  BY <1>1, StateAccepts
<1>4. ByteAt(s, Size(s) - 1) \notin Doomed <=> (Size(s) > 0 => s[Size(s)] \notin Doomed)
  <2>1. CASE Size(s) = 0
    BY <2>1 DEF ByteAt, Doomed
  <2>2. CASE Size(s) > 0
    <3>1. ByteAt(s, Size(s) - 1) = s[Size(s)]
      BY <1>1, <2>2 DEF ByteAt
    <3> QED
      BY <2>2, <3>1
  <2> QED
    BY <1>1, <2>1, <2>2
<1> QED
  BY <1>2, <1>3, <1>4, SoFar DEF Alive
-----------------------------------------------------------------------------
(* The encoding of a state: as it is, or times 16 or 256.                  *)
Scale ==
  CASE validator \in {"dfa", "fast"} -> 1
    [] validator = "big"             -> 256
    [] OTHER                         -> 16

LEMMA Encoded ==
  ASSUME NEW x \in 0..8, NEW b
  PROVE  /\ next(Scale * x, b) = Scale * updatestate(x, b)
         /\ Scale * x = reject <=> x = 1
         /\ Scale * x = 0 <=> x = 0
<1>1. CASE validator = "dfa"
  <2>1. Scale = 1 /\ reject = 1
    BY <1>1 DEF Scale, reject, UTF8_REJECT
  <2>2. next(Scale * x, b) = updatestate(Scale * x, b)
    BY <1>1 DEF next
  <2>3. updatestate(x, b) \in Int
    BY DEF updatestate, utf8d_transition, UTF8_REJECT
  <2> HIDE DEF Scale, next, reject
  <2> QED
    BY <2>1, <2>2, <2>3
<1>2. CASE validator = "fast"
  <2>1. Scale = 1 /\ reject = 1
    BY <1>2 DEF Scale, reject, UTF8_REJECT
  <2>2. next(Scale * x, b) = updatestate(Scale * x, b)
    BY <1>2 DEF next, fast_updatestate
  <2>3. updatestate(x, b) \in Int
    BY DEF updatestate, utf8d_transition, UTF8_REJECT
  <2> QED
    BY <2>1, <2>2, <2>3
<1>3. CASE validator = "big"
  <2>1. Scale = 256 /\ reject = 256
    BY <1>3 DEF Scale, reject, UTF8_REJECT
  <2>2. next(Scale * x, b) = 256 * updatestate((256 * x) \div 256, b)
    BY <1>3, <2>1 DEF next, big_updatestate
  <2>3. (256 * x) \div 256 = x
    OBVIOUS
  <2> QED
    BY <2>1, <2>2, <2>3
<1>4. CASE validator \notin {"dfa", "fast", "big"}
  <2>1. Scale = 16 /\ reject = 16
    BY <1>4 DEF Scale, reject, UTF8_REJECT
  <2>2. next(Scale * x, b) = 16 * updatestate((16 * x) \div 16, b)
    BY <1>4, <2>1 DEF next, shiftless_updatestate
  <2>3. (16 * x) \div 16 = x
    OBVIOUS
  <2> QED
    BY <2>1, <2>2, <2>3
<1> QED
  BY <1>1, <1>2, <1>3, <1>4

(* The zero byte behind a part sends an automaton to a state other than    *)
(* UTF8_REJECT when it was in its accepting state, and only then.          *)
LEMMA Finished ==
  ASSUME NEW x \in 0..8
  PROVE  /\ validator = "dfa" => finish(Scale * x) = Scale * x
         /\ validator # "dfa" => /\ x = 0 => finish(Scale * x) = 0
                                 /\ finish(Scale * x) = reject <=> x # 0
<1>1. CASE validator = "dfa"
  BY <1>1 DEF finish
<1>2. CASE validator # "dfa"
  <2>1. finish(Scale * x) = Scale * updatestate(x, 0)
    BY <1>2, Encoded DEF finish
  <2>2. updatestate(x, 0) = IF x = 0 THEN 0 ELSE 1
    <3>1. 0 \in Ascii /\ 0 \notin Continuation
      BY DEF Ascii, Continuation
    <3>2. Due(0, 0, 0) = 0
      BY DEF Due, Lead2, Lead3, UTF8_ACCEPT
    <3>3. x \in {0, 1, 2, 3, 4, 5, 6, 7, 8}
      OBVIOUS
    <3>4. RowsOf(0)
      BY Rows DEF Byte
    <3> QED
      BY <3>1, <3>2, <3>3, <3>4 DEF RowsOf
  <2>3. x = 0 => finish(Scale * x) = 0 /\ finish(Scale * x) # reject
    <3>1. x = 0 => finish(Scale * x) = Scale * 0
      BY <2>1, <2>2
    <3>2. Scale * 0 = 0 /\ Scale * 0 # reject
      BY Encoded
    <3> QED
      BY <3>1, <3>2
  <2>4. x # 0 => finish(Scale * x) = reject
    <3>1. x # 0 => finish(Scale * x) = Scale * 1
      BY <2>1, <2>2
    <3>2. Scale * 1 = reject
      BY Encoded
    <3> QED
      BY <3>1, <3>2
  <2> QED
    BY <1>2, <2>3, <2>4
<1> QED
  BY <1>1, <1>2

LEMMA InputType ==
  ASSUME input \in Inputs
  PROVE  /\ input \in ByteSeq
         /\ Size(input) \in Nat
         /\ len = Size(input)
<1>1. input \in ByteSeq /\ len = Size(input)
  BY InputsAssumption DEF ByteSeq, Size, len
<1> QED
  BY <1>1, SizeType

(* The middle points lie in the input, in order.                           *)
LEMMA CutsType ==
  ASSUME len \in Nat
  PROVE  /\ Len(cuts) \in 0..3
         /\ \A k \in 1..Len(cuts) : cuts[k] \in 0..(len - 1)
         /\ \A k \in 2..Len(cuts) : cuts[k - 1] <= cuts[k]
         /\ Len(cuts) = 0 <=> cuts = <<>>
         /\ validator = "dfa" => Len(cuts) = 0
         /\ validator = "quad" /\ Len(cuts) > 0 => Len(cuts) = 3 /\ cuts[2] = cuts[3]
<1>1. CASE cuts = <<>>
  BY <1>1
<1>2. CASE cuts # <<>>
  <2>1. len >= 4 /\ cuts = middle_points /\ len \in Int
    BY <1>2, SmallAssumption DEF cuts
  <2>2. CASE validator = "double"
    <3>1. cuts = <<len \div 2>>
      BY <2>1, <2>2 DEF middle_points
    <3>2. len \div 2 \in 0..(len - 1)
      BY <2>1
    <3> HIDE DEF cuts
    <3> QED
      BY <2>2, <3>1, <3>2
  <2>3. CASE validator = "three"
    <3>1. cuts = <<len \div 3, (2 * len) \div 3>>
      BY <2>1, <2>3 DEF middle_points
    <3>2. len \div 3 \in 0..(len - 1) /\ (2 * len) \div 3 \in 0..(len - 1)
          /\ len \div 3 <= (2 * len) \div 3
      BY <2>1
    <3> QED
      BY <2>3, <3>1, <3>2
  <2>4. CASE validator = "quad"
    <3>1. cuts = <<len \div 4, len \div 2, len \div 2>>
      BY <2>1, <2>4 DEF middle_points
    <3>2. len \div 4 \in 0..(len - 1) /\ len \div 2 \in 0..(len - 1)
          /\ len \div 4 <= len \div 2
      BY <2>1
    <3> QED
      BY <2>4, <3>1, <3>2
  <2>5. validator \in {"double", "three", "quad"}
    BY <1>2, <2>1 DEF middle_points
  <2> QED
    BY <2>2, <2>3, <2>4, <2>5
<1> QED
  BY <1>1, <1>2
-----------------------------------------------------------------------------
(***************************************************************************)
(* The inductive invariant.  The starts found so far are the last leading  *)
(* bytes at or before their middle points: so the third and the fourth     *)
(* part of quad start at the same place, the shortest run is empty, and    *)
(* the tail loop of its first part ends where it should.                   *)
(***************************************************************************)
StartsOK ==
  /\ Len(starts) \in 1..(Len(cuts) + 1)
  /\ starts \in Seq(Nat)
  /\ starts[1] = 0
  /\ \A k \in 2..Len(starts) :
       /\ starts[k] \in starts[k - 1]..cuts[k - 1]
       /\ ByteAt(input, starts[k]) \notin Continuation
       /\ \A j \in (starts[k] + 1)..cuts[k - 1] : ByteAt(input, j) \in Continuation

(* While a middle point backtracks.                                        *)
Seeking ==
  /\ Len(starts) <= Len(cuts)
  /\ seek \in starts[Len(starts)]..cuts[Len(starts)]
  /\ \A j \in (seek + 1)..cuts[Len(starts)] : ByteAt(input, j) \in Continuation
  /\ i = 0
  /\ part = 1
  /\ \A k \in Parts : state[k] = 0

(* Part k has been read up to its n-th byte.                               *)
Tracked(k, n) == state[k] = Scale * StateOf(Rest(input, starts[k]), n)

InLockstep ==
  /\ Len(starts) = Len(cuts) + 1
  /\ part = 1
  /\ i \in 0..smallest_run
  /\ \A k \in Parts : Tracked(k, i)

(* The parts before the one that is read are well formed, and so is all    *)
(* that they hold together.                                                *)
InTail ==
  /\ Len(starts) = Len(cuts) + 1
  /\ i \in smallest_run..run(part)
  /\ Tracked(part, i)
  /\ \A k \in Parts : k > part => Tracked(k, smallest_run)
  /\ \A k \in Parts : k < part => /\ state[k] = 0
                                  /\ StateOf(Rest(input, starts[k]), run(k)) = 0
  /\ Clean(input, starts[part])
  /\ ~Open(input, starts[part])

(* What the function that was called should accept.                        *)
Acceptable ==
  IF validator = "dfa" THEN StateOf(Rest(input, 0), Size(input)) # 1
                       ELSE WellFormed(input)

Typed ==
  /\ validator \in Validators
  /\ input \in Inputs
  /\ pc \in {"cut", "lockstep", "tail", "returned"}
  /\ i \in 0..len
  /\ part \in Parts
  /\ DOMAIN state = Parts
  /\ result \in {"none", "SUCCESS", "UTF8_ERROR"}

IInv ==
  /\ Typed
  /\ StartsOK
  /\ pc = "cut" => Seeking
  /\ pc = "lockstep" => InLockstep
  /\ pc = "tail" => InTail
  /\ pc = "returned" => (result = "SUCCESS" <=> Acceptable)

(* Where the parts lie, once all of them are found.                        *)
LEMMA PartsType ==
  ASSUME Typed, StartsOK, Len(starts) = Len(cuts) + 1, NEW k \in Parts
  PROVE  /\ starts[k] \in Nat
         /\ run(k) \in Nat
         /\ starts[k] + run(k) = end(k)
         /\ end(k) <= len
         /\ k = Len(cuts) + 1 => end(k) = len
         /\ k < Len(cuts) + 1 => end(k) = starts[k + 1] /\ k + 1 \in Parts
         /\ ByteAt(input, end(k)) \notin Continuation
         /\ k # 1 => ByteAt(input, starts[k]) \notin Continuation
<1>1. len \in Nat /\ input \in ByteSeq /\ len = Size(input)
  BY InputType DEF Typed
<1>2. Len(cuts) \in 0..3 /\ \A m \in 1..Len(cuts) : cuts[m] \in 0..(len - 1)
  BY <1>1, CutsType
<1>3. k \in 1..(Len(cuts) + 1) /\ k \in Int
  BY <1>2 DEF Parts
<1>4. \A m \in 1..(Len(cuts) + 1) : starts[m] \in Nat /\ starts[m] <= len
  <2> SUFFICES ASSUME NEW m \in 1..(Len(cuts) + 1)
               PROVE  starts[m] \in Nat /\ starts[m] <= len
    OBVIOUS
  <2>1. starts[m] \in Nat
    BY ElementOfSeq DEF StartsOK
  <2>2. CASE m = 1
    BY <1>1, <2>2 DEF StartsOK
  <2>3. CASE m > 1
    <3>1. m \in 2..Len(starts) /\ m - 1 \in 1..Len(cuts)
      BY <1>2, <2>3
    <3>2. starts[m] <= cuts[m - 1] /\ cuts[m - 1] <= len - 1 /\ cuts[m - 1] \in Int
      BY <1>1, <1>2, <2>1, <3>1 DEF StartsOK
    <3> QED
      BY <1>1, <2>1, <3>2
  <2> QED
    BY <1>2, <2>1, <2>2, <2>3
<1>5. k # 1 => ByteAt(input, starts[k]) \notin Continuation
  <2>1. k # 1 => k \in 2..Len(starts)
    BY <1>2, <1>3
  <2> QED
    BY <2>1 DEF StartsOK
<1>6. CASE k = Len(cuts) + 1
  <2>1. end(k) = len
    BY <1>6 DEF end
  <2>2. ByteAt(input, len) \notin Continuation
    BY <1>1 DEF ByteAt, Continuation
  <2> QED
    BY <1>1, <1>2, <1>3, <1>4, <1>5, <1>6, <2>1, <2>2 DEF run
<1>7. CASE k # Len(cuts) + 1
  <2>1. end(k) = starts[k + 1]
    BY <1>7 DEF end
  <2>2. k + 1 \in 2..Len(starts) /\ k + 1 \in Parts /\ (k + 1) - 1 = k
        /\ k + 1 \in 1..(Len(cuts) + 1)
    BY <1>2, <1>3, <1>7 DEF Parts
  <2>3. starts[k] <= starts[k + 1] /\ ByteAt(input, starts[k + 1]) \notin Continuation
    <3>1. /\ starts[k + 1] \in starts[(k + 1) - 1]..cuts[(k + 1) - 1]
          /\ ByteAt(input, starts[k + 1]) \notin Continuation
      BY <2>2 DEF StartsOK
    <3>2. starts[k + 1] \in Nat /\ starts[k] \in Nat /\ k \in 1..Len(cuts)
      BY <1>2, <1>3, <1>4, <1>7, <2>2
    <3>3. cuts[k] \in Int
      BY <1>1, <1>2, <3>2
    <3> QED
      BY <2>2, <3>1, <3>2, <3>3
  <2> QED
    BY <1>1, <1>2, <1>3, <1>4, <1>5, <1>7, <2>1, <2>2, <2>3 DEF run
<1> QED
  BY <1>6, <1>7

(* The loop in lockstep ends within every part, and the tail loop of each  *)
(* at the end of it.                                                       *)
LEMMA SmallestRun ==
  ASSUME Typed, StartsOK, Len(starts) = Len(cuts) + 1
  PROVE  /\ smallest_run \in Nat
         /\ \A k \in Parts : smallest_run <= run(k)
         /\ \A k \in Parts : tail_end(k) = run(k)
<1>1. len \in Nat
  BY InputType DEF Typed
<1>2. /\ Len(cuts) \in 0..3
      /\ validator = "quad" /\ Len(cuts) > 0 => Len(cuts) = 3 /\ cuts[2] = cuts[3]
  BY <1>1, CutsType
<1>3. \A k \in Parts : run(k) \in Nat
  BY PartsType
<1> DEFINE T == {run(k) : k \in Parts}
<1>4. PICK d \in T : \A m \in T : d <= m
  <2>1. T \in SUBSET Nat
    BY <1>3
  <2>2. 1 \in Parts
    BY <1>2 DEF Parts
  <2>3. T # {}
    BY <2>2
  <2> HIDE DEF T
  <2> QED
    BY <2>1, <2>3, LeastOf
<1>5. smallest_run \in T /\ \A m \in T : smallest_run <= m
  <2>1. smallest_run = CHOOSE x \in T : \A y \in T : x <= y
    BY DEF smallest_run, Min
  <2> HIDE DEF T
  <2> QED
    BY <1>4, <2>1
<1>6. smallest_run \in Nat /\ \A k \in Parts : smallest_run <= run(k)
  BY <1>3, <1>5
<1>7. ASSUME validator = "quad", Len(cuts) > 0
      PROVE  smallest_run = 0
  <2>1. Len(cuts) = 3 /\ cuts[2] = cuts[3]
    BY <1>2, <1>7
  <2>2. 3 \in Parts /\ 4 \in Parts /\ Len(starts) = 4
    BY <2>1 DEF Parts
  <2>3. starts[3] \in Nat /\ starts[4] \in Nat
    BY <2>2, PartsType
  <2>4. /\ 3 \in 2..Len(starts) /\ 4 \in 2..Len(starts)
        /\ 4 - 1 = 3 /\ 3 - 1 = 2
    <3>1. 3 \in 2..4 /\ 4 \in 2..4 /\ 4 - 1 = 3 /\ 3 - 1 = 2
      OBVIOUS
    <3> QED
      BY <2>2, <3>1
  <2>5. /\ starts[4] \in starts[3]..cuts[3]
        /\ ByteAt(input, starts[4]) \notin Continuation
        /\ \A j \in (starts[3] + 1)..cuts[2] : ByteAt(input, j) \in Continuation
    BY <2>4 DEF StartsOK
  <2>6. starts[4] = starts[3]
    <3>1. starts[4] \notin (starts[3] + 1)..cuts[3]
      BY <2>1, <2>5
    <3>2. cuts[3] \in Int
      <4>1. 3 \in 1..Len(cuts)
        BY <2>1
      <4> QED
        BY <1>1, <4>1, CutsType
    <3> QED
      BY <2>3, <2>5, <3>1, <3>2
  <2>7. run(3) = 0
    <3>1. end(3) = starts[4]
      BY <2>1 DEF end
    <3> QED
      BY <2>3, <2>6, <3>1 DEF run
  <2> QED
    BY <1>6, <2>2, <2>7
<1>8. ASSUME NEW k \in Parts PROVE tail_end(k) = run(k)
  <2>1. run(k) \in Nat
    BY <1>3
  <2> QED
    BY <1>7, <2>1 DEF tail_end
<1> QED
  BY <1>6, <1>8

(* An automaton that rejects condemns the input.                           *)
LEMMA RejectedPart ==
  ASSUME Typed, StartsOK, Len(starts) = Len(cuts) + 1, NEW k \in Parts,
         NEW n \in 0..run(k), StateOf(Rest(input, starts[k]), n) = 1
  PROVE  ~Acceptable
<1>1. len \in Nat /\ input \in ByteSeq /\ len = Size(input)
  BY InputType DEF Typed
<1>2. /\ starts[k] \in Nat /\ run(k) \in Nat /\ starts[k] + run(k) = end(k) /\ end(k) <= len
      /\ k # 1 => ByteAt(input, starts[k]) \notin Continuation
  BY PartsType
<1>3. n \in Nat /\ starts[k] + n <= Size(input) /\ starts[k] <= Size(input)
  BY <1>1, <1>2
<1>4. Rest(input, starts[k]) \in ByteSeq
  BY <1>1, <1>2, <1>3, RestBytes
<1>5. ~Alive(Rest(input, starts[k]), n)
  BY <1>3, <1>4, StateAccepts
<1>6. CASE validator = "dfa"
  <2>1. k = 1 /\ starts[k] = 0
    BY <1>1, <1>6, CutsType DEF Parts, StartsOK
  <2>2. ~Alive(Rest(input, 0), Size(input))
    <3>1. n \in 0..Size(input)
      BY <1>1, <1>3, <2>1
    <3> QED
      BY <1>1, <1>4, <1>5, <2>1, <3>1, AliveBefore
  <2> QED
    BY <1>1, <1>4, <1>6, <2>1, <2>2, StateAccepts DEF Acceptable
<1>7. CASE validator # "dfa"
  <2>1. SUFFICES ASSUME WellFormed(input) PROVE FALSE
    BY <1>7 DEF Acceptable
  <2>2. ByteAt(input, starts[k]) \notin Continuation
    BY <1>1, <1>2, <2>1, WellFormedStart DEF StartsOK
  <2> QED
    BY <1>1, <1>2, <1>3, <1>5, <2>1, <2>2, AliveInWellFormed
<1> QED
  BY <1>6, <1>7

(* So does one that is not in its accepting state where its part ends.     *)
LEMMA UnfinishedPart ==
  ASSUME Typed, StartsOK, Len(starts) = Len(cuts) + 1, NEW k \in Parts,
         validator # "dfa", StateOf(Rest(input, starts[k]), run(k)) # 0
  PROVE  ~Acceptable
<1>1. len \in Nat /\ input \in ByteSeq /\ len = Size(input)
  BY InputType DEF Typed
<1>2. /\ starts[k] \in Nat /\ run(k) \in Nat /\ starts[k] + run(k) = end(k) /\ end(k) <= len
      /\ k # 1 => ByteAt(input, starts[k]) \notin Continuation
      /\ ByteAt(input, end(k)) \notin Continuation
  BY PartsType
<1>3. SUFFICES ASSUME WellFormed(input) PROVE FALSE
  BY DEF Acceptable
<1>4. ByteAt(input, starts[k]) \notin Continuation
  BY <1>1, <1>2, <1>3, WellFormedStart DEF StartsOK
<1>5. starts[k] + run(k) <= Size(input) /\ ByteAt(input, starts[k] + run(k)) \notin Continuation
  BY <1>1, <1>2
<1> QED
  BY <1>1, <1>2, <1>3, <1>4, <1>5, PartOfWellFormed
-----------------------------------------------------------------------------
(* When all parts are found, the loop in lockstep has a length, and each   *)
(* automaton is in its first state.                                        *)
LEMMA AtTheStart ==
  Typed /\ StartsOK /\ Len(starts) = Len(cuts) + 1 =>
    /\ smallest_run \in Nat
    /\ \A k \in Parts : Scale * StateOf(Rest(input, starts[k]), 0) = 0
<1> SUFFICES ASSUME Typed, StartsOK, Len(starts) = Len(cuts) + 1
             PROVE  /\ smallest_run \in Nat
                    /\ \A k \in Parts : Scale * StateOf(Rest(input, starts[k]), 0) = 0
  OBVIOUS
<1>1. smallest_run \in Nat
  BY SmallestRun
<1>2. ASSUME NEW k \in Parts
      PROVE  Scale * StateOf(Rest(input, starts[k]), 0) = 0
  <2>1. len \in Nat /\ input \in ByteSeq /\ len = Size(input)
    BY InputType DEF Typed
  <2>2. starts[k] \in Nat /\ starts[k] <= Size(input)
    BY <2>1, PartsType
  <2>3. StateOf(Rest(input, starts[k]), 0) = 0
    BY <2>1, <2>2, RestBytes, StateAccepts
  <2>4. Scale * 0 = 0
    BY Encoded
  <2> QED
    BY <2>3, <2>4
<1> QED
  BY <1>1, <1>2

(* A part that reads its next byte stays tracked.                          *)
LEMMA PartReads ==
  ASSUME Typed, StartsOK, Len(starts) = Len(cuts) + 1, NEW k \in Parts,
         NEW n \in Nat, n < run(k), Tracked(k, n)
  PROVE  /\ next(state[k], byte(k, n)) = Scale * StateOf(Rest(input, starts[k]), n + 1)
         /\ next(state[k], byte(k, n)) = reject <=>
              StateOf(Rest(input, starts[k]), n + 1) = 1
<1>1. len \in Nat /\ input \in ByteSeq /\ len = Size(input)
  BY InputType DEF Typed
<1>2. starts[k] \in Nat /\ run(k) \in Nat /\ starts[k] + run(k) = end(k) /\ end(k) <= len
  BY PartsType
<1>3. starts[k] + n < Size(input) /\ starts[k] <= Size(input)
  BY <1>1, <1>2
<1>4. Rest(input, starts[k]) \in ByteSeq
  BY <1>1, <1>2, <1>3, RestBytes
<1>5. byte(k, n) = ByteAt(Rest(input, starts[k]), n)
  BY <1>1, <1>2, <1>3, RestBytes DEF byte, c
<1>6. StateOf(Rest(input, starts[k]), n) \in 0..8
      /\ StateOf(Rest(input, starts[k]), n + 1) \in 0..8
  BY <1>4, StateAccepts
<1>7. updatestate(StateOf(Rest(input, starts[k]), n), byte(k, n))
        = StateOf(Rest(input, starts[k]), n + 1)
  BY <1>4, <1>5, StateStep
<1>8. next(state[k], byte(k, n)) = Scale * StateOf(Rest(input, starts[k]), n + 1)
  BY <1>6, <1>7, Encoded DEF Tracked
<1> QED
  BY <1>6, <1>8, Encoded

(* As long as no part is found, all that is said of the parts stays.       *)
LEMMA PartsStay ==
  ASSUME UNCHANGED <<validator, input, starts>>
  PROVE  /\ len' = len /\ cuts' = cuts /\ Parts' = Parts /\ Scale' = Scale
         /\ smallest_run' = smallest_run
         /\ \A k : run(k)' = run(k)
         /\ Acceptable' <=> Acceptable
         /\ StartsOK' <=> StartsOK
         /\ reject' = reject
<1>1. len' = len /\ Scale' = Scale /\ reject' = reject
  BY DEF len, Scale, reject
<1>2. middle_points' = middle_points
  BY <1>1 DEF middle_points
<1>3. cuts' = cuts
  BY <1>1, <1>2 DEF cuts
<1>4. Parts' = Parts
  BY <1>3 DEF Parts
<1>5. \A k : end(k)' = end(k)
  BY <1>1, <1>3 DEF end
<1>6. \A k : run(k)' = run(k)
  BY <1>5 DEF run
<1>7. smallest_run' = smallest_run
  BY <1>4, <1>6 DEF smallest_run
<1>8. Acceptable' <=> Acceptable
  BY DEF Acceptable
<1>9. StartsOK' <=> StartsOK
  BY <1>3 DEF StartsOK
<1> QED
  BY <1>1, <1>3, <1>4, <1>6, <1>7, <1>8, <1>9

(* Every call begins in the invariant.                                     *)
LEMMA InitIInv == Init => IInv
<1> SUFFICES ASSUME Init PROVE IInv
  OBVIOUS
<1>1. len \in Nat /\ input \in ByteSeq /\ len = Size(input)
  BY InputType DEF Init
<1>2. Len(cuts) \in 0..3 /\ (Len(cuts) = 0 <=> cuts = <<>>)
      /\ \A k \in 1..Len(cuts) : cuts[k] \in 0..(len - 1)
  BY <1>1, CutsType
<1>3. starts = <<0>> /\ Len(starts) = 1 /\ starts[1] = 0
  BY DEF Init
<1>4. Typed
  BY <1>1, <1>2 DEF Init, Typed, Parts
<1>5. StartsOK
  BY <1>2, <1>3 DEF StartsOK
<1>6. \A k \in Parts : state[k] = 0
  BY DEF Init, UTF8_ACCEPT
<1>7. pc = "cut" => Seeking
  <2> SUFFICES ASSUME pc = "cut" PROVE Seeking
    OBVIOUS
  <2>1. cuts # <<>> /\ seek = cuts[1] /\ i = 0 /\ part = 1
    BY DEF Init
  <2>2. Len(cuts) >= 1 /\ cuts[1] \in Nat
    BY <1>1, <1>2, <2>1
  <2> QED
    BY <1>3, <1>6, <2>1, <2>2 DEF Seeking
<1>8. pc = "lockstep" => InLockstep
  <2> SUFFICES ASSUME pc = "lockstep" PROVE InLockstep
    OBVIOUS
  <2>1. cuts = <<>> /\ i = 0 /\ part = 1
    BY DEF Init
  <2>2. Len(starts) = Len(cuts) + 1
    BY <1>2, <1>3, <2>1
  <2> QED
    BY <1>4, <1>5, <1>6, <2>1, <2>2, AtTheStart DEF InLockstep, Tracked
<1>9. pc \in {"cut", "lockstep"}
  BY DEF Init
<1> QED
  BY <1>4, <1>5, <1>7, <1>8, <1>9 DEF IInv

(* What a middle point is compared with is a byte of the input.            *)
LEMMA SeekType ==
  ASSUME Typed, StartsOK, Seeking
  PROVE  /\ starts[Len(starts)] \in Nat
         /\ Last(starts) = starts[Len(starts)]
         /\ cuts[Len(starts)] \in 0..(len - 1)
         /\ seek \in 0..(len - 1)
         /\ c(seek) = ByteAt(input, seek)
<1>1. len \in Nat /\ input \in ByteSeq /\ len = Size(input)
  BY InputType DEF Typed
<1>2. Len(cuts) \in 0..3 /\ \A k \in 1..Len(cuts) : cuts[k] \in 0..(len - 1)
  BY <1>1, CutsType
<1>3. Len(starts) \in 1..Len(cuts)
  BY <1>2 DEF StartsOK, Seeking
<1>4. starts[Len(starts)] \in Nat
  BY <1>2, <1>3, ElementOfSeq DEF StartsOK
<1>5. cuts[Len(starts)] \in 0..(len - 1)
  BY <1>2, <1>3
<1>6. seek \in 0..(len - 1)
  BY <1>1, <1>4, <1>5 DEF Seeking
<1>7. c(seek) = ByteAt(input, seek)
  BY <1>1, <1>6 DEF c, ByteAt
<1> QED
  BY <1>4, <1>5, <1>6, <1>7 DEF Last

(* The search for the start of a part.                                     *)
LEMMA BacktrackIInv == IInv /\ Backtrack => IInv'
<1> SUFFICES ASSUME IInv, Backtrack PROVE IInv'
  OBVIOUS
<1>1. Typed /\ StartsOK /\ Seeking /\ len \in Nat
  BY InputType DEF IInv, Backtrack, Typed
<1>2. UNCHANGED <<validator, input, starts, pc, i, part, state, result>>
      /\ seek' = seek - 1 /\ pc = "cut"
  BY DEF Backtrack
<1>3. len' = len /\ cuts' = cuts /\ Parts' = Parts /\ (StartsOK' <=> StartsOK)
  BY <1>2, PartsStay
<1>4. Typed'
  BY <1>1, <1>2, <1>3 DEF Typed
<1>5. Seeking'
  <2> DEFINE a == starts[Len(starts)]
             z == cuts[Len(starts)]
  <2>1. a \in Nat /\ z \in Nat /\ seek \in Nat /\ Last(starts) = a
        /\ c(seek) = ByteAt(input, seek)
    BY <1>1, SeekType
  <2>2. seek # a /\ ByteAt(input, seek) \in Continuation
    BY <2>1 DEF Backtrack, is_leading
  <2>3. seek \in a..z /\ \A j \in (seek + 1)..z : ByteAt(input, j) \in Continuation
    BY <1>1 DEF Seeking
  <2> HIDE DEF a, z
  <2>4. seek - 1 \in a..z
    BY <2>1, <2>2, <2>3
  <2>5. \A j \in ((seek - 1) + 1)..z : ByteAt(input, j) \in Continuation
    <3> SUFFICES ASSUME NEW j \in ((seek - 1) + 1)..z
                 PROVE  ByteAt(input, j) \in Continuation
      OBVIOUS
    <3>1. j = seek \/ j \in (seek + 1)..z
      BY <2>1
    <3> QED
      BY <2>2, <2>3, <3>1
  <2> USE DEF a, z
  <2> QED
    BY <1>1, <1>2, <1>3, <2>4, <2>5 DEF Seeking
<1> QED
  BY <1>1, <1>2, <1>3, <1>4, <1>5 DEF IInv

LEMMA NoLeadingByteIInv == IInv /\ NoLeadingByte => IInv'
<1> SUFFICES ASSUME IInv, NoLeadingByte PROVE IInv'
  OBVIOUS
<1>1. Typed /\ StartsOK /\ Seeking /\ len \in Nat /\ input \in ByteSeq
  BY InputType DEF IInv, NoLeadingByte, Typed
<1>2. UNCHANGED <<validator, input, starts, seek, i, part, state>>
      /\ pc' = "returned" /\ result' = "UTF8_ERROR"
  BY DEF NoLeadingByte, return
<1>3. /\ len' = len /\ cuts' = cuts /\ Parts' = Parts /\ (StartsOK' <=> StartsOK)
      /\ Acceptable' <=> Acceptable
  BY <1>2, PartsStay
<1>4. Typed'
  BY <1>1, <1>2, <1>3 DEF Typed
<1>5. seek = starts[Len(starts)] /\ ByteAt(input, seek) \in Continuation
  BY <1>1, SeekType DEF NoLeadingByte, is_leading
<1>6. Len(starts) \in 1..Len(cuts) /\ Len(cuts) \in 0..3
  BY <1>1, CutsType DEF StartsOK, Seeking
<1>7. Len(starts) = 1
  <2> DEFINE L == Len(starts)
  <2>1. L # 1 => L \in 2..L
    <3>1. L \in Nat /\ L >= 1
      BY <1>6
    <3> HIDE DEF L
    <3> QED
      BY <3>1
  <2> QED
    BY <1>1, <1>5, <2>1 DEF StartsOK
<1>8. ByteAt(input, 0) \in Continuation
  BY <1>1, <1>5, <1>7 DEF StartsOK
<1>9. validator # "dfa"
  BY <1>1, <1>6, CutsType
<1>10. ~Acceptable
  BY <1>1, <1>8, <1>9, WellFormedStart DEF Acceptable
<1> QED
  BY <1>1, <1>2, <1>3, <1>4, <1>10 DEF IInv

LEMMA CutIInv == IInv /\ Cut => IInv'
<1> SUFFICES ASSUME IInv, Cut PROVE IInv'
  OBVIOUS
<1> DEFINE L == Len(starts)
<1>1. Typed /\ StartsOK /\ Seeking /\ len \in Nat /\ input \in ByteSeq
  BY InputType DEF IInv, Cut, Typed
<1>2. UNCHANGED <<validator, input, i, part, state, result>>
      /\ pc = "cut" /\ starts' = Append(starts, seek)
  BY DEF Cut
<1>3. len' = len /\ cuts' = cuts /\ Parts' = Parts
  <2>1. len' = len
    BY <1>2 DEF len
  <2>2. middle_points' = middle_points
    BY <1>2, <2>1 DEF middle_points
  <2> QED
    BY <2>1, <2>2 DEF cuts, Parts
<1>4. /\ starts[L] \in Nat /\ cuts[L] \in 0..(len - 1) /\ seek \in 0..(len - 1)
      /\ ByteAt(input, seek) \notin Continuation
  BY <1>1, SeekType DEF Cut, is_leading
<1>5. /\ L \in 1..Len(cuts) /\ Len(cuts) \in 0..3
      /\ \A k \in 1..Len(cuts) : cuts[k] \in 0..(len - 1)
      /\ \A k \in 2..Len(cuts) : cuts[k - 1] <= cuts[k]
  BY <1>1, CutsType DEF StartsOK, Seeking
<1>6. /\ starts' \in Seq(Nat) /\ Len(starts') = L + 1
      /\ \A k \in 1..L : starts'[k] = starts[k]
      /\ starts'[L + 1] = seek
  <2>1. starts \in Seq(Nat) /\ seek \in Nat
    BY <1>1, <1>4 DEF StartsOK
  <2> QED
    BY <1>2, <2>1
<1>7. StartsOK'
  <2>1. Len(starts') \in 1..(Len(cuts') + 1) /\ starts'[1] = 0
    BY <1>1, <1>3, <1>5, <1>6 DEF StartsOK
  <2>2. ASSUME NEW k \in 2..Len(starts')
        PROVE  /\ starts'[k] \in starts'[k - 1]..cuts'[k - 1]
               /\ ByteAt(input', starts'[k]) \notin Continuation
               /\ \A j \in (starts'[k] + 1)..cuts'[k - 1] : ByteAt(input', j) \in Continuation
    <3>1. CASE k = L + 1
      <4>1. starts'[k] = seek /\ k - 1 = L /\ starts'[k - 1] = starts[L]
        BY <1>5, <1>6, <3>1
      <4> QED
        BY <1>1, <1>2, <1>3, <1>4, <4>1 DEF Seeking
    <3>2. CASE k # L + 1
      <4>1. k \in 2..L /\ k - 1 \in 1..L /\ k \in 1..L
        BY <1>5, <1>6, <3>2
      <4>2. starts'[k] = starts[k] /\ starts'[k - 1] = starts[k - 1]
        BY <1>6, <4>1
      <4> QED
        BY <1>1, <1>2, <1>3, <4>1, <4>2 DEF StartsOK
    <3> QED
      BY <3>1, <3>2
  <2> QED
    BY <1>6, <2>1, <2>2 DEF StartsOK
<1>8. Typed' /\ (\A k \in Parts' : state'[k] = 0) /\ i' = 0 /\ part' = 1
  <2>1. pc' \in {"cut", "lockstep"}
    BY <1>2 DEF Cut
  <2> QED
    BY <1>1, <1>2, <1>3, <2>1 DEF Typed, Seeking
<1>9. CASE L = Len(cuts)
  <2>1. pc' = "lockstep"
    BY <1>9 DEF Cut
  <2>2. Len(starts') = Len(cuts') + 1
    BY <1>3, <1>6, <1>9
  <2>3. smallest_run' \in Nat
        /\ \A k \in Parts' : Scale' * StateOf(Rest(input', starts'[k]), 0) = 0
    <3>1. (Typed /\ StartsOK /\ Len(starts) = Len(cuts) + 1)' =>
            (/\ smallest_run \in Nat
             /\ \A k \in Parts : Scale * StateOf(Rest(input, starts[k]), 0) = 0)'
      BY AtTheStart, PTL
    <3> QED
      BY <1>7, <1>8, <2>2, <3>1
  <2>4. InLockstep'
    BY <1>8, <2>2, <2>3 DEF InLockstep, Tracked
  <2> QED
    BY <1>7, <1>8, <2>1, <2>4 DEF IInv
<1>10. CASE L # Len(cuts)
  <2>1. pc' = "cut" /\ seek' = cuts[L + 1]
    BY <1>2, <1>10 DEF Cut
  <2>2. L + 1 \in 2..Len(cuts) /\ L + 1 \in 1..Len(cuts) /\ (L + 1) - 1 = L
    BY <1>5, <1>10
  <2>3. cuts[L] <= cuts[L + 1] /\ cuts[L + 1] \in Nat
    <3>1. cuts[(L + 1) - 1] <= cuts[L + 1]
      BY <1>5, <2>2
    <3> QED
      BY <1>1, <1>5, <2>2, <3>1
  <2>4. seek \in starts[L]..cuts[L]
    BY <1>1 DEF Seeking
  <2>5. seek <= cuts[L + 1]
    BY <1>4, <2>3, <2>4
  <2>6. seek' \in starts'[Len(starts')]..cuts'[Len(starts')]
        /\ \A j \in (seek' + 1)..cuts'[Len(starts')] : ByteAt(input', j) \in Continuation
    <3>1. starts'[Len(starts')] = seek /\ cuts'[Len(starts')] = seek'
      BY <1>3, <1>6, <2>1
    <3>2. seek' \in Nat /\ seek <= seek' /\ seek \in Nat
      BY <1>4, <2>1, <2>3, <2>5
    <3> DEFINE w == seek'
    <3>3. w \in Nat /\ seek <= w
      BY <3>2
    <3> HIDE DEF w
    <3>4. w \in seek..w /\ \A j \in (w + 1)..w : FALSE
      BY <3>2, <3>3
    <3> QED
      BY <3>1, <3>4 DEF w
  <2>7. Len(starts') <= Len(cuts')
    BY <1>3, <1>6, <2>2
  <2> QED
    BY <1>7, <1>8, <2>1, <2>6, <2>7 DEF IInv, Seeking
<1> QED
  BY <1>9, <1>10

-----------------------------------------------------------------------------
(* The automata read.                                                      *)
LEMMA LockstepIInv == IInv /\ Lockstep => IInv'
<1> SUFFICES ASSUME IInv, Lockstep PROVE IInv'
  OBVIOUS
<1>1. Typed /\ StartsOK /\ InLockstep /\ len \in Nat
  BY InputType DEF IInv, Lockstep, Typed
<1>2. /\ UNCHANGED <<validator, input, starts, seek, part>>
      /\ i < smallest_run
      /\ state' = [k \in Parts |-> next(state[k], byte(k, i))]
  BY DEF Lockstep
<1>3. /\ len' = len /\ cuts' = cuts /\ Parts' = Parts /\ Scale' = Scale
      /\ smallest_run' = smallest_run /\ reject' = reject
      /\ (Acceptable' <=> Acceptable) /\ (StartsOK' <=> StartsOK)
  BY <1>2, PartsStay
<1>4. Len(starts) = Len(cuts) + 1 /\ i \in Nat /\ part = 1
      /\ \A k \in Parts : Tracked(k, i)
  BY <1>1 DEF InLockstep, Typed
<1>5. smallest_run \in Nat /\ \A k \in Parts : smallest_run <= run(k) /\ run(k) \in Nat
  BY <1>1, <1>4, SmallestRun, PartsType
<1>6. \A k \in Parts :
        /\ state'[k] = Scale * StateOf(Rest(input, starts[k]), i + 1)
        /\ state'[k] = reject <=> StateOf(Rest(input, starts[k]), i + 1) = 1
  <2> SUFFICES ASSUME NEW k \in Parts
               PROVE  /\ state'[k] = Scale * StateOf(Rest(input, starts[k]), i + 1)
                      /\ state'[k] = reject <=> StateOf(Rest(input, starts[k]), i + 1) = 1
    OBVIOUS
  <2>1. state'[k] = next(state[k], byte(k, i))
    BY <1>2
  <2>2. i < run(k) /\ Tracked(k, i)
    BY <1>2, <1>4, <1>5
  <2> QED
    BY <1>1, <1>4, <2>1, <2>2, PartReads
<1>7. CASE \E k \in Parts : state'[k] = reject
  <2>1. PICK k \in Parts : StateOf(Rest(input, starts[k]), i + 1) = 1
    BY <1>6, <1>7
  <2>2. i + 1 \in 0..run(k)
    BY <1>2, <1>4, <1>5
  <2>3. ~Acceptable
    BY <1>1, <1>4, <2>1, <2>2, RejectedPart
  <2>4. (\E m \in Parts : state'[m] = reject') /\ pc' = "returned"
        /\ result' = "UTF8_ERROR" /\ i' = i
    BY <1>3, <1>7 DEF Lockstep, return
  <2>5. Typed'
    BY <1>1, <1>2, <1>3, <2>4 DEF Typed
  <2> QED
    BY <1>1, <1>3, <2>3, <2>4, <2>5 DEF IInv
<1>8. CASE ~\E k \in Parts : state'[k] = reject
  <2>1. i' = i + 1 /\ pc' = "lockstep" /\ result' = result
    BY <1>8 DEF Lockstep
  <2>2. i + 1 \in 0..smallest_run
    BY <1>2, <1>4, <1>5
  <2>3. i + 1 \in 0..len
    <3>1. 1 \in Parts
      BY <1>1, CutsType DEF Parts
    <3>2. starts[1] \in Nat /\ run(1) \in Nat /\ starts[1] + run(1) = end(1) /\ end(1) <= len
      BY <1>1, <1>4, <3>1, PartsType
    <3>3. smallest_run <= run(1)
      BY <1>5, <3>1
    <3> QED
      BY <1>1, <1>5, <2>2, <3>2, <3>3
  <2>4. Typed'
    BY <1>1, <1>2, <1>3, <2>1, <2>3 DEF Typed
  <2>5. InLockstep'
    BY <1>2, <1>3, <1>4, <1>6, <2>1, <2>2 DEF InLockstep, Tracked
  <2> QED
    BY <1>1, <1>3, <2>1, <2>4, <2>5 DEF IInv
<1> QED
  BY <1>7, <1>8

LEMMA LockstepEndsIInv == IInv /\ LockstepEnds => IInv'
<1> SUFFICES ASSUME IInv, LockstepEnds PROVE IInv'
  OBVIOUS
<1>1. Typed /\ StartsOK /\ InLockstep /\ len \in Nat /\ input \in ByteSeq
  BY InputType DEF IInv, LockstepEnds, Typed
<1>2. /\ UNCHANGED <<validator, input, starts, seek, i, part, state, result>>
      /\ i = smallest_run /\ pc' = "tail"
  BY DEF LockstepEnds
<1>3. /\ len' = len /\ cuts' = cuts /\ Parts' = Parts /\ Scale' = Scale
      /\ smallest_run' = smallest_run /\ (StartsOK' <=> StartsOK)
      /\ \A k : run(k)' = run(k)
  BY <1>2, PartsStay
<1>4. Len(starts) = Len(cuts) + 1 /\ part = 1 /\ 1 \in Parts
      /\ \A k \in Parts : Tracked(k, smallest_run)
  BY <1>1, <1>2 DEF InLockstep, Typed
<1>5. smallest_run \in smallest_run..run(1)
  BY <1>1, <1>4, SmallestRun, PartsType
<1>6. Clean(input, starts[1]) /\ ~Open(input, starts[1])
  <2>1. StateOf(input, 0) = 0
    BY <1>1, StateAccepts
  <2> QED
    BY <1>1, <2>1, StateAccepts DEF StartsOK
<1>7. Typed'
  BY <1>1, <1>2, <1>3 DEF Typed
<1>8. \A k \in Parts : ~(k < 1)
  BY DEF Parts
<1>9. InTail'
  BY <1>2, <1>3, <1>4, <1>5, <1>6, <1>8 DEF InTail, Tracked
<1> QED
  BY <1>1, <1>2, <1>3, <1>7, <1>9 DEF IInv

LEMMA TailIInv == ASSUME NEW k \in Parts, IInv, Tail_(k) PROVE IInv'
<1>1. Typed /\ StartsOK /\ InTail /\ len \in Nat
  BY InputType DEF IInv, Tail_, Typed
<1>2. /\ UNCHANGED <<validator, input, starts, seek, part>>
      /\ part = k /\ i < tail_end(k)
      /\ state' = [state EXCEPT ![k] = next(@, byte(k, i))]
  BY DEF Tail_
<1>3. /\ len' = len /\ cuts' = cuts /\ Parts' = Parts /\ Scale' = Scale
      /\ smallest_run' = smallest_run /\ reject' = reject
      /\ (Acceptable' <=> Acceptable) /\ (StartsOK' <=> StartsOK)
      /\ \A m : run(m)' = run(m)
  BY <1>2, PartsStay
<1>4. Len(starts) = Len(cuts) + 1 /\ i \in Nat /\ Tracked(k, i)
  BY <1>1, <1>2 DEF InTail, Typed
<1>5. /\ smallest_run \in Nat /\ tail_end(k) = run(k) /\ run(k) \in Nat
      /\ starts[k] \in Nat /\ starts[k] + run(k) = end(k) /\ end(k) <= len
  BY <1>1, <1>4, SmallestRun, PartsType
<1>6. /\ DOMAIN state' = Parts
      /\ \A m \in Parts : m # k => state'[m] = state[m]
      /\ state'[k] = next(state[k], byte(k, i))
  BY <1>1, <1>2 DEF Typed
<1>7. /\ state'[k] = Scale * StateOf(Rest(input, starts[k]), i + 1)
      /\ state'[k] = reject <=> StateOf(Rest(input, starts[k]), i + 1) = 1
  <2>1. i < run(k)
    BY <1>2, <1>5
  <2> QED
    BY <1>1, <1>4, <1>6, <2>1, PartReads
<1>8. CASE state'[k] = reject
  <2>1. i + 1 \in 0..run(k)
    BY <1>2, <1>4, <1>5
  <2>2. ~Acceptable
    BY <1>1, <1>4, <1>7, <1>8, <2>1, RejectedPart
  <2>3. pc' = "returned" /\ result' = "UTF8_ERROR" /\ i' = i
    BY <1>3, <1>8 DEF Tail_, return
  <2>4. Typed'
    BY <1>1, <1>2, <1>3, <1>6, <2>3 DEF Typed
  <2> QED
    BY <1>1, <1>3, <2>2, <2>3, <2>4 DEF IInv
<1>9. CASE state'[k] # reject
  <2>1. i' = i + 1 /\ pc' = "tail" /\ result' = result
    BY <1>3, <1>9 DEF Tail_
  <2>2. i \in smallest_run..run(k)
    BY <1>1, <1>2 DEF InTail
  <2>3. i + 1 \in smallest_run..run(k) /\ i + 1 \in 0..len
    BY <1>1, <1>2, <1>4, <1>5, <2>2
  <2>4. Typed'
    BY <1>1, <1>2, <1>3, <1>6, <2>1, <2>3 DEF Typed
  <2>5. \A m \in Parts : m \in Int
    BY DEF Parts
  <2>6. /\ state'[k] = Scale * StateOf(Rest(input, starts[k]), i')
        /\ \A m \in Parts : m > k =>
             state'[m] = Scale * StateOf(Rest(input, starts[m]), smallest_run)
    <3>1. \A m \in Parts : m > k =>
            m # k /\ state[m] = Scale * StateOf(Rest(input, starts[m]), smallest_run)
      BY <1>1, <1>2, <2>5 DEF InTail, Tracked
    <3> QED
      BY <1>6, <1>7, <2>1, <3>1
  <2>7. \A m \in Parts : m < k => /\ state'[m] = 0
                                  /\ StateOf(Rest(input, starts[m]), run(m)) = 0
    <3>1. \A m \in Parts : m < k =>
            m # k /\ state[m] = 0 /\ StateOf(Rest(input, starts[m]), run(m)) = 0
      BY <1>1, <1>2, <2>5 DEF InTail
    <3> QED
      BY <1>6, <3>1
  <2>8. Clean(input, starts[k]) /\ ~Open(input, starts[k])
    BY <1>1, <1>2 DEF InTail
  <2>9. InTail'
    BY <1>2, <1>3, <1>4, <2>1, <2>3, <2>6, <2>7, <2>8 DEF InTail, Tracked
  <2> QED
    BY <1>1, <1>3, <2>1, <2>4, <2>9 DEF IInv
<1> QED
  BY <1>8, <1>9

LEMMA PartEndsIInv == ASSUME NEW k \in Parts, IInv, PartEnds(k) PROVE IInv'
<1>1. Typed /\ StartsOK /\ InTail /\ len \in Nat /\ input \in ByteSeq /\ len = Size(input)
  BY InputType DEF IInv, PartEnds, Typed
<1>2. /\ UNCHANGED <<validator, input, starts, seek>>
      /\ part = k /\ i >= tail_end(k) /\ pc = "tail"
      /\ state' = [state EXCEPT ![k] = finish(@)]
  BY DEF PartEnds
<1>3. /\ len' = len /\ cuts' = cuts /\ Parts' = Parts /\ Scale' = Scale
      /\ smallest_run' = smallest_run /\ reject' = reject
      /\ (Acceptable' <=> Acceptable) /\ (StartsOK' <=> StartsOK)
      /\ \A m : run(m)' = run(m)
  BY <1>2, PartsStay
<1>4. Len(starts) = Len(cuts) + 1 /\ i \in smallest_run..run(k) /\ Tracked(k, i)
      /\ Clean(input, starts[k]) /\ ~Open(input, starts[k])
  BY <1>1, <1>2 DEF InTail
<1>5. /\ smallest_run \in Nat /\ tail_end(k) = run(k) /\ run(k) \in Nat
      /\ starts[k] \in Nat /\ starts[k] + run(k) = end(k) /\ end(k) <= len
      /\ k = Len(cuts) + 1 => end(k) = len
      /\ k < Len(cuts) + 1 => end(k) = starts[k + 1] /\ k + 1 \in Parts
  BY <1>1, <1>4, SmallestRun, PartsType
<1>6. i = run(k)
  BY <1>2, <1>4, <1>5
<1> DEFINE x == StateOf(Rest(input, starts[k]), run(k))
<1>7. x \in 0..8
  <2>1. starts[k] <= Size(input)
    BY <1>1, <1>5
  <2>2. Rest(input, starts[k]) \in ByteSeq
    BY <1>1, <1>5, <2>1, RestBytes
  <2> QED
    BY <1>5, <2>2, StateAccepts
<1>8. /\ DOMAIN state' = Parts
      /\ \A m \in Parts : m # k => state'[m] = state[m]
      /\ state'[k] = finish(Scale * x)
  BY <1>1, <1>2, <1>4, <1>6 DEF Typed, Tracked
<1> HIDE DEF x
<1>9. CASE state'[k] = reject
  <2>1. ~Acceptable
    <3>1. CASE validator = "dfa"
      <4>1. x = 1
        BY <1>7, <1>8, <1>9, <3>1, Finished, Encoded
      <4>2. run(k) \in 0..run(k)
        BY <1>5
      <4> QED
        BY <1>1, <1>4, <4>1, <4>2, RejectedPart DEF x
    <3>2. CASE validator # "dfa"
      <4>1. x # 0
        BY <1>7, <1>8, <1>9, <3>2, Finished
      <4> QED
        BY <1>1, <1>4, <3>2, <4>1, UnfinishedPart DEF x
    <3> QED
      BY <3>1, <3>2
  <2>2. pc' = "returned" /\ result' = "UTF8_ERROR" /\ i' = i /\ part' = part
    BY <1>3, <1>9 DEF PartEnds, return
  <2>3. Typed'
    BY <1>1, <1>2, <1>3, <1>8, <2>2 DEF Typed
  <2> QED
    BY <1>1, <1>3, <2>1, <2>2, <2>3 DEF IInv
<1>10. ASSUME state'[k] # reject, validator # "dfa"
       PROVE  /\ x = 0 /\ state'[k] = 0
              /\ Clean(input, end(k)) /\ ~Open(input, end(k))
  <2>1. x = 0 /\ state'[k] = 0
    BY <1>7, <1>8, <1>10, Finished
  <2>2. starts[k] + run(k) <= Size(input)
    BY <1>1, <1>5
  <2>3. Clean(input, starts[k] + run(k)) /\ ~Open(input, starts[k] + run(k))
    BY <1>1, <1>4, <1>5, <2>1, <2>2, JoinParts DEF x
  <2> QED
    BY <1>5, <2>1, <2>3
<1>11. CASE state'[k] # reject /\ k = Len(cuts) + 1
  <2>1. pc' = "returned" /\ result' = "SUCCESS" /\ i' = i /\ part' = part
    <3>1. Len(cuts') = Len(cuts) /\ ~(k < Len(cuts) + 1)
      BY <1>1, <1>3, <1>11, CutsType
    <3> QED
      BY <1>3, <1>11, <3>1 DEF PartEnds, return
  <2>2. Acceptable
    <3>1. CASE validator = "dfa"
      <4>1. x # 1
        BY <1>7, <1>8, <1>11, <3>1, Finished, Encoded
      <4>2. k = 1 /\ starts[k] = 0
        BY <1>1, <1>11, <3>1, CutsType DEF StartsOK
      <4>3. run(k) = Size(input)
        BY <1>1, <1>5, <1>11, <4>2
      <4> QED
        BY <3>1, <4>1, <4>2, <4>3 DEF Acceptable, x
    <3>2. CASE validator # "dfa"
      <4>1. Clean(input, Size(input)) /\ ~Open(input, Size(input))
        BY <1>1, <1>5, <1>10, <1>11, <3>2
      <4>2. WellFormed(input)
        <5>1. Size(input) <= Size(input) /\ Size(input) \in Nat
          BY <1>1
        <5> QED
          BY <1>1, <4>1, <5>1, CleanToTheEnd
      <4> QED
        BY <3>2, <4>2 DEF Acceptable
    <3> QED
      BY <3>1, <3>2
  <2>3. Typed'
    BY <1>1, <1>2, <1>3, <1>8, <2>1 DEF Typed
  <2> QED
    BY <1>1, <1>3, <2>1, <2>2, <2>3 DEF IInv
<1>12. CASE state'[k] # reject /\ k # Len(cuts) + 1
  <2>1. /\ k < Len(cuts) + 1 /\ k \in Nat /\ Len(cuts) \in Nat /\ validator # "dfa"
    BY <1>1, <1>12, CutsType DEF Parts
  <2>2. part' = k + 1 /\ i' = smallest_run /\ pc' = "tail" /\ result' = result
    BY <1>2, <1>3, <1>12, <2>1 DEF PartEnds, return
  <2>3. k + 1 \in Parts /\ starts[k + 1] = end(k)
    BY <1>5, <2>1
  <2>4. smallest_run <= run(k + 1) /\ run(k + 1) \in Nat
    BY <1>1, <1>4, <2>3, SmallestRun, PartsType
  <2>5. smallest_run \in smallest_run..run(k + 1) /\ smallest_run \in 0..len
    <3>1. smallest_run <= run(k)
      BY <1>1, <1>4, SmallestRun
    <3> QED
      BY <1>1, <1>5, <2>4, <3>1
  <2>6. Typed'
    BY <1>1, <1>2, <1>3, <1>8, <2>2, <2>3, <2>5 DEF Typed
  <2>7. \A m \in Parts : m >= k + 1 =>
          state'[m] = Scale * StateOf(Rest(input, starts[m]), smallest_run)
    <3>1. \A m \in Parts : m >= k + 1 => m > k /\ m # k
      BY <2>1 DEF Parts
    <3> QED
      BY <1>1, <1>2, <1>8, <3>1 DEF InTail, Tracked
  <2>8. \A m \in Parts : m < k + 1 => /\ state'[m] = 0
                                      /\ StateOf(Rest(input, starts[m]), run(m)) = 0
    <3>1. \A m \in Parts : m < k + 1 => m < k \/ m = k
      BY <2>1 DEF Parts
    <3>2. state'[k] = 0 /\ StateOf(Rest(input, starts[k]), run(k)) = 0
      BY <1>10, <1>12, <2>1 DEF x
    <3>3. \A m \in Parts : m < k => m # k
      BY <2>1 DEF Parts
    <3> QED
      BY <1>1, <1>2, <1>8, <3>1, <3>2, <3>3 DEF InTail
  <2>9. Clean(input, starts[k + 1]) /\ ~Open(input, starts[k + 1])
    BY <1>10, <1>12, <2>1, <2>3
  <2>10. \A m \in Parts : (m > k + 1 => m >= k + 1) /\ k + 1 >= k + 1
    BY <2>1 DEF Parts
  <2>11. InTail'
    BY <1>2, <1>3, <1>4, <2>2, <2>3, <2>5, <2>7, <2>8, <2>9, <2>10 DEF InTail, Tracked
  <2> QED
    BY <1>1, <1>3, <2>2, <2>6, <2>11 DEF IInv
<1> QED
  BY <1>9, <1>11, <1>12

LEMMA NextIInv == IInv /\ [Next]_vars => IInv'
<1> SUFFICES ASSUME IInv, [Next]_vars PROVE IInv'
  OBVIOUS
<1>1. CASE Backtrack
  BY <1>1, BacktrackIInv
<1>2. CASE NoLeadingByte
  BY <1>2, NoLeadingByteIInv
<1>3. CASE Cut
  BY <1>3, CutIInv
<1>4. CASE Lockstep
  BY <1>4, LockstepIInv
<1>5. CASE LockstepEnds
  BY <1>5, LockstepEndsIInv
<1>6. ASSUME NEW k \in Parts, Tail_(k) \/ PartEnds(k) PROVE IInv'
  BY <1>6, TailIInv, PartEndsIInv
<1>7. CASE UNCHANGED vars
  <2>1. UNCHANGED <<validator, input, starts, pc, seek, i, part, state, result>>
    BY <1>7 DEF vars
  <2>2. /\ len' = len /\ cuts' = cuts /\ Parts' = Parts /\ Scale' = Scale
        /\ smallest_run' = smallest_run
        /\ (Acceptable' <=> Acceptable) /\ (StartsOK' <=> StartsOK)
        /\ \A m : run(m)' = run(m)
    BY <2>1, PartsStay
  <2>3. Typed' <=> Typed
    BY <2>1, <2>2 DEF Typed
  <2>4. Seeking' <=> Seeking
    BY <2>1, <2>2 DEF Seeking
  <2>5. InLockstep' <=> InLockstep
    BY <2>1, <2>2 DEF InLockstep, Tracked
  <2>6. InTail' <=> InTail
    BY <2>1, <2>2 DEF InTail, Tracked
  <2> QED
    BY <2>1, <2>2, <2>3, <2>4, <2>5, <2>6 DEF IInv
<1> QED
  BY <1>1, <1>2, <1>3, <1>4, <1>5, <1>6, <1>7 DEF Next

LEMMA IInvHolds == Spec => []IInv
<1> QED
  BY InitIInv, NextIInv, PTL DEF Spec
-----------------------------------------------------------------------------
(* The variables have their types, the starts of the parts are in order,   *)
(* and no middle point leaves the input (validate_dfa_utf8_double, _three  *)
(* and _quad).                                                             *)
THEOREM TypeCorrect == Spec => []TypeOK
<1>1. IInv => TypeOK
  <2> SUFFICES ASSUME IInv PROVE TypeOK
    OBVIOUS
  <2>1. Typed /\ StartsOK /\ len \in Nat /\ input \in Seq(Byte)
    BY InputType DEF IInv, Typed, ByteSeq
  <2>2. Len(cuts) \in 0..3 /\ \A k \in 1..Len(cuts) : cuts[k] \in 0..(len - 1)
    BY <2>1, CutsType
  <2>3. ASSUME NEW k \in 1..Len(starts)
        PROVE  /\ starts[k] \in 0..len
               /\ k > 1 => starts[k - 1] <= starts[k]
    <3>1. starts[k] \in Nat
      BY <2>1, ElementOfSeq DEF StartsOK
    <3>2. CASE k = 1
      BY <2>1, <3>2 DEF StartsOK
    <3>3. CASE k # 1
      <4>1. Len(starts) \in Nat /\ Len(starts) <= Len(cuts) + 1
        BY <2>1, <2>2 DEF StartsOK
      <4>2. k \in 2..Len(starts) /\ k - 1 \in 1..Len(cuts) /\ k - 1 \in 1..Len(starts)
        BY <2>2, <3>3, <4>1
      <4>3. starts[k - 1] \in Nat /\ cuts[k - 1] \in 0..(len - 1)
        BY <2>1, <2>2, <4>2, ElementOfSeq DEF StartsOK
      <4>4. starts[k] \in starts[k - 1]..cuts[k - 1]
        BY <2>1, <4>2 DEF StartsOK
      <4> QED
        BY <2>1, <3>1, <4>3, <4>4
    <3> QED
      BY <3>2, <3>3
  <2>4. pc = "cut" => seek \in Last(starts)..(len - 1)
    <3> SUFFICES ASSUME pc = "cut" PROVE seek \in Last(starts)..(len - 1)
      OBVIOUS
    <3>1. Seeking
      BY DEF IInv
    <3>2. Last(starts) = starts[Len(starts)] /\ seek \in 0..(len - 1)
          /\ starts[Len(starts)] \in Nat /\ cuts[Len(starts)] \in Nat
      BY <2>1, <3>1, SeekType
    <3>3. seek >= starts[Len(starts)]
      BY <3>1, <3>2 DEF Seeking
    <3> QED
      BY <2>1, <3>2, <3>3
  <2> QED
    BY <2>1, <2>3, <2>4 DEF TypeOK, Typed
<1> QED
  BY <1>1, IInvHolds, PTL

(* What the automata have read, in the tail loops.                         *)
LEMMA ReadInTail ==
  ASSUME pc = "tail", NEW k \in Int, part \in Int
  PROVE  /\ k < part => read(k) = SubSeq(input, starts[k] + 1, starts[k] + run(k))
         /\ ~(k < part) /\ k = part => read(k) = SubSeq(input, starts[k] + 1, starts[k] + i)
         /\ ~(k < part) /\ k # part =>
              read(k) = SubSeq(input, starts[k] + 1, starts[k] + smallest_run)
<1>1. pc # "cut" /\ pc # "lockstep"
  OBVIOUS
<1> DEFINE lt == k < part
           n == CASE lt -> run(k) [] k = part -> i [] OTHER -> smallest_run
<1>2. read(k) = SubSeq(input, starts[k] + 1, starts[k] + n)
  BY <1>1 DEF read
<1>0. lt => k # part
  OBVIOUS
<1> HIDE DEF lt
<1>3. /\ ~lt /\ k = part => n = i
      /\ ~lt /\ k # part => n = smallest_run
  OBVIOUS
<1>4. lt => n = run(k)
  BY <1>0
<1> HIDE DEF n
<1> QED
  BY <1>2, <1>3, <1>4 DEF lt

(* As long as the call runs, the automaton of each part accepts exactly    *)
(* when what it has read of its part is well formed.                       *)
THEOREM AutomataStayOnTrack == Spec => []PartsOnTrack
<1>1. IInv => PartsOnTrack
  <2> SUFFICES ASSUME IInv, pc \in {"lockstep", "tail"}, NEW k \in Parts
               PROVE  state[k] = UTF8_ACCEPT <=> WellFormed(read(k))
    BY DEF PartsOnTrack
  <2>1. Typed /\ StartsOK /\ len \in Nat /\ input \in ByteSeq /\ len = Size(input)
    BY InputType DEF IInv, Typed
  <2>2. Len(starts) = Len(cuts) + 1
    BY DEF IInv, InLockstep, InTail
  <2>3. /\ starts[k] \in Nat /\ run(k) \in Nat
        /\ starts[k] + run(k) = end(k) /\ end(k) <= len
        /\ smallest_run \in Nat /\ smallest_run <= run(k)
    BY <2>1, <2>2, PartsType, SmallestRun
  <2>4. ASSUME NEW n \in Nat, n <= run(k),
               read(k) = SubSeq(input, starts[k] + 1, starts[k] + n),
               state[k] = 0 <=> StateOf(Rest(input, starts[k]), n) = 0
        PROVE  state[k] = UTF8_ACCEPT <=> WellFormed(read(k))
    <3>1. starts[k] + n <= Size(input)
      BY <2>1, <2>3, <2>4
    <3> QED
      BY <2>1, <2>3, <2>4, <3>1, AcceptsWellFormed DEF UTF8_ACCEPT
  <2>5. ASSUME NEW n \in Nat, n <= run(k), Tracked(k, n)
        PROVE  state[k] = 0 <=> StateOf(Rest(input, starts[k]), n) = 0
    <3>1. starts[k] <= Size(input)
      BY <2>1, <2>3
    <3>2. StateOf(Rest(input, starts[k]), n) \in 0..8
      BY <2>1, <2>3, <3>1, RestBytes, StateAccepts
    <3> QED
      BY <2>5, <3>2, Encoded DEF Tracked
  <2>6. CASE pc = "lockstep"
    <3>1. i \in Nat /\ i <= run(k) /\ Tracked(k, i)
      BY <2>3, <2>6 DEF IInv, InLockstep
    <3>2. read(k) = SubSeq(input, starts[k] + 1, starts[k] + i)
      BY <2>6 DEF read
    <3> QED
      BY <2>4, <2>5, <3>1, <3>2
  <2>7. CASE pc = "tail"
    <3>1. InTail /\ part \in Parts /\ part \in Int /\ k \in Int
      BY <2>1, <2>7 DEF IInv, Typed, Parts
    <3>2. CASE k < part
      <4>1. state[k] = 0 /\ StateOf(Rest(input, starts[k]), run(k)) = 0
        BY <3>1, <3>2 DEF InTail
      <4>2. read(k) = SubSeq(input, starts[k] + 1, starts[k] + run(k))
        BY <2>7, <3>1, <3>2, ReadInTail
      <4>3. run(k) <= run(k) /\ run(k) \in Nat
        BY <2>3
      <4>4. state[k] = 0 <=> StateOf(Rest(input, starts[k]), run(k)) = 0
        BY <4>1
      <4> QED
        BY <2>4, <4>2, <4>3, <4>4
    <3>3. CASE k = part
      <4>1. Tracked(k, i) /\ i \in smallest_run..run(k)
        BY <3>1, <3>3 DEF InTail
      <4>2. i \in Nat /\ i <= run(k)
        BY <2>3, <4>1
      <4>3. read(k) = SubSeq(input, starts[k] + 1, starts[k] + i)
        BY <2>7, <3>1, <3>3, ReadInTail
      <4> QED
        BY <2>4, <2>5, <4>1, <4>2, <4>3
    <3>4. CASE k > part
      <4>1. Tracked(k, smallest_run)
        BY <3>1, <3>4 DEF InTail
      <4>2. read(k) = SubSeq(input, starts[k] + 1, starts[k] + smallest_run)
        BY <2>7, <3>1, <3>4, ReadInTail
      <4> QED
        BY <2>3, <2>4, <2>5, <4>1, <4>2
    <3> QED
      BY <3>1, <3>2, <3>3, <3>4
  <2> QED
    BY <2>6, <2>7
<1> QED
  BY <1>1, IInvHolds, PTL

(* Every function but validate_dfa_utf8 answers for the whole input, in    *)
(* however many parts it cuts it.                                          *)
THEOREM VerdictIsCorrect == Spec => []VerdictCorrect
<1>1. IInv => VerdictCorrect
  BY DEF IInv, VerdictCorrect, Acceptable
<1> QED
  BY <1>1, IInvHolds, PTL

(* validate_dfa_utf8 accepts what could become well formed, and only that. *)
THEOREM DfaVerdictIsPrefix == Spec => []DfaAcceptsPrefixes
<1>1. IInv => DfaAcceptsPrefixes
  <2> SUFFICES ASSUME IInv, pc = "returned", validator = "dfa"
               PROVE  result = "SUCCESS" <=>
                        /\ WellFormedSoFar(input)
                        /\ len > 0 => input[len] \notin {192, 193} \cup (245..255)
    BY DEF DfaAcceptsPrefixes
  <2>1. input \in ByteSeq /\ len = Size(input)
    BY InputType DEF IInv, Typed
  <2>2. result = "SUCCESS" <=> StateOf(Rest(input, 0), Size(input)) # 1
    BY DEF IInv, Acceptable
  <2> QED
    BY <2>1, <2>2, DfaVerdict DEF Doomed
<1> QED
  BY <1>1, IInvHolds, PTL
=============================================================================
