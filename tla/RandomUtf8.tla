----------------------------- MODULE RandomUtf8 -----------------------------
(***************************************************************************)
(* RandomUTF8::generate of benchmarks/random_utf8.cpp: while the text is   *)
(* too short, draw a length, then draw the first byte and the second until *)
(* they fit, then the bytes behind them; last, push a zero.                *)
(*                                                                         *)
(* head and candidate of the code are one variable, the last byte drawn:   *)
(* where the second byte is drawn, head is the last byte of the result.    *)
(***************************************************************************)
EXTENDS Utf8

CONSTANT val  \* val[n]: the values that val_<n>bit may yield

ASSUME valAssumption ==
  /\ DOMAIN val = 3..7
  /\ \A bits \in 3..7 : val[bits] \subseteq 0..(2^bits - 1)

VARIABLES
  bytes_count,   \* the lengths of characters that have a chance to be drawn
  output_bytes,  \* the parameter of generate
  result,        \* the text
  at,            \* "while", "head", "second", "returned"; "taken" by the caller
  length,        \* the case of the switch
  candidate      \* the last byte drawn

generator == <<bytes_count, output_bytes, result, at, length, candidate>>
-----------------------------------------------------------------------------
(* The draw and the bits that it is or-ed into, for the first byte.        *)
bits_of_head == <<7, 5, 4, 3>>
head_of == <<0, 192, 224, 240>>

(* The loops around the draw of the first byte: no zero, no overlong form  *)
(* of two bytes, nothing beyond U+10FFFF.                                  *)
head_refused(n, byte) ==
  \/ n = 1 /\ byte = 0
  \/ n = 2 /\ byte < 194
  \/ n = 4 /\ byte > 244

(* Mutant: surrogates are let through.                                     *)
second_refused_surrogates(head, byte) ==
  \/ head = 224 /\ byte < 160
  \/ head = 240 /\ byte < 144
  \/ head = 244 /\ byte > 143

(* Mutant: a bound that no draw meets.                                     *)
second_refused_always(head, byte) ==
  \/ head = 224 /\ byte < 192
  \/ head = 237 /\ byte > 159
  \/ head = 240 /\ byte < 144
  \/ head = 244 /\ byte > 143

(* The loops around the draw of the second byte.                           *)
second_refused(head, byte) ==
  \/ head = 224 /\ byte < 160
  \/ head = 237 /\ byte > 159
  \/ head = 240 /\ byte < 144
  \/ head = 244 /\ byte > 143

(* n bytes 0x80 | val_6bit.                                                *)
trails(n) == {[k \in 1..n |-> 128 + t[k]] : t \in [1..n -> val[6]]}
-----------------------------------------------------------------------------
generate(lengths, bytes) ==
  /\ bytes_count = lengths
  /\ output_bytes = bytes
  /\ result = <<>>
  /\ at = "while"
  /\ length = 1
  /\ candidate = 0

(* The loop goes on, and a length is drawn.                                *)
Switch ==
  /\ at = "while"
  /\ Len(result) < output_bytes
  /\ length' \in bytes_count
  /\ at' = "head"
  /\ UNCHANGED <<bytes_count, output_bytes, result, candidate>>

drawn_head == {head_of[length] + d : d \in val[bits_of_head[length]]}
drawn_second == {128 + d : d \in val[6]}

(* A draw that the inner loop throws away.                                 *)
Redraw ==
  /\ \/ at = "head" /\ \E byte \in drawn_head :
          head_refused(length, byte) /\ candidate' = byte
     \/ at = "second" /\ \E byte \in drawn_second :
          second_refused(result[Len(result)], byte) /\ candidate' = byte
  /\ UNCHANGED <<bytes_count, output_bytes, result, at, length>>

PushHead ==
  /\ at = "head"
  /\ \E byte \in drawn_head :
       /\ ~head_refused(length, byte)
       /\ candidate' = byte
       /\ result' = Append(result, byte)
  /\ at' = IF length = 1 THEN "while" ELSE "second"
  /\ UNCHANGED <<bytes_count, output_bytes, length>>

PushSecond ==
  /\ at = "second"
  /\ \E byte \in drawn_second, t \in trails(length - 2) :
       /\ ~second_refused(result[Len(result)], byte)
       /\ candidate' = byte
       /\ result' = result \o <<byte>> \o t
  /\ at' = "while"
  /\ UNCHANGED <<bytes_count, output_bytes, length>>

(* The zero behind the text, and the return.                               *)
PushEos ==
  /\ at = "while"
  /\ Len(result) >= output_bytes
  /\ result' = Append(result, 0)
  /\ at' = "returned"
  /\ UNCHANGED <<bytes_count, output_bytes, length, candidate>>

Push == PushHead \/ PushSecond

Generate == Switch \/ Redraw \/ Push \/ PushEos

(***************************************************************************)
(* A step is always taken; and of the draws, which are uniform over a      *)
(* range, one that fits comes up in the end, if there is one.              *)
(***************************************************************************)
Draws == WF_generator(Generate) /\ WF_generator(Push)
-----------------------------------------------------------------------------
(***************************************************************************)
(* What tests and benchmarks build on: the text is well formed, its zero   *)
(* included; it is as long as was asked for and at most one character      *)
(* longer; and no zero byte but the last ends it early.                    *)
(***************************************************************************)
GeneratedIsWellFormed ==
  at = "returned" =>
    /\ WellFormed(result)
    /\ Len(result) \in (output_bytes + 1)..(output_bytes + 4)
    /\ \A i \in 1..Len(result) : result[i] = 0 <=> i = Len(result)
=============================================================================
