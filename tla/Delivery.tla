------------------------------ MODULE Delivery ------------------------------
(***************************************************************************)
(* validate<checker> with a checker that only records what it is fed: what *)
(* the reader and the template deliver to any algorithm.                   *)
(***************************************************************************)
EXTENDS Validate

VARIABLE delivered    \* history: the bytes of all blocks fed so far

vars == <<reader, delivered>>

Record(block) ==
  delivered' = delivered \o [i \in 1..STEP_SIZE |-> block[i - 1]]

Init ==
  /\ ValidateInit
  /\ delivered = <<>>

RecordFullBlock == FullBlock /\ Record(full_block)

RecordRemainder == Remainder /\ Record(get_remainder)

SkipRemainder == NoRemainder /\ UNCHANGED delivered

RecordEof == Return("SUCCESS") /\ UNCHANGED delivered

Next == RecordFullBlock \/ RecordRemainder \/ SkipRemainder \/ RecordEof

Spec == Init /\ [][Next]_vars /\ WF_vars(Next)
-----------------------------------------------------------------------------
(* The control state, and a whole number of blocks delivered.              *)
TypeOK ==
  /\ ValidateTypeOK
  /\ delivered \in Seq(Byte)
  /\ \E n \in 0..Len(delivered) : Len(delivered) = n * STEP_SIZE

(***************************************************************************)
(* No read or copy leaves its buffer: a full block lies inside the input   *)
(* and what is left for memcpy fits in block[64].                          *)
(***************************************************************************)
CopiesInBounds ==
  pc = "loop" =>
    /\ has_full_block => idx + STEP_SIZE <= len
    /\ ~has_full_block => idx <= len /\ len - idx <= STEP_SIZE

(***************************************************************************)
(* Each byte of the input is checked once, in order, before the call       *)
(* returns; spaces, fewer than a block of them, are all that follows.      *)
(***************************************************************************)
DeliveredInOrder ==
  /\ \A i \in 1..Len(delivered) :
       delivered[i] = IF i <= len THEN input[i] ELSE SPACE
  /\ pc = "loop" => Len(delivered) = idx /\ idx <= len
  /\ pc # "loop" => /\ len <= Len(delivered)
                    /\ Len(delivered) < len + STEP_SIZE

(***************************************************************************)
(* The cursor wraps at most once, in the advance() behind the remainder,   *)
(* which nothing reads: while blocks are left to read it only grows.       *)
(***************************************************************************)
CursorGrows == [][pc' = "loop" => idx' > idx]_vars

(* The loop ends for every length up to SIZE_MAX.                          *)
Terminates == <>(pc = "returned")
=============================================================================
