------------------------------ MODULE Validate ------------------------------
(***************************************************************************)
(* The template validate<checker> (src/src/generic/validator.h), the same  *)
(* for every SIMD algorithm: feed the full blocks, then the padded         *)
(* remainder, then check_eof(), then return errors().                      *)
(*                                                                         *)
(* The actions here move the reader and the program counter.  A module     *)
(* that describes a checker conjoins each of them with the checker's own   *)
(* step on the block that the action reads (full_block or get_remainder),  *)
(* and Return with check_eof() and the value of errors().                  *)
(***************************************************************************)
EXTENDS BlockReader

VARIABLES
  pc,         \* "loop", "eof" or "returned"
  result      \* what the call returned, "none" before

reader == <<input, idx, pc, result>>

error_code == {"SUCCESS", "UTF8_ERROR"}

ValidateInit ==
  /\ input \in Inputs
  /\ idx = 0
  /\ pc = "loop"
  /\ result = "none"

ValidateTypeOK ==
  /\ input \in Seq(Byte)
  /\ idx \in 0..SIZE_MAX
  /\ pc \in {"loop", "eof", "returned"}
  /\ result \in error_code \cup {"none"}
  /\ result # "none" <=> pc = "returned"

(* One iteration of the while loop.                                        *)
FullBlock ==
  /\ pc = "loop"
  /\ has_full_block
  /\ advance
  /\ UNCHANGED <<input, pc, result>>

(* Mutant: a while in place of the if.                                     *)
RemainderAgain ==
  /\ pc = "loop"
  /\ ~has_full_block
  /\ has_remainder
  /\ advance
  /\ UNCHANGED <<input, pc, result>>

Remainder ==
  /\ pc = "loop"
  /\ ~has_full_block
  /\ has_remainder
  /\ advance
  /\ pc' = "eof"
  /\ UNCHANGED <<input, result>>

(* Mutant: no verdict is waited for.                                       *)
NoRemainderReturns ==
  /\ pc = "loop"
  /\ ~has_full_block
  /\ ~has_remainder
  /\ pc' = "returned"
  /\ UNCHANGED <<input, idx, result>>

(* Mutant: the empty buffer is forgotten.                                  *)
NoRemainderUnlessEmpty ==
  /\ pc = "loop"
  /\ ~has_full_block
  /\ ~has_remainder
  /\ len # 0
  /\ pc' = "eof"
  /\ UNCHANGED <<input, idx, result>>

(* Only an empty buffer has no remainder.                                  *)
NoRemainder ==
  /\ pc = "loop"
  /\ ~has_full_block
  /\ ~has_remainder
  /\ pc' = "eof"
  /\ UNCHANGED <<input, idx, result>>

Return(errors) ==
  /\ pc = "eof"
  /\ pc' = "returned"
  /\ result' = errors
  /\ UNCHANGED <<input, idx>>

=============================================================================
