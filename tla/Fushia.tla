------------------------------- MODULE Fushia -------------------------------
(***************************************************************************)
(* The branching validators of benchmarks/fushia.h: fidl_validate_string,  *)
(* and its variants _ascii, _ascii2 and _ascii4, which differ in the bytes *)
(* of ASCII that they skip at a time.                                      *)
(*                                                                         *)
(* A behaviour is one call; a step is one iteration of its loop.  next_pos *)
(* and code_point are set in each iteration before they are read, so they  *)
(* are no part of the state.  Offsets count from 0.                        *)
(***************************************************************************)
EXTENDS Verdicts

CONSTANTS
  Windows,  \* the bytes skipped at a time: 0 (never), 8, 16 or 32
  Inputs    \* the buffers that may be passed

ASSUME WindowsAssumption == Windows \subseteq Nat
ASSUME InputsAssumption == \A s \in Inputs : s \in Seq(Byte)

VARIABLES
  window,  \* the variant that was called
  input,   \* data[0..size-1]
  pos,     \* how far the input has been read
  result   \* what the call returned, "none" before

vars == <<window, input, pos, result>>

size == Len(input)
data(k) == input[k + 1]
-----------------------------------------------------------------------------
(* Mutant: the length of a window is not compared with what is left.       *)
ascii_window_past_end ==
  /\ window > 0
  /\ \A k \in pos..(pos + window - 1) : k < size => data(k) \in Ascii

(* Mutant: only the first of the words that are or-ed is looked at.        *)
ascii_window_first_word ==
  /\ window > 0
  /\ pos + window <= size
  /\ \A k \in pos..(pos + 7) : data(k) \in Ascii

(* The next window bytes exist and are ASCII.                              *)
ascii_window ==
  /\ window > 0
  /\ pos + window <= size
  /\ \A k \in pos..(pos + window - 1) : data(k) \in Ascii

(* The length that a byte announces; 0 for a byte that opens no character. *)
announced(byte) == CASE byte \in 0..127   -> 1
                     [] byte \in 192..223 -> 2
                     [] byte \in 224..239 -> 3
                     [] byte \in 240..247 -> 4
                     [] OTHER             -> 0

(* The payload bits of the n bytes from pos on.                            *)
code_point(n) ==
  LET bits(k) == data(pos + k) % 64
  IN  CASE n = 2 -> (data(pos) % 32) * 64 + bits(1)
        [] n = 3 -> (data(pos) % 16) * 4096 + bits(1) * 64 + bits(2)
        [] n = 4 -> (data(pos) % 8) * 262144 + bits(1) * 4096
                      + bits(2) * 64 + bits(3)

(* Mutant: the surrogates are let through.                                 *)
in_range_surrogates(n, code) ==
  CASE n = 2 -> code >= 128 /\ code <= 2047
    [] n = 3 -> code >= 2048 /\ code <= 65535
    [] n = 4 -> code >= 65535 /\ code <= 1114111

(* The range check; the one of four bytes starts at 0xffff, not 0x10000.   *)
in_range(n, code) ==
  CASE n = 2 -> code >= 128 /\ code <= 2047
    [] n = 3 -> /\ code >= 2048 /\ code <= 65535
                /\ ~(code > 55295 /\ code < 57344)
    [] n = 4 -> code >= 65535 /\ code <= 1114111

(* The n bytes from pos on pass the checks for a character.                *)
character(n) ==
  /\ n \in 2..4
  /\ pos + n <= size
  /\ \A k \in 1..(n - 1) : data(pos + k) \in Continuation
  /\ in_range(n, code_point(n))

return(error_code) ==
  /\ result' = error_code
  /\ UNCHANGED <<window, input, pos>>

advance(n) ==
  /\ pos' = pos + n
  /\ UNCHANGED <<window, input, result>>
-----------------------------------------------------------------------------
Init ==
  /\ window \in Windows
  /\ input \in Inputs
  /\ pos = 0
  /\ result = "none"

(* The loop goes on, and the window does not apply.                        *)
Reading == result = "none" /\ pos < size /\ ~ascii_window

SkipAscii ==
  /\ result = "none"
  /\ pos < size
  /\ ascii_window
  /\ advance(window)

AsciiByte ==
  /\ Reading
  /\ announced(data(pos)) = 1
  /\ advance(1)

Character ==
  /\ Reading
  /\ character(announced(data(pos)))
  /\ advance(announced(data(pos)))

Malformed ==
  /\ Reading
  /\ announced(data(pos)) # 1
  /\ ~character(announced(data(pos)))
  /\ return("UTF8_ERROR")

Finish ==
  /\ result = "none"
  /\ pos >= size
  /\ return("SUCCESS")

Next == SkipAscii \/ AsciiByte \/ Character \/ Malformed \/ Finish

Spec == Init /\ [][Next]_vars /\ WF_vars(Next)
-----------------------------------------------------------------------------
(* Types; the loop never reads behind the buffer.                          *)
TypeOK ==
  /\ window \in Windows
  /\ input \in Seq(Byte)
  /\ pos \in 0..size
  /\ result \in {"none", "SUCCESS", "UTF8_ERROR"}

(***************************************************************************)
(* The loop stays at the boundaries of characters: whichever bytes of      *)
(* ASCII are skipped together, what lies before pos is whole.              *)
(***************************************************************************)
PosAtBoundary == WellFormed(OverlongReplaced(SubSeq(input, 1, pos)))

(* All four variants accept the same inputs: the well-formed ones, and     *)
(* those that are well formed but for the overlong form of U+FFFF.         *)
VerdictButOverlong ==
  result # "none" =>
    (result = "SUCCESS" <=> WellFormed(OverlongReplaced(input)))
=============================================================================
