----------------------------- MODULE Hoehrmann -----------------------------
(***************************************************************************)
(* The automata of benchmarks/hoehrmann.h: one table-driven automaton, in  *)
(* four encodings of its state, and three functions that cut the input in  *)
(* two, three or four parts and run one automaton on each, in lockstep as  *)
(* long as the shortest part lasts and one after the other from there.     *)
(*                                                                         *)
(* A behaviour is one call of one of the functions.  Offsets count from 0. *)
(***************************************************************************)
EXTENDS Utf8, FiniteSetsExt, SequencesExt

CONSTANTS
  SMALL,       \* inputs shorter than this are not cut: 32 in the program
  Validators,  \* the functions that may be called
  Inputs       \* the buffers that may be passed

AllValidators == {"dfa", "shiftless", "fast", "big", "double", "three", "quad"}

(* With SMALL at least 4, no part starts beyond the end of the input.      *)
ASSUME SmallAssumption == SMALL \in Nat /\ SMALL >= 4
ASSUME ValidatorsAssumption == Validators \subseteq AllValidators
ASSUME InputsAssumption == \A s \in Inputs : s \in Seq(Byte)

VARIABLES
  validator,  \* the function that was called
  input,      \* c[0..len-1]
  pc,         \* "cut", "lockstep", "tail" or "returned"
  starts,     \* where the parts found so far start
  seek,       \* the middle point that backtracks to a leading byte
  i,          \* the loop index
  part,       \* the part whose tail is read
  state,      \* the state of the automaton of each part
  result      \* what the call returned, "none" before

vars == <<validator, input, pc, starts, seek, i, part, state, result>>

len == Len(input)
c(k) == input[k + 1]
-----------------------------------------------------------------------------
(* The automaton.                                                          *)

UTF8_ACCEPT == 0
UTF8_REJECT == 1

(* Mutant: C0 and C1 open a character.                                     *)
utf8d_c0(byte) ==
  CASE byte \in Ascii                       -> 0
    [] byte \in 128..143                    -> 1
    [] byte \in 144..159                    -> 9
    [] byte \in 160..191                    -> 7
    [] byte \in 192..223                    -> 2
    [] byte = 224                           -> 10
    [] byte \in 225..239 \ {237}            -> 3
    [] byte = 237                           -> 4
    [] byte = 240                           -> 11
    [] byte \in 241..243                    -> 6
    [] byte = 244                           -> 5
    [] byte \in 245..255                    -> 8

(* The class of a byte.                                                    *)
utf8d(byte) ==
  CASE byte \in Ascii                       -> 0
    [] byte \in 128..143                    -> 1
    [] byte \in 144..159                    -> 9
    [] byte \in 160..191                    -> 7
    [] byte \in {192, 193} \cup (245..255)  -> 8
    [] byte \in 194..223                    -> 2
    [] byte = 224                           -> 10
    [] byte \in 225..239 \ {237}            -> 3
    [] byte = 237                           -> 4
    [] byte = 240                           -> 11
    [] byte \in 241..243                    -> 6
    [] byte = 244                           -> 5

(* Mutant: behind a third byte that is due, the fourth is not.             *)
utf8d_transition_short(s, type) ==
  CASE s = 0 /\ type \in 0..6             -> <<0, 1, 2, 3, 5, 8, 7>>[type + 1]
    [] s = 0 /\ type \in 10..11           -> <<4, 6>>[type - 9]
    [] s = 2 /\ type \in {1, 7, 9}        -> 0
    [] s = 3 /\ type \in {1, 7, 9}        -> 0
    [] s = 4 /\ type = 7                  -> 2
    [] s = 5 /\ type \in {1, 9}           -> 2
    [] s = 6 /\ type \in {7, 9}           -> 3
    [] s = 7 /\ type \in {1, 7, 9}        -> 3
    [] s = 8 /\ type = 1                  -> 3
    [] OTHER                              -> UTF8_REJECT

(* The states are the bytes still due: 2 one, 3 two, 7 three, and a second *)
(* byte behind E0 (4), ED (5), F0 (6) or F4 (8).                           *)
utf8d_transition(s, type) ==
  CASE s = 0 /\ type \in 0..6             -> <<0, 1, 2, 3, 5, 8, 7>>[type + 1]
    [] s = 0 /\ type \in 10..11           -> <<4, 6>>[type - 9]
    [] s = 2 /\ type \in {1, 7, 9}        -> 0
    [] s = 3 /\ type \in {1, 7, 9}        -> 2
    [] s = 4 /\ type = 7                  -> 2
    [] s = 5 /\ type \in {1, 9}           -> 2
    [] s = 6 /\ type \in {7, 9}           -> 3
    [] s = 7 /\ type \in {1, 7, 9}        -> 3
    [] s = 8 /\ type = 1                  -> 3
    [] OTHER                              -> UTF8_REJECT

updatestate(s, byte) == utf8d_transition(s, utf8d(byte))

(* shifted_utf8d_transition holds 16 times the states, and is indexed by   *)
(* such a state plus the class; big_table tabulates updatestate for every  *)
(* byte, and big_fat_table holds 256 times the states of big_table.        *)
shiftless_updatestate(s, byte) == 16 * updatestate(s \div 16, byte)
fast_updatestate(s, byte) == updatestate(s, byte)
big_updatestate(s, byte) == 256 * updatestate(s \div 256, byte)

next(s, byte) ==
  CASE validator = "dfa"  -> updatestate(s, byte)
    [] validator = "fast" -> fast_updatestate(s, byte)
    [] validator = "big"  -> big_updatestate(s, byte)
    [] OTHER              -> shiftless_updatestate(s, byte)

reject ==
  CASE validator \in {"dfa", "fast"} -> UTF8_REJECT
    [] validator = "big"             -> 256 * UTF8_REJECT
    [] OTHER                         -> 16 * UTF8_REJECT
-----------------------------------------------------------------------------
(* The parts.                                                              *)

is_leading(byte) == byte \notin Continuation

(* Mutant: the two thirds come before the third.                           *)
middle_points_swapped ==
  CASE validator = "double" -> <<len \div 2>>
    [] validator = "three"  -> <<(2 * len) \div 3, len \div 3>>
    [] validator = "quad"   -> <<len \div 4, len \div 2, len \div 2>>
    [] OTHER                -> <<>>

(* Mutant: the last part of four is the last quarter.                      *)
middle_points_quarters ==
  CASE validator = "double" -> <<len \div 2>>
    [] validator = "three"  -> <<len \div 3, (2 * len) \div 3>>
    [] validator = "quad"   -> <<len \div 4, len \div 2, (3 * len) \div 4>>
    [] OTHER                -> <<>>

(* Where the search for the start of each part but the first begins; two   *)
(* of the four parts of quad begin it at the same place.                   *)
middle_points ==
  CASE validator = "double" -> <<len \div 2>>
    [] validator = "three"  -> <<len \div 3, (2 * len) \div 3>>
    [] validator = "quad"   -> <<len \div 4, len \div 2, len \div 2>>
    [] OTHER                -> <<>>

cuts == IF len < SMALL THEN <<>> ELSE middle_points

Parts == 1..(Len(cuts) + 1)

end(k) == IF k = Len(cuts) + 1 THEN len ELSE starts[k + 1]

run(k) == end(k) - starts[k]

smallest_run == Min({run(k) : k \in Parts})

(***************************************************************************)
(* Where the tail loop of a part stops.  The one of the first part of quad *)
(* subtracts the bytes read in lockstep once too often.                    *)
(***************************************************************************)
tail_end(k) ==
  IF validator = "quad" /\ Len(cuts) > 0 /\ k = 1 THEN run(k) - smallest_run
                                                  ELSE run(k)

byte(k, n) == c(starts[k] + n)

return(error_code) ==
  /\ pc' = "returned"
  /\ result' = error_code
-----------------------------------------------------------------------------
Init ==
  /\ validator \in Validators
  /\ input \in Inputs
  /\ starts = <<0>>
  /\ pc = IF cuts = <<>> THEN "lockstep" ELSE "cut"
  /\ seek = IF cuts = <<>> THEN 0 ELSE cuts[1]
  /\ i = 0
  /\ part = 1
  /\ state = [k \in Parts |-> UTF8_ACCEPT]
  /\ result = "none"

(* while (!is_leading(c[middle_point])) middle_point -= 1;                 *)
Backtrack ==
  /\ pc = "cut"
  /\ ~is_leading(c(seek))
  /\ seek # Last(starts)
  /\ seek' = seek - 1
  /\ UNCHANGED <<validator, input, pc, starts, i, part, state, result>>

(* Mutant: the search forgets that it may come back to the part before.    *)
NoLeadingByteIgnored == FALSE /\ UNCHANGED vars

NoLeadingByte ==
  /\ pc = "cut"
  /\ ~is_leading(c(seek))
  /\ seek = Last(starts)
  /\ return("UTF8_ERROR")
  /\ UNCHANGED <<validator, input, starts, seek, i, part, state>>

Cut ==
  /\ pc = "cut"
  /\ is_leading(c(seek))
  /\ starts' = Append(starts, seek)
  /\ IF Len(starts) = Len(cuts)
     THEN pc' = "lockstep" /\ UNCHANGED seek
     ELSE seek' = cuts[Len(starts) + 1] /\ UNCHANGED pc
  /\ UNCHANGED <<validator, input, i, part, state, result>>

(***************************************************************************)
(* One iteration of the loop over the shortest part, or the whole input.   *)
(* The code steps the automata in turn and returns at the first that       *)
(* rejects; the states of the others are not looked at again.              *)
(***************************************************************************)
Lockstep ==
  /\ pc = "lockstep"
  /\ i < smallest_run
  /\ state' = [k \in Parts |-> next(state[k], byte(k, i))]
  /\ IF \E k \in Parts : state'[k] = reject
     THEN return("UTF8_ERROR") /\ UNCHANGED i
     ELSE i' = i + 1 /\ UNCHANGED <<pc, result>>
  /\ UNCHANGED <<validator, input, starts, seek, part>>

LockstepEnds ==
  /\ pc = "lockstep"
  /\ i = smallest_run
  /\ pc' = "tail"
  /\ UNCHANGED <<validator, input, starts, seek, i, part, state, result>>

(* One iteration of the loop over the rest of a part.                      *)
Tail_(k) ==
  /\ pc = "tail"
  /\ part = k
  /\ i < tail_end(k)
  /\ state' = [state EXCEPT ![k] = next(@, byte(k, i))]
  /\ IF state'[k] = reject
     THEN return("UTF8_ERROR") /\ UNCHANGED i
     ELSE i' = i + 1 /\ UNCHANGED <<pc, result>>
  /\ UNCHANGED <<validator, input, starts, seek, part>>

(* A zero byte is fed behind the last byte of a part, but not by dfa.      *)
finish(s) == IF validator = "dfa" THEN s ELSE next(s, 0)

PartEnds(k) ==
  /\ pc = "tail"
  /\ part = k
  /\ i >= tail_end(k)
  /\ state' = [state EXCEPT ![k] = finish(@)]
  /\ \/ state'[k] = reject /\ return("UTF8_ERROR") /\ UNCHANGED <<i, part>>
     \/ /\ state'[k] # reject
        /\ k = Len(cuts) + 1
        /\ return("SUCCESS")
        /\ UNCHANGED <<i, part>>
     \/ /\ state'[k] # reject
        /\ k < Len(cuts) + 1
        /\ part' = k + 1
        /\ i' = smallest_run
        /\ UNCHANGED <<pc, result>>
  /\ UNCHANGED <<validator, input, starts, seek>>

Next ==
  \/ Backtrack
  \/ NoLeadingByte
  \/ Cut
  \/ Lockstep
  \/ LockstepEnds
  \/ \E k \in Parts : Tail_(k) \/ PartEnds(k)

Spec == Init /\ [][Next]_vars /\ WF_vars(Next)
-----------------------------------------------------------------------------
(***************************************************************************)
(* Types; the middle points stay in the buffer however far they backtrack, *)
(* and the starts of the parts are in order.                               *)
(***************************************************************************)
TypeOK ==
  /\ validator \in Validators
  /\ input \in Seq(Byte)
  /\ pc \in {"cut", "lockstep", "tail", "returned"}
  /\ \A k \in 1..Len(starts) :
       /\ starts[k] \in 0..len
       /\ k > 1 => starts[k - 1] <= starts[k]
  /\ pc = "cut" => seek \in Last(starts)..(len - 1)
  /\ i \in 0..len
  /\ part \in Parts
  /\ DOMAIN state = Parts
  /\ result \in {"none", "SUCCESS", "UTF8_ERROR"}

(* The bytes of part k that its automaton has read, in order.              *)
read(k) ==
  LET n == CASE pc = "cut"      -> 0
             [] pc = "lockstep" -> i
             [] pc = "tail"     -> CASE k < part -> run(k)
                                     [] k = part -> i
                                     [] OTHER    -> smallest_run
  IN  SubSeq(input, starts[k] + 1, starts[k] + n)

(***************************************************************************)
(* As long as the call runs, the automaton of each part is in its          *)
(* accepting state exactly when what it has read of its part is well       *)
(* formed: a part that starts inside of a character, or whose bytes are    *)
(* skipped or read twice, would break this.                                *)
(***************************************************************************)
PartsOnTrack ==
  pc \in {"lockstep", "tail"} =>
    \A k \in Parts : state[k] = UTF8_ACCEPT <=> WellFormed(read(k))

(***************************************************************************)
(* Every function but dfa answers for the whole input: no cut loses a      *)
(* character, and a character that the end or a cut interrupts is an error *)
(* in the part where it starts.                                            *)
(***************************************************************************)
VerdictCorrect ==
  pc = "returned" /\ validator # "dfa" =>
    (result = "SUCCESS" <=> WellFormed(input))

(***************************************************************************)
(* validate_dfa_utf8 alone has no check behind its loop: it accepts what   *)
(* could become well formed, so a text cut in the middle of its last       *)
(* character passes.                                                       *)
(***************************************************************************)
DfaAcceptsPrefixes ==
  pc = "returned" /\ validator = "dfa" =>
    (result = "SUCCESS" <=>
       /\ WellFormedSoFar(input)
       /\ len > 0 => input[len] \notin {192, 193} \cup (245..255))

(***************************************************************************)
(* Every call returns: the backtracking stops, if only at the start of the *)
(* part before, and no loop waits for bytes that a part does not have.     *)
(***************************************************************************)
Terminates == <>(pc = "returned")
=============================================================================
