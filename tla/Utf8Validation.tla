--------------------------- MODULE Utf8Validation ---------------------------
(***************************************************************************)
(* What validate() promises (src/src/generic/validator.h; error_code in    *)
(* src/src/targets.h): one call returns one verdict, SUCCESS exactly when  *)
(* the whole input is well formed.  Every algorithm of the repository is   *)
(* meant to implement this specification.                                  *)
(***************************************************************************)
EXTENDS Utf8

VARIABLES input, result

Verdict(s) == IF WellFormed(s) THEN "SUCCESS" ELSE "UTF8_ERROR"

Init ==
  /\ input \in Seq(Byte)
  /\ result = "none"

Return ==
  /\ result = "none"
  /\ result' = Verdict(input)
  /\ UNCHANGED input

Spec == Init /\ [][Return]_<<input, result>> /\ WF_<<input, result>>(Return)

=============================================================================
