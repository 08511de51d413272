----------------------------- MODULE MCUtf8Cpp -----------------------------
(* Instances of Utf8Cpp for TLC.                                           *)
EXTENDS Utf8Cpp, MCInputs

(***************************************************************************)
(* Every pair of kinds of bytes, completed; every third and fourth byte    *)
(* that ends a range of code points; all short texts over a few bytes.     *)
(***************************************************************************)
EdgeInputs ==
  {<<lead, second, third, fourth>> :
     lead \in {224, 237, 239, 240, 243, 244}, second \in {128, 143, 144, 159, 160, 191},
     third \in {127, 128, 191, 192}, fourth \in {127, 128, 191, 192}}

AllInputs == UpTo(FewBytes, 4) \cup EdgeInputs \cup PairInputs
===========================================================================
