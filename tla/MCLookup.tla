------------------------------ MODULE MCLookup -------------------------------
(* Instances of LookupChecker for TLC.                                     *)
EXTENDS LookupChecker, MCInputs

SmallInputs == PairInputs \cup AcrossBlocks(6)
=============================================================================
