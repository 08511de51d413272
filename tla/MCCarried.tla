------------------------------ MODULE MCCarried ------------------------------
(* Instances of CarriedChecker for TLC.                                    *)
EXTENDS CarriedChecker, MCInputs

(* Seven bytes of every length, to carry as far as sums can.               *)
OverlapInputs == [1..7 -> {128, 195, 225, 241}]

SmallInputs == OverlapInputs \cup PairInputs \cup AcrossBlocks(8)

(* Four-byte characters, legal and not, by their second byte.              *)
FourByteInputs == {<<lead, c, 128, 128>> : lead \in {240, 244}, c \in Byte}
=============================================================================
