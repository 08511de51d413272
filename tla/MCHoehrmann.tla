---------------------------- MODULE MCHoehrmann ----------------------------
(* Instances of Hoehrmann for TLC.                                         *)
EXTENDS Hoehrmann, MCInputs

(***************************************************************************)
(* Inputs of 32 bytes and a few more, cut where the program cuts: one      *)
(* character, whole or not, at every offset near a cut.                    *)
(***************************************************************************)
Characters ==
  {<<195>>, <<128>>, <<195, 128>>, <<225, 128>>, <<225, 128, 128>>,
   <<241, 128, 128>>, <<241, 128, 128, 128>>, <<128, 128, 128, 128>>}

OneFragment ==
  {Repeat(97, n) \o f \o Repeat(97, m - n - Len(f)) :
     n \in (4..12) \cup (13..23), f \in Characters, m \in {32, 35}}

(* A stray byte near the end of the first part, and a character behind it  *)
(* that makes another part the shortest.                                   *)
TwoFragments ==
  {Repeat(97, n) \o <<stray>> \o Repeat(97, m - n - 1)
     \o <<241, 128, 128, 128>> \o Repeat(97, 28 - m) :
     n \in 4..10, stray \in {128, 195}, m \in (11..15) \cup (18..23)}

AllInputs ==
  {Repeat(128, 32), Repeat(97, 11) \o Repeat(128, 21)}
    \cup TwoFragments \cup OneFragment \cup PairInputs
=============================================================================
