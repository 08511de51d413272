----------------------------- MODULE MCFushia -----------------------------
(* Instances of Fushia for TLC.                                            *)
EXTENDS Fushia, MCInputs

(* Fragments between stretches of ASCII a little shorter, as long as, and  *)
(* longer than the windows.                                                *)
WindowInputs ==
  Spread((0..1) \cup (7..9) \cup (15..17) \cup (31..33),
         UpTo({128, 195, 225}, 3) \cup {<<241, 128, 128, 128>>},
         {0, 7, 8, 16}, {<<>>, <<128>>, <<195>>})

(* Every lead, with the extremes of what it may and may not be followed by.*)
CharacterInputs ==
  {<<lead, c>> \o t : lead \in 192..255, c \in NibbleEnds,
                      t \in {<<>>, <<128>>, <<191, 191>>}}

AllInputs == CharacterInputs \cup WindowInputs
===========================================================================
