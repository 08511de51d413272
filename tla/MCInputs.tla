------------------------------ MODULE MCInputs ------------------------------
(***************************************************************************)
(* Families of byte sequences for the model-checking runs.                 *)
(***************************************************************************)
EXTENDS Integers, Sequences

(* Sequences over A of at most n bytes.                                    *)
UpTo(A, n) == UNION {[1..m -> A] : m \in 0..n}

Repeat(byte, n) == [i \in 1..n |-> byte]

(***************************************************************************)
(* n ASCII bytes, a fragment of F, m ASCII bytes, a fragment of G.         *)
(***************************************************************************)
Spread(N, F, M, G) ==
  {Repeat(97, n) \o f \o Repeat(97, m) \o g : n \in N, f \in F, m \in M, g \in G}

(***************************************************************************)
(* A byte of each kind that the second byte of a character distinguishes,  *)
(* and a lead of each row of the table and of each kind outside it.        *)
(***************************************************************************)
Conts == {128, 144, 160, 191}
Leads == {192, 194, 224, 225, 237, 240, 241, 244, 245, 255}

(* Few bytes: one of each length, and the ones that meet at a boundary.    *)
FewBytes == {97, 128, 160, 195, 224, 237, 240, 244}

(***************************************************************************)
(* For small vectors: fragments of up to 3 bytes at every offset of a      *)
(* block, another fragment right behind or behind a block of ASCII.        *)
(***************************************************************************)
AcrossBlocks(block) ==
  Spread(0..(block - 1), UpTo(FewBytes, 3), {0, block},
         {<<>>, <<97>>, <<128>>, <<160>>, <<128, 128>>, <<195, 128>>})

(***************************************************************************)
(* Every byte with the ends of each of the 16 ranges of a high nibble,     *)
(* completed: with the continuations behind that the second byte calls for *)
(* or, if none, the first.                                                 *)
(***************************************************************************)
CalledFor(byte) ==
  CASE byte \in 0..191   -> 0
    [] byte \in 192..223 -> 1
    [] byte \in 224..239 -> 2
    [] byte \in 240..255 -> 3

Completed(first, second) ==
  <<first, second>> \o
    Repeat(128, IF CalledFor(second) > 0 THEN CalledFor(second)
                ELSE IF CalledFor(first) > 1 THEN CalledFor(first) - 1 ELSE 0)

NibbleEnds == {16 * n : n \in 0..15} \cup {16 * n + 15 : n \in 0..15}

PairInputs ==
  {Completed(first, second) : first \in 0..255, second \in NibbleEnds}

(***************************************************************************)
(* Full width: fragments at the offsets around the ends of vectors and of  *)
(* blocks of 64 bytes, with up to two bytes behind, or an ASCII block and  *)
(* at most one.                                                            *)
(***************************************************************************)
Boundaries == (13..16) \cup (30..32) \cup (61..64) \cup (126..127)

Fragments == UNION {UpTo({128, 195, 224, 240}, 2),
                    {<<l, c>> : l \in Leads, c \in Conts}}

WideInputs ==
  Spread(Boundaries, Fragments, {0, 64}, {<<>>, <<128>>})
    \cup Spread(Boundaries, Fragments, {0}, {<<128, 128>>})

(* A fragment near the end of one block of 64 bytes.                       *)
CutInputs == {Repeat(97, 64 - n) \o f : n \in 1..3, f \in UpTo(FewBytes, 3)}
=============================================================================
