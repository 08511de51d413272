----------------------------- MODULE MCDelivery -----------------------------
(* Delivery for TLC: an input of each length, with bytes told apart.       *)
EXTENDS Delivery

AllLengths == {[i \in 1..n |-> i % 256] : n \in 0..SIZE_MAX}
=============================================================================
