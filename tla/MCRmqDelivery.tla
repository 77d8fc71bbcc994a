---------------------------- MODULE MCRmqDelivery ----------------------------
(* RmqDelivery with a few messages, one of each kind.                       *)
EXTENDS RmqDelivery, TLC

\* The runs of deliveries are interchangeable.
Symmetry == Permutations(Slots)
==============================================================================
