-------------------------- MODULE MCChannelDelivery --------------------------
(* Small instances of ChannelDelivery for TLC. *)
EXTENDS ChannelDelivery, TLC

\* Runs are interchangeable, and so are routes.
DeliverySymmetry == Permutations(Runs) \cup Permutations(Routes)
=============================================================================
