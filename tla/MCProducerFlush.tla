-------------------------- MODULE MCProducerFlush --------------------------
(* Model values for ProducerFlush. *)
EXTENDS ProducerFlushInv

CONSTANTS b1, b2, p1, p2

MCBroker == {b1, b2}
MCPartition == {p1, p2}
MCCounts == {1}
=============================================================================
