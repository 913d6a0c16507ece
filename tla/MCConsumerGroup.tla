-------------------------- MODULE MCConsumerGroup --------------------------
(* ConsumerGroup for TLC. *)
EXTENDS ConsumerGroupInv, TLC

Alike == Permutations(Consumer) \cup Permutations(Broker)

BothProtocols == {"Eager", "Cooperative"}
AllFaults == {"lost", "expire", "move", "grow"}
=============================================================================
