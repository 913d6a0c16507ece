-------------------------- MODULE MCConsumerFetch --------------------------
(* Instances of ConsumerFetch for TLC. *)
EXTENDS ConsumerFetchInv

AllFaults == {"move", "lose", "send", "evict", "full"}
=============================================================================
