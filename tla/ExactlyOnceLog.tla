--------------------------- MODULE ExactlyOnceLog ---------------------------
(***************************************************************************)
(* What an idempotent producer promises its caller, with the network, the  *)
(* retries and the brokers abstracted away: batches are submitted with     *)
(* contiguous sequence numbers, each is written to its partition's log     *)
(* exactly once and in order, and only written batches are acknowledged.   *)
(* It is the contract of flush (barnabas-client/src/producer.rs) and the   *)
(* target of the refinement in ProducerFlush.                              *)
(***************************************************************************)
EXTENDS Integers, Sequences

CONSTANT Partition

VARIABLES submitted,   \* batches handed to the producer, per partition
          log,         \* batches in the partition's log
          retired      \* how many of them have been acknowledged

logVars == << submitted, log, retired >>

(* The first sequence number after those of a queue of batches. *)
EndOf(q) == IF q = <<>> THEN 0 ELSE q[Len(q)].base + q[Len(q)].count

Init ==
  /\ submitted = [p \in Partition |-> <<>>]
  /\ log = [p \in Partition |-> <<>>]
  /\ retired = [p \in Partition |-> 0]

(* q1 is q with one batch more, which starts where q ends. *)
OneMore(q, q1) ==
  /\ Len(q1) = Len(q) + 1
  /\ \A i \in 1 .. Len(q) : q1[i] = q[i]
  /\ q1[Len(q) + 1].base = EndOf(q)
  /\ q1[Len(q) + 1].count > 0

Submit ==
  /\ \A p \in Partition : \/ submitted'[p] = submitted[p]
                          \/ OneMore(submitted[p], submitted'[p])
  /\ UNCHANGED << log, retired >>

WriteNext ==
  /\ \A p \in Partition :
       \/ log'[p] = log[p]
       \/ /\ Len(log[p]) < Len(submitted[p])
          /\ log'[p] = Append(log[p], submitted[p][Len(log[p]) + 1])
  /\ UNCHANGED << submitted, retired >>

Acknowledge ==
  /\ \A p \in Partition : retired[p] <= retired'[p] /\ retired'[p] <= Len(log[p])
  /\ UNCHANGED << submitted, log >>

Next == Submit \/ WriteNext \/ Acknowledge

Spec == Init /\ [][Next]_logVars
=============================================================================
