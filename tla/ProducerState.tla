--------------------------- MODULE ProducerState ---------------------------
(***************************************************************************)
(* The rules of the producer that the produce path uses, with no IO        *)
(* attached (barnabas-core/src/producer.rs; TransactionalProducer has the  *)
(* lifecycle of a transaction).  The module holds the state and one action *)
(* per method; a client flow conjoins them with what it does to its own    *)
(* queues and connections.  A method that returns an error changes         *)
(* nothing, so its action is simply not enabled: a caller's error path is  *)
(* guarded by the negation of the same condition.                          *)
(***************************************************************************)
EXTENDS Integers

CONSTANTS Partition,       \* the (topic, partition) pairs in use
          Transactional    \* whether this producer is transactional at all

ASSUME TransactionalAssumption == Transactional \in BOOLEAN

TxnState == { "Uninitialised", "Ready", "InTransaction", "Ending", "Fatal" }

(* What InitProducerId issues; Unidentified is the None of the source. *)
Identity == [id : Nat, epoch : Nat]
Unidentified == [id |-> -1, epoch |-> -1]

(* A SequenceRange: the sequence numbers reserved for one batch. *)
SequenceRange == [base : Nat, count : Nat \ {0}]
RangeEnd(range) == range.base + range.count

VARIABLES identity,    \* as the coordinator issued it
          txn,         \* where the producer is in its lifecycle
          sequences,   \* next unused sequence per partition
          enrolled     \* partitions added to the current transaction

stateVars == << identity, txn, sequences, enrolled >>

StateTypeOK ==
  /\ identity \in Identity \cup {Unidentified}
  /\ txn \in TxnState
  /\ sequences \in [Partition -> Nat]
  /\ enrolled \subseteq Partition

Usable == /\ txn # "Fatal"
          /\ ~(txn = "Uninitialised" /\ identity = Unidentified)

CanAllocate(p) ==
  /\ Usable
  /\ Transactional => txn = "InTransaction" /\ p \in enrolled

(* Mutant: off by one. *)
RangeBefore(p, count) == [base |-> sequences[p] - 1, count |-> count]

(* The range a batch of count records would be given. *)
NextRange(p, count) == [base |-> sequences[p], count |-> count]

(* Mutant: the counters do not move. *)
AllocateAgain(count) ==
  /\ \A p \in DOMAIN count : CanAllocate(p)
  /\ UNCHANGED stateVars

(* Reserve count[p] sequence numbers for one batch of each partition in    *)
(* count's domain: the counters move here, not at the broker's answer.     *)
Allocate(count) ==
  /\ \A p \in DOMAIN count : CanAllocate(p)
  /\ sequences' = [p \in Partition |-> IF p \in DOMAIN count
                                       THEN RangeEnd(NextRange(p, count[p]))
                                       ELSE sequences[p]]
  /\ UNCHANGED << identity, txn, enrolled >>

Fence ==
  /\ txn' = "Fatal"
  /\ UNCHANGED << identity, sequences, enrolled >>
=============================================================================
