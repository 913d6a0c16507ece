----------------------- MODULE TransactionalProducer -----------------------
(***************************************************************************)
(* The lifecycle of a transactional producer, with no IO attached:         *)
(* ProducerState of barnabas-core/src/producer.rs for one partition.  A    *)
(* method that returns an error changes nothing; Can... says when it does  *)
(* not.                                                                    *)
(***************************************************************************)
EXTENDS Integers

TxnState == { "Uninitialised", "Ready", "InTransaction", "Ending", "Fatal" }
NoEpoch == -1

transactional ==
  [epoch |-> NoEpoch, txn |-> "Uninitialised", sequence |-> 0, enrolled |-> FALSE]

Usable(s) ==
  s.txn # "Fatal" /\ ~(s.txn = "Uninitialised" /\ s.epoch = NoEpoch)

(* The one place the sequence resets. *)
on_init_producer_id(s, epoch) ==
  [epoch |-> epoch, txn |-> "Ready", enrolled |-> FALSE,
   sequence |-> IF epoch # s.epoch THEN 0 ELSE s.sequence]

CanBegin(s) == Usable(s) /\ s.txn = "Ready"

(* Mutant: a transaction starts its sequence again. *)
BeginAtZero(s) ==
  [s EXCEPT !.enrolled = FALSE, !.txn = "InTransaction", !.sequence = 0]

begin_transaction(s) == [s EXCEPT !.enrolled = FALSE, !.txn = "InTransaction"]

needs_enrollment(s) == s.txn = "InTransaction" /\ ~s.enrolled
on_enrolled(s) == [s EXCEPT !.enrolled = TRUE]

(* Reserve count sequence numbers, from s.sequence. *)
CanAllocate(s) == Usable(s) /\ s.txn = "InTransaction" /\ s.enrolled
allocate(s, count) == [s EXCEPT !.sequence = @ + count]

CanEnd(s) == Usable(s) /\ s.txn = "InTransaction"
end_transaction(s) == [s EXCEPT !.txn = "Ending"]

(* Mutant: a transaction that has ended is not left. *)
EndKept(s) == [s EXCEPT !.enrolled = FALSE]

on_end_transaction(s) ==
  IF s.txn = "Ending" THEN [s EXCEPT !.enrolled = FALSE, !.txn = "Ready"] ELSE s

fence(s) == [s EXCEPT !.txn = "Fatal"]
=============================================================================
