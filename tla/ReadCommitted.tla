--------------------------- MODULE ReadCommitted ---------------------------
(***************************************************************************)
(* Which records of a fetch answer a consumer may have: filter of          *)
(* barnabas-core/src/consumer.rs, which works record by record, and        *)
(* filter_batches of records.rs, which works batch by batch.               *)
(*                                                                         *)
(* A batch is as in PartitionLog, with a value; control is "none", or the  *)
(* type of the marker (control_type).                                      *)
(***************************************************************************)
EXTENDS Integers, Sequences, SequencesExt

RecordsOf(batch) ==
  [k \in 1 .. batch.count |->
     [offset |-> batch.base + k - 1, producer_id |-> batch.producer_id,
      transactional |-> batch.transactional, control |-> batch.control,
      value |-> batch.value]]

(* What kafka_protocol's decoder makes of the batches. *)
Flattened(batches) ==
  LET Upto[k \in 0 .. Len(batches)] ==
        IF k = 0 THEN << >> ELSE Upto[k - 1] \o RecordsOf(batches[k])
  IN Upto[Len(batches)]

(* A loop over items: at is its state, Step its body. *)
Loop(Step(_, _), start, items) ==
  LET After[k \in 0 .. Len(items)] ==
        IF k = 0 THEN start ELSE LET at == After[k - 1] IN Step(at, items[k])
  IN After[Len(items)]

(* Transactions that begin at or before offset become aborted. *)
Begun(at, offset) == {a \in at.pending : a.first_offset <= offset}
Producers(at, offset) == at.producers \cup {a.producer_id : a \in Begun(at, offset)}

Start(aborted, fetch_offset) ==
  [kept |-> << >>, next_offset |-> fetch_offset, pending |-> aborted, producers |-> {},
   stopped |-> FALSE]

(* Mutant: a marker does not close the range. *)
PassedOpen(at, first, last, x) ==
  [at EXCEPT !.next_offset = last + 1,
             !.pending = @ \ Begun(at, first),
             !.producers = Producers(at, first)]

(* The position and the aborted producers after a batch or record at       *)
(* first .. last; an abort marker closes its producer's range.             *)
Passed(at, first, last, x) ==
  [at EXCEPT !.next_offset = last + 1,
             !.pending = @ \ Begun(at, first),
             !.producers = IF x.control = "abort"
                           THEN Producers(at, first) \ {x.producer_id}
                           ELSE Producers(at, first)]

Aborted(at, first, x, read_committed) ==
  read_committed /\ x.transactional /\ x.producer_id \in Producers(at, first)

(* Whether nothing has to be dropped, which filter finds out first. *)
Untouched(records, aborted, lso, read_committed, fetch_offset) ==
  /\ aborted = {}
  /\ \A k \in DOMAIN records :
       /\ records[k].control = "none"
       /\ records[k].offset >= fetch_offset
       /\ read_committed => records[k].offset < lso

filter(records, aborted, lso, read_committed, fetch_offset) ==
  LET Step(at, r) ==
        IF at.stopped \/ (read_committed /\ r.offset >= lso)
        THEN [at EXCEPT !.stopped = TRUE]
        ELSE LET passed == Passed(at, r.offset, r.offset, r)
             IN IF \/ r.control # "none"
                   \/ Aborted(at, r.offset, r, read_committed)
                   \/ r.offset < fetch_offset
                THEN passed
                ELSE [passed EXCEPT !.kept = Append(@, r)]
      all == Loop(Step, Start(aborted, fetch_offset), records)
  IN IF Untouched(records, aborted, lso, read_committed, fetch_offset)
     THEN [records |-> records,
           next_offset |-> IF records = << >> THEN fetch_offset
                           ELSE Last(records).offset + 1]
     ELSE [records |-> all.kept, next_offset |-> all.next_offset]

filter_batches(batches, aborted, lso, read_committed, fetch_offset) ==
  LET Step(at, b) ==
        IF at.stopped \/ b.count = 0 THEN at
        ELSE IF read_committed /\ b.base >= lso THEN [at EXCEPT !.stopped = TRUE]
        ELSE LET passed == Passed(at, b.base, b.base + b.count - 1, b)
                 Wanted(r) == /\ r.offset >= fetch_offset
                              /\ read_committed => r.offset < lso
             IN IF b.control # "none" \/ Aborted(at, b.base, b, read_committed)
                THEN passed
                ELSE [passed EXCEPT !.kept = @ \o SelectSeq(RecordsOf(b), Wanted)]
      all == Loop(Step, Start(aborted, fetch_offset), batches)
  IN [records |-> all.kept, next_offset |-> all.next_offset]
=============================================================================
