--------------------------- MODULE CommittedReads ---------------------------
(***************************************************************************)
(* Every log some transactional producers and one without transactions can *)
(* write, with batches of one record or more, and what the filters of      *)
(* ReadCommitted make of every answer to a fetch from it.                  *)
(***************************************************************************)
EXTENDS ReadCommitted, PartitionLog

CONSTANTS Producer,    \* the transactional producers
          Nobody,      \* the producer without transactions
          MaxCount,    \* bound: records of a batch
          MaxBatches   \* bound: batches of the log, markers included

VARIABLE log

Init == log = << >>

Appended(p, control, count) ==
  /\ Len(log) < MaxBatches
  /\ log' = Append(log, [producer_id |-> p, transactional |-> p # Nobody, control |-> control,
                         base |-> LogEnd(log), count |-> count, value |-> Len(log)])

Write(p) == \E count \in 1 .. MaxCount : Appended(p, "none", count)

(* A transaction may end without having written to this partition. *)
End(p) == \E control \in {"commit", "abort"} : Appended(p, control, 1)

Next ==
  \/ \E p \in Producer \cup {Nobody} : Write(p)
  \/ \E p \in Producer : End(p)

Spec == Init /\ [][Next]_log

-----------------------------------------------------------------------------
(* Whatever part of the log an answer to a fetch holds, wherever in a      *)
(* batch it was asked to start, and however aborted, committed, open and   *)
(* plain batches are mixed in it: both filters return the same records,    *)
(* those of committed transactions and of no transaction below the last    *)
(* stable offset, all of them and no other; and the position they return   *)
(* skips none and passes everything that was filtered (filter,             *)
(* filter_batches).                                                        *)
FilterExact ==
  LET lso == last_stable_offset(log)
      all == aborted_transactions(log)
      withheld == {b \in Range(log) : b.transactional /\ ~Committed(log, b)}
  IN \A from \in 1 .. Len(log) : \A to \in from .. Len(log) :
     LET answer == SubSeq(log, from, to)
         records == Flattened(answer)
         end == log[to].base + log[to].count
     IN \A f \in log[from].base .. log[from].base + log[from].count - 1 :
        LET aborted == {[producer_id |-> a.producer_id, first_offset |-> a.first_offset] :
                          a \in {t \in all : t.last_offset >= f /\ t.first_offset < end}}
        IN \A read_committed \in BOOLEAN :
           LET Below(x) == read_committed => x < lso
               Due(b) == b.control = "none" /\ (read_committed => b \notin withheld)
               due == SelectSeq(Flattened(SelectSeq(answer, Due)),
                                LAMBDA r : r.offset >= f /\ Below(r.offset))
               passed == {f} \cup {b.base + b.count : b \in {c \in Range(answer) : Below(c.base)}}
               expected == [records |-> due, next_offset |-> Max(passed)]
           IN /\ filter(records, aborted, lso, read_committed, f) = expected
              /\ filter_batches(answer, aborted, lso, read_committed, f) = expected
=============================================================================
