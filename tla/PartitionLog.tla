---------------------------- MODULE PartitionLog ----------------------------
(***************************************************************************)
(* A partition's log as its leader sees it, external: which marker ends    *)
(* which batches of a transaction, how far outcomes are known, which       *)
(* transactions are aborted.                                               *)
(*                                                                         *)
(* A log is a sequence of batches, a batch [producer_id, transactional,    *)
(* control, base, count, ...]; control is "none", or "commit" or "abort"   *)
(* of a marker.  The records of a batch have the offsets                   *)
(* base .. base + count - 1.                                               *)
(***************************************************************************)
EXTENDS Integers, Sequences, SequencesExt, FiniteSetsExt

LogEnd(log) == IF log = << >> THEN 0 ELSE Last(log).base + Last(log).count

Batches(log, p) == {b \in Range(log) : b.producer_id = p /\ b.control = "none"}
Markers(log, p) == {b \in Range(log) : b.producer_id = p /\ b.control # "none"}

EndedBy(log, m) ==
  {b \in Batches(log, m.producer_id) :
     /\ b.base < m.base
     /\ \A c \in Markers(log, m.producer_id) : c.base > b.base => c.base >= m.base}

Open(log, p) == {b \in Batches(log, p) : \A m \in Markers(log, p) : m.base < b.base}

Committed(log, b) == \E m \in Range(log) : m.control = "commit" /\ b \in EndedBy(log, m)

(* What an answer to a fetch says of the log besides its records. *)
last_stable_offset(log) ==
  Min({LogEnd(log)} \cup
      {b.base : b \in {c \in Range(log) : c.transactional /\ c \in Open(log, c.producer_id)}})

aborted_transactions(log) ==
  {[producer_id |-> m.producer_id, last_offset |-> m.base,
    first_offset |-> Min({b.base : b \in EndedBy(log, m)})] :
     m \in {c \in Range(log) : c.control = "abort" /\ EndedBy(log, c) # {}}}
=============================================================================
