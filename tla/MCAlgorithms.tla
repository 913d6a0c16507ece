---------------------------- MODULE MCAlgorithms ----------------------------
(***************************************************************************)
(* The pure functions, each against its definition: the assignors over the *)
(* rounds of AssignorRounds, the filters over the logs of CommittedReads.  *)
(* The two share no state; the log is written only while the first state   *)
(* of the rounds is kept, so that no state of one is paired with a state   *)
(* of the other.                                                           *)
(***************************************************************************)
EXTENDS AssignorRounds, TLC

CONSTANTS p1, p2, Nobody, MaxBatches

VARIABLE log

MCIds == 1 .. 3
MCTopics == 1 .. 2
MCProducer == {p1, p2}
MCSymmetry == Permutations(MCProducer)

Reads == INSTANCE CommittedReads WITH Producer <- MCProducer

Resting == strategy = "range" /\ counts = [t \in Topics |-> 0] /\ changes = 0

AlgorithmsInit == Init /\ Reads!Init

AlgorithmsNext ==
  \/ log = << >> /\ Next /\ UNCHANGED log
  \/ Resting /\ Reads!Next /\ UNCHANGED vars

AlgorithmsSpec == AlgorithmsInit /\ [][AlgorithmsNext]_<< vars, log >>

(* Both filters return exactly the records a read of their isolation level *)
(* is due, and the position after them (filter, filter_batches).           *)
FilterExact == Reads!FilterExact
=============================================================================
