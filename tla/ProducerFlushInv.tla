-------------------------- MODULE ProducerFlushInv --------------------------
(***************************************************************************)
(* The inductive invariant behind the safety of ProducerFlush, as a        *)
(* conjunction of named parts.  TLC checks it on small instances and       *)
(* ProducerFlushProofs proves it for all of them.                          *)
(***************************************************************************)
EXTENDS ProducerFlush

(* Sequence numbers are contiguous from zero, and the producer's counter   *)
(* stands at their end.                                                    *)
Chained(s) ==
  /\ s # <<>> => s[1].base = 0
  /\ \A i \in 1 .. Len(s) - 1 : s[i + 1].base = RangeEnd(s[i])
Contiguous ==
  \A p \in Partition :
    sequences[p] = Contract!EndOf(submitted[p]) /\ Chained(submitted[p])

(* Hence the ranges are disjoint and ascending.  Implied by Contiguous, but *)
(* by induction along the sequence: kept as a conjunct instead.            *)
Ordered(s) == \A i, j \in 1 .. Len(s) : i < j => RangeEnd(s[i]) <= s[j].base
Ascending == \A p \in Partition : Ordered(submitted[p])

(* A batch the brokers may see is submitted and not beyond the window. *)
Sendable(p, range) ==
  \E i \in 1 .. Len(submitted[p]) :
    i <= retired[p] + MaxInFlight /\ submitted[p][i] = range

WireSendable ==
  \A b \in Broker :
    /\ \A i \in 1 .. Len(req[b]) : \A p \in Partition :
         req[b][i][p] # NoBatch => Sendable(p, req[b][i][p])
    /\ \A m \in late[b] : Sendable(m[1], m[2])

(* A log is never more than a window ahead of what flush has retired, so   *)
(* whatever is sent again is still in the broker's cache.                  *)
WithinCache == \A p \in Partition : Len(log[p]) <= retired[p] + MaxInFlight

InWindow == pc \in {"send", "collect", "settle"}

(* Outside a window nothing of it is left behind. *)
WindowCleared ==
  ~InWindow =>
    /\ err = "none" /\ ~aborted
    /\ \A b \in Broker : sent[b] = 0 /\ answers[b] = <<>>
                         /\ req[b] = <<>> /\ resp[b] = <<>>

(* How far the window is. *)
Rounds(b) ==
  /\ Len(answers[b]) <= sent[b]
  /\ sent[b] <= MaxInFlight
  /\ link[b] # "up" => req[b] = <<>>
  /\ link[b] = "none" => resp[b] = <<>>
  /\ Len(resp[b]) + Len(req[b]) <= sent[b] - Len(answers[b])

WindowShape ==
  /\ \A b \in Broker :
       /\ Rounds(b)
       /\ pc = "settle" => Len(answers[b]) = sent[b]
       /\ pc = "send" => answers[b] = <<>>
       /\ pc \in {"collect", "settle"} /\ ~aborted => ~HasRound(b, sent[b] + 1)
  /\ pc = "send" => err = "none" /\ ~aborted

(* No request or answer of this window has been lost with a connection:    *)
(* only then do answers and rounds correspond.  A window that lost one     *)
(* runs out of answers before it runs out of rounds, and so ends in a      *)
(* transport error.                                                        *)
Aligned(b) == Len(resp[b]) + Len(req[b]) = sent[b] - Len(answers[b])

(* The answers to b's rounds so far, read or not. *)
Seen(b) == Len(answers[b]) + Len(resp[b])
Out(b, r) == IF r <= Len(answers[b]) THEN answers[b][r] ELSE resp[b][r - Len(answers[b])]

Honest(b, r, p) ==
  LET o == Out(b, r)[p]
  IN /\ p \notin Taking(b, r) => o = Absent
     /\ p \in Taking(b, r) =>
          /\ o.code \in {"NONE", "NOT_LEADER_OR_FOLLOWER", "REQUEST_TIMED_OUT",
                         "OTHER", "OUT_OF_ORDER_SEQUENCE_NUMBER"}
          /\ o.code = "NONE" => o.off = retired[p] + r /\ o.off <= Len(log[p])
          /\ o.code = "OTHER" => refused
          /\ o.code = "OUT_OF_ORDER_SEQUENCE_NUMBER" =>
               \E q \in 1 .. r - 1 : Out(b, q)[p].code # "NONE"

HonestAt(b) ==
  Aligned(b) =>
    /\ \A r \in 1 .. Seen(b) : \A p \in Partition : Honest(b, r, p)
    /\ \A i \in 1 .. Len(req[b]) : \A p \in Partition :
         req[b][i][p] = IF p \in Taking(b, Seen(b) + i) THEN pending[p][Seen(b) + i]
                                                        ELSE NoBatch

AlignedWindow == InWindow /\ err = "none" => \A b \in Broker : HonestAt(b)

(* What every step of flush, of the brokers and of the network preserves,  *)
(* and what implies the safety properties: queue, window, connections, the *)
(* requests brokers still hold and the logs fit together at every await of *)
(* flush.                                                                  *)
FlushInv ==
  /\ TypeOK
  /\ Contiguous
  /\ Ascending
  /\ NothingSkipped
  /\ ExactlyOnceInOrder
  /\ WithinCache
  /\ WireSendable
  /\ WindowCleared
  /\ WindowShape
  /\ AlignedWindow
  /\ NoSelfFencing
  /\ TrueOffsets
=============================================================================
