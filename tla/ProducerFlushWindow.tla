------------------------ MODULE ProducerFlushWindow -------------------------
(***************************************************************************)
(* Facts about batches and queues, the frames of the invariant's parts,    *)
(* and the client's steps: those of the produce path that happen between   *)
(* two windows, and those of a window, writing its rounds and collecting   *)
(* their answers.                                                          *)
(***************************************************************************)
EXTENDS ProducerFlushInv, TLAPS

(* The producer its constructor returns satisfies the invariant. *)
LEMMA InitInv == Init => FlushInv
<1> SUFFICES ASSUME Init PROVE FlushInv
  BY Zenon
<1> USE FlushAssumption DEF Init
<1>1. TypeOK
  <2>1. StateTypeOK
    BY Zenon DEF StateTypeOK, Identity, TxnState
  <2>2. /\ pending \in [Partition -> Seq(SequenceRange)]
        /\ req \in [Broker -> Seq(Request)]
        /\ resp \in [Broker -> Seq(Answer)]
        /\ answers \in [Broker -> Seq(Answer)]
        /\ log \in [Partition -> Seq(SequenceRange)]
        /\ submitted \in [Partition -> Seq(SequenceRange)]
    OBVIOUS
  <2> QED
    BY <2>1, <2>2, Zenon DEF TypeOK
<1>2. Contiguous /\ Ascending /\ NothingSkipped /\ ExactlyOnceInOrder /\ WithinCache
  BY DEF Contiguous, Ascending, NothingSkipped, ExactlyOnceInOrder, WithinCache,
         Contract!EndOf, Chained, Ordered, TailOf
<1>3. WireSendable /\ WindowCleared
  BY DEF WireSendable, WindowCleared
<1>4. WindowShape /\ AlignedWindow
  BY DEF WindowShape, Rounds, AlignedWindow, InWindow
<1>5. NoSelfFencing /\ TrueOffsets
  BY Zenon DEF NoSelfFencing, TrueOffsets
<1> QED
  BY <1>1, <1>2, <1>3, <1>4, <1>5, Zenon DEF FlushInv

-----------------------------------------------------------------------------
(* Typing facts, one partition or broker at a time. *)

(* What TypeOK says of one partition. *)
LEMMA PartitionTypes ==
  ASSUME TypeOK, NEW p \in Partition
  PROVE  /\ submitted[p] \in Seq(SequenceRange) /\ Len(submitted[p]) \in Nat
         /\ pending[p] \in Seq(SequenceRange) /\ Len(pending[p]) \in Nat
         /\ log[p] \in Seq(SequenceRange) /\ Len(log[p]) \in Nat
         /\ retired[p] \in Nat /\ sequences[p] \in Nat
         /\ meta[p] \in Broker \cup {NoBroker}
  BY DEF TypeOK, StateTypeOK

(* What TypeOK says of one broker and its connection. *)
LEMMA BrokerTypes ==
  ASSUME TypeOK, NEW b \in Broker
  PROVE  /\ req[b] \in Seq(Request) /\ Len(req[b]) \in Nat
         /\ resp[b] \in Seq(Answer) /\ Len(resp[b]) \in Nat
         /\ answers[b] \in Seq(Answer) /\ Len(answers[b]) \in Nat
         /\ sent[b] \in Nat
         /\ link[b] \in {"none", "up", "dead"}
         /\ late[b] \subseteq Partition \X SequenceRange
  BY SMTT(20) DEF TypeOK

(* Where Append puts things. *)
LEMMA AppendAt ==
  ASSUME NEW S, NEW s \in Seq(S), NEW e \in S, NEW t, t = Append(s, e)
  PROVE  (\A q \in 1 .. Len(s) : t[q] = s[q]) /\ t[Len(s) + 1] = e
  OBVIOUS

(* A sequence range is a record of two naturals (core producer.rs, SequenceRange). *)
LEMMA RangeTypes ==
  ASSUME NEW s \in Seq(SequenceRange), NEW i \in 1 .. Len(s)
  PROVE  /\ s[i] \in SequenceRange
         /\ s[i].base \in Nat /\ s[i].count \in Nat \ {0}
         /\ RangeEnd(s[i]) \in Nat /\ RangeEnd(s[i]) = s[i].base + s[i].count
<1>1. s[i] \in SequenceRange
  OBVIOUS
<1> QED
  BY <1>1 DEF SequenceRange, RangeEnd

(* The broker only appends the batch that comes next: of the submitted     *)
(* batches, the one whose first sequence number the log expects is the     *)
(* one right after the log's end.                                          *)
LEMMA NextIsNext ==
  ASSUME NEW s \in Seq(SequenceRange), Chained(s), Ordered(s),
         NEW n \in Nat, n <= Len(s), NEW j \in 1 .. Len(s),
         s[j].base = IF n = 0 THEN 0 ELSE RangeEnd(s[n])
  PROVE  j = n + 1
<1>1. \A i \in 1 .. Len(s) : s[i].base \in Nat /\ s[i].count \in Nat \ {0}
                             /\ RangeEnd(s[i]) = s[i].base + s[i].count
  BY RangeTypes, Zenon
<1>2. \A i, k \in 1 .. Len(s) : i < k => s[i].base + s[i].count <= s[k].base
  BY <1>1, Zenon DEF Ordered
<1>3. CASE n = 0
  <2>1. s[j].base = 0 /\ s[1].base = 0 /\ 1 \in 1 .. Len(s)
    BY <1>3 DEF Chained
  <2> QED
    BY <1>1, <1>2, <1>3, <2>1
<1>4. CASE n > 0
  <2>1. n \in 1 .. Len(s) /\ s[j].base = s[n].base + s[n].count
    BY <1>1, <1>4
  <2>2. ~(j < n) /\ j # n
    BY <1>1, <1>2, <2>1, SMTT(30)
  <2>3. ~(j > n + 1)
    <3>1. SUFFICES ASSUME j > n + 1 PROVE FALSE
      BY Zenon
    <3>2. n + 1 \in 1 .. Len(s) /\ s[n + 1].base = s[n].base + s[n].count
      BY <1>1, <2>1, <3>1 DEF Chained
    <3>3. s[n + 1].base + s[n + 1].count <= s[j].base
      BY <1>2, <3>1, <3>2, Zenon
    <3> QED
      BY <1>1, <2>1, <3>2, <3>3
  <2> QED
    BY <2>2, <2>3
<1> QED
  BY <1>3, <1>4

(* One batch more, starting where the others end. *)
LEMMA OneMoreRange ==
  ASSUME NEW s \in Seq(SequenceRange), Chained(s), Ordered(s),
         NEW e \in SequenceRange, e.base = Contract!EndOf(s)
  PROVE  /\ Append(s, e) \in Seq(SequenceRange)
         /\ Len(Append(s, e)) = Len(s) + 1
         /\ \A i \in 1 .. Len(s) : Append(s, e)[i] = s[i]
         /\ Append(s, e)[Len(s) + 1] = e
         /\ Contract!EndOf(Append(s, e)) = e.base + e.count
         /\ Chained(Append(s, e))
         /\ Ordered(Append(s, e))
<1> DEFINE t == Append(s, e)
           n == Len(s)
<1>1. /\ t \in Seq(SequenceRange) /\ Len(t) = n + 1 /\ n \in Nat
      /\ \A i \in 1 .. n : t[i] = s[i]
      /\ t[n + 1] = e
      /\ t # <<>>
  OBVIOUS
<1> HIDE DEF t, n
<1>2. Contract!EndOf(t) = e.base + e.count
  BY <1>1, Zenon DEF Contract!EndOf
<1>3. n > 0 => e.base = RangeEnd(s[n])
  BY <1>1 DEF Contract!EndOf, RangeEnd, n
<1>4. n = 0 => e.base = 0
  BY DEF Contract!EndOf, n
<1>5. Chained(t)
  <2>1. t[1].base = 0
    BY <1>1, <1>4 DEF Chained, n
  <2>2. ASSUME NEW i \in 1 .. n PROVE t[i + 1].base = RangeEnd(t[i])
    <3>1. CASE i = n
      BY <1>1, <1>3, <3>1
    <3>2. CASE i < n
      BY <1>1, <3>2 DEF Chained, n
    <3> QED
      BY <1>1, <3>1, <3>2
  <2> QED
    BY <1>1, <2>1, <2>2 DEF Chained
<1>6. Ordered(t)
  <2> SUFFICES ASSUME NEW i \in 1 .. n + 1, NEW j \in 1 .. n + 1, i < j
               PROVE  RangeEnd(t[i]) <= t[j].base
    BY <1>1, Zenon DEF Ordered
  <2>1. CASE j <= n
    BY <1>1, <2>1 DEF Ordered, n
  <2>2. CASE j = n + 1
    <3>1. n \in 1 .. n /\ i \in 1 .. n /\ t[i] = s[i] /\ t[j] = e
      BY <1>1, <2>2
    <3>2. /\ s[n].base \in Nat /\ s[n].count \in Nat \ {0}
          /\ RangeEnd(s[n]) = s[n].base + s[n].count
          /\ RangeEnd(s[i]) \in Nat
      BY <3>1, RangeTypes, Zenon DEF n
    <3>3. i < n => RangeEnd(s[i]) <= s[n].base
      BY <1>1, <3>1, Zenon DEF Ordered, n
    <3> QED
      BY <1>1, <1>3, <3>1, <3>2, <3>3, SMTT(20)
  <2> QED
    BY <1>1, <2>1, <2>2
<1> QED
  BY <1>1, <1>2, <1>5, <1>6, Zenon DEF t, n

(* A queue that is the tail of the submitted batches stays so when both    *)
(* get one more.                                                           *)
LEMMA TailAppend ==
  ASSUME NEW s \in Seq(SequenceRange), NEW q \in Seq(SequenceRange),
         NEW k \in Nat, NEW e \in SequenceRange, TailOf(q, s, k)
  PROVE  Append(q, e) \in Seq(SequenceRange) /\ TailOf(Append(q, e), Append(s, e), k)
<1>1. /\ Len(Append(s, e)) = Len(s) + 1 /\ Len(Append(q, e)) = Len(q) + 1
      /\ Len(s) \in Nat /\ Len(q) \in Nat /\ Append(q, e) \in Seq(SequenceRange)
  BY ONLY s \in Seq(SequenceRange), q \in Seq(SequenceRange), e \in SequenceRange
<1> USE DEF TailOf
<1>2. ASSUME NEW i \in 1 .. Len(q) + 1 PROVE Append(q, e)[i] = Append(s, e)[k + i]
  <2>1. CASE i = Len(q) + 1
    <3>1. Append(q, e)[Len(q) + 1] = e /\ Append(s, e)[Len(s) + 1] = e
      OBVIOUS
    <3>2. k + i = Len(s) + 1
      BY <1>1, <2>1
    <3> QED
      BY <2>1, <3>1, <3>2, Zenon
  <2>2. CASE i # Len(q) + 1
    <3>1. i \in 1 .. Len(q) /\ k + i \in 1 .. Len(s)
      BY <1>1, <2>2
    <3>2. Append(q, e)[i] = q[i] /\ Append(s, e)[k + i] = s[k + i]
      BY <3>1
    <3> QED
      BY <3>1, <3>2, Zenon
  <2> QED
    BY <2>1, <2>2, Zenon
<1>3. Len(Append(s, e)) = k + Len(Append(q, e))
  BY <1>1
<1>4. \A i \in 1 .. Len(Append(q, e)) : Append(q, e)[i] = Append(s, e)[k + i]
  BY <1>1, <1>2, Zenon
<1>5. TailOf(Append(q, e), Append(s, e), k)
  BY <1>3, <1>4, Zenon
<1> QED
  BY <1>1, <1>5, Zenon

-----------------------------------------------------------------------------
(* Frames: each part of the invariant survives a step that leaves alone    *)
(* the variables it speaks of.                                             *)

(* The queue facts survive a step that leaves the queues and sequences alone. *)
LEMMA QueuesFrame ==
  ASSUME Contiguous, Ascending, NothingSkipped,
         UNCHANGED << sequences, submitted, pending, retired >>
  PROVE  Contiguous' /\ Ascending' /\ NothingSkipped'
  BY Zenon DEF Contiguous, Ascending, NothingSkipped, Contract!EndOf, Chained, Ordered, TailOf

(* The log facts survive a step that leaves logs and retirements alone. *)
LEMMA LogFrame ==
  ASSUME ExactlyOnceInOrder, WithinCache, UNCHANGED << submitted, log, retired >>
  PROVE  ExactlyOnceInOrder' /\ WithinCache'
  BY Zenon DEF ExactlyOnceInOrder, WithinCache

(* What is on the wire stays sendable while the wire and the queues stand still. *)
LEMMA WireFrame ==
  ASSUME WireSendable, UNCHANGED << submitted, retired, req, late >>
  PROVE  WireSendable'
<1>1. \A p, r : Sendable(p, r)' <=> Sendable(p, r)
  BY Zenon DEF Sendable
<1> QED
  BY <1>1, Zenon DEF WireSendable

(* The window's shape survives a step that touches none of its variables. *)
LEMMA WindowFrame ==
  ASSUME WindowCleared, WindowShape,
         UNCHANGED << pc, err, aborted, sent, answers, req, resp, link, pending, meta >>
  PROVE  WindowCleared' /\ WindowShape'
<1>1. WindowCleared'
  BY Zenon DEF WindowCleared, InWindow
<1>2. WindowShape'
  BY Zenon DEF WindowShape, Rounds, HasRound, Taking, Needed
<1> QED
  BY <1>1, <1>2, Zenon

(* The answers collected stay aligned with the requests sent, likewise. *)
LEMMA AlignedFrame ==
  ASSUME AlignedWindow,
         UNCHANGED << pc, err, sent, answers, req, resp, pending, meta, retired, log,
                      refused >>
  PROVE  AlignedWindow'
<1>1. ASSUME NEW b \in Broker
      PROVE  /\ Aligned(b)' <=> Aligned(b)
             /\ Seen(b)' = Seen(b)
             /\ \A r : Out(b, r)' = Out(b, r) /\ Taking(b, r)' = Taking(b, r)
  BY Zenon DEF Aligned, Seen, Out, Taking, Needed
<1>2. ASSUME NEW b \in Broker, NEW r, NEW p
      PROVE  Honest(b, r, p)' <=> Honest(b, r, p)
  BY <1>1, Zenon DEF Honest
<1> QED
  BY <1>1, <1>2 DEF AlignedWindow, HonestAt, InWindow

(* What flush is about to return stays true, likewise. *)
LEMMA ResultFrame ==
  ASSUME NoSelfFencing, TrueOffsets, UNCHANGED << txn, refused, written, log >>
  PROVE  NoSelfFencing' /\ TrueOffsets'
  BY Zenon DEF NoSelfFencing, TrueOffsets

(* What one broker has answered keeps its meaning while its connection and *)
(* the queues stand still, even if the logs grow.                          *)
LEMMA HonestFrame ==
  ASSUME TypeOK, NEW b \in Broker, HonestAt(b),
         UNCHANGED << pending, meta, retired >>, refused => refused',
         sent'[b] = sent[b], answers'[b] = answers[b],
         req'[b] = req[b], resp'[b] = resp[b],
         \A p \in Partition : Len(log'[p]) \in Nat /\ Len(log'[p]) >= Len(log[p])
  PROVE  HonestAt(b)'
<1>1. /\ Aligned(b)' <=> Aligned(b)
      /\ Seen(b)' = Seen(b)
      /\ \A r : Out(b, r)' = Out(b, r) /\ Taking(b, r)' = Taking(b, r)
  BY Zenon DEF Aligned, Seen, Out, Taking, Needed
<1>2. ASSUME NEW r \in 1 .. Seen(b), NEW p \in Partition, Honest(b, r, p)
      PROVE  Honest(b, r, p)'
  <2>1. Len(log[p]) \in Nat /\ retired[p] \in Nat /\ r \in Int
    BY PartitionTypes, SMTT(30)
  <2>2. retired[p] + r <= Len(log[p]) => retired[p] + r <= Len(log'[p])
    BY <2>1
  <2> QED
    BY <1>1, <1>2, <2>2, Zenon DEF Honest
<1> QED
  BY <1>1, <1>2 DEF HonestAt

(* Outside a window, and before its first request, the window's parts say  *)
(* only that nothing is left over.                                         *)
LEMMA QuietFrame ==
  ASSUME TypeOK, WindowCleared, ~InWindow, ~InWindow' \/ pc' = "send",
         UNCHANGED << err, aborted, sent, answers, req, resp >>
  PROVE  WindowCleared' /\ WindowShape' /\ AlignedWindow'
<1>1. \A b \in Broker : sent'[b] = 0 /\ answers'[b] = <<>> /\ req'[b] = <<>> /\ resp'[b] = <<>>
  BY Zenon DEF WindowCleared
<1>2. err' = "none" /\ ~aborted' /\ pc' \notin {"collect", "settle"}
  BY Zenon DEF WindowCleared, InWindow
<1>3. ASSUME NEW b \in Broker
      PROVE  /\ Len(answers'[b]) <= sent'[b]
             /\ sent'[b] <= MaxInFlight
             /\ Len(resp'[b]) + Len(req'[b]) <= sent'[b] - Len(answers'[b])
             /\ Len(answers'[b]) = sent'[b]
             /\ Len(answers'[b]) + Len(resp'[b]) = 0
             /\ Len(req'[b]) = 0
  <2>1. Len(answers'[b]) = 0 /\ sent'[b] = 0
    BY <1>1, Zenon
  <2>2. Len(resp'[b]) = 0
    BY <1>1, Zenon
  <2>3. Len(req'[b]) = 0
    BY <1>1, Zenon
  <2> QED
    BY <2>1, <2>2, <2>3, FlushAssumption
<1>4. WindowCleared'
  BY <1>1, <1>2, Zenon DEF WindowCleared
<1>5. WindowShape'
  BY <1>1, <1>2, <1>3, Zenon DEF WindowShape, Rounds
<1>6. AlignedWindow'
  <2>1. \A b \in Broker : Seen(b)' = 0 /\ Len(req'[b]) = 0
    BY <1>3, Zenon DEF Seen
  <2> QED
    BY <2>1 DEF AlignedWindow, HonestAt
<1> QED
  BY <1>4, <1>5, <1>6, Zenon

-----------------------------------------------------------------------------
(* Queueing batches, from enqueue or from a flush that drains the staging  *)
(* area.                                                                   *)
LEMMA QueueInv ==
  ASSUME FlushInv, pc = "idle", pc' \in {"idle", "route"},
         NEW S \in SUBSET Partition, NEW count \in [S -> Nat \ {0}], Queue(count),
         written' \in {written, {}},
         staged' \in [Partition -> Nat], due' \subseteq Partition, attempt' \in Nat,
         UNCHANGED << meta, sent, answers, err, aborted, netVars, brokerVars, retired >>
  PROVE  FlushInv'
<1> USE DEF netVars, brokerVars
<1>a. TypeOK /\ Contiguous /\ Ascending /\ NothingSkipped /\ ExactlyOnceInOrder
      /\ WithinCache /\ WireSendable /\ WindowCleared /\ WindowShape
      /\ NoSelfFencing /\ TrueOffsets
  BY Zenon DEF FlushInv
<1>b. ~InWindow /\ ~InWindow'
  BY Zenon DEF InWindow
<1>c. ASSUME NEW p \in Partition
      PROVE  \/ /\ submitted'[p] = submitted[p]
                /\ pending'[p] = pending[p]
                /\ sequences'[p] = sequences[p]
             \/ \E e \in SequenceRange :
                  /\ e.base = sequences[p]
                  /\ submitted'[p] = Append(submitted[p], e)
                  /\ pending'[p] = Append(pending[p], e)
                  /\ sequences'[p] = e.base + e.count
  <2>1. sequences[p] \in Nat
    BY <1>a, PartitionTypes, Zenon
  <2>2. CASE p \in S
    <3> DEFINE e == [base |-> sequences[p], count |-> count[p]]
    <3>1. e \in SequenceRange /\ e.base = sequences[p] /\ e = NextRange(p, count[p])
      BY <2>1, <2>2, Zenon DEF SequenceRange, NextRange
    <3>2. /\ submitted'[p] = Append(submitted[p], e)
          /\ pending'[p] = Append(pending[p], e)
          /\ sequences'[p] = RangeEnd(e)
      BY <2>2, <3>1, Zenon DEF Queue, Allocate
    <3> QED
      BY <3>1, <3>2, Zenon DEF RangeEnd
  <2>3. CASE p \notin S
    BY <2>3, Zenon DEF Queue, Allocate
  <2> QED
    BY <2>2, <2>3, Zenon
<1>d. ASSUME NEW p \in Partition
      PROVE  /\ submitted'[p] \in Seq(SequenceRange)
             /\ pending'[p] \in Seq(SequenceRange)
             /\ sequences'[p] \in Nat
             /\ sequences'[p] = Contract!EndOf(submitted'[p])
             /\ Chained(submitted'[p])
             /\ Ordered(submitted'[p])
             /\ TailOf(pending'[p], submitted'[p], retired[p])
             /\ Len(submitted'[p]) >= Len(submitted[p])
             /\ \A i \in 1 .. Len(submitted[p]) : submitted'[p][i] = submitted[p][i]
  <2>1. /\ submitted[p] \in Seq(SequenceRange) /\ Len(submitted[p]) \in Nat
        /\ pending[p] \in Seq(SequenceRange) /\ Len(pending[p]) \in Nat
        /\ retired[p] \in Nat /\ sequences[p] \in Nat
    BY <1>a, PartitionTypes, Zenon
  <2>2. /\ sequences[p] = Contract!EndOf(submitted[p])
        /\ Chained(submitted[p]) /\ Ordered(submitted[p])
        /\ TailOf(pending[p], submitted[p], retired[p])
    BY <1>a, Zenon DEF Contiguous, Ascending, NothingSkipped
  <2>3. CASE /\ submitted'[p] = submitted[p]
             /\ pending'[p] = pending[p]
             /\ sequences'[p] = sequences[p]
    BY <2>1, <2>2, <2>3, SMTT(30)
  <2>4. CASE \E e \in SequenceRange :
               /\ e.base = sequences[p]
               /\ submitted'[p] = Append(submitted[p], e)
               /\ pending'[p] = Append(pending[p], e)
               /\ sequences'[p] = e.base + e.count
    <3>1. PICK e \in SequenceRange :
                 /\ e.base = sequences[p]
                 /\ submitted'[p] = Append(submitted[p], e)
                 /\ pending'[p] = Append(pending[p], e)
                 /\ sequences'[p] = e.base + e.count
      BY <2>4, Zenon
    <3>2. /\ submitted'[p] \in Seq(SequenceRange)
          /\ Len(submitted'[p]) = Len(submitted[p]) + 1
          /\ \A i \in 1 .. Len(submitted[p]) : submitted'[p][i] = submitted[p][i]
          /\ submitted'[p][Len(submitted[p]) + 1] = e
          /\ Contract!EndOf(submitted'[p]) = e.base + e.count
          /\ Chained(submitted'[p]) /\ Ordered(submitted'[p])
      <4> DEFINE s == submitted[p]
      <4>1. s \in Seq(SequenceRange) /\ Chained(s) /\ Ordered(s) /\ e.base = Contract!EndOf(s)
        BY <2>1, <2>2, <3>1, Zenon
      <4>2. /\ Append(s, e) \in Seq(SequenceRange)
            /\ Len(Append(s, e)) = Len(s) + 1
            /\ \A i \in 1 .. Len(s) : Append(s, e)[i] = s[i]
            /\ Append(s, e)[Len(s) + 1] = e
            /\ Contract!EndOf(Append(s, e)) = e.base + e.count
            /\ Chained(Append(s, e)) /\ Ordered(Append(s, e))
        <5> HIDE DEF s
        <5> QED
          BY <4>1, OneMoreRange, Zenon
      <4>3. submitted'[p] = Append(s, e)
        BY <3>1, Zenon
      <4> QED
        BY <4>2, <4>3, Zenon
    <3>3. /\ pending'[p] \in Seq(SequenceRange)
          /\ TailOf(pending'[p], submitted'[p], retired[p])
      BY <2>1, <2>2, <3>1, TailAppend
    <3>4. sequences'[p] \in Nat /\ sequences'[p] = Contract!EndOf(submitted'[p])
      BY <3>1, <3>2 DEF SequenceRange
    <3>5. Len(submitted'[p]) >= Len(submitted[p])
      BY <2>1, <3>2
    <3> QED
      BY <3>2, <3>3, <3>4, <3>5, Zenon
  <2> QED
    BY <1>c, <2>3, <2>4, Zenon
<1>e. \A p \in Partition :
        /\ Len(submitted[p]) \in Nat /\ Len(submitted'[p]) \in Nat
        /\ Len(submitted'[p]) >= Len(submitted[p])
        /\ \A i \in 1 .. Len(submitted[p]) : submitted'[p][i] = submitted[p][i]
  <2> TAKE p \in Partition
  <2>1. submitted[p] \in Seq(SequenceRange)
    BY <1>a, PartitionTypes, Zenon
  <2>2. /\ submitted'[p] \in Seq(SequenceRange)
        /\ Len(submitted'[p]) >= Len(submitted[p])
        /\ \A i \in 1 .. Len(submitted[p]) : submitted'[p][i] = submitted[p][i]
    BY <1>d, Zenon
  <2> QED
    BY ONLY <2>1, <2>2
<1>1. TypeOK'
  <2>1. StateTypeOK'
    BY <1>a, <1>d, Zenon DEF TypeOK, StateTypeOK, Queue, Allocate
  <2>2. /\ submitted' \in [Partition -> Seq(SequenceRange)]
        /\ pending' \in [Partition -> Seq(SequenceRange)]
    BY <1>d, Zenon DEF Queue
  <2> QED
    BY <1>a, <2>1, <2>2, Zenon DEF TypeOK
<1>2. Contiguous' /\ Ascending' /\ NothingSkipped'
  BY <1>d, Zenon DEF Contiguous, Ascending, NothingSkipped, Contract!EndOf, Chained, Ordered, TailOf
<1>5. ExactlyOnceInOrder' /\ WithinCache'
  <2>1. ASSUME NEW p \in Partition
        PROVE  /\ retired[p] <= Len(log[p])
               /\ Len(log[p]) <= Len(submitted'[p])
               /\ \A i \in 1 .. Len(log[p]) : log[p][i] = submitted'[p][i]
    <3>1. Len(log[p]) \in Nat
      BY <1>a, PartitionTypes, Zenon
    <3>2. /\ retired[p] <= Len(log[p]) /\ Len(log[p]) <= Len(submitted[p])
          /\ \A i \in 1 .. Len(log[p]) : log[p][i] = submitted[p][i]
      BY <1>a, Zenon DEF ExactlyOnceInOrder
    <3> QED
      BY ONLY <1>e, <3>1, <3>2, p \in Partition
  <2> QED
    BY <1>a, <2>1, Zenon DEF ExactlyOnceInOrder, WithinCache
<1>6. WireSendable'
  <2>1. ASSUME NEW p \in Partition, NEW range, Sendable(p, range)
        PROVE  Sendable(p, range)'
    <3>1. PICK i \in 1 .. Len(submitted[p]) : i <= retired[p] + MaxInFlight /\ submitted[p][i] = range
      BY <2>1, Zenon DEF Sendable
    <3>2. i \in 1 .. Len(submitted'[p]) /\ submitted'[p][i] = range
      BY ONLY <1>e, <3>1, p \in Partition
    <3> QED
      BY <3>1, <3>2, Zenon DEF Sendable
  <2>2. \A b \in Broker : req[b] = <<>>
    BY <1>a, <1>b, Zenon DEF WindowCleared
  <2>3. \A b \in Broker : \A m \in late[b] : m[1] \in Partition
    <3>1. late \in [Broker -> SUBSET (Partition \X SequenceRange)]
      BY <1>a, Zenon DEF TypeOK
    <3> QED
      BY ONLY <3>1
  <2> QED
    BY <1>a, <2>1, <2>2, <2>3, Zenon DEF WireSendable
<1>7. WindowCleared' /\ WindowShape' /\ AlignedWindow'
  BY <1>a, <1>b, <1>1, QuietFrame, Zenon
<1>8. NoSelfFencing' /\ TrueOffsets'
  BY <1>a, Zenon DEF NoSelfFencing, TrueOffsets, Queue, Allocate
<1> QED
  BY <1>1, <1>2, <1>5, <1>6, <1>7, <1>8, Zenon DEF FlushInv

(* Steps that touch only the staging area. *)
LEMMA StagingInv ==
  ASSUME FlushInv, staged' \in [Partition -> Nat], due' \subseteq Partition,
         UNCHANGED << stateVars, pending, meta, pc, attempt, sent, answers, err,
                      aborted, written, netVars, brokerVars, submitted, retired >>
  PROVE  FlushInv'
<1> USE DEF stateVars, netVars, brokerVars, FlushInv
<1>1. TypeOK'
  BY Zenon DEF TypeOK, StateTypeOK
<1>2. Contiguous' /\ Ascending' /\ NothingSkipped' /\ ExactlyOnceInOrder' /\ WithinCache'
  BY QueuesFrame, LogFrame, Zenon
<1>3. WireSendable' /\ WindowCleared' /\ WindowShape'
  BY WireFrame, WindowFrame, Zenon
<1>4. AlignedWindow' /\ NoSelfFencing' /\ TrueOffsets'
  BY AlignedFrame, ResultFrame, Zenon
<1> QED
  BY <1>1, <1>2, <1>3, <1>4, Zenon

(* Draining the staged records and entering flush keeps the invariant. *)
LEMMA StartFlushInv ==
  ASSUME FlushInv, pc = "idle", NEW st \in [Partition -> Nat], StartFlush(st)
  PROVE  FlushInv'
<1> DEFINE full == {p \in Partition : st[p] > 0}
           count == [p \in full |-> st[p]]
<1>1. count \in [full -> Nat \ {0}] /\ full \in SUBSET Partition
  OBVIOUS
<1>2. /\ Queue(count)
      /\ written' \in {written, {}} /\ pc' \in {"idle", "route"} /\ attempt' \in Nat
      /\ staged' \in [Partition -> Nat] /\ due' \subseteq Partition
      /\ UNCHANGED << meta, sent, answers, err, aborted, netVars, brokerVars, retired >>
  BY Zenon DEF StartFlush
<1> HIDE DEF full, count
<1> QED
  BY <1>1, <1>2, QueueInv, Zenon

(* Losing one staged batch to a failed enqueue keeps the invariant. *)
LEMMA DropStagedInv ==
  ASSUME FlushInv, NEW st \in [Partition -> Nat],
         NEW ready \in SUBSET Partition, DropStaged(st, ready)
  PROVE  FlushInv'
<1>1. due \subseteq Partition
  BY Zenon DEF FlushInv, TypeOK
<1>2. PICK p \in ready : staged' = [st EXCEPT ![p] = 0] /\ due' = due \ {p}
  BY Zenon DEF DropStaged
<1>3. staged' \in [Partition -> Nat] /\ due' \subseteq Partition
  BY <1>1, <1>2, Zenon
<1> QED
  BY <1>3, StagingInv, Zenon DEF DropStaged

(* The caller's operations and the passing of time. *)
LEMMA CallerInv ==
  ASSUME FlushInv, Caller \/ \E p \in Partition : LingerExpires(p)
  PROVE  FlushInv'
<1>1. staged \in [Partition -> Nat] /\ due \subseteq Partition /\ attempt \in Nat
  BY Zenon DEF FlushInv, TypeOK
<1>2. ASSUME NEW p \in Partition, NEW n \in Counts, Enqueue(p, n) PROVE FlushInv'
  <2>1. [q \in {p} |-> n] \in [{p} -> Nat \ {0}] /\ {p} \in SUBSET Partition
    BY FlushAssumption, Zenon
  <2>2. /\ Queue([q \in {p} |-> n]) /\ pc = "idle" /\ pc' \in {"idle", "route"}
        /\ UNCHANGED << staged, due, meta, attempt, sent, answers, err, aborted,
                        written, netVars, brokerVars, retired >>
    BY <1>2, Zenon DEF Enqueue
  <2> QED
    BY <1>1, <2>1, <2>2, QueueInv, Zenon
<1>3. ASSUME NEW st \in [Partition -> Nat], NEW ready \in SUBSET Partition, pc = "idle", SendReady(st, ready)
      PROVE  FlushInv'
  BY <1>3, StartFlushInv, DropStagedInv, Zenon DEF SendReady
<1>4. ASSUME NEW p \in Partition, ProduceTo(p) PROVE FlushInv'
  <2> DEFINE st == [staged EXCEPT ![p] = @ + 1]
  <2>1. st \in [Partition -> Nat]
    BY <1>1
  <2>a. pc = "idle" /\ due \in SUBSET Partition /\ due \cup {p} \in SUBSET Partition
    BY <1>1, <1>4, Zenon DEF ProduceTo
  <2>b. \/ SendReady(st, due \cup {p}) \/ SendReady(st, due)
        \/ /\ staged' = st
           /\ UNCHANGED << stateVars, pending, due, meta, pc, attempt, sent,
                           answers, err, aborted, written, netVars, brokerVars,
                           submitted, retired >>
    BY <1>4, Zenon DEF ProduceTo
  <2> HIDE DEF st
  <2>2. CASE SendReady(st, due \cup {p})
    BY <1>3, <2>a, <2>1, <2>2, Zenon
  <2>3. CASE SendReady(st, due)
    BY <1>3, <2>a, <2>1, <2>3, Zenon
  <2>4. CASE /\ staged' = st
             /\ UNCHANGED << stateVars, pending, due, meta, pc, attempt, sent,
                             answers, err, aborted, written, netVars, brokerVars,
                             submitted, retired >>
    BY <1>1, <2>1, <2>4, StagingInv, Zenon
  <2> QED
    BY <2>b, <2>2, <2>3, <2>4, Zenon
<1>5. ASSUME Tick PROVE FlushInv'
  BY <1>1, <1>3, <1>5, Zenon DEF Tick
<1>6. ASSUME Flush PROVE FlushInv'
  BY <1>1, <1>6, StartFlushInv, DropStagedInv, Zenon DEF Flush
<1>7. ASSUME NEW p \in Partition, LingerExpires(p) PROVE FlushInv'
  <2>1. due' \subseteq Partition /\ staged' \in [Partition -> Nat]
    BY <1>1, <1>7, Zenon DEF LingerExpires
  <2> QED
    BY <1>7, <2>1, StagingInv, Zenon DEF LingerExpires
<1> QED
  BY <1>2, <1>4, <1>5, <1>6, <1>7, Zenon DEF Caller

-----------------------------------------------------------------------------
(* Routing and metadata, between windows. *)
LEMMA RoutingInv ==
  ASSUME FlushInv, pc \in {"route", "refresh"}, pc' \in {"idle", "route", "send"},
         meta' \in [Partition -> Broker \cup {NoBroker}],
         link' \in [Broker -> {"none", "up", "dead"}],
         faults' \in Nat, attempt' \in Nat,
         UNCHANGED << stateVars, pending, staged, due, sent, answers, err, aborted,
                      written, req, resp, late, leader, log, refused, submitted,
                      retired >>
  PROVE  FlushInv'
<1> USE DEF stateVars, FlushInv
<1>1. TypeOK'
  BY Zenon DEF TypeOK, StateTypeOK
<1>2. Contiguous' /\ Ascending' /\ NothingSkipped' /\ ExactlyOnceInOrder' /\ WithinCache'
  BY QueuesFrame, LogFrame, Zenon
<1>3. WireSendable' /\ NoSelfFencing' /\ TrueOffsets'
  BY WireFrame, ResultFrame, Zenon
<1>4. WindowCleared' /\ WindowShape' /\ AlignedWindow'
  BY QuietFrame, Zenon DEF InWindow
<1> QED
  BY <1>1, <1>2, <1>3, <1>4, Zenon

(* A metadata refresh yields a leader or none for every partition. *)
LEMMA RefreshMetadataTypes ==
  ASSUME TypeOK, NEW early, RefreshMetadata(early) \/ RefreshFails
  PROVE  /\ meta' \in [Partition -> Broker \cup {NoBroker}]
         /\ link' \in [Broker -> {"none", "up", "dead"}]
         /\ faults' \in Nat
<1>1. /\ meta \in [Partition -> Broker \cup {NoBroker}] /\ leader \in [Partition -> Broker]
      /\ link \in [Broker -> {"none", "up", "dead"}] /\ faults \in Nat /\ Pool \subseteq Broker
  BY Zenon DEF TypeOK, Pool
<1>2. CASE RefreshMetadata(early)
  <2>1. faults' \in Nat /\ meta' \in [Partition -> Broker \cup {NoBroker}]
    BY <1>1, <1>2 DEF RefreshMetadata
  <2>2. link' \in [Broker -> {"none", "up", "dead"}]
    BY <1>1, <1>2, Zenon DEF RefreshMetadata
  <2> QED
    BY <2>1, <2>2, Zenon
<1>3. CASE RefreshFails
  BY <1>1, <1>3 DEF RefreshFails
<1> QED
  BY <1>2, <1>3, Zenon

(* The head of flush's loop, which finds the leaders, keeps the invariant. *)
LEMMA RouteInv ==
  ASSUME FlushInv, Route \/ RouteFails \/ Refresh
  PROVE  FlushInv'
<1>0. TypeOK
  BY Zenon DEF FlushInv
<1>1. TypeOK /\ attempt \in Nat /\ attempt + 1 \in Nat
  <2>1. attempt \in Nat
    BY <1>0, Zenon DEF TypeOK
  <2> QED
    BY <1>0, <2>1
<1>2. /\ meta \in [Partition -> Broker \cup {NoBroker}]
      /\ link \in [Broker -> {"none", "up", "dead"}] /\ faults \in Nat
  BY Zenon DEF FlushInv, TypeOK
<1>3. CASE Route
  <2>1. /\ meta' \in [Partition -> Broker \cup {NoBroker}]
        /\ link' \in [Broker -> {"none", "up", "dead"}]
        /\ faults' \in Nat
    BY <1>1, <1>2, <1>3, RefreshMetadataTypes, Zenon DEF Route
  <2>2. pc = "route" /\ pc' \in {"idle", "route", "send"} /\ attempt' \in Nat
    BY <1>1, <1>3, SMTT(30) DEF Route, Backoff
  <2> QED
    BY <1>3, <2>1, <2>2, RoutingInv, Zenon DEF Route
<1>4. CASE RouteFails
  <2>1. pc = "route" /\ pc' \in {"idle", "route", "send"} /\ attempt' \in Nat
    BY <1>4, Zenon DEF RouteFails, Return
  <2> QED
    BY <1>1, <1>4, <2>1, RefreshMetadataTypes, RoutingInv, Zenon DEF RouteFails
<1>5. CASE Refresh
  <2>1. pc = "refresh" /\ pc' \in {"idle", "route", "send"} /\ attempt' \in Nat
    BY <1>1, <1>5 DEF Refresh, Return, Backoff
  <2> QED
    BY <1>1, <1>5, <2>1, RefreshMetadataTypes, RoutingInv, Zenon DEF Refresh
<1> QED
  BY <1>3, <1>4, <1>5, Zenon

-----------------------------------------------------------------------------

-----------------------------------------------------------------------------
(* Writing one round to one broker. *)

(* The batch a round takes is the one after those already retired. *)
LEMMA TakenBatch ==
  ASSUME TypeOK, NothingSkipped, NEW b, NEW r \in Nat \ {0}, r <= MaxInFlight,
         NEW p \in Taking(b, r)
  PROVE  /\ p \in Partition /\ r \in 1 .. Len(pending[p]) /\ meta[p] = b
         /\ pending[p][r] \in SequenceRange
         /\ retired[p] + r \in 1 .. Len(submitted[p])
         /\ pending[p][r] = submitted[p][retired[p] + r]
         /\ Sendable(p, pending[p][r])
<1>1. p \in Partition /\ meta[p] = b /\ Len(pending[p]) >= r
  BY Zenon DEF Taking, Needed
<1>2. /\ pending[p] \in Seq(SequenceRange) /\ Len(pending[p]) \in Nat
      /\ retired[p] \in Nat /\ Len(submitted[p]) \in Nat
  BY <1>1, PartitionTypes, Zenon
<1>3. r \in 1 .. Len(pending[p])
  BY <1>1, <1>2
<1>4. pending[p][r] \in SequenceRange
  BY <1>2, <1>3, RangeTypes, Zenon
<1>5. /\ Len(submitted[p]) = retired[p] + Len(pending[p])
      /\ pending[p][r] = submitted[p][retired[p] + r]
  BY <1>1, <1>3, Zenon DEF NothingSkipped, TailOf
<1>6. retired[p] + r \in 1 .. Len(submitted[p]) /\ retired[p] + r <= retired[p] + MaxInFlight
  <2> DEFINE done == retired[p]
             size == Len(pending[p])
  <2>1. Len(submitted[p]) = done + size /\ done \in Nat /\ size \in Nat /\ r \in 1 .. size
    BY <1>2, <1>3, <1>5, Zenon
  <2>2. MaxInFlight \in Nat
    BY FlushAssumption
  <2> HIDE DEF done, size
  <2>3. done + r \in 1 .. done + size /\ done + r <= done + MaxInFlight
    BY <2>1, <2>2
  <2> QED
    BY <2>1, <2>3, Zenon DEF done
<1>7. Sendable(p, pending[p][r])
  BY <1>5, <1>6, Zenon DEF Sendable
<1> QED
  BY <1>1, <1>3, <1>4, <1>5, <1>6, <1>7, Zenon

(* send_window, all of a round's writes succeeding, keeps the invariant. *)
LEMMA SendWindowInv ==
  ASSUME FlushInv, NEW b \in Broker, SendWindow(b)
  PROVE  FlushInv'
<1> DEFINE r == sent[b] + 1
           body == [p \in Partition |-> IF p \in Taking(b, r) THEN pending[p][r] ELSE NoBatch]
<1>a. TypeOK /\ NothingSkipped /\ WireSendable /\ WindowShape /\ AlignedWindow
  BY Zenon DEF FlushInv
<1>b. /\ pc = "send" /\ pc' \in {"send", "collect"}
      /\ pc' = "collect" => \A c \in Broker : ~HasRound(c, sent'[c] + 1)
      /\ NextToSend(b) /\ SendAt(b, body)
      /\ sent' = [sent EXCEPT ![b] = r]
      /\ UNCHANGED << stateVars, pending, staged, due, meta, attempt, answers, err,
                      aborted, written, brokerVars, submitted, retired >>
  BY Zenon DEF SendWindow
<1>c. /\ sent[b] \in Nat /\ r \in Nat \ {0} /\ r <= MaxInFlight
      /\ Len(req[b]) \in Nat /\ Len(resp[b]) \in Nat
      /\ req[b] \in Seq(Request) /\ resp[b] \in Seq(Answer)
  BY <1>a, <1>b, BrokerTypes DEF NextToSend, HasRound
<1>i. sent[b] \in Nat /\ r \in Nat \ {0} /\ Len(req[b]) \in Nat /\ Len(resp[b]) \in Nat
  BY <1>c, Zenon
<1>d. body \in Request /\ \A p \in Partition : body[p] # NoBatch => Sendable(p, body[p])
  <2>1. ASSUME NEW p \in Partition
        PROVE  /\ body[p] \in SequenceRange \cup {NoBatch}
               /\ body[p] # NoBatch => Sendable(p, body[p])
    BY <1>a, <1>c, TakenBatch, SMTT(20)
  <2> QED
    BY <2>1, Zenon DEF Request
<1> HIDE DEF r, body
(* Only b's connection changes, in one of three ways. *)
<1>e. /\ \A c \in Broker \ {b} : /\ req'[c] = req[c] /\ resp'[c] = resp[c]
                                 /\ link'[c] = link[c] /\ sent'[c] = sent[c]
      /\ sent'[b] = r
      /\ late' = late
      /\ \/ /\ req'[b] = Append(req[b], body) /\ resp'[b] = resp[b]
            /\ link'[b] = "up"
         \/ /\ req'[b] = << body >> /\ resp'[b] = <<>> /\ link'[b] = "up"
         \/ /\ req'[b] = req[b] /\ resp'[b] = resp[b] /\ link'[b] = "dead"
            /\ link[b] = "dead"
  BY <1>a, <1>b DEF TypeOK, SendAt, netVars
<1>f. /\ req' \in [Broker -> Seq(Request)] /\ resp' \in [Broker -> Seq(Answer)]
      /\ link' \in [Broker -> {"none", "up", "dead"}]
      /\ sent' \in [Broker -> Nat]
  <2>1. req \in [Broker -> Seq(Request)] /\ resp \in [Broker -> Seq(Answer)]
        /\ link \in [Broker -> {"none", "up", "dead"}] /\ sent \in [Broker -> Nat]
    BY <1>a, Zenon DEF TypeOK
  <2>2. Append(req[b], body) \in Seq(Request) /\ << body >> \in Seq(Request)
        /\ << >> \in Seq(Answer)
    BY <1>c, <1>d
  <2> QED
    BY <1>b, <1>c, <2>1, <2>2, ZenonT(30) DEF SendAt, netVars
<1>1. TypeOK'
  BY <1>a, <1>b, <1>f, <1>e, Zenon DEF TypeOK, StateTypeOK, stateVars, brokerVars
<1>2. Contiguous' /\ Ascending' /\ NothingSkipped' /\ ExactlyOnceInOrder' /\ WithinCache'
      /\ NoSelfFencing' /\ TrueOffsets'
  BY <1>b, QueuesFrame, LogFrame, ResultFrame, Zenon DEF FlushInv, stateVars, brokerVars
<1>3. WireSendable'
  <2>1. \A p, range : Sendable(p, range)' <=> Sendable(p, range)
    BY <1>b, Zenon DEF Sendable
  <2>2. ASSUME NEW c \in Broker, NEW i \in 1 .. Len(req'[c]), NEW p \in Partition,
               req'[c][i][p] # NoBatch
        PROVE  Sendable(p, req'[c][i][p])
    <3>1. CASE i \in 1 .. Len(req[c]) /\ req'[c][i] = req[c][i]
      BY <1>a, <2>2, <3>1, Zenon DEF WireSendable
    <3>2. CASE req'[c][i] = body
      BY <1>d, <2>2, <3>2, Zenon
    <3>3. (i \in 1 .. Len(req[c]) /\ req'[c][i] = req[c][i]) \/ req'[c][i] = body
      <4>1. CASE c # b
        BY <1>e, <4>1, Zenon
      <4>2. CASE c = b /\ req'[b] = Append(req[b], body)
        BY <1>c, <4>2, SMTT(20)
      <4>3. CASE c = b /\ req'[b] = << body >>
        BY <4>3
      <4>4. CASE c = b /\ req'[b] = req[b]
        BY <4>4, Zenon
      <4> QED
        BY <1>e, <4>1, <4>2, <4>3, <4>4, Zenon
    <3> QED
      BY <3>1, <3>2, <3>3, Zenon
  <2>3. ASSUME NEW c \in Broker, NEW m \in late'[c] PROVE Sendable(m[1], m[2])
    BY <1>a, <1>e, <2>3, Zenon DEF WireSendable
  <2> QED
    BY <2>1, <2>2, <2>3, Zenon DEF WireSendable
<1>4. WindowCleared'
  BY <1>b, Zenon DEF WindowCleared, InWindow
<1>g. /\ answers'[b] = <<>> /\ Len(answers[b]) = 0 /\ Len(answers'[b]) = 0
      /\ Len(resp[b]) + Len(req[b]) <= sent[b]
      /\ link[b] = "dead" => req[b] = <<>>
  <2>1. answers[b] = <<>> /\ Rounds(b)
    BY <1>a, <1>b, Zenon DEF WindowShape
  <2>2. Len(answers[b]) = 0
    BY <2>1
  <2>3. answers'[b] = answers[b]
    BY <1>b, Zenon
  <2>4. Len(resp[b]) + Len(req[b]) <= sent[b] - Len(answers[b])
    BY <2>1, Zenon DEF Rounds
  <2>5. link[b] # "up" => req[b] = <<>>
    BY <2>1, Zenon DEF Rounds
  <2>6. Len(resp[b]) + Len(req[b]) <= sent[b]
    <3> DEFINE x == Len(resp[b])
               y == Len(req[b])
               z == Len(answers[b])
               w == sent[b]
    <3>1. x \in Nat /\ y \in Nat /\ w \in Nat /\ z = 0 /\ x + y <= w - z
      BY <1>i, <2>2, <2>4, Zenon
    <3>2. x + y <= w
      <4> HIDE DEF x, y, z, w
      <4> QED
        BY <3>1
    <3> QED
      BY <3>2, Zenon
  <2> QED
    BY <2>1, <2>2, <2>3, <2>5, <2>6, Zenon
<1>h. \/ /\ req'[b] = Append(req[b], body) /\ resp'[b] = resp[b] /\ link'[b] = "up"
         /\ Len(req'[b]) = Len(req[b]) + 1 /\ Len(resp'[b]) = Len(resp[b])
      \/ /\ req'[b] = << body >> /\ resp'[b] = <<>> /\ link'[b] = "up"
         /\ Len(req'[b]) = 1 /\ Len(resp'[b]) = 0
      \/ /\ req'[b] = req[b] /\ req[b] = <<>> /\ resp'[b] = resp[b] /\ link'[b] = "dead"
         /\ Len(req'[b]) = Len(req[b]) /\ Len(resp'[b]) = Len(resp[b])
  <2>1. CASE req'[b] = Append(req[b], body) /\ resp'[b] = resp[b] /\ link'[b] = "up"
    BY <1>c, <2>1
  <2>2. CASE req'[b] = << body >> /\ resp'[b] = <<>> /\ link'[b] = "up"
    BY <2>2, Zenon
  <2>3. CASE req'[b] = req[b] /\ resp'[b] = resp[b] /\ link'[b] = "dead" /\ link[b] = "dead"
    BY <1>g, <2>3, Zenon
  <2> QED
    BY <1>e, <2>1, <2>2, <2>3, Zenon
<1>5. WindowShape'
  <2>1. ASSUME NEW c \in Broker PROVE Rounds(c)'
    <3>1. CASE c # b
      <4>1. Rounds(c)
        BY <1>a, Zenon DEF WindowShape
      <4> QED
        BY <1>b, <1>e, <3>1, <4>1, Zenon DEF Rounds
    <3>2. CASE c = b
      <4>1. /\ Len(answers'[b]) <= sent'[b] /\ sent'[b] <= MaxInFlight
            /\ Len(resp'[b]) + Len(req'[b]) <= sent'[b] - Len(answers'[b])
        <5>1. \/ Len(req'[b]) = Len(req[b]) + 1 /\ Len(resp'[b]) = Len(resp[b])
              \/ Len(req'[b]) = 1 /\ Len(resp'[b]) = 0
              \/ Len(req'[b]) = Len(req[b]) /\ Len(resp'[b]) = Len(resp[b])
          BY <1>h, Zenon
        <5>2. /\ Len(answers'[b]) = 0 /\ sent'[b] = sent[b] + 1
              /\ Len(resp[b]) + Len(req[b]) <= sent[b] /\ r <= MaxInFlight
          BY <1>c, <1>e, <1>g, Zenon DEF r
        <5> DEFINE x == Len(resp[b])
                   y == Len(req[b])
                   x1 == Len(resp'[b])
                   y1 == Len(req'[b])
                   z == Len(answers'[b])
                   w == sent[b]
                   w1 == sent'[b]
        <5>3. /\ x \in Nat /\ y \in Nat /\ w \in Nat /\ z = 0 /\ w1 = w + 1
              /\ (y1 = y + 1 /\ x1 = x) \/ (y1 = 1 /\ x1 = 0) \/ (y1 = y /\ x1 = x)
              /\ x + y <= w /\ w + 1 <= MaxInFlight
          BY <1>i, <5>1, <5>2, Zenon DEF r
        <5>4. z <= w1 /\ w1 <= MaxInFlight /\ x1 + y1 <= w1 - z
          <6> HIDE DEF x, y, x1, y1, z, w, w1
          <6> QED
            BY <5>3
        <5> QED
          BY <5>4, Zenon
      <4>2. (link'[b] # "up" => req'[b] = <<>>) /\ link'[b] # "none"
        BY <1>h, Zenon
      <4> QED
        BY <3>2, <4>1, <4>2, Zenon DEF Rounds
    <3> QED
      BY <3>1, <3>2, Zenon
  <2>2. \A c \in Broker : (pc = "send" => answers[c] = <<>>) /\ err = "none" /\ ~aborted
    BY <1>a, <1>b, Zenon DEF WindowShape
  <2>3. ASSUME NEW c \in Broker, pc' = "collect" PROVE ~HasRound(c, sent[c] + 1)'
    BY <1>b, <2>3, Zenon DEF HasRound, Taking, Needed
  <2>4. \A c \in Broker : answers'[c] = <<>>
    BY <1>b, <2>2, Zenon
  <2>5. err' = "none" /\ ~aborted'
    BY <1>a, <1>b, Zenon DEF WindowShape
  <2>6. pc' # "settle" /\ (pc' \in {"collect", "settle"} => pc' = "collect")
    BY <1>b, Zenon
  <2> QED
    BY <2>1, <2>3, <2>4, <2>5, <2>6, Zenon DEF WindowShape
<1>6. AlignedWindow'
  <2>1. InWindow /\ err = "none"
    BY <1>a, <1>b, Zenon DEF InWindow, WindowShape
  <2>2. ASSUME NEW c \in Broker PROVE HonestAt(c)'
    <3>1. HonestAt(c)
      BY <1>a, <2>1, Zenon DEF AlignedWindow
    <3>2. CASE c # b
      <4>0. TypeOK /\ log' = log
        BY <1>a, <1>b, Zenon DEF brokerVars
      <4>1. \A p \in Partition : Len(log'[p]) \in Nat /\ Len(log'[p]) >= Len(log[p])
        BY <4>0, PartitionTypes
      <4> QED
        BY <1>a, <1>b, <1>e, <3>1, <3>2, <4>1, HonestFrame, Zenon DEF brokerVars
    <3>3. CASE c = b
      <4> DEFINE x == Len(resp[b])
                 y == Len(req[b])
                 w == sent[b]
      <4>1. SUFFICES ASSUME Aligned(b)'
                     PROVE  /\ \A q \in 1 .. Seen(b)' : \A p \in Partition : Honest(b, q, p)'
                            /\ \A i \in 1 .. Len(req'[b]) : \A p \in Partition :
                                 req'[b][i][p] = IF p \in Taking(b, Seen(b)' + i)
                                                 THEN pending[p][Seen(b)' + i] ELSE NoBatch
        <5>1. \A q, p : p \in Taking(b, q)' <=> p \in Taking(b, q)
          BY <1>b, Zenon DEF Taking, Needed
        <5> QED
          BY <1>b, <3>3, <5>1 DEF HonestAt, Taking, Needed
      <4>2. x \in Nat /\ y \in Nat /\ w \in Nat /\ x + y <= w /\ r = w + 1
        BY <1>i, <1>g, Zenon DEF r
      <4>3. Len(resp'[b]) + Len(req'[b]) = w + 1 - 0
        <5>1. Len(resp'[b]) + Len(req'[b]) = sent'[b] - Len(answers'[b])
          BY <4>1, Zenon DEF Aligned
        <5>2. sent'[b] = w + 1 /\ Len(answers'[b]) = 0
          BY <1>e, <1>g, Zenon DEF r
        <5> DEFINE total == Len(resp'[b]) + Len(req'[b])
                   w1 == sent'[b]
                   z1 == Len(answers'[b])
        <5>3. total = w + 1 - 0
          <6>1. total = w1 - z1 /\ w1 = w + 1 /\ z1 = 0
            BY <5>1, <5>2, Zenon
          <6> HIDE DEF total, w1, z1, w
          <6> QED
            BY <6>1
        <5> QED
          BY <5>3, Zenon
      <4>4. \A p \in Partition : body[p] = IF p \in Taking(b, r) THEN pending[p][r] ELSE NoBatch
        BY Zenon DEF body
      <4>5. CASE /\ req'[b] = Append(req[b], body) /\ resp'[b] = resp[b]
                 /\ Len(req'[b]) = Len(req[b]) + 1 /\ Len(resp'[b]) = Len(resp[b])
        <5>1. x + y = w
          <6>1. x + (y + 1) = w + 1 - 0
            BY <4>3, <4>5, Zenon
          <6> HIDE DEF x, y, w
          <6> QED
            BY <4>2, <6>1
        <5>2. Aligned(b)
          <6>1. Len(resp[b]) + Len(req[b]) = sent[b] - 0
            <7> HIDE DEF x, y, w
            <7>1. x + y = w - 0
              BY <4>2, <5>1
            <7> QED
              BY <7>1, Zenon DEF x, y, w
          <6> QED
            BY <1>g, <6>1, Zenon DEF Aligned
        <5>3. Seen(b) = x /\ Seen(b)' = x
          <6>1. Seen(b) = 0 + x /\ Seen(b)' = 0 + x
            BY <1>g, <4>5, Zenon DEF Seen
          <6> HIDE DEF x
          <6> QED
            BY <4>2, <6>1
        <5>4. \A q, p : Honest(b, q, p)' <=> Honest(b, q, p)
          <6>1. \A q : Out(b, q)' = Out(b, q) /\ Taking(b, q)' = Taking(b, q)
            BY <1>b, <4>5, Zenon DEF Out, Taking, Needed
          <6>2. retired' = retired /\ log' = log /\ refused' = refused
            BY <1>b, Zenon DEF brokerVars
          <6> QED
            BY <6>1, <6>2 DEF Honest
        <5>5. /\ \A q \in 1 .. x : \A p \in Partition : Honest(b, q, p)
              /\ \A i \in 1 .. y : \A p \in Partition :
                   req[b][i][p] = IF p \in Taking(b, x + i) THEN pending[p][x + i] ELSE NoBatch
          BY <3>1, <3>3, <5>2, <5>3, Zenon DEF HonestAt
        <5>6. ASSUME NEW i \in 1 .. y + 1, NEW p \in Partition
              PROVE  req'[b][i][p] = IF p \in Taking(b, x + i) THEN pending[p][x + i] ELSE NoBatch
          <6>1. CASE i = y + 1
            <7>1. x + i = r
              <8> HIDE DEF x, y, w
              <8> QED
                BY <4>2, <5>1, <6>1, SMTT(20)
            <7>2. req'[b][i] = body
              BY <1>c, <4>5, <6>1
            <7> QED
              BY <4>4, <7>1, <7>2, Zenon
          <6>2. CASE i # y + 1
            <7>1. i \in 1 .. y
              <8> HIDE DEF y
              <8> QED
                BY <4>2, <6>2
            <7>2. req'[b][i] = req[b][i]
              BY <1>c, <4>5, <7>1
            <7> QED
              BY <5>5, <7>1, <7>2, Zenon
          <6> QED
            BY <6>1, <6>2, Zenon
        <5> QED
          BY <4>5, <5>3, <5>4, <5>5, <5>6, Zenon
      <4>6. CASE /\ req'[b] = << body >> /\ resp'[b] = <<>>
                 /\ Len(req'[b]) = 1 /\ Len(resp'[b]) = 0
        <5>1. w = 0 /\ r = 1
          <6>1. 0 + 1 = w + 1 - 0
            BY <4>3, <4>6, Zenon
          <6> HIDE DEF w
          <6> QED
            BY <4>2, <6>1
        <5>2. Seen(b)' = 0
          <6>1. Seen(b)' = 0 + 0
            BY <1>g, <4>6, Zenon DEF Seen
          <6> QED
            BY <6>1
        <5>3. ASSUME NEW i \in 1 .. 1, NEW p \in Partition
              PROVE  req'[b][i][p] = IF p \in Taking(b, 0 + i) THEN pending[p][0 + i] ELSE NoBatch
          <6>1. i = 1 /\ 0 + i = r /\ req'[b][i] = body
            BY <4>6, <5>1
          <6> QED
            BY <4>4, <6>1, Zenon
        <5> QED
          BY <4>6, <5>2, <5>3
      <4>7. CASE Len(req'[b]) = Len(req[b]) /\ Len(resp'[b]) = Len(resp[b])
        <5>1. x + y = w + 1 - 0
          BY <4>3, <4>7, Zenon
        <5>2. FALSE
          <6> HIDE DEF x, y, w
          <6> QED
            BY <4>2, <5>1
        <5> QED
          BY <5>2, Zenon
      <4> QED
        BY <1>h, <4>5, <4>6, <4>7, ZenonT(30)
    <3> QED
      BY <3>2, <3>3, Zenon
  <2> QED
    BY <2>2, Zenon DEF AlignedWindow
<1> QED
  BY <1>1, <1>2, <1>3, <1>4, <1>5, <1>6, Zenon DEF FlushInv

-----------------------------------------------------------------------------
(* Giving a connection up. *)

(* The requests a broker still holds become late ones: they stay sendable. *)
LEMMA LateRequests ==
  ASSUME TypeOK, WireSendable, NEW b \in Broker,
         late' = [late EXCEPT ![b] = @ \cup Outstanding(b)],
         req' = [req EXCEPT ![b] = <<>>],
         UNCHANGED << submitted, retired >>
  PROVE  /\ WireSendable'
         /\ late' \in [Broker -> SUBSET (Partition \X SequenceRange)]
         /\ req' \in [Broker -> Seq(Request)]
         /\ req'[b] = <<>> /\ \A c \in Broker \ {b} : req'[c] = req[c]
<1>1. /\ late \in [Broker -> SUBSET (Partition \X SequenceRange)]
      /\ req \in [Broker -> Seq(Request)]
  BY Zenon DEF TypeOK
<1>2. ASSUME NEW m \in Outstanding(b)
      PROVE  m \in Partition \X SequenceRange /\ Sendable(m[1], m[2])
  <2>0. PICK i \in DOMAIN req[b] : m \in { << p, req[b][i][p] >> : p \in Carries(req[b][i]) }
    BY Zenon DEF Outstanding
  <2>1. PICK p \in Carries(req[b][i]) : m = << p, req[b][i][p] >>
    BY <2>0, Zenon
  <2>2. i \in 1 .. Len(req[b]) /\ req[b][i] \in Request
    BY <1>1
  <2>3. p \in Partition /\ req[b][i][p] # NoBatch
    BY Zenon DEF Carries
  <2>4. req[b][i][p] \in SequenceRange
    BY <2>2, <2>3, Zenon DEF Request
  <2>5. Sendable(p, req[b][i][p])
    BY <2>2, <2>3, Zenon DEF WireSendable
  <2> QED
    BY <2>1, <2>3, <2>4, <2>5, Zenon
<1>3. \A p, range : Sendable(p, range)' <=> Sendable(p, range)
  BY Zenon DEF Sendable
<1>4. req'[b] = <<>> /\ \A c \in Broker \ {b} : req'[c] = req[c]
  BY <1>1, Zenon
<1>5. ASSUME NEW c \in Broker, NEW m \in late'[c]
      PROVE  m \in Partition \X SequenceRange /\ Sendable(m[1], m[2])
  <2>1. m \in late[c] \/ m \in Outstanding(b)
    BY <1>1, Zenon
  <2> QED
    BY <1>1, <1>2, <2>1, Zenon DEF WireSendable
<1>6. ASSUME NEW c \in Broker, NEW i \in 1 .. Len(req'[c]), NEW p \in Partition,
             req'[c][i][p] # NoBatch
      PROVE  Sendable(p, req'[c][i][p])
  <2>1. CASE c = b
    BY <1>4, <2>1
  <2>2. CASE c # b
    BY <1>4, <1>6, <2>2, Zenon DEF WireSendable
  <2> QED
    BY <2>1, <2>2, Zenon
<1>7. WireSendable'
  BY <1>3, <1>5, <1>6, Zenon DEF WireSendable
<1>8. req' \in [Broker -> Seq(Request)]
  BY <1>1
<1>9. late' \in [Broker -> SUBSET (Partition \X SequenceRange)]
  BY <1>1, <1>5, Zenon
<1> QED
  BY <1>4, <1>7, <1>8, <1>9, Zenon

(* What dropping a connection does to its queues. *)
LEMMA DropLinkFacts ==
  ASSUME TypeOK, WireSendable, NEW b \in Broker, DropLink(b),
         UNCHANGED << submitted, retired >>
  PROVE  /\ WireSendable'
         /\ late' \in [Broker -> SUBSET (Partition \X SequenceRange)]
         /\ req' \in [Broker -> Seq(Request)]
         /\ resp' \in [Broker -> Seq(Answer)]
         /\ link' \in [Broker -> {"none", "up", "dead"}]
         /\ req'[b] = <<>> /\ resp'[b] = <<>> /\ link'[b] = "none"
         /\ \A c \in Broker \ {b} :
              req'[c] = req[c] /\ resp'[c] = resp[c] /\ link'[c] = link[c]
<1>1. resp \in [Broker -> Seq(Answer)] /\ link \in [Broker -> {"none", "up", "dead"}]
  BY Zenon DEF TypeOK
<1>2. /\ resp' \in [Broker -> Seq(Answer)] /\ link' \in [Broker -> {"none", "up", "dead"}]
      /\ resp'[b] = <<>> /\ link'[b] = "none"
      /\ \A c \in Broker \ {b} : resp'[c] = resp[c] /\ link'[c] = link[c]
  BY <1>1 DEF DropLink
<1> QED
  BY <1>2, LateRequests, Zenon DEF DropLink

(* send_window failing part of the way keeps the invariant. *)
LEMMA SendWindowFailsInv ==
  ASSUME FlushInv, NEW b \in Broker, SendWindowFails(b)
  PROVE  FlushInv'
<1>a. TypeOK /\ WireSendable /\ WindowShape /\ AlignedWindow
  BY Zenon DEF FlushInv
<1>b. /\ pc = "send" /\ pc' \in {"settle", "collect"}
      /\ pc' = "settle" => \A c \in Broker : sent[c] = 0
      /\ faults' = faults + 1 /\ aborted' = TRUE /\ DropLink(b)
      /\ UNCHANGED << stateVars, pending, staged, due, meta, attempt, sent, answers,
                      err, written, leader, log, refused, submitted, retired >>
  BY Zenon DEF SendWindowFails
<1>c. /\ WireSendable'
      /\ late' \in [Broker -> SUBSET (Partition \X SequenceRange)]
      /\ req' \in [Broker -> Seq(Request)] /\ resp' \in [Broker -> Seq(Answer)]
      /\ link' \in [Broker -> {"none", "up", "dead"}]
      /\ req'[b] = <<>> /\ resp'[b] = <<>> /\ link'[b] = "none"
      /\ \A c \in Broker \ {b} :
           req'[c] = req[c] /\ resp'[c] = resp[c] /\ link'[c] = link[c]
  BY <1>a, <1>b, DropLinkFacts, Zenon
<1>d. \A c \in Broker : /\ answers'[c] = answers[c] /\ answers[c] = <<>>
                        /\ sent'[c] = sent[c] /\ sent[c] \in Nat /\ Rounds(c)
  BY <1>a, <1>b, BrokerTypes, Zenon DEF WindowShape
<1>e. \A c \in Broker : Len(answers'[c]) = 0 /\ (sent[c] = 0 => Len(answers'[c]) = sent'[c])
  BY <1>d
<1>1. TypeOK'
  <2>1. faults' \in Nat
    BY <1>a, <1>b DEF TypeOK
  <2> QED
    BY <1>a, <1>b, <1>c, <2>1, Zenon DEF TypeOK, StateTypeOK, stateVars
<1>2. Contiguous' /\ Ascending' /\ NothingSkipped' /\ ExactlyOnceInOrder' /\ WithinCache'
      /\ NoSelfFencing' /\ TrueOffsets'
  BY <1>b, QueuesFrame, LogFrame, ResultFrame, Zenon DEF FlushInv, stateVars
<1>3. WindowCleared'
  BY <1>b, Zenon DEF WindowCleared, InWindow
<1>4. WindowShape'
  <2>1. ASSUME NEW c \in Broker PROVE Rounds(c)'
    <3>1. CASE c # b
      BY <1>c, <1>d, <3>1, Zenon DEF Rounds
    <3>2. CASE c = b
      <4>1. Len(req'[b]) = 0 /\ Len(answers'[b]) = 0
        BY <1>c, <1>e, Zenon
      <4>2. Len(resp'[b]) = 0 /\ sent'[b] \in Nat /\ sent'[b] <= MaxInFlight
        BY <1>c, <1>d, Zenon DEF Rounds
      <4>3. /\ Len(answers'[b]) <= sent'[b]
            /\ Len(resp'[b]) + Len(req'[b]) <= sent'[b] - Len(answers'[b])
        BY <4>1, <4>2
      <4> QED
        BY <1>c, <3>2, <4>2, <4>3, Zenon DEF Rounds
    <3> QED
      BY <3>1, <3>2, Zenon
  <2>2. \A c \in Broker : pc' = "settle" => Len(answers'[c]) = sent'[c]
    BY <1>b, <1>e, Zenon
  <2>3. pc' # "send" /\ aborted'
    BY <1>b, Zenon
  <2> QED
    BY <2>1, <2>2, <2>3, Zenon DEF WindowShape
<1>5. AlignedWindow'
  <2>1. \A c \in Broker : HonestAt(c)
    BY <1>a, <1>b, Zenon DEF AlignedWindow, InWindow, WindowShape
  <2>2. ASSUME NEW c \in Broker PROVE HonestAt(c)'
    <3>1. CASE c # b
      <4>1. log' = log
        BY <1>b, Zenon
      <4>2. \A p \in Partition : Len(log'[p]) \in Nat /\ Len(log'[p]) >= Len(log[p])
        BY <1>a, <4>1, PartitionTypes
      <4> QED
        BY <1>a, <1>b, <1>c, <2>1, <3>1, <4>2, HonestFrame, Zenon
    <3>2. CASE c = b
      <4>1. Len(answers'[b]) = 0 /\ Len(resp'[b]) = 0
        BY <1>c, <1>e, Zenon
      <4>2. Seen(b)' = 0 /\ Len(req'[b]) = 0
        BY <1>c, <4>1, SMTT(30) DEF Seen
      <4> QED
        BY <3>2, <4>2 DEF HonestAt
    <3> QED
      BY <3>1, <3>2, Zenon
  <2> QED
    BY <2>2, Zenon DEF AlignedWindow
<1> QED
  BY <1>c, <1>1, <1>2, <1>3, <1>4, <1>5, Zenon DEF FlushInv

-----------------------------------------------------------------------------
(* Collecting one answer. *)

(* What any collected answer does to the window, read or failed. *)
LEMMA CollectedFacts ==
  ASSUME FlushInv, NEW b \in Broker, NEW answer \in Answer, Collected(b, answer)
  PROVE  /\ pc = "collect" /\ pc' \in {"collect", "settle"}
         /\ answers' \in [Broker -> Seq(Answer)]
         /\ answers'[b] = Append(answers[b], answer)
         /\ Len(answers'[b]) = Len(answers[b]) + 1
         /\ Len(answers[b]) + 1 <= sent[b]
         /\ \A c \in Broker \ {b} : answers'[c] = answers[c]
         /\ pc' = "settle" => \A c \in Broker : Len(answers'[c]) = sent[c]
         /\ UNCHANGED << stateVars, pending, staged, due, meta, attempt, sent, aborted,
                         written, leader, log, refused, submitted, retired >>
         /\ Contiguous' /\ Ascending' /\ NothingSkipped'
         /\ ExactlyOnceInOrder' /\ WithinCache' /\ NoSelfFencing' /\ TrueOffsets'
         /\ WindowCleared'
         /\ (\A c \in Broker : Rounds(c)') => WindowShape'
<1>1. /\ pc = "collect" /\ pc' \in {"collect", "settle"} /\ NextToCollect(b)
      /\ answers' = [answers EXCEPT ![b] = Append(@, answer)]
      /\ pc' = "settle" => \A c \in Broker : Len(answers'[c]) = sent[c]
      /\ UNCHANGED << stateVars, pending, staged, due, meta, attempt, sent, aborted,
                      written, leader, log, refused, submitted, retired >>
  BY Zenon DEF Collected
<1>2. answers \in [Broker -> Seq(Answer)] /\ sent[b] \in Nat
  BY Zenon DEF FlushInv, TypeOK
<1>3. /\ answers' \in [Broker -> Seq(Answer)]
      /\ answers'[b] = Append(answers[b], answer)
      /\ Len(answers'[b]) = Len(answers[b]) + 1
      /\ \A c \in Broker \ {b} : answers'[c] = answers[c]
  BY <1>1, <1>2
<1>4. Len(answers[b]) + 1 <= sent[b]
  <2> DEFINE z == Len(answers[b])
             w == sent[b]
  <2>1. z \in Nat /\ w \in Nat /\ z < w
    BY <1>1, <1>2 DEF NextToCollect
  <2> HIDE DEF z, w
  <2>2. z + 1 <= w
    BY <2>1
  <2> QED
    BY <2>2, Zenon DEF z, w
<1>5. /\ Contiguous' /\ Ascending' /\ NothingSkipped'
      /\ ExactlyOnceInOrder' /\ WithinCache' /\ NoSelfFencing' /\ TrueOffsets'
  BY <1>1, QueuesFrame, LogFrame, ResultFrame, Zenon DEF FlushInv, stateVars
<1>6. WindowCleared'
  BY <1>1, Zenon DEF WindowCleared, InWindow
<1>7. ASSUME \A c \in Broker : Rounds(c)' PROVE WindowShape'
  <2>1. \A c \in Broker : pc' = "settle" => Len(answers'[c]) = sent'[c]
    BY <1>1, Zenon
  <2>2. ASSUME NEW c \in Broker PROVE ~aborted' => ~HasRound(c, sent[c] + 1)'
    <3>1. ~aborted => ~HasRound(c, sent[c] + 1)
      BY <1>1, Zenon DEF FlushInv, WindowShape
    <3>2. HasRound(c, sent[c] + 1)' <=> HasRound(c, sent[c] + 1)
      BY <1>1, Zenon DEF HasRound, Taking, Needed
    <3>3. aborted' = aborted
      BY <1>1, Zenon
    <3> QED
      BY <3>1, <3>2, <3>3, Zenon
  <2>3. pc' # "send"
    BY <1>1, Zenon
  <2> QED
    BY <1>7, <2>1, <2>2, <2>3, Zenon DEF WindowShape
<1> QED
  BY <1>1, <1>3, <1>4, <1>5, <1>6, <1>7, Zenon

(* Collecting one answer keeps the invariant. *)
LEMMA ReceiveInv ==
  ASSUME FlushInv, NEW b \in Broker, Receive(b)
  PROVE  FlushInv'
<1> DEFINE answer == Head(resp[b])
<1>a. TypeOK /\ WireSendable /\ WindowShape /\ AlignedWindow
  BY Zenon DEF FlushInv
<1>b. /\ resp[b] # <<>> /\ Collected(b, answer)
      /\ resp' = [resp EXCEPT ![b] = Tail(@)]
      /\ UNCHANGED << err, link, req, late, faults >>
  BY Zenon DEF Receive
<1>c. /\ resp \in [Broker -> Seq(Answer)] /\ resp[b] \in Seq(Answer)
      /\ answers[b] \in Seq(Answer) /\ Len(answers[b]) \in Nat
      /\ Len(req[b]) \in Nat /\ sent[b] \in Nat
  BY <1>a, BrokerTypes, Zenon DEF TypeOK
<1>d. /\ answer \in Answer /\ resp'[b] = Tail(resp[b])
      /\ Len(resp[b]) \in Nat \ {0} /\ Len(resp'[b]) = Len(resp[b]) - 1
      /\ \A i \in 1 .. Len(resp[b]) - 1 : resp'[b][i] = resp[b][i + 1]
      /\ answer = resp[b][1]
      /\ resp' \in [Broker -> Seq(Answer)]
      /\ \A c \in Broker \ {b} : resp'[c] = resp[c]
  BY <1>b, <1>c
<1> HIDE DEF answer
<1>e. /\ pc = "collect" /\ pc' \in {"collect", "settle"}
      /\ answers' \in [Broker -> Seq(Answer)]
      /\ answers'[b] = Append(answers[b], answer)
      /\ Len(answers'[b]) = Len(answers[b]) + 1
      /\ Len(answers[b]) + 1 <= sent[b]
      /\ \A c \in Broker \ {b} : answers'[c] = answers[c]
      /\ UNCHANGED << stateVars, pending, staged, due, meta, attempt, sent, aborted,
                      written, leader, log, refused, submitted, retired >>
      /\ Contiguous' /\ Ascending' /\ NothingSkipped'
      /\ ExactlyOnceInOrder' /\ WithinCache' /\ NoSelfFencing' /\ TrueOffsets'
      /\ WindowCleared'
      /\ (\A c \in Broker : Rounds(c)') => WindowShape'
  BY <1>b, <1>d, CollectedFacts, Zenon
<1>1. TypeOK'
  BY <1>a, <1>b, <1>d, <1>e, Zenon DEF TypeOK, StateTypeOK, stateVars
<1>2. WireSendable'
  BY <1>a, <1>b, <1>e, WireFrame, Zenon
<1> DEFINE x == Len(resp[b])
           y == Len(req[b])
           z == Len(answers[b])
           w == sent[b]
<1>f. x \in Nat \ {0} /\ y \in Nat /\ z \in Nat /\ w \in Nat /\ z + 1 <= w
  BY <1>c, <1>d, <1>e, Zenon
<1>3. ASSUME NEW c \in Broker PROVE Rounds(c)'
  <2>1. Rounds(c)
    BY <1>a, Zenon DEF WindowShape
  <2>2. CASE c # b
    BY <1>b, <1>d, <1>e, <2>1, <2>2, Zenon DEF Rounds
  <2>3. CASE c = b
    <3>1. /\ w <= MaxInFlight /\ x + y <= w - z
          /\ (link[b] # "up" => req[b] = <<>>) /\ (link[b] = "none" => resp[b] = <<>>)
      BY <2>1, <2>3, Zenon DEF Rounds
    <3>2. z + 1 <= w /\ x - 1 + y <= w - (z + 1)
      <4>1. x + y <= w - z
        BY <3>1, Zenon
      <4> HIDE DEF x, y, z, w
      <4> QED
        BY <1>f, <4>1
    <3>3. Len(answers'[b]) = z + 1 /\ Len(resp'[b]) = x - 1 /\ req' = req /\ sent' = sent /\ link' = link
      BY <1>b, <1>d, <1>e, Zenon
    <3>4. link[b] # "none"
      BY <1>b, <3>1, Zenon
    <3> HIDE DEF z, x, y, w
    <3>5. /\ Len(answers'[b]) <= sent'[b] /\ sent'[b] <= MaxInFlight
          /\ Len(resp'[b]) + Len(req'[b]) <= sent'[b] - Len(answers'[b])
      BY <3>1, <3>2, <3>3, Zenon DEF y, w
    <3> QED
      BY <2>3, <3>1, <3>3, <3>4, <3>5, Zenon DEF Rounds
  <2> QED
    BY <2>2, <2>3, Zenon
<1>4. AlignedWindow'
  <2>1. SUFFICES ASSUME err = "none", NEW c \in Broker PROVE HonestAt(c)'
    BY <1>b, Zenon DEF AlignedWindow
  <2>2. HonestAt(c)
    BY <1>a, <1>e, <2>1, Zenon DEF AlignedWindow, InWindow
  <2>3. CASE c # b
    <3>1. log' = log
      BY <1>e, Zenon
    <3>2. \A p \in Partition : Len(log'[p]) \in Nat /\ Len(log'[p]) >= Len(log[p])
      BY <1>a, <3>1, PartitionTypes
    <3> QED
      BY <1>a, <1>b, <1>d, <1>e, <2>2, <2>3, <3>2, HonestFrame, Zenon
  <2>4. CASE c = b
    <3>0. /\ \A q \in 1 .. Len(answers[b]) : answers'[b][q] = answers[b][q]
          /\ answers'[b][Len(answers[b]) + 1] = answer
      <4>1. answers[b] \in Seq(Answer) /\ answer \in Answer
        BY <1>c, <1>d, Zenon
      <4>2. answers'[b] = Append(answers[b], answer)
        BY <1>e, Zenon
      <4> DEFINE s == answers[b]
                 t == answers'[b]
                 e == answer
      <4>3. s \in Seq(Answer) /\ e \in Answer /\ t = Append(s, e)
        BY <4>1, <4>2, Zenon
      <4> HIDE DEF s, t, e
      <4>4. (\A q \in 1 .. Len(s) : t[q] = s[q]) /\ t[Len(s) + 1] = e
        BY <4>3, AppendAt
      <4> QED
        BY ONLY <4>4, Zenon DEF s, t, e
    <3>1. Len(answers'[b]) = z + 1 /\ Len(resp'[b]) = x - 1 /\ req' = req /\ sent' = sent
      BY <1>b, <1>d, <1>e, Zenon
    <3>2. Seen(b)' = z + 1 + (x - 1) /\ Seen(b) = z + x
      BY <3>1, Zenon DEF Seen
    <3>3. Aligned(b)' <=> x - 1 + y = w - (z + 1)
      BY <3>1, Zenon DEF Aligned
    <3>4. Aligned(b) <=> x + y = w - z
      BY Zenon DEF Aligned
    <3>5. /\ Seen(b)' = Seen(b) /\ Seen(b) = z + x /\ (Aligned(b)' <=> Aligned(b))
      <4> HIDE DEF x, y, z, w
      <4> QED
        BY <1>f, <3>2, <3>3, <3>4
    <3>6. ASSUME NEW q \in 1 .. z + x PROVE Out(b, q)' = Out(b, q)
      <4>1. CASE q <= z
        <5>1. q \in 1 .. Len(answers[b]) /\ q <= Len(answers'[b])
          <6>1. q \in 1 .. z /\ q <= z + 1
            <7> HIDE DEF x, z
            <7> QED
              BY <1>f, <3>6, <4>1
          <6> QED
            BY <3>1, <6>1, Zenon
        <5>2. answers'[b][q] = answers[b][q]
          BY <3>0, <5>1, Zenon
        <5> QED
          BY <4>1, <5>1, <5>2, Zenon DEF Out
      <4>2. CASE q = z + 1
        <5>1. q <= Len(answers'[b]) /\ ~(q <= Len(answers[b])) /\ q - Len(answers[b]) = 1
          <6>1. q <= z + 1 /\ ~(q <= z) /\ q - z = 1
            <7> HIDE DEF z
            <7> QED
              BY <1>f, <4>2
          <6> QED
            BY <3>1, <6>1, Zenon
        <5>2. answers'[b][q] = answer
          BY <3>0, <4>2, Zenon
        <5>3. Out(b, q)' = answers'[b][q]
          BY <5>1, Zenon DEF Out
        <5>4. Out(b, q) = resp[b][1]
          BY <5>1, Zenon DEF Out
        <5>5. answer = resp[b][1]
          BY <1>d, Zenon
        <5> QED
          BY <5>2, <5>3, <5>4, <5>5, Zenon
      <4>3. CASE q > z + 1
        <5>1. /\ ~(q <= z + 1) /\ ~(q <= z) /\ q - (z + 1) \in 1 .. x - 1
              /\ q - (z + 1) + 1 = q - z
          <6> HIDE DEF x, z
          <6> QED
            BY <1>f, <3>6, <4>3
        <5>2. resp'[b][q - (z + 1)] = resp[b][q - (z + 1) + 1]
          BY <1>d, <5>1, Zenon
        <5>3. Out(b, q)' = resp'[b][q - (z + 1)]
          BY <3>1, <5>1, Zenon DEF Out
        <5>4. Out(b, q) = resp[b][q - z]
          BY <5>1, Zenon DEF Out
        <5> QED
          BY <5>1, <5>2, <5>3, <5>4, Zenon
      <4> QED
        <5> HIDE DEF x, z
        <5> QED
          BY <1>f, <3>6, <4>1, <4>2, <4>3
    <3>7. \A q : Taking(b, q)' = Taking(b, q)
      BY <1>e, Zenon DEF Taking, Needed
    <3>8. ASSUME NEW q \in 1 .. z + x, NEW p \in Partition, Honest(b, q, p)
          PROVE  Honest(b, q, p)'
      <4>1. \A k \in 1 .. q - 1 : k \in 1 .. z + x
        <5> HIDE DEF x, z
        <5> QED
          BY <1>f, <3>8
      <4>2. retired' = retired /\ log' = log /\ refused' = refused
        BY <1>e, Zenon
      <4>3. Out(b, q)' = Out(b, q) /\ \A k \in 1 .. q - 1 : Out(b, k)' = Out(b, k)
        BY <3>6, <4>1, Zenon
      <4> QED
        BY <3>7, <3>8, <4>2, <4>3, Zenon DEF Honest
    <3>9. req' = req /\ pending' = pending
      BY <1>b, <1>e, Zenon
    <3> HIDE DEF x, z
    <3>10. ASSUME Aligned(b)'
           PROVE  \A r \in 1 .. Seen(b)' : \A p \in Partition : Honest(b, r, p)'
      BY <2>2, <2>4, <3>5, <3>8, <3>10, Zenon DEF HonestAt
    <3>11. ASSUME Aligned(b)'
           PROVE  (\A i \in 1 .. Len(req[b]) : \A p \in Partition :
                     req[b][i][p] = IF p \in Taking(b, Seen(b) + i)
                                    THEN pending[p][Seen(b) + i] ELSE NoBatch)'
      <4>1. Aligned(b) /\ Seen(b)' = Seen(b)
        BY <3>5, <3>11, Zenon
      <4>2. \A i \in 1 .. Len(req[b]) : \A p \in Partition :
              req[b][i][p] = IF p \in Taking(b, Seen(b) + i)
                             THEN pending[p][Seen(b) + i] ELSE NoBatch
        BY <2>2, <2>4, <4>1, Zenon DEF HonestAt
      <4> SUFFICES ASSUME NEW i \in 1 .. Len(req'[b]), NEW p \in Partition
                   PROVE  (req[b][i][p] = IF p \in Taking(b, Seen(b) + i)
                                          THEN pending[p][Seen(b) + i] ELSE NoBatch)'
        BY Zenon
      <4>3. req[b][i][p] = IF p \in Taking(b, Seen(b) + i)
                           THEN pending[p][Seen(b) + i] ELSE NoBatch
        BY <3>9, <4>2, Zenon
      <4>4. Taking(b, Seen(b) + i)' = Taking(b, Seen(b) + i)
        BY <1>e, <4>1, Zenon DEF Taking, Needed
      <4> QED
        BY <3>9, <4>1, <4>3, <4>4, Zenon
    <3> QED
      BY <2>4, <3>10, <3>11, Zenon DEF HonestAt
  <2> QED
    BY <2>3, <2>4, Zenon
<1> QED
  BY <1>e, <1>1, <1>2, <1>3, <1>4, Zenon DEF FlushInv

(* A failed read: the window now ends in a transport error. *)
LEMMA ReceiveFailsInv ==
  ASSUME FlushInv, NEW b \in Broker, ReceiveFails(b) \/ ReceiveTimesOut(b)
  PROVE  FlushInv'
<1> DEFINE answer == NoAnswer(b)
<1>a. TypeOK /\ WireSendable /\ WindowShape
  BY Zenon DEF FlushInv
<1>b. Collected(b, answer) /\ DropLink(b)
  BY Zenon DEF ReceiveFails, ReceiveTimesOut
<1>c. err' \in {"Io", "Timeout"} /\ faults' \in Nat
  BY <1>a DEF TypeOK, ReceiveFails, ReceiveTimesOut
<1>d. answer \in Answer
  BY Zenon DEF NoAnswer, Answer, Outcome, Absent, ErrorCode
<1> HIDE DEF answer
<1>e. /\ pc = "collect" /\ pc' \in {"collect", "settle"}
      /\ answers' \in [Broker -> Seq(Answer)]
      /\ Len(answers'[b]) = Len(answers[b]) + 1
      /\ Len(answers[b]) + 1 <= sent[b]
      /\ \A c \in Broker \ {b} : answers'[c] = answers[c]
      /\ UNCHANGED << stateVars, pending, staged, due, meta, attempt, sent, aborted,
                      written, leader, log, refused, submitted, retired >>
      /\ Contiguous' /\ Ascending' /\ NothingSkipped'
      /\ ExactlyOnceInOrder' /\ WithinCache' /\ NoSelfFencing' /\ TrueOffsets'
      /\ WindowCleared'
      /\ (\A c \in Broker : Rounds(c)') => WindowShape'
  BY <1>b, <1>d, CollectedFacts, Zenon
<1>f. /\ WireSendable'
      /\ late' \in [Broker -> SUBSET (Partition \X SequenceRange)]
      /\ req' \in [Broker -> Seq(Request)] /\ resp' \in [Broker -> Seq(Answer)]
      /\ link' \in [Broker -> {"none", "up", "dead"}]
      /\ req'[b] = <<>> /\ resp'[b] = <<>> /\ link'[b] = "none"
      /\ \A c \in Broker \ {b} :
           req'[c] = req[c] /\ resp'[c] = resp[c] /\ link'[c] = link[c]
  BY <1>a, <1>b, <1>e, DropLinkFacts, Zenon
<1>1. TypeOK'
  BY <1>a, <1>c, <1>e, <1>f, Zenon DEF TypeOK, StateTypeOK, stateVars
<1>2. ASSUME NEW c \in Broker PROVE Rounds(c)'
  <2>1. Rounds(c)
    BY <1>a, Zenon DEF WindowShape
  <2>2. CASE c # b
    BY <1>e, <1>f, <2>1, <2>2, Zenon DEF Rounds
  <2>3. CASE c = b
    <3> DEFINE z == Len(answers[b])
               w == sent[b]
    <3>1. z \in Nat /\ w \in Nat /\ w <= MaxInFlight /\ z + 1 <= w
      BY <1>a, <1>e, <2>1, <2>3, BrokerTypes, Zenon DEF Rounds
    <3>2. z + 1 <= w /\ 0 + 0 <= w - (z + 1)
      <4> HIDE DEF z, w
      <4> QED
        BY <3>1
    <3>3. Len(req'[b]) = 0 /\ sent'[b] = w
      BY <1>e, <1>f, Zenon
    <3>4. Len(resp'[b]) = 0 /\ Len(answers'[b]) = z + 1
      BY <1>e, <1>f, Zenon
    <3> HIDE DEF z, w
    <3>5. /\ Len(answers'[b]) <= sent'[b] /\ sent'[b] <= MaxInFlight
          /\ Len(resp'[b]) + Len(req'[b]) <= sent'[b] - Len(answers'[b])
      BY <3>1, <3>2, <3>3, <3>4, Zenon
    <3> QED
      BY <1>f, <2>3, <3>5, Zenon DEF Rounds
  <2> QED
    BY <2>2, <2>3, Zenon
<1>3. AlignedWindow'
  BY <1>c, Zenon DEF AlignedWindow
<1> QED
  BY <1>e, <1>f, <1>1, <1>2, <1>3, Zenon DEF FlushInv
=============================================================================
