------------------------ MODULE ProducerFlushProofs -------------------------
(***************************************************************************)
(* The safety of the pipelined produce path, for every number of brokers,  *)
(* partitions, batches, retries and faults, and for every window no deeper *)
(* than the brokers' cache: what the brokers and the network do, what      *)
(* flush makes of a window, and the theorems.                              *)
(***************************************************************************)
EXTENDS ProducerFlushWindow, WellFoundedInduction

(* One batch is one index: no range occurs twice among the submitted. *)
LEMMA OneIndex ==
  ASSUME NEW s \in Seq(SequenceRange), Ordered(s),
         NEW i \in 1 .. Len(s), NEW j \in 1 .. Len(s), s[i] = s[j]
  PROVE  i = j
<1>1. /\ s[i].base \in Nat /\ s[i].count \in Nat \ {0} /\ RangeEnd(s[i]) = s[i].base + s[i].count
      /\ s[j].base \in Nat /\ s[j].count \in Nat \ {0} /\ RangeEnd(s[j]) = s[j].base + s[j].count
  BY RangeTypes, Zenon
<1>2. i < j => s[i].base + s[i].count <= s[j].base
  BY <1>1, Zenon DEF Ordered
<1>3. j < i => s[j].base + s[j].count <= s[i].base
  BY <1>1, Zenon DEF Ordered
<1>4. s[i].base = s[j].base
  BY Zenon
<1> QED
  BY <1>1, <1>2, <1>3, <1>4

(* What the log says of the sequence number it expects. *)
LEMMA NextSequenceIs ==
  ASSUME TypeOK, ExactlyOnceInOrder, NEW p \in Partition
  PROVE  NextSequence(p) = IF Len(log[p]) = 0 THEN 0 ELSE RangeEnd(submitted[p][Len(log[p])])
<1>1. log[p] \in Seq(SequenceRange) /\ Len(log[p]) \in Nat
  BY PartitionTypes, Zenon
<1>2. CASE Len(log[p]) = 0
  <2>1. log[p] = <<>>
    BY <1>1, <1>2
  <2> QED
    BY <1>2, <2>1 DEF NextSequence
<1>3. CASE Len(log[p]) # 0
  <2>1. log[p] # <<>> /\ Len(log[p]) \in 1 .. Len(log[p])
    BY <1>1, <1>3
  <2>2. log[p][Len(log[p])] = submitted[p][Len(log[p])]
    BY <2>1, Zenon DEF ExactlyOnceInOrder
  <2> QED
    BY <1>3, <2>1, <2>2, Zenon DEF NextSequence
<1> QED
  BY <1>2, <1>3, Zenon

(* A batch the leader appends is the one that comes next in its log.       *)
LEMMA AppendIsNext ==
  ASSUME TypeOK, Contiguous, Ascending, ExactlyOnceInOrder,
         NEW p \in Partition, NEW j \in 1 .. Len(submitted[p]),
         submitted[p][j].base = NextSequence(p)
  PROVE  j = Len(log[p]) + 1
<1> DEFINE s == submitted[p]
           n == Len(log[p])
<1>1. s \in Seq(SequenceRange) /\ n \in Nat /\ n <= Len(s) /\ Chained(s) /\ Ordered(s)
  BY PartitionTypes, Zenon DEF ExactlyOnceInOrder, Contiguous, Ascending
<1>2. s[j].base = IF n = 0 THEN 0 ELSE RangeEnd(s[n])
  BY NextSequenceIs, Zenon
<1> HIDE DEF s, n
<1>3. j \in 1 .. Len(s)
  BY Zenon DEF s
<1>4. j = n + 1
  BY <1>1, <1>2, <1>3, NextIsNext, Zenon
<1> QED
  BY <1>4, Zenon DEF n

(* p's log stands still, or takes the next submitted batch of the window. *)
Grows(p) ==
  \/ log'[p] = log[p]
  \/ /\ Len(log[p]) < Len(submitted[p])
     /\ Len(log[p]) < retired[p] + MaxInFlight
     /\ log'[p] = Append(log[p], submitted[p][Len(log[p]) + 1])

(* A sendable batch that is appended makes its log grow by what is next. *)
LEMMA AppendGrows ==
  ASSUME FlushInv, NEW b, NEW p \in Partition, NEW range, Sendable(p, range),
         Verdict(b, p, range).append, log'[p] = Append(log[p], range)
  PROVE  Grows(p)
<1>a. TypeOK /\ Contiguous /\ Ascending /\ ExactlyOnceInOrder
  BY Zenon DEF FlushInv
<1>1. PICK i \in 1 .. Len(submitted[p]) :
        i <= retired[p] + MaxInFlight /\ submitted[p][i] = range
  BY Zenon DEF Sendable
<1>2. range.base = NextSequence(p)
  BY Zenon DEF Verdict, Refusal
<1>3. i = Len(log[p]) + 1
  BY <1>a, <1>1, <1>2, AppendIsNext, Zenon
<1>4. Len(log[p]) < Len(submitted[p]) /\ Len(log[p]) < retired[p] + MaxInFlight
  <2> DEFINE n == Len(log[p])
             m == Len(submitted[p])
             k == retired[p]
  <2>1. n \in Nat /\ m \in Nat /\ k \in Nat /\ i \in 1 .. m /\ i <= k + MaxInFlight /\ i = n + 1
    BY <1>a, <1>1, <1>3, PartitionTypes, Zenon
  <2>2. n < m /\ n < k + MaxInFlight
    <3> HIDE DEF n, m, k
    <3> QED
      BY <2>1, FlushAssumption
  <2> QED
    BY <2>2, Zenon
<1> QED
  BY <1>1, <1>3, <1>4, Zenon DEF Grows

(* Growing logs keep the promises about them. *)
LEMMA LogStep ==
  ASSUME FlushInv, log' = [p \in Partition |-> log'[p]],
         \A p \in Partition : Grows(p),
         UNCHANGED << submitted, retired, written >>
  PROVE  /\ log' \in [Partition -> Seq(SequenceRange)]
         /\ ExactlyOnceInOrder' /\ WithinCache' /\ TrueOffsets'
         /\ \A p \in Partition : Len(log'[p]) \in Nat /\ Len(log'[p]) >= Len(log[p])
<1>a. TypeOK /\ ExactlyOnceInOrder /\ WithinCache /\ TrueOffsets
  BY Zenon DEF FlushInv
<1>1. ASSUME NEW p \in Partition
      PROVE  /\ log'[p] \in Seq(SequenceRange) /\ Len(log'[p]) \in Nat
             /\ Len(log'[p]) >= Len(log[p])
             /\ retired[p] <= Len(log'[p]) /\ Len(log'[p]) <= Len(submitted[p])
             /\ Len(log'[p]) <= retired[p] + MaxInFlight
             /\ \A i \in 1 .. Len(log'[p]) : log'[p][i] = submitted[p][i]
             /\ \A i \in 1 .. Len(log[p]) : log'[p][i] = log[p][i]
  <2>1. /\ log[p] \in Seq(SequenceRange) /\ Len(log[p]) \in Nat
        /\ submitted[p] \in Seq(SequenceRange) /\ Len(submitted[p]) \in Nat /\ retired[p] \in Nat
    BY <1>a, PartitionTypes, Zenon
  <2>2. /\ retired[p] <= Len(log[p]) /\ Len(log[p]) <= Len(submitted[p])
        /\ \A i \in 1 .. Len(log[p]) : log[p][i] = submitted[p][i]
        /\ Len(log[p]) <= retired[p] + MaxInFlight
    BY <1>a, Zenon DEF ExactlyOnceInOrder, WithinCache
  <2>3. CASE log'[p] = log[p]
    BY <2>1, <2>2, <2>3
  <2>4. CASE log'[p] # log[p]
    <3> DEFINE l == log[p]
               s == submitted[p]
               k == retired[p]
               e == s[Len(l) + 1]
    <3>1. Len(l) < Len(s) /\ Len(l) < k + MaxInFlight /\ log'[p] = Append(l, e)
      BY <2>4, Zenon DEF Grows
    <3>2. /\ l \in Seq(SequenceRange) /\ s \in Seq(SequenceRange) /\ k \in Nat
          /\ k <= Len(l) /\ \A i \in 1 .. Len(l) : l[i] = s[i]
      BY <2>1, <2>2, Zenon
    <3> HIDE DEF l, s, k
    <3>3. e \in SequenceRange
      BY <3>1, <3>2, RangeTypes
    <3>4. /\ Append(l, e) \in Seq(SequenceRange) /\ Len(Append(l, e)) = Len(l) + 1
          /\ \A i \in 1 .. Len(l) : Append(l, e)[i] = l[i]
          /\ Append(l, e)[Len(l) + 1] = e
      BY <3>2, <3>3
    <3>5. \A i \in 1 .. Len(l) + 1 : Append(l, e)[i] = s[i]
      BY <3>2, <3>4
    <3>6. /\ Len(l) + 1 \in Nat /\ Len(l) + 1 >= Len(l) /\ k <= Len(l) + 1
          /\ Len(l) + 1 <= Len(s) /\ Len(l) + 1 <= k + MaxInFlight
      BY <3>1, <3>2, FlushAssumption, SMTT(20)
    <3> QED
      BY <3>1, <3>4, <3>5, <3>6, Zenon DEF l, s, k
  <2> QED
    BY <2>3, <2>4, Zenon
<1>2. log' \in [Partition -> Seq(SequenceRange)]
  BY <1>1, Zenon
<1>3. ExactlyOnceInOrder' /\ WithinCache'
  BY <1>1, Zenon DEF ExactlyOnceInOrder, WithinCache
<1>4. TrueOffsets'
  <2>1. ASSUME NEW w \in written PROVE w.off \in 1 .. Len(log'[w.p]) /\ log'[w.p][w.off] = w.range
    <3>1. w.p \in Partition /\ w.off \in Nat
      BY <1>a, Zenon DEF TypeOK
    <3>2. w.off \in 1 .. Len(log[w.p]) /\ log[w.p][w.off] = w.range
      BY <1>a, Zenon DEF TrueOffsets
    <3>3. /\ Len(log'[w.p]) \in Nat /\ Len(log[w.p]) \in Nat
          /\ Len(log'[w.p]) >= Len(log[w.p]) /\ log'[w.p][w.off] = log[w.p][w.off]
      BY <1>a, <1>1, <3>1, <3>2, PartitionTypes, Zenon
    <3> QED
      BY <3>2, <3>3
  <2> QED
    BY <2>1, Zenon DEF TrueOffsets
<1> QED
  BY <1>1, <1>2, <1>3, <1>4, Zenon

(* What the leader itself answers, v, to the batch p has in round r of the *)
(* window sent to b.                                                       *)
OwnAnswer(b, r, p, v) ==
  /\ v.code \in {"NONE", "NOT_LEADER_OR_FOLLOWER", "OUT_OF_ORDER_SEQUENCE_NUMBER"}
  /\ v.off \in Nat
  /\ v.code = "NONE" => v.off = retired[p] + r
  /\ v.code = "NONE" /\ ~v.append => v.off <= Len(log[p])
  /\ v.code = "NONE" /\ v.append => v.off = Len(log[p]) + 1
  /\ v.code = "OUT_OF_ORDER_SEQUENCE_NUMBER" =>
       \E q \in 1 .. r - 1 : Out(b, q)[p].code # "NONE"

(* The leader's own answer to the next round of an aligned window: success *)
(* comes with the batch's true offset, and a sequence error only follows   *)
(* an earlier failure in the same window, because the window is no deeper  *)
(* than the broker's cache.                                                *)
LEMMA VerdictHonest ==
  ASSUME FlushInv, NEW b \in Broker, HonestAt(b), Aligned(b),
         NEW r, r = Seen(b) + 1, r <= MaxInFlight, NEW p \in Taking(b, r),
         NEW v, v = Verdict(b, p, pending[p][r])
  PROVE  OwnAnswer(b, r, p, v)
<1> USE DEF OwnAnswer
<1>a. TypeOK /\ Contiguous /\ Ascending /\ NothingSkipped /\ ExactlyOnceInOrder /\ WithinCache
  BY Zenon DEF FlushInv
<1> DEFINE range == pending[p][r]
           s == submitted[p]
           n == Len(log[p])
           k == retired[p]
           j == k + r
<1>b. Seen(b) \in Nat /\ r \in Nat \ {0}
  <2>1. Len(answers[b]) \in Nat /\ Len(resp[b]) \in Nat
    BY <1>a, BrokerTypes, Zenon
  <2> DEFINE x == Len(answers[b])
             y == Len(resp[b])
  <2>2. Seen(b) = x + y
    BY Zenon DEF Seen
  <2>3. x \in Nat /\ y \in Nat
    BY <2>1, Zenon
  <2> HIDE DEF x, y
  <2>4. x + y \in Nat
    BY <2>3
  <2>5. Seen(b) \in Nat
    BY <2>2, <2>4, Zenon
  <2> QED
    BY <2>5
<1>c. /\ p \in Partition /\ j \in 1 .. Len(s) /\ range = s[j]
  <2>1. p \in Partition
    BY Zenon DEF Taking, Needed
  <2>2. r \in Nat \ {0}
    BY <1>b, Zenon
  <2>3. /\ retired[p] + r \in 1 .. Len(submitted[p])
        /\ pending[p][r] = submitted[p][retired[p] + r]
    BY ONLY <1>a, <2>2, r <= MaxInFlight, p \in Taking(b, r), TakenBatch
  <2> QED
    BY <2>1, <2>3, Zenon
<1>d. /\ s \in Seq(SequenceRange) /\ Len(s) \in Nat /\ n \in Nat /\ k \in Nat
      /\ Chained(s) /\ Ordered(s)
      /\ k <= n /\ n <= Len(s) /\ n <= k + MaxInFlight
      /\ \A i \in 1 .. n : log[p][i] = s[i]
  BY <1>a, <1>c, PartitionTypes, Zenon DEF Contiguous, Ascending, ExactlyOnceInOrder, WithinCache
<1>1. ASSUME NEW i \in Remembered(p, range) PROVE i = j /\ i \in 1 .. n
  <2>1. i \in 1 .. n /\ log[p][i] = range
    BY <1>1, Zenon DEF Remembered
  <2>2. i \in 1 .. Len(s) /\ s[i] = s[j]
    <3>1. s[i] = s[j]
      BY <1>c, <1>d, <2>1, Zenon
    <3> HIDE DEF s, n
    <3> QED
      BY <1>d, <2>1, <3>1
  <2>3. i = j
    <3> HIDE DEF s, j
    <3> QED
      BY <1>c, <1>d, <2>2, OneIndex, Zenon
  <2> QED
    BY <2>1, <2>3, Zenon
<1>2. range.base = NextSequence(p) => j = n + 1
  <2> HIDE DEF j
  <2> QED
    BY <1>a, <1>c, AppendIsNext, Zenon
<1>3. ASSUME \A q \in 1 .. r - 1 : Out(b, q)[p].code = "NONE"
      PROVE  n >= j - 1
  <2>1. CASE r = 1
    <3> HIDE DEF n, k, s
    <3> QED
      BY <1>d, <2>1
  <2>2. CASE r # 1
    <3> DEFINE q == r - 1
    <3>1. q \in 1 .. r - 1 /\ q \in 1 .. Seen(b) /\ q <= r
      BY <1>b, <2>2
    <3>2. p \in Taking(b, q)
      <4>1. Len(pending[p]) \in Nat
        BY <1>a, <1>c, PartitionTypes, Zenon
      <4>2. p \in Needed /\ meta[p] = b /\ Len(pending[p]) >= r
        BY Zenon DEF Taking
      <4>3. Len(pending[p]) >= q
        BY <1>b, <3>1, <4>1, <4>2
      <4> QED
        BY <4>2, <4>3, Zenon DEF Taking
    <3>3. Honest(b, q, p)
      BY <1>c, <3>1, Zenon DEF HonestAt
    <3>4. Out(b, q)[p].code = "NONE"
      BY <1>3, <3>1, Zenon
    <3>5. k + q <= n
      BY <3>2, <3>3, <3>4, Zenon DEF Honest
    <3> HIDE DEF n, k, s
    <3> QED
      BY <1>b, <1>d, <3>5
  <2> QED
    BY <2>1, <2>2, Zenon
<1>4. n = j - 1 => range.base = NextSequence(p)
  <2> SUFFICES ASSUME n = j - 1 PROVE range.base = NextSequence(p)
    BY Zenon
  <2>1. NextSequence(p) = IF n = 0 THEN 0 ELSE RangeEnd(s[n])
    BY <1>a, <1>c, NextSequenceIs, Zenon
  <2>2. s[j].base = IF n = 0 THEN 0 ELSE RangeEnd(s[n])
    <3> HIDE DEF n, s, k, range
    <3>1. j = n + 1
      BY <1>b, <1>d
    <3>2. CASE n = 0
      <4>1. s # <<>> /\ j = 1
        BY <1>c, <1>d, <3>1, <3>2, SMTT(20)
      <4> QED
        BY <1>d, <3>2, <4>1, Zenon DEF Chained
    <3>3. CASE n # 0
      <4>1. n \in 1 .. Len(s) - 1
        BY <1>c, <1>d, <3>1, <3>3, SMTT(20)
      <4> QED
        BY <1>d, <3>1, <3>3, <4>1, Zenon DEF Chained
    <3> QED
      BY <3>2, <3>3, Zenon
  <2> QED
    BY <1>c, <2>1, <2>2, Zenon
<1>5. n >= j => j \in Remembered(p, range)
  <2> SUFFICES ASSUME n >= j PROVE j \in Remembered(p, range)
    BY Zenon
  <2>1. j \in 1 .. n /\ j > n - CacheSize
    <3> HIDE DEF n, s, k, range
    <3> QED
      BY <1>b, <1>c, <1>d, FlushAssumption, SMTT(20)
  <2>2. log[p][j] = range
    BY <1>c, <1>d, <2>1, Zenon
  <2> QED
    BY <2>1, <2>2, Zenon DEF Remembered
<1>6. n \in Nat /\ j \in Nat /\ (n >= j - 1 => n = j - 1 \/ n >= j)
  <2> HIDE DEF n, s, k, range
  <2> QED
    BY <1>b, <1>d
<1>7. CASE leader[p] # b
  BY <1>7, Zenon DEF Verdict, Refusal
<1>8. CASE leader[p] = b /\ Remembered(p, range) # {}
  <2>1. v = [code |-> "NONE", off |-> CHOOSE i \in Remembered(p, range) : TRUE, append |-> FALSE]
    BY <1>8, Zenon DEF Verdict
  <2>2. (CHOOSE i \in Remembered(p, range) : TRUE) \in Remembered(p, range)
    BY <1>8, Zenon
  <2>3. v.code = "NONE" /\ ~v.append /\ v.off = j /\ v.off \in 1 .. n
    BY <1>1, <2>1, <2>2, SMTT(20)
  <2>4. v.off \in Nat /\ v.off <= n
    <3> HIDE DEF n
    <3> QED
      BY <1>d, <2>3
  <2> QED
    BY <2>3, <2>4, Zenon
<1>9. CASE leader[p] = b /\ Remembered(p, range) = {} /\ range.base = NextSequence(p)
  <2>1. v.code = "NONE" /\ v.append /\ v.off = n + 1
    BY <1>9, Zenon DEF Verdict
  <2> QED
    BY <1>2, <1>6, <1>9, <2>1, Zenon
<1>10. CASE leader[p] = b /\ Remembered(p, range) = {} /\ range.base # NextSequence(p)
  <2>1. v.code = "OUT_OF_ORDER_SEQUENCE_NUMBER" /\ v.off = 0
    BY <1>10, Zenon DEF Verdict, Refusal
  <2>2. ~ \A q \in 1 .. r - 1 : Out(b, q)[p].code = "NONE"
    BY <1>3, <1>4, <1>5, <1>6, <1>10, Zenon
  <2> QED
    BY <2>1, <2>2
<1> QED
  BY <1>7, <1>8, <1>9, <1>10, Zenon

(* Whatever the broker answers, trouble included. *)
LEMMA OutcomeTypes ==
  ASSUME TypeOK, NEW b, NEW p \in Partition, NEW range, NEW v,
         v \in {Verdict(b, p, range)} \cup Trouble(b, p, range)
  PROVE  /\ v.code \in {"NONE", "NOT_LEADER_OR_FOLLOWER", "REQUEST_TIMED_OUT", "OTHER",
                        "OUT_OF_ORDER_SEQUENCE_NUMBER"}
         /\ v.off \in Nat
         /\ v.append => Verdict(b, p, range).append
         /\ v # Verdict(b, p, range) => v.code \in {"REQUEST_TIMED_OUT", "OTHER"}
<1>1. CASE v = Verdict(b, p, range)
  <2>1. Remembered(p, range) # {} =>
          (CHOOSE i \in Remembered(p, range) : TRUE) \in Remembered(p, range)
    BY Zenon
  <2>2. Remembered(p, range) \subseteq Nat /\ Len(log[p]) + 1 \in Nat
    BY PartitionTypes DEF Remembered
  <2> QED
    BY <1>1, <2>1, <2>2, Zenon DEF Verdict, Refusal
<1>2. CASE v \in Trouble(b, p, range) /\ v # Verdict(b, p, range)
  BY <1>2 DEF Trouble, Refusal
<1> QED
  BY <1>1, <1>2, Zenon

(* What a new answer must say for the window to stay honest. *)
Fits(b, answer, p) ==
  LET r == Seen(b) + 1
  IN /\ p \notin Taking(b, r) => answer[p] = Absent
     /\ p \in Taking(b, r) =>
          /\ answer[p].code \in {"NONE", "NOT_LEADER_OR_FOLLOWER", "REQUEST_TIMED_OUT",
                                 "OTHER", "OUT_OF_ORDER_SEQUENCE_NUMBER"}
          /\ answer[p].code = "NONE" =>
               answer[p].off = retired[p] + r /\ answer[p].off <= Len(log'[p])
          /\ answer[p].code = "OTHER" => refused'
          /\ answer[p].code = "OUT_OF_ORDER_SEQUENCE_NUMBER" =>
               \E q \in 1 .. r - 1 : Out(b, q)[p].code # "NONE"

(* A broker that answers its next request with a fitting answer keeps the  *)
(* window honest.                                                          *)
LEMMA AnswerHonest ==
  ASSUME TypeOK, NEW b \in Broker, HonestAt(b), req[b] # <<>>,
         NEW answer \in Answer, \A p \in Partition : Fits(b, answer, p),
         resp'[b] = Append(resp[b], answer), req'[b] = Tail(req[b]),
         sent'[b] = sent[b], answers'[b] = answers[b],
         UNCHANGED << pending, meta, retired >>, refused => refused',
         \A p \in Partition : Len(log'[p]) \in Nat /\ Len(log'[p]) >= Len(log[p])
  PROVE  HonestAt(b)'
<1> DEFINE x == Len(answers[b])
           y == Len(resp[b])
           z == Len(req[b])
           w == sent[b]
           x1 == Len(answers'[b])
           y1 == Len(resp'[b])
           z1 == Len(req'[b])
           w1 == sent'[b]
<1>1. /\ req[b] \in Seq(Request) /\ resp[b] \in Seq(Answer) /\ answers[b] \in Seq(Answer)
      /\ x \in Nat /\ y \in Nat /\ z \in Nat /\ w \in Nat
  BY BrokerTypes, Zenon
<1>2. /\ x1 = x /\ y1 = y + 1 /\ z1 = z - 1 /\ w1 = w /\ z >= 1
  <2>1. y1 = y + 1
    BY <1>1
  <2>2. z >= 1 /\ z1 = z - 1
    BY <1>1
  <2> QED
    BY <2>1, <2>2, Zenon
<1>3. \A i \in 1 .. y : resp'[b][i] = resp[b][i]
  BY <1>1
<1>4. resp'[b][y + 1] = answer
  BY <1>1
<1>5. \A i \in 1 .. z1 : i + 1 \in 1 .. z /\ req'[b][i] = req[b][i + 1]
  <2>1. \A i \in 1 .. Len(Tail(req[b])) : Tail(req[b])[i] = req[b][i + 1]
    BY <1>1
  <2>2. \A i \in 1 .. z1 : i + 1 \in 1 .. z
    <3> HIDE DEF z, z1
    <3> QED
      BY <1>1, <1>2
  <2> QED
    BY <2>1, <2>2, Zenon
<1>6. Seen(b) = x + y /\ Seen(b)' = x1 + y1
  BY Zenon DEF Seen
<1>7. (Aligned(b) <=> y + z = w - x) /\ (Aligned(b)' <=> y1 + z1 = w1 - x1)
  BY Zenon DEF Aligned
<1>8. /\ \A q : Out(b, q) = IF q <= x THEN answers[b][q] ELSE resp[b][q - x]
      /\ \A q : Out(b, q)' = IF q <= x1 THEN answers'[b][q] ELSE resp'[b][q - x1]
      /\ \A q : Taking(b, q)' = Taking(b, q)
  BY Zenon DEF Out, Taking, Needed
<1> HIDE DEF x, y, z, w, x1, y1, z1, w1
<1>9. (Aligned(b)' => Aligned(b)) /\ Seen(b)' = Seen(b) + 1 /\ Seen(b) \in Nat
  <2>1. y1 + z1 = w1 - x1 => y + z = w - x
    BY <1>1, <1>2, SMTT(20)
  <2>2. x1 + y1 = (x + y) + 1 /\ x + y \in Nat
    BY <1>1, <1>2
  <2> QED
    BY <1>6, <1>7, <2>1, <2>2, Zenon
<1>10. ASSUME NEW q \in 1 .. Seen(b) PROVE Out(b, q)' = Out(b, q)
  <2>1. CASE q <= x
    BY <1>2, <1>8, <2>1, Zenon
  <2>2. CASE ~(q <= x)
    <3>1. q - x \in 1 .. y
      BY <1>1, <1>6, <2>2
    <3> QED
      BY <1>2, <1>3, <1>8, <2>2, <3>1, Zenon
  <2> QED
    BY <2>1, <2>2, Zenon
<1>11. ASSUME NEW r, r = Seen(b) + 1 PROVE Out(b, r)' = answer
  <2>1. ~(x + y + 1 <= x1) /\ (x + y + 1) - x1 = y + 1
    BY <1>1, <1>2
  <2> QED
    BY <1>4, <1>6, <1>8, <1>11, <2>1, Zenon
<1> SUFFICES ASSUME Aligned(b)'
             PROVE  /\ \A r \in 1 .. Seen(b)' : \A p \in Partition : Honest(b, r, p)'
                    /\ \A i \in 1 .. Len(req[b])' : \A p \in Partition :
                         req'[b][i][p] = IF p \in Taking(b, Seen(b)' + i)
                                         THEN pending[p][Seen(b)' + i] ELSE NoBatch
  BY <1>8, Zenon DEF HonestAt
<1>12. /\ \A r \in 1 .. Seen(b) : \A p \in Partition : Honest(b, r, p)
       /\ \A i \in 1 .. z : \A p \in Partition :
            req[b][i][p] = IF p \in Taking(b, Seen(b) + i) THEN pending[p][Seen(b) + i]
                                                          ELSE NoBatch
  BY <1>9, Zenon DEF HonestAt, z
<1>13. ASSUME NEW r \in 1 .. Seen(b), NEW p \in Partition PROVE Honest(b, r, p)'
  <2>1. Honest(b, r, p)
    BY <1>12, Zenon
  <2>2. \A q \in 1 .. r - 1 : Out(b, q)' = Out(b, q)
    <3>1. \A q \in 1 .. r - 1 : q \in 1 .. Seen(b)
      BY <1>9
    <3> QED
      BY <1>10, <3>1, Zenon
  <2>3. Out(b, r)' = Out(b, r)
    BY <1>10, Zenon
  <2>4. ASSUME NEW o \in Nat, o <= Len(log[p]) PROVE o <= Len(log'[p])
    <3>1. Len(log[p]) \in Nat /\ Len(log'[p]) \in Nat /\ Len(log'[p]) >= Len(log[p])
      BY PartitionTypes, Zenon
    <3> QED
      BY <2>4, <3>1
  <2>5. retired[p] + r \in Nat
    BY <1>9, PartitionTypes
  <2> QED
    BY <1>8, <2>1, <2>2, <2>3, <2>4, <2>5, Zenon DEF Honest
<1>14. ASSUME NEW r, r = Seen(b) + 1, NEW p \in Partition PROVE Honest(b, r, p)'
  <2>1. Fits(b, answer, p)
    BY Zenon
  <2>2. \A q \in 1 .. r - 1 : Out(b, q)' = Out(b, q)
    <3>1. \A q \in 1 .. r - 1 : q \in 1 .. Seen(b)
      BY <1>9, <1>14, SMTT(30)
    <3> QED
      BY <1>10, <3>1, Zenon
  <2>3. Out(b, r)' = answer
    BY <1>11, <1>14, Zenon
  <2>4. /\ p \notin Taking(b, r) => answer[p] = Absent
        /\ p \in Taking(b, r) =>
             /\ answer[p].code \in {"NONE", "NOT_LEADER_OR_FOLLOWER", "REQUEST_TIMED_OUT",
                                    "OTHER", "OUT_OF_ORDER_SEQUENCE_NUMBER"}
             /\ answer[p].code = "NONE" =>
                  answer[p].off = retired[p] + r /\ answer[p].off <= Len(log'[p])
             /\ answer[p].code = "OTHER" => refused'
             /\ answer[p].code = "OUT_OF_ORDER_SEQUENCE_NUMBER" =>
                  \E q \in 1 .. r - 1 : Out(b, q)'[p].code # "NONE"
    BY <1>14, <2>1, <2>2, Zenon DEF Fits
  <2> QED
    BY <1>8, <2>3, <2>4, Zenon DEF Honest
<1>15. \A r \in 1 .. Seen(b) + 1 : r \in 1 .. Seen(b) \/ r = Seen(b) + 1
  BY <1>9
<1>16. \A r \in 1 .. Seen(b)' : \A p \in Partition : Honest(b, r, p)'
  BY <1>9, <1>13, <1>14, <1>15, Zenon
<1>17. ASSUME NEW i \in 1 .. z1, NEW p \in Partition
       PROVE  req'[b][i][p] = IF p \in Taking(b, Seen(b)' + i)
                              THEN pending[p][Seen(b)' + i] ELSE NoBatch
  <2>1. Seen(b) + (i + 1) = Seen(b)' + i
    <3>1. z1 \in Nat
      BY <1>1, <1>2
    <3> QED
      BY <1>9, <3>1
  <2>2. i + 1 \in 1 .. z /\ req'[b][i] = req[b][i + 1]
    BY <1>5, Zenon
  <2>3. req[b][i + 1][p] = IF p \in Taking(b, Seen(b) + (i + 1))
                           THEN pending[p][Seen(b) + (i + 1)] ELSE NoBatch
    BY <1>12, <2>2, Zenon
  <2> QED
    BY <2>1, <2>2, <2>3, Zenon
<1> QED
  BY <1>16, <1>17, Zenon DEF z1

(* A broker executing its oldest request. *)
LEMMA ExecuteInv ==
  ASSUME FlushInv, NEW b \in Broker, Execute(b)
  PROVE  FlushInv'
<1> DEFINE body == Head(req[b])
           S == Carries(body)
<1>a. TypeOK /\ WireSendable /\ WindowCleared /\ WindowShape /\ AlignedWindow
  BY Zenon DEF FlushInv
<1>b. PICK v : /\ \A p \in S : v[p] \in {Verdict(b, p, body[p])} \cup Trouble(b, p, body[p])
               /\ log' = [p \in Partition |-> IF p \in S /\ v[p].append
                                              THEN Append(log[p], body[p]) ELSE log[p]]
               /\ resp' = [resp EXCEPT ![b] =
                             Append(@, [p \in Partition |->
                                         IF p \in S THEN [code |-> v[p].code, off |-> v[p].off]
                                                    ELSE Absent])]
               /\ refused' = (refused \/ \E p \in S : v[p].code = "OTHER")
  BY Zenon DEF Execute
<1> DEFINE answer == [p \in Partition |->
                        IF p \in S THEN [code |-> v[p].code, off |-> v[p].off] ELSE Absent]
<1>c. /\ link[b] = "up" /\ req[b] # <<>>
      /\ req' = [req EXCEPT ![b] = Tail(@)]
      /\ UNCHANGED << stateVars, clientVars, link, late, leader, submitted, retired >>
  BY Zenon DEF Execute
<1>d. faults' \in Nat
  BY <1>a DEF Execute, TypeOK
<1>e. /\ req \in [Broker -> Seq(Request)] /\ resp \in [Broker -> Seq(Answer)]
      /\ req[b] \in Seq(Request) /\ resp[b] \in Seq(Answer)
      /\ Len(req[b]) \in Nat /\ Len(resp[b]) \in Nat
      /\ Len(answers[b]) \in Nat /\ sent[b] \in Nat
  BY <1>a, BrokerTypes, Zenon DEF TypeOK
<1>f. /\ 1 \in 1 .. Len(req[b]) /\ body = req[b][1] /\ body \in Request
      /\ Tail(req[b]) \in Seq(Request) /\ Len(Tail(req[b])) = Len(req[b]) - 1
      /\ \A i \in 1 .. Len(Tail(req[b])) : i + 1 \in 1 .. Len(req[b])
                                          /\ Tail(req[b])[i] = req[b][i + 1]
  BY <1>c, <1>e
<1> HIDE DEF body
<1>g. ASSUME NEW p \in S
      PROVE  /\ p \in Partition /\ Sendable(p, body[p])
             /\ v[p].code \in {"NONE", "NOT_LEADER_OR_FOLLOWER", "REQUEST_TIMED_OUT", "OTHER",
                               "OUT_OF_ORDER_SEQUENCE_NUMBER"}
             /\ v[p].off \in Nat
             /\ v[p].append => Verdict(b, p, body[p]).append
             /\ v[p] # Verdict(b, p, body[p]) => v[p].code \in {"REQUEST_TIMED_OUT", "OTHER"}
  <2>1. p \in Partition /\ body[p] # NoBatch
    BY Zenon DEF Carries
  <2>2. Sendable(p, body[p])
    BY <1>a, <1>f, <2>1, Zenon DEF WireSendable
  <2>3. v[p] \in {Verdict(b, p, body[p])} \cup Trouble(b, p, body[p])
    BY <1>b, Zenon
  <2> QED
    BY <1>a, <2>1, <2>2, <2>3, OutcomeTypes
<1>h. ASSUME NEW p \in Partition PROVE Grows(p)
  <2>1. CASE p \in S /\ v[p].append
    <3>1. log'[p] = Append(log[p], body[p])
      BY <1>b, <2>1, Zenon
    <3> QED
      BY <1>g, <2>1, <3>1, AppendGrows, Zenon
  <2>2. CASE ~(p \in S /\ v[p].append)
    BY <1>b, <2>2, Zenon DEF Grows
  <2> QED
    BY <2>1, <2>2, Zenon
<1>i. /\ log' \in [Partition -> Seq(SequenceRange)]
      /\ ExactlyOnceInOrder' /\ WithinCache' /\ TrueOffsets'
      /\ \A p \in Partition : Len(log'[p]) \in Nat /\ Len(log'[p]) >= Len(log[p])
  <2>1. log' = [p \in Partition |-> log'[p]]
    BY <1>b, Zenon
  <2> QED
    BY <1>c, <1>h, <2>1, LogStep, Zenon DEF clientVars
<1>j. answer \in Answer
  BY <1>g, Zenon DEF Answer, Outcome, Absent, ErrorCode
<1>k. /\ resp'[b] = Append(resp[b], answer) /\ req'[b] = Tail(req[b])
      /\ \A c \in Broker \ {b} : resp'[c] = resp[c] /\ req'[c] = req[c]
      /\ resp' \in [Broker -> Seq(Answer)] /\ req' \in [Broker -> Seq(Request)]
      /\ Len(resp'[b]) = Len(resp[b]) + 1 /\ Len(req'[b]) = Len(req[b]) - 1
  <2>1. resp' = [resp EXCEPT ![b] = Append(@, answer)]
    BY <1>b, Zenon
  <2> HIDE DEF answer
  <2>2. resp'[b] = Append(resp[b], answer) /\ Append(resp[b], answer) \in Seq(Answer)
        /\ Len(Append(resp[b], answer)) = Len(resp[b]) + 1
    BY <1>e, <1>j, <2>1
  <2>3. req'[b] = Tail(req[b])
    BY <1>c, <1>e, Zenon
  <2> QED
    BY <1>c, <1>e, <1>f, <2>1, <2>2, <2>3, Zenon
<1>l. (refused => refused') /\ refused' \in BOOLEAN /\ \A p \in S : v[p].code = "OTHER" => refused'
  BY <1>b, Zenon
<1>m. InWindow
  BY <1>a, <1>c, Zenon DEF WindowCleared
<1>1. TypeOK'
  BY <1>a, <1>c, <1>d, <1>i, <1>k, <1>l, Zenon
     DEF TypeOK, StateTypeOK, stateVars, clientVars
<1>2. Contiguous' /\ Ascending' /\ NothingSkipped'
  BY <1>c, QueuesFrame, Zenon DEF FlushInv, stateVars, clientVars
<1>3. WireSendable'
  <2>1. \A p, range : Sendable(p, range)' <=> Sendable(p, range)
    BY <1>c, Zenon DEF Sendable
  <2>2. ASSUME NEW c \in Broker, NEW i \in 1 .. Len(req'[c]), NEW p \in Partition,
               req'[c][i][p] # NoBatch
        PROVE  Sendable(p, req'[c][i][p])
    <3>1. CASE c = b
      <4>1. i + 1 \in 1 .. Len(req[b]) /\ req'[b][i] = req[b][i + 1]
        BY <1>f, <1>k, <3>1, Zenon
      <4> QED
        BY <1>a, <2>2, <3>1, <4>1, Zenon DEF WireSendable
    <3>2. CASE c # b
      BY <1>a, <1>k, <2>2, <3>2, Zenon DEF WireSendable
    <3> QED
      BY <3>1, <3>2, Zenon
  <2> QED
    BY <1>a, <1>c, <2>1, <2>2, Zenon DEF WireSendable
<1>4. WindowCleared'
  BY <1>c, <1>m, Zenon DEF WindowCleared, InWindow, clientVars
<1>5. WindowShape'
  <2>1. ASSUME NEW c \in Broker PROVE Rounds(c)'
    <3>1. Rounds(c)
      BY <1>a, Zenon DEF WindowShape
    <3>2. CASE c # b
      BY <1>c, <1>k, <3>1, <3>2, Zenon DEF Rounds, clientVars
    <3>3. CASE c = b
      <4> DEFINE x == Len(answers[b])
                 y == Len(resp[b])
                 z == Len(req[b])
                 w == sent[b]
      <4>1. x \in Nat /\ y \in Nat /\ z \in Nat /\ w \in Nat
        BY <1>e, Zenon
      <4>2. x <= w /\ w <= MaxInFlight /\ y + z <= w - x
        BY <3>1, <3>3, Zenon DEF Rounds
      <4>3. (y + 1) + (z - 1) <= w - x
        <5> HIDE DEF x, y, z, w
        <5> QED
          BY <4>1, <4>2
      <4> QED
        BY <1>c, <1>k, <3>3, <4>2, <4>3, Zenon DEF Rounds, clientVars
    <3> QED
      BY <3>2, <3>3, Zenon
  <2>2. \A c, r : HasRound(c, r)' <=> HasRound(c, r)
    BY <1>c, Zenon DEF HasRound, Taking, Needed, clientVars
  <2> QED
    BY <1>a, <1>c, <2>1, <2>2, Zenon DEF WindowShape, clientVars
<1>6. AlignedWindow'
  <2> SUFFICES ASSUME err = "none", NEW c \in Broker PROVE HonestAt(c)'
    BY <1>c, Zenon DEF AlignedWindow, clientVars
  <2>1. \A d \in Broker : HonestAt(d)
    BY <1>a, <1>m, Zenon DEF AlignedWindow
  <2>2. UNCHANGED << pending, meta, retired, sent, answers >>
    BY <1>c, Zenon DEF clientVars
  <2>3. CASE c # b
    BY <1>a, <1>i, <1>k, <1>l, <2>1, <2>2, <2>3, HonestFrame, Zenon
  <2>4. CASE c = b /\ ~Aligned(b)
    <3>1. ~Aligned(b)'
      <4> DEFINE x == Len(answers[b])
                 y == Len(resp[b])
                 z == Len(req[b])
                 w == sent[b]
      <4>1. x \in Nat /\ y \in Nat /\ z \in Nat /\ w \in Nat
        BY <1>e, Zenon
      <4>2. y + z # w - x
        BY <2>4, Zenon DEF Aligned
      <4>3. (y + 1) + (z - 1) # w - x
        <5> HIDE DEF x, y, z, w
        <5> QED
          BY <4>1, <4>2
      <4> QED
        BY <1>k, <2>2, <4>3, Zenon DEF Aligned
    <3> QED
      BY <2>4, <3>1, Zenon DEF HonestAt
  <2>5. CASE c = b /\ Aligned(b)
    <3> DEFINE r == Seen(b) + 1
    <3>1. r <= MaxInFlight
      <4> DEFINE x == Len(answers[b])
                 y == Len(resp[b])
                 z == Len(req[b])
                 w == sent[b]
      <4>1. x \in Nat /\ y \in Nat /\ z \in Nat /\ w \in Nat /\ 1 \in 1 .. z
        BY <1>e, <1>f, Zenon
      <4>2. w <= MaxInFlight
        BY <1>a, Zenon DEF WindowShape, Rounds
      <4>3. y + z = w - x
        BY <2>5, Zenon DEF Aligned
      <4>4. Seen(b) = x + y
        BY Zenon DEF Seen
      <4>5. (x + y) + 1 <= MaxInFlight
        <5> HIDE DEF x, y, z, w
        <5> QED
          BY <4>1, <4>2, <4>3, FlushAssumption, SMTT(20)
      <4> QED
        BY <4>4, <4>5, Zenon
    <3>2. \A p \in Partition :
            body[p] = IF p \in Taking(b, r) THEN pending[p][r] ELSE NoBatch
      BY <1>f, <2>1, <2>5, SMTT(30) DEF HonestAt
    <3>3. ASSUME NEW p \in Partition PROVE Fits(b, answer, p)
      <4> HIDE DEF r
      <4>1. CASE p \notin Taking(b, r)
        <5>1. p \notin S
          BY <3>2, <4>1, Zenon DEF Carries
        <5>2. answer[p] = Absent
          BY <5>1, Zenon
        <5> QED
          BY <4>1, <5>2, Zenon DEF Fits, r
      <4>2. CASE p \in Taking(b, r)
        <5>0. r = Seen(b) + 1
          BY Zenon DEF r
        <5>1. p \in S /\ body[p] = pending[p][r]
          <6>1. r \in Nat \ {0}
            <7> DEFINE x == Len(answers[b])
                       y == Len(resp[b])
            <7>1. x \in Nat /\ y \in Nat /\ r = (x + y) + 1
              BY <1>e, <5>0, Zenon DEF Seen
            <7> HIDE DEF x, y
            <7> QED
              BY <7>1
          <6>2. pending[p][r] \in SequenceRange
            BY <1>a, <3>1, <4>2, <6>1, TakenBatch, Zenon DEF FlushInv, r
          <6>3. NoBatch \notin SequenceRange
            BY Zenon DEF NoBatch, SequenceRange
          <6> QED
            BY <3>2, <4>2, <6>2, <6>3, Zenon DEF Carries, r
        <5>2. answer[p].code = v[p].code /\ answer[p].off = v[p].off
          BY <5>1, Zenon
        <5>3. CASE v[p] # Verdict(b, p, body[p])
          <6>1. v[p].code \in {"REQUEST_TIMED_OUT", "OTHER"}
            BY <1>g, <5>1, <5>3, Zenon
          <6> QED
            BY <1>l, <4>2, <5>1, <5>2, <6>1, Zenon DEF Fits, r
        <5>4. CASE v[p] = Verdict(b, p, body[p])
          <6> DEFINE vp == v[p]
          <6>1. vp = Verdict(b, p, pending[p][r])
            BY <5>1, <5>4, Zenon
          <6>2. /\ vp.code \in {"NONE", "NOT_LEADER_OR_FOLLOWER",
                                "OUT_OF_ORDER_SEQUENCE_NUMBER"}
                /\ vp.off \in Nat
                /\ vp.code = "NONE" => vp.off = retired[p] + r
                /\ vp.code = "NONE" /\ ~vp.append => vp.off <= Len(log[p])
                /\ vp.code = "NONE" /\ vp.append => vp.off = Len(log[p]) + 1
                /\ vp.code = "OUT_OF_ORDER_SEQUENCE_NUMBER" =>
                     \E q \in 1 .. r - 1 : Out(b, q)[p].code # "NONE"
            <7> HIDE DEF vp
            <7>1. HonestAt(b) /\ Aligned(b)
              BY <2>1, <2>5, Zenon
            <7>2. FlushInv
              BY Zenon
            <7>3. OwnAnswer(b, r, p, vp)
              BY ONLY b \in Broker, <7>1, <7>2, <3>1, <4>2, <5>0, <6>1, VerdictHonest, Zenon
            <7> QED
              BY <7>3, Zenon DEF OwnAnswer
          <6>3. vp.append => Len(log'[p]) = Len(log[p]) + 1
            <7>1. log[p] \in Seq(SequenceRange)
              BY <1>a, PartitionTypes, Zenon
            <7>2. body[p] \in SequenceRange
              BY <1>f, <5>1, Zenon DEF Carries, Request
            <7>3. vp.append => log'[p] = Append(log[p], body[p])
              BY <1>b, <5>1, Zenon
            <7> QED
              BY <7>1, <7>2, <7>3
          <6>4. Len(log'[p]) \in Nat /\ Len(log[p]) \in Nat /\ Len(log'[p]) >= Len(log[p])
            BY <1>a, <1>i, PartitionTypes, Zenon
          <6>5. vp.code = "NONE" => vp.off <= Len(log'[p])
            <7>1. CASE vp.append
              BY <6>2, <6>3, <6>4, <7>1, SMTT(20)
            <7>2. CASE ~vp.append
              BY <6>2, <6>4, <7>2
            <7> QED
              BY <7>1, <7>2, Zenon
          <6> QED
            BY <4>2, <5>2, <6>2, <6>5, Zenon DEF Fits, r
        <5> QED
          BY <5>3, <5>4, Zenon
      <4> QED
        BY <4>1, <4>2, Zenon
    <3> HIDE DEF answer
    <3> QED
      BY <1>a, <1>c, <1>i, <1>j, <1>k, <1>l, <2>1, <2>2, <2>5, <3>3, AnswerHonest, Zenon
  <2> QED
    BY <2>3, <2>4, <2>5, Zenon
<1>7. NoSelfFencing'
  BY <1>c, <1>l, Zenon DEF FlushInv, NoSelfFencing, stateVars
<1> QED
  BY <1>1, <1>2, <1>3, <1>4, <1>5, <1>6, <1>7, <1>i, Zenon DEF FlushInv

(* A broker executing a request whose connection the client gave up. *)
LEMMA ExecuteLateInv ==
  ASSUME FlushInv, NEW b \in Broker, ExecuteLate(b)
  PROVE  FlushInv'
<1>a. TypeOK /\ WireSendable /\ WindowCleared /\ WindowShape /\ AlignedWindow
  BY Zenon DEF FlushInv
<1>b. PICK m \in late[b] : /\ Verdict(b, m[1], m[2]).append
                           /\ log' = [log EXCEPT ![m[1]] = Append(@, m[2])]
  BY Zenon DEF ExecuteLate
<1>c. UNCHANGED << stateVars, clientVars, netVars, leader, faults, refused, submitted, retired >>
  BY Zenon DEF ExecuteLate
<1>d. m[1] \in Partition /\ Sendable(m[1], m[2])
  BY <1>a, BrokerTypes, Zenon DEF WireSendable
<1>e. log \in [Partition -> Seq(SequenceRange)]
  BY <1>a, Zenon DEF TypeOK
<1>h. ASSUME NEW p \in Partition PROVE Grows(p)
  <2>1. CASE p = m[1]
    <3>1. log'[p] = Append(log[p], m[2])
      BY <1>b, <1>e, <2>1, Zenon
    <3> QED
      BY <1>b, <1>d, <2>1, <3>1, AppendGrows, Zenon
  <2>2. CASE p # m[1]
    BY <1>b, <1>e, <2>2, Zenon DEF Grows
  <2> QED
    BY <2>1, <2>2, Zenon
<1>i. /\ log' \in [Partition -> Seq(SequenceRange)]
      /\ ExactlyOnceInOrder' /\ WithinCache' /\ TrueOffsets'
      /\ \A p \in Partition : Len(log'[p]) \in Nat /\ Len(log'[p]) >= Len(log[p])
  <2>1. log' = [p \in Partition |-> log'[p]]
    BY <1>b, <1>e, Zenon
  <2> QED
    BY <1>c, <1>h, <2>1, LogStep, Zenon DEF clientVars
<1>1. TypeOK'
  BY <1>a, <1>c, <1>i, Zenon DEF TypeOK, StateTypeOK, stateVars, clientVars, netVars
<1>2. Contiguous' /\ Ascending' /\ NothingSkipped'
  BY <1>c, QueuesFrame, Zenon DEF FlushInv, stateVars, clientVars
<1>3. WireSendable' /\ WindowCleared' /\ WindowShape'
  BY <1>a, <1>c, WireFrame, WindowFrame, Zenon DEF netVars, clientVars
<1>4. AlignedWindow'
  <2> SUFFICES ASSUME InWindow, err = "none", NEW c \in Broker PROVE HonestAt(c)'
    BY <1>c, Zenon DEF AlignedWindow, InWindow, clientVars
  <2>1. HonestAt(c)
    BY <1>a, Zenon DEF AlignedWindow
  <2>2. /\ UNCHANGED << pending, meta, retired >> /\ (refused => refused')
        /\ sent'[c] = sent[c] /\ answers'[c] = answers[c]
        /\ req'[c] = req[c] /\ resp'[c] = resp[c]
    BY <1>c, Zenon DEF clientVars, netVars
  <2> QED
    BY <1>a, <1>i, <2>1, <2>2, HonestFrame, Zenon
<1>5. NoSelfFencing'
  BY <1>c, Zenon DEF FlushInv, NoSelfFencing, stateVars
<1> QED
  BY <1>1, <1>2, <1>3, <1>4, <1>5, <1>i, Zenon DEF FlushInv

(* A connection breaking: a window that loses anything with it is no       *)
(* longer aligned.                                                         *)
LEMMA BreakLinkInv ==
  ASSUME FlushInv, NEW b \in Broker, BreakLink(b)
  PROVE  FlushInv'
<1>a. TypeOK /\ WireSendable /\ WindowCleared /\ WindowShape /\ AlignedWindow
  BY Zenon DEF FlushInv
<1>b. /\ faults' = faults + 1
      /\ link' = [link EXCEPT ![b] = "dead"]
      /\ late' = [late EXCEPT ![b] = @ \cup Outstanding(b)]
      /\ req' = [req EXCEPT ![b] = <<>>]
      /\ UNCHANGED << stateVars, clientVars, leader, log, refused, submitted, retired >>
  BY Zenon DEF BreakLink
<1>c. PICK k \in 0 .. Len(resp[b]) : resp' = [resp EXCEPT ![b] = SubSeq(@, 1, k)]
  BY Zenon DEF BreakLink
<1>d. /\ WireSendable'
      /\ late' \in [Broker -> SUBSET (Partition \X SequenceRange)]
      /\ req' \in [Broker -> Seq(Request)]
      /\ req'[b] = <<>> /\ \A c \in Broker \ {b} : req'[c] = req[c]
  BY <1>a, <1>b, LateRequests, Zenon
<1>e. /\ resp \in [Broker -> Seq(Answer)] /\ link \in [Broker -> {"none", "up", "dead"}]
      /\ resp[b] \in Seq(Answer) /\ Len(resp[b]) \in Nat /\ Len(req[b]) \in Nat
      /\ req[b] \in Seq(Request) /\ Len(answers[b]) \in Nat /\ sent[b] \in Nat
      /\ faults + 1 \in Nat
  <2>1. /\ resp \in [Broker -> Seq(Answer)] /\ link \in [Broker -> {"none", "up", "dead"}]
        /\ faults \in Nat
    BY <1>a, Zenon DEF TypeOK
  <2>2. faults + 1 \in Nat
    BY <2>1
  <2> QED
    BY <1>a, <2>1, <2>2, BrokerTypes, Zenon
<1>f. /\ SubSeq(resp[b], 1, k) \in Seq(Answer) /\ Len(SubSeq(resp[b], 1, k)) = k
      /\ k = Len(resp[b]) => SubSeq(resp[b], 1, k) = resp[b]
  <2>1. SubSeq(resp[b], 1, k) \in Seq(Answer) /\ Len(SubSeq(resp[b], 1, k)) = k
    BY <1>e
  <2>2. \A i \in 1 .. k : SubSeq(resp[b], 1, k)[i] = resp[b][i]
    BY <1>e
  <2> QED
    BY <1>e, <2>1, <2>2, SMTT(20)
<1>g. /\ resp'[b] = SubSeq(resp[b], 1, k) /\ Len(resp'[b]) = k
      /\ link'[b] = "dead"
      /\ \A c \in Broker \ {b} : resp'[c] = resp[c] /\ link'[c] = link[c]
      /\ resp' \in [Broker -> Seq(Answer)] /\ link' \in [Broker -> {"none", "up", "dead"}]
  BY <1>b, <1>c, <1>e, <1>f, Zenon
<1>h. Len(req'[b]) = 0
  BY <1>d
<1>i. Len(resp[b]) + Len(req[b]) <= sent[b] - Len(answers[b])
  BY <1>a, Zenon DEF WindowShape, Rounds
<1>j. /\ k <= sent[b] - Len(answers[b])
      /\ k = sent[b] - Len(answers[b]) => k = Len(resp[b]) /\ Len(req[b]) = 0
  <2> DEFINE x == Len(answers[b])
             y == Len(resp[b])
             z == Len(req[b])
             w == sent[b]
  <2>1. x \in Nat /\ y \in Nat /\ z \in Nat /\ w \in Nat /\ k \in 0 .. y /\ y + z <= w - x
    BY <1>e, <1>i, Zenon
  <2>2. k <= w - x /\ (k = w - x => k = y /\ z = 0)
    <3> HIDE DEF x, y, z, w
    <3> QED
      BY <2>1
  <2> QED
    BY <2>2, Zenon
<1>1. TypeOK'
  BY <1>a, <1>b, <1>d, <1>e, <1>g, Zenon DEF TypeOK, StateTypeOK, stateVars, clientVars
<1>2. Contiguous' /\ Ascending' /\ NothingSkipped' /\ ExactlyOnceInOrder' /\ WithinCache'
      /\ NoSelfFencing' /\ TrueOffsets'
  BY <1>b, QueuesFrame, LogFrame, ResultFrame, Zenon DEF FlushInv, stateVars, clientVars
<1>3. WindowCleared'
  <2> SUFFICES ASSUME ~InWindow
               PROVE  \A c \in Broker : req'[c] = <<>> /\ resp'[c] = <<>>
    BY <1>a, <1>b, Zenon DEF WindowCleared, InWindow, clientVars
  <2>1. \A c \in Broker : req[c] = <<>> /\ resp[c] = <<>>
    BY <1>a, Zenon DEF WindowCleared
  <2>2. k = 0
    <3>1. Len(resp[b]) = 0
      BY <2>1
    <3> QED
      BY <3>1
  <2>3. resp'[b] = <<>>
    BY <1>g, <2>2
  <2> QED
    BY <1>d, <1>g, <2>1, <2>3, Zenon
<1>4. WindowShape'
  <2>1. ASSUME NEW c \in Broker PROVE Rounds(c)'
    <3>1. Rounds(c)
      BY <1>a, Zenon DEF WindowShape
    <3>2. CASE c # b
      BY <1>b, <1>d, <1>g, <3>1, <3>2, Zenon DEF Rounds, clientVars
    <3>3. CASE c = b
      <4>1. Len(answers'[b]) <= sent'[b] /\ sent'[b] <= MaxInFlight
        BY <1>b, <3>1, <3>3, Zenon DEF Rounds, clientVars
      <4>2. link'[b] = "dead" /\ req'[b] = <<>>
        BY <1>d, <1>g, Zenon
      <4>3. Len(resp'[b]) + Len(req'[b]) <= sent'[b] - Len(answers'[b])
        <5>1. Len(resp'[b]) + Len(req'[b]) = k
          BY <1>g, <1>h
        <5>2. sent'[b] - Len(answers'[b]) = sent[b] - Len(answers[b])
          BY <1>b, Zenon DEF clientVars
        <5> QED
          BY <1>j, <5>1, <5>2, Zenon
      <4> QED
        BY <3>3, <4>1, <4>2, <4>3, Zenon DEF Rounds
    <3> QED
      BY <3>2, <3>3, Zenon
  <2>2. \A c, r : HasRound(c, r)' <=> HasRound(c, r)
    BY <1>b, Zenon DEF HasRound, Taking, Needed, clientVars
  <2> QED
    BY <1>a, <1>b, <2>1, <2>2, Zenon DEF WindowShape, clientVars
<1>5. AlignedWindow'
  <2> SUFFICES ASSUME InWindow, err = "none", NEW c \in Broker PROVE HonestAt(c)'
    BY <1>b, Zenon DEF AlignedWindow, InWindow, clientVars
  <2>1. HonestAt(c)
    BY <1>a, Zenon DEF AlignedWindow
  <2>2. /\ UNCHANGED << pending, meta, retired >> /\ (refused => refused')
        /\ sent'[c] = sent[c] /\ answers'[c] = answers[c]
    BY <1>b, Zenon DEF clientVars
  <2>3. \A p \in Partition : Len(log'[p]) \in Nat /\ Len(log'[p]) >= Len(log[p])
    <3> SUFFICES ASSUME NEW p \in Partition
                 PROVE  Len(log'[p]) \in Nat /\ Len(log'[p]) >= Len(log[p])
      BY Zenon
    <3>1. Len(log[p]) \in Nat
      BY <1>a, PartitionTypes, Zenon
    <3>2. log'[p] = log[p]
      BY <1>b, Zenon
    <3> QED
      BY <3>1, <3>2
  <2>4. CASE c = b /\ ~Aligned(b)'
    BY <2>4, Zenon DEF HonestAt
  <2>5. CASE c = b /\ Aligned(b)'
    <3>1. k = sent[b] - Len(answers[b])
      <4>1. Len(resp'[b]) + Len(req'[b]) = sent'[b] - Len(answers'[b])
        BY <2>5, Zenon DEF Aligned
      <4>2. sent'[b] = sent[b] /\ answers'[b] = answers[b]
        BY <1>b, Zenon DEF clientVars
      <4>3. k + 0 = sent[b] - Len(answers[b])
        BY <1>g, <1>h, <4>1, <4>2, Zenon
      <4> QED
        BY <4>3
    <3>2. k = Len(resp[b]) /\ Len(req[b]) = 0
      BY <1>j, <3>1, Zenon
    <3>3. req[b] = <<>>
      BY <1>e, <3>2
    <3>4. req'[b] = req[b] /\ resp'[b] = resp[b]
      BY <1>d, <1>f, <1>g, <3>2, <3>3, Zenon
    <3> QED
      BY <1>a, <2>1, <2>2, <2>3, <2>5, <3>4, HonestFrame, Zenon
  <2>6. CASE c # b
    <3>1. req'[c] = req[c] /\ resp'[c] = resp[c]
      BY <1>d, <1>g, <2>6, Zenon
    <3> QED
      BY <1>a, <2>1, <2>2, <2>3, <3>1, HonestFrame, Zenon
  <2> QED
    BY <2>4, <2>5, <2>6, Zenon
<1> QED
  BY <1>1, <1>2, <1>3, <1>4, <1>5, <1>d, Zenon DEF FlushInv

(* A leader moving. *)
LEMMA MoveLeaderInv ==
  ASSUME FlushInv, NEW p \in Partition, NEW b \in Broker, MoveLeader(p, b)
  PROVE  FlushInv'
<1>1. /\ leader' = [leader EXCEPT ![p] = b] /\ faults' = faults + 1
      /\ UNCHANGED << stateVars, clientVars, netVars, log, refused, submitted, retired >>
  BY Zenon DEF MoveLeader
<1>2. leader' \in [Partition -> Broker] /\ faults' \in Nat
  BY <1>1 DEF FlushInv, TypeOK
<1>3. TypeOK'
  BY <1>1, <1>2, Zenon DEF FlushInv, TypeOK, StateTypeOK, stateVars, clientVars, netVars
<1>4. Contiguous' /\ Ascending' /\ NothingSkipped' /\ ExactlyOnceInOrder' /\ WithinCache'
      /\ NoSelfFencing' /\ TrueOffsets'
  BY <1>1, QueuesFrame, LogFrame, ResultFrame, Zenon DEF FlushInv, stateVars, clientVars
<1>5. WireSendable' /\ WindowCleared' /\ WindowShape' /\ AlignedWindow'
  BY <1>1, WireFrame, WindowFrame, AlignedFrame, Zenon DEF FlushInv, clientVars, netVars
<1> QED
  BY <1>3, <1>4, <1>5, Zenon DEF FlushInv

(* A step that changes nothing. *)
LEMMA StutterInv ==
  ASSUME FlushInv, UNCHANGED vars
  PROVE  FlushInv'
<1>1. UNCHANGED << stateVars, pending, meta, pc, attempt, sent, answers, err, aborted,
                   written, netVars, brokerVars, submitted, retired >>
      /\ UNCHANGED << staged, due >>
  BY Zenon DEF vars, clientVars
<1>2. staged' \in [Partition -> Nat] /\ due' \subseteq Partition
  BY <1>1, Zenon DEF FlushInv, TypeOK
<1> QED
  BY <1>1, <1>2, StagingInv, Zenon

-----------------------------------------------------------------------------

(* Every non-empty set of naturals has a least element. *)
LEMMA LeastNatural ==
  ASSUME NEW T \in SUBSET Nat, T # {}
  PROVE  \E x \in T : \A y \in T : x <= y
<1> DEFINE R == {ss \in Nat \X Nat : ss[1] < ss[2]}
<1>1. IsWellFoundedOn(R, Nat)
  BY NatLessThanWellFounded, Zenon DEF OpToRel
<1> HIDE DEF R
<1>2. PICK x \in T : \A y \in T : ~ (<< y, x >> \in R)
  BY <1>1, WFMin, Zenon
<1>3. ASSUME NEW y \in T PROVE x <= y
  <2>1. ~(y < x)
    BY <1>2, Zenon DEF R
  <2> QED
    BY <2>1
<1> QED
  BY <1>3, Zenon

(* The rest of a queue after its first n batches. *)
LEMMA TailSubSeq ==
  ASSUME NEW s \in Seq(SequenceRange), NEW q \in Seq(SequenceRange), NEW k \in Nat,
         TailOf(q, s, k), NEW n \in Nat, n <= Len(q)
  PROVE  /\ SubSeq(q, n + 1, Len(q)) \in Seq(SequenceRange)
         /\ TailOf(SubSeq(q, n + 1, Len(q)), s, k + n)
<1> DEFINE t == SubSeq(q, n + 1, Len(q))
           l == Len(q)
<1>1. t \in Seq(SequenceRange) /\ l \in Nat
  OBVIOUS
<1>2. Len(t) = l - n
  OBVIOUS
<1>3. \A i \in 1 .. l - n : t[i] = q[n + i]
  OBVIOUS
<1>4. Len(s) = k + l /\ \A i \in 1 .. l : q[i] = s[k + i]
  BY Zenon DEF TailOf
<1> HIDE DEF t
<1>5. Len(s) = k + n + Len(t)
  <2> HIDE DEF l
  <2> QED
    BY <1>1, <1>2, <1>4, SMTT(20)
<1>6. ASSUME NEW i \in 1 .. Len(t) PROVE t[i] = s[k + n + i]
  <2>1. i \in 1 .. l - n /\ n + i \in 1 .. l /\ k + (n + i) = k + n + i
    <3>1. i \in 1 .. l - n
      BY <1>2, Zenon
    <3> HIDE DEF l
    <3> QED
      BY <1>1, <3>1
  <2> QED
    BY <1>3, <1>4, <2>1, Zenon
<1>7. TailOf(t, s, k + n)
  BY <1>5, <1>6, Zenon DEF TailOf
<1> QED
  BY <1>1, <1>7, Zenon DEF t

-----------------------------------------------------------------------------
(* What flush makes of a window. *)

(* A collected window has nothing left on the wire. *)
LEMMA SettledWire ==
  ASSUME FlushInv, pc = "settle", NEW b \in Broker
  PROVE  req[b] = <<>> /\ resp[b] = <<>> /\ Len(answers[b]) = sent[b]
<1>1. /\ req[b] \in Seq(Request) /\ Len(req[b]) \in Nat
      /\ resp[b] \in Seq(Answer) /\ Len(resp[b]) \in Nat
      /\ Len(answers[b]) \in Nat /\ sent[b] \in Nat
  BY BrokerTypes, Zenon DEF FlushInv
<1>2. Len(answers[b]) = sent[b] /\ Len(resp[b]) + Len(req[b]) <= sent[b] - Len(answers[b])
  BY Zenon DEF FlushInv, WindowShape, Rounds
<1> DEFINE x == Len(resp[b])
           y == Len(req[b])
           z == Len(answers[b])
           w == sent[b]
<1>3. x = 0 /\ y = 0
  <2>1. x \in Nat /\ y \in Nat /\ z \in Nat /\ w \in Nat /\ z = w /\ x + y <= w - z
    BY <1>1, <1>2, Zenon
  <2> HIDE DEF x, y, z, w
  <2> QED
    BY <2>1
<1>4. resp[b] = <<>>
  BY <1>1, <1>3
<1>5. req[b] = <<>>
  BY <1>1, <1>3
<1> QED
  BY <1>2, <1>4, <1>5, Zenon

(* Clearing the window leaves the rest of the invariant as it was. *)
LEMMA ClearWindowFrame ==
  ASSUME FlushInv, pc = "settle", ClearWindow, UNCHANGED netVars,
         pc' \in {"idle", "route", "refresh"}
  PROVE  WindowCleared' /\ WindowShape' /\ AlignedWindow'
<1>1. ~InWindow'
  BY Zenon DEF InWindow
<1>2. /\ err' = "none" /\ ~aborted'
      /\ \A b \in Broker : sent'[b] = 0 /\ answers'[b] = <<>>
                           /\ req'[b] = <<>> /\ resp'[b] = <<>>
  BY SettledWire, Zenon DEF ClearWindow, netVars
<1>3. WindowCleared'
  BY <1>2, Zenon DEF WindowCleared
<1>4. ASSUME NEW b \in Broker PROVE Rounds(b)'
  <2>1. Len(answers'[b]) = 0 /\ sent'[b] = 0
    BY <1>2
  <2>2. Len(resp'[b]) = 0
    BY <1>2
  <2>3. Len(req'[b]) = 0
    BY <1>2
  <2>4. /\ Len(answers'[b]) <= sent'[b] /\ sent'[b] <= MaxInFlight
        /\ Len(resp'[b]) + Len(req'[b]) <= sent'[b] - Len(answers'[b])
    BY <2>1, <2>2, <2>3, FlushAssumption
  <2> QED
    BY <1>2, <2>4, Zenon DEF Rounds
<1>5. WindowShape'
  BY <1>1, <1>4, Zenon DEF WindowShape, InWindow
<1>6. AlignedWindow'
  BY <1>1, Zenon DEF AlignedWindow
<1> QED
  BY <1>3, <1>5, <1>6, Zenon

(* The answers of a window no connection was lost in are its rounds'. *)
LEMMA SettledHonest ==
  ASSUME FlushInv, pc = "settle", err = "none",
         NEW p \in Partition, NEW b \in Broker, NEW r \in 1 .. Len(answers[b])
  PROVE  /\ p \notin Taking(b, r) => answers[b][r][p] = Absent
         /\ p \in Taking(b, r) =>
              /\ answers[b][r][p].code \in
                   {"NONE", "NOT_LEADER_OR_FOLLOWER", "REQUEST_TIMED_OUT", "OTHER",
                    "OUT_OF_ORDER_SEQUENCE_NUMBER"}
              /\ answers[b][r][p].code = "NONE" =>
                   answers[b][r][p].off = retired[p] + r /\ retired[p] + r <= Len(log[p])
              /\ answers[b][r][p].code = "OTHER" => refused
              /\ answers[b][r][p].code = "OUT_OF_ORDER_SEQUENCE_NUMBER" =>
                   \E q \in 1 .. r - 1 : answers[b][q][p].code # "NONE"
<1>1. req[b] = <<>> /\ resp[b] = <<>> /\ Len(answers[b]) = sent[b]
  BY SettledWire, Zenon
<1>2. Len(answers[b]) \in Nat /\ sent[b] \in Nat
  BY BrokerTypes, Zenon DEF FlushInv
<1> DEFINE z == Len(answers[b])
<1>3. Len(resp[b]) = 0
  BY <1>1
<1>4. Len(req[b]) = 0
  BY <1>1
<1>5. Aligned(b) /\ Seen(b) = z
  <2>1. /\ Aligned(b) <=> 0 + 0 = z - z
        /\ Seen(b) = z + 0
    BY <1>1, <1>3, <1>4, Zenon DEF Aligned, Seen
  <2>2. z \in Nat
    BY <1>2, Zenon
  <2> HIDE DEF z
  <2> QED
    BY <2>1, <2>2
<1>6. r \in 1 .. z /\ \A q \in 1 .. r - 1 : q \in 1 .. z
  <2>1. r \in 1 .. z /\ z \in Nat
    BY <1>2, Zenon
  <2> HIDE DEF z
  <2> QED
    BY <2>1
<1>7. \A q \in 1 .. z : Out(b, q) = answers[b][q]
  BY DEF Out
<1>8. Honest(b, r, p)
  <2>1. HonestAt(b)
    BY Zenon DEF FlushInv, AlignedWindow, InWindow
  <2> HIDE DEF z
  <2> QED
    BY <1>5, <1>6, <2>1, Zenon DEF HonestAt
<1> HIDE DEF z
<1> QED
  BY <1>6, <1>7, <1>8, Zenon DEF Honest

(* The earliest failure of a partition is in a round that carried it. *)
LEMMA FailedAtFacts ==
  ASSUME FlushInv, pc = "settle", err = "none", NEW p \in Partition, Failed(p) # {}
  PROVE  /\ Routed(p) /\ meta[p] \in Broker
         /\ FailedAt(p) \in 1 .. Len(answers[meta[p]])
         /\ CodeAt(p, FailedAt(p)) # "NONE"
         /\ \A q \in 1 .. FailedAt(p) - 1 : CodeAt(p, q) = "NONE"
         /\ p \in Taking(meta[p], FailedAt(p))
<1>1. Routed(p) /\ Failed(p) = {r \in 1 .. Len(answers[meta[p]]) : CodeAt(p, r) # "NONE"}
  BY Zenon DEF Failed
<1>2. meta[p] \in Broker
  BY <1>1, PartitionTypes, Zenon DEF Routed, FlushInv
<1>3. Failed(p) \in SUBSET Nat
  BY <1>1
<1>4. FailedAt(p) \in Failed(p) /\ \A q \in Failed(p) : FailedAt(p) <= q
  <2>1. \E r \in Failed(p) : \A q \in Failed(p) : r <= q
    BY <1>3, LeastNatural, Zenon
  <2> QED
    BY <2>1, Zenon DEF FailedAt
<1>5. /\ FailedAt(p) \in 1 .. Len(answers[meta[p]])
      /\ CodeAt(p, FailedAt(p)) # "NONE"
  BY <1>1, <1>4, Zenon
<1>6. ASSUME NEW q \in 1 .. FailedAt(p) - 1 PROVE CodeAt(p, q) = "NONE"
  <2> DEFINE z == Len(answers[meta[p]])
             f == FailedAt(p)
  <2>1. z \in Nat /\ f \in 1 .. z /\ q \in 1 .. f - 1
    BY <1>2, <1>5, BrokerTypes, Zenon DEF FlushInv
  <2>2. q \in 1 .. z /\ ~(f <= q)
    <3> HIDE DEF z, f
    <3> QED
      BY <2>1
  <2>3. q \notin Failed(p)
    BY <1>4, <2>2, Zenon
  <2> QED
    BY <1>1, <2>2, <2>3, Zenon
<1>7. p \in Taking(meta[p], FailedAt(p))
  <2>1. p \notin Taking(meta[p], FailedAt(p)) => answers[meta[p]][FailedAt(p)][p] = Absent
    BY <1>2, <1>5, SettledHonest, Zenon
  <2> QED
    BY <1>5, <2>1 DEF CodeAt, Absent
<1> QED
  BY <1>1, <1>2, <1>5, <1>6, <1>7, Zenon

(* The leading run was carried, answered and written. *)
LEMMA LeadingRunFacts ==
  ASSUME FlushInv, pc = "settle", err = "none", ~aborted, NEW p \in Partition
  PROVE  /\ LeadingRun(p) \in Nat /\ LeadingRun(p) <= Len(pending[p])
         /\ \A r \in 1 .. LeadingRun(p) :
              /\ meta[p] \in Broker
              /\ r \in 1 .. Len(answers[meta[p]])
              /\ answers[meta[p]][r][p].off = retired[p] + r
              /\ retired[p] + r <= Len(log[p])
<1> DEFINE b == meta[p]
           n == Len(pending[p])
           m == LeadingRun(p)
<1>a. TypeOK
  BY Zenon DEF FlushInv
<1>b. n \in Nat /\ MaxInFlight \in Nat \ {0}
  BY <1>a, PartitionTypes, FlushAssumption, Zenon
<1>1. CASE ~Routed(p)
  <2>1. LeadingRun(p) = 0
    BY <1>1, Zenon DEF LeadingRun, Failed, Carried
  <2> QED
    BY <1>b, <2>1
<1>2. CASE Routed(p)
  <2>1. b \in Broker /\ p \in Needed
    BY <1>a, <1>2, PartitionTypes, Zenon DEF Routed, Needed
  <2> DEFINE z == Len(answers[b])
  <2>2. z \in Nat /\ z = sent[b]
    BY <1>a, <2>1, BrokerTypes, SettledWire, Zenon
  <2>3. m \in Nat /\ m <= n /\ m <= z
    <3>1. CASE Failed(p) = {}
      <4>1. m = IF n < MaxInFlight THEN n ELSE MaxInFlight
        BY <1>2, <3>1, Zenon DEF LeadingRun, Carried
      <4>2. z + 1 <= MaxInFlight => ~(n >= z + 1)
        <5>1. ~HasRound(b, z + 1)
          BY <2>1, <2>2, Zenon DEF FlushInv, WindowShape
        <5> QED
          BY <2>1, <5>1, Zenon DEF HasRound, Taking
      <4> HIDE DEF m, n, z
      <4> QED
        BY <1>b, <2>2, <4>1, <4>2, SMTT(20)
    <3>2. CASE Failed(p) # {}
      <4>1. m = FailedAt(p) - 1
        BY <3>2, Zenon DEF LeadingRun
      <4>2. FailedAt(p) \in 1 .. z /\ n >= FailedAt(p)
        BY <3>2, FailedAtFacts, Zenon DEF Taking
      <4> HIDE DEF m, n, z
      <4> QED
        BY <1>b, <2>2, <4>1, <4>2
    <3> QED
      BY <3>1, <3>2, Zenon
  <2>4. ASSUME NEW r \in 1 .. m
        PROVE  /\ r \in 1 .. z
               /\ answers[b][r][p].off = retired[p] + r
               /\ retired[p] + r <= Len(log[p])
    <3>1. r \in 1 .. z /\ n >= r /\ r \in Nat
      <4> HIDE DEF m, n, z
      <4> QED
        BY <1>b, <2>2, <2>3, <2>4, SMTT(20)
    <3>2. p \in Taking(b, r)
      BY <2>1, <3>1, Zenon DEF Taking
    <3>3. answers[b][r][p].code = "NONE"
      <4>1. CASE Failed(p) = {}
        BY <1>2, <3>1, <4>1, Zenon DEF Failed, CodeAt
      <4>2. CASE Failed(p) # {}
        BY <2>4, <4>2, FailedAtFacts, Zenon DEF LeadingRun, CodeAt
      <4> QED
        BY <4>1, <4>2, Zenon
    <3> QED
      BY <2>1, <3>1, <3>2, <3>3, SettledHonest, Zenon
  <2> QED
    BY <2>1, <2>3, <2>4, Zenon
<1> QED
  BY <1>1, <1>2, Zenon

(* flush's reaction to a transport error keeps the invariant. *)
LEMMA SettleTransportInv ==
  ASSUME FlushInv, SettleTransport
  PROVE  FlushInv'
<1>1. /\ pc = "settle" /\ ClearWindow /\ pc' \in {"idle", "route", "refresh"}
      /\ UNCHANGED << stateVars, pending, staged, due, meta, written, netVars,
                      brokerVars, submitted, retired >>
  BY Zenon DEF SettleTransport, Backoff, Return
<1>2. attempt' \in Nat
  BY DEF SettleTransport, Backoff, Return, FlushInv, TypeOK
<1>3. WindowCleared' /\ WindowShape' /\ AlignedWindow'
  BY <1>1, ClearWindowFrame, Zenon
<1>4. TypeOK'
  <2>1. sent' \in [Broker -> Nat] /\ answers' \in [Broker -> Seq(Answer)]
        /\ err' = "none" /\ aborted' = FALSE
    <3>1. ClearWindow
      BY <1>1, Zenon
    <3>2. sent' \in [Broker -> Nat]
      BY <3>1, Zenon DEF ClearWindow
    <3>3. << >> \in Seq(Answer)
      OBVIOUS
    <3>4. answers' \in [Broker -> Seq(Answer)]
      BY <3>1, <3>3, Zenon DEF ClearWindow
    <3> QED
      BY <3>1, <3>2, <3>4, Zenon DEF ClearWindow
  <2> QED
    BY <1>1, <1>2, <2>1, Zenon DEF FlushInv, TypeOK, StateTypeOK, stateVars, netVars, brokerVars
<1>5. Contiguous' /\ Ascending' /\ NothingSkipped' /\ ExactlyOnceInOrder' /\ WithinCache'
      /\ NoSelfFencing' /\ TrueOffsets'
  BY <1>1, QueuesFrame, LogFrame, ResultFrame, Zenon DEF FlushInv, stateVars, brokerVars
<1>6. WireSendable'
  BY <1>1, WireFrame, Zenon DEF FlushInv, netVars
<1> QED
  BY <1>3, <1>4, <1>5, <1>6, Zenon DEF FlushInv

(* The producer is only fenced by a broker that refused. *)
LEMMA FatalRefused ==
  ASSUME FlushInv, pc = "settle", err = "none", Fatal # {}
  PROVE  refused
<1>1. PICK p \in Partition : Failed(p) # {} /\ Reaction(p) \notin {"RefreshMetadata", "Retry"}
  BY Zenon DEF Fatal, Broken
<1> DEFINE b == meta[p]
           r == FailedAt(p)
           code == CodeAt(p, r)
<1>2. /\ b \in Broker /\ r \in 1 .. Len(answers[b]) /\ p \in Taking(b, r)
      /\ code # "NONE" /\ \A q \in 1 .. r - 1 : CodeAt(p, q) = "NONE"
  BY <1>1, FailedAtFacts, Zenon
<1>3. /\ code \in {"NONE", "NOT_LEADER_OR_FOLLOWER", "REQUEST_TIMED_OUT", "OTHER",
                   "OUT_OF_ORDER_SEQUENCE_NUMBER"}
      /\ code = "OTHER" => refused
      /\ code = "OUT_OF_ORDER_SEQUENCE_NUMBER" =>
           \E q \in 1 .. r - 1 : CodeAt(p, q) # "NONE"
  BY <1>2, SettledHonest, Zenon DEF CodeAt
<1>4. disposition(code) \notin {"RefreshMetadata", "Retry"}
  BY <1>1, Zenon DEF Reaction
<1> HIDE DEF code, r, b
<1>5. code # "NOT_LEADER_OR_FOLLOWER" /\ code # "REQUEST_TIMED_OUT"
  BY <1>4, Zenon DEF disposition
<1> QED
  BY <1>2, <1>3, <1>5, Zenon

(* flush's reaction to a fatal answer keeps the invariant. *)
LEMMA SettleFatalInv ==
  ASSUME FlushInv, SettleFatal
  PROVE  FlushInv'
<1>1. /\ pc = "settle" /\ err = "none" /\ ClearWindow
      /\ pc' \in {"idle", "route", "refresh"} /\ attempt' \in Nat
      /\ txn' = "Fatal" /\ UNCHANGED << identity, sequences, enrolled >>
      /\ UNCHANGED << pending, staged, due, written, netVars, brokerVars, submitted,
                      retired >>
  BY Zenon DEF SettleFatal, Fence, Return
<1>2. refused /\ refused' = refused
  BY <1>1, FatalRefused, Zenon DEF SettleFatal, brokerVars
<1>3. WindowCleared' /\ WindowShape' /\ AlignedWindow'
  BY <1>1, ClearWindowFrame, Zenon
<1>4. TypeOK'
  <2>1. sent' \in [Broker -> Nat] /\ answers' \in [Broker -> Seq(Answer)]
        /\ err' = "none" /\ aborted' = FALSE
    <3>1. ClearWindow
      BY <1>1, Zenon
    <3>2. sent' \in [Broker -> Nat]
      BY <3>1, Zenon DEF ClearWindow
    <3>3. << >> \in Seq(Answer)
      OBVIOUS
    <3>4. answers' \in [Broker -> Seq(Answer)]
      BY <3>1, <3>3, Zenon DEF ClearWindow
    <3> QED
      BY <3>1, <3>2, <3>4, Zenon DEF ClearWindow
  <2>2. meta' \in [Partition -> Broker \cup {NoBroker}]
    <3>1. meta \in [Partition -> Broker \cup {NoBroker}]
      BY Zenon DEF FlushInv, TypeOK
    <3> QED
      BY <3>1, Zenon DEF SettleFatal
  <2>3. StateTypeOK'
    BY <1>1, Zenon DEF FlushInv, TypeOK, StateTypeOK, TxnState
  <2> QED
    BY <1>1, <2>1, <2>2, <2>3, Zenon DEF FlushInv, TypeOK, netVars, brokerVars
<1>5. Contiguous' /\ Ascending' /\ NothingSkipped' /\ ExactlyOnceInOrder' /\ WithinCache'
  BY <1>1, QueuesFrame, LogFrame, Zenon DEF FlushInv, brokerVars
<1>6. WireSendable'
  BY <1>1, WireFrame, ZenonT(30) DEF FlushInv, netVars
<1>7. NoSelfFencing' /\ TrueOffsets'
  BY <1>1, <1>2, SMTT(20) DEF FlushInv, NoSelfFencing, TrueOffsets, brokerVars
<1> QED
  BY <1>3, <1>4, <1>5, <1>6, <1>7, Zenon DEF FlushInv

(* Retiring the leading run of a window keeps the invariant. *)
LEMMA SettleWindowInv ==
  ASSUME FlushInv, SettleWindow
  PROVE  FlushInv'
<1>1. /\ pc = "settle" /\ err = "none" /\ ~aborted /\ ClearWindow
      /\ pc' \in {"idle", "route", "refresh"}
      /\ meta' = [p \in Partition |-> IF p \in Moved THEN NoBroker ELSE meta[p]]
      /\ pending' = [p \in Partition |->
                       SubSeq(pending[p], LeadingRun(p) + 1, Len(pending[p]))]
      /\ retired' = [p \in Partition |-> retired[p] + LeadingRun(p)]
      /\ UNCHANGED << stateVars, staged, due, netVars, brokerVars, submitted >>
  BY Zenon DEF SettleWindow, Backoff, Return
<1>2. attempt' \in Nat
  <2>1. attempt \in Nat
    BY Zenon DEF FlushInv, TypeOK
  <2>2. Return \/ UNCHANGED attempt \/ Backoff
    BY Zenon DEF SettleWindow
  <2> QED
    BY <2>1, <2>2, SMTT(20) DEF Return, Backoff
<1>3. WindowCleared' /\ WindowShape' /\ AlignedWindow'
  BY <1>1, ClearWindowFrame, Zenon
<1>a. TypeOK /\ NothingSkipped /\ ExactlyOnceInOrder /\ WithinCache /\ WireSendable
      /\ TrueOffsets
  BY Zenon DEF FlushInv
<1>b. ASSUME NEW p \in Partition
      PROVE  /\ LeadingRun(p) \in Nat /\ LeadingRun(p) <= Len(pending[p])
             /\ \A r \in 1 .. LeadingRun(p) :
                  /\ meta[p] \in Broker
                  /\ r \in 1 .. Len(answers[meta[p]])
                  /\ answers[meta[p]][r][p].off = retired[p] + r
                  /\ retired[p] + r <= Len(log[p])
  BY <1>1, LeadingRunFacts, Zenon
<1>c. ASSUME NEW p \in Partition
      PROVE  /\ pending'[p] \in Seq(SequenceRange)
             /\ TailOf(pending'[p], submitted[p], retired'[p])
             /\ retired'[p] \in Nat /\ retired[p] <= retired'[p] /\ retired'[p] <= Len(log[p])
  <2> DEFINE m == LeadingRun(p)
             k == retired[p]
  <2>1. /\ submitted[p] \in Seq(SequenceRange) /\ pending[p] \in Seq(SequenceRange)
        /\ k \in Nat /\ m \in Nat /\ m <= Len(pending[p])
        /\ TailOf(pending[p], submitted[p], k) /\ Len(log[p]) \in Nat /\ k <= Len(log[p])
    BY <1>a, <1>b, PartitionTypes, Zenon DEF NothingSkipped, ExactlyOnceInOrder
  <2>2. pending'[p] = SubSeq(pending[p], m + 1, Len(pending[p])) /\ retired'[p] = k + m
    BY <1>1, Zenon
  <2>3. m > 0 => k + m <= Len(log[p])
    <3>1. m > 0 => m \in 1 .. m
      <4> HIDE DEF m
      <4> QED
        BY <2>1
    <3> QED
      BY <1>b, <3>1, Zenon
  <2> HIDE DEF m, k
  <2>4. pending'[p] \in Seq(SequenceRange) /\ TailOf(pending'[p], submitted[p], k + m)
    BY <2>1, <2>2, TailSubSeq, Zenon
  <2>5. k + m \in Nat /\ k <= k + m /\ k + m <= Len(log[p])
    BY <2>1, <2>3
  <2> QED
    BY <2>2, <2>4, <2>5, Zenon DEF k
<1>d. ASSUME NEW w \in written'
      PROVE  \/ w \in written
             \/ /\ w \in [p : Partition, off : Nat, range : SequenceRange]
                /\ w.off \in 1 .. Len(log[w.p]) /\ log[w.p][w.off] = w.range
  <2>1. CASE w \in written
    BY <2>1, Zenon
  <2>2. CASE w \notin written
    <3>1. PICK p \in Partition :
            w \in { [p |-> p, off |-> answers[meta[p]][r][p].off, range |-> pending[p][r]] :
                    r \in 1 .. LeadingRun(p) }
      BY <2>2, Zenon DEF SettleWindow
    <3>2. PICK r \in 1 .. LeadingRun(p) :
            w = [p |-> p, off |-> answers[meta[p]][r][p].off, range |-> pending[p][r]]
      BY <3>1, Zenon
    <3>3. /\ answers[meta[p]][r][p].off = retired[p] + r
          /\ retired[p] + r <= Len(log[p])
          /\ LeadingRun(p) \in Nat /\ LeadingRun(p) <= Len(pending[p])
      BY <1>b, Zenon
    <3>4. /\ retired[p] \in Nat /\ Len(log[p]) \in Nat /\ Len(pending[p]) \in Nat
          /\ pending[p] \in Seq(SequenceRange)
      BY <1>a, PartitionTypes, Zenon
    <3>5. r \in 1 .. Len(pending[p]) /\ retired[p] + r \in 1 .. Len(log[p])
          /\ retired[p] + r \in Nat
      <4> DEFINE k == retired[p]
                 m == LeadingRun(p)
                 n == Len(pending[p])
                 l == Len(log[p])
      <4>1. k \in Nat /\ m \in Nat /\ n \in Nat /\ l \in Nat /\ r \in 1 .. m /\ m <= n /\ k + r <= l
        BY <3>3, <3>4, Zenon
      <4>2. r \in 1 .. n /\ k + r \in 1 .. l /\ k + r \in Nat
        <5> HIDE DEF k, m, n, l
        <5> QED
          BY <4>1
      <4> QED
        BY <4>2, Zenon
    <3>6. /\ log[p][retired[p] + r] = submitted[p][retired[p] + r]
          /\ pending[p][r] = submitted[p][retired[p] + r]
      BY <1>a, <3>5, Zenon DEF ExactlyOnceInOrder, NothingSkipped, TailOf
    <3>7. pending[p][r] \in SequenceRange
      BY <3>4, <3>5, RangeTypes, Zenon
    <3> QED
      BY <3>2, <3>3, <3>5, <3>6, <3>7, Zenon
  <2> QED
    BY <2>1, <2>2, Zenon
<1>4. TypeOK'
  <2>1. sent' \in [Broker -> Nat] /\ answers' \in [Broker -> Seq(Answer)]
        /\ err' = "none" /\ aborted' = FALSE
    <3>1. ClearWindow
      BY <1>1, Zenon
    <3>2. sent' \in [Broker -> Nat]
      BY <3>1, Zenon DEF ClearWindow
    <3>3. << >> \in Seq(Answer)
      OBVIOUS
    <3>4. answers' \in [Broker -> Seq(Answer)]
      BY <3>1, <3>3, Zenon DEF ClearWindow
    <3> QED
      BY <3>1, <3>2, <3>4, Zenon DEF ClearWindow
  <2>2. meta' \in [Partition -> Broker \cup {NoBroker}]
    <3>1. meta \in [Partition -> Broker \cup {NoBroker}]
      BY <1>a, Zenon DEF TypeOK
    <3> QED
      BY <1>1, <3>1, Zenon
  <2>3. pending' \in [Partition -> Seq(SequenceRange)] /\ retired' \in [Partition -> Nat]
    BY <1>1, <1>c, Zenon
  <2>4. written' \subseteq [p : Partition, off : Nat, range : SequenceRange]
    <3>1. written \subseteq [p : Partition, off : Nat, range : SequenceRange]
      BY <1>a, Zenon DEF TypeOK
    <3> QED
      BY <1>d, <3>1, Zenon
  <2> QED
    BY <1>a, <1>1, <1>2, <2>1, <2>2, <2>3, <2>4, Zenon
       DEF TypeOK, StateTypeOK, stateVars, netVars, brokerVars
<1>5. Contiguous' /\ Ascending'
  BY <1>1, Zenon DEF FlushInv, Contiguous, Ascending, Contract!EndOf, Chained, Ordered, stateVars
<1>6. NothingSkipped'
  BY <1>1, <1>c, Zenon DEF NothingSkipped, TailOf
<1>7. ExactlyOnceInOrder'
  BY <1>a, <1>1, <1>c, Zenon DEF ExactlyOnceInOrder, brokerVars
<1>8. WithinCache'
  <2>1. ASSUME NEW p \in Partition PROVE Len(log[p]) <= retired'[p] + MaxInFlight
    <3>1. Len(log[p]) <= retired[p] + MaxInFlight /\ Len(log[p]) \in Nat /\ retired[p] \in Nat
      BY <1>a, PartitionTypes, Zenon DEF WithinCache
    <3> DEFINE l == Len(log[p])
               k == retired[p]
               k1 == retired'[p]
    <3>2. l \in Nat /\ k \in Nat /\ k1 \in Nat /\ k <= k1 /\ l <= k + MaxInFlight
      BY <1>c, <3>1, Zenon
    <3>3. l <= k1 + MaxInFlight
      <4> HIDE DEF l, k, k1
      <4> QED
        BY <3>2, FlushAssumption
    <3> QED
      BY <3>3, Zenon
  <2> QED
    BY <1>1, <2>1, Zenon DEF WithinCache, brokerVars
<1>9. WireSendable'
  <2>1. ASSUME NEW p \in Partition, NEW range, Sendable(p, range) PROVE Sendable(p, range)'
    <3>1. PICK i \in 1 .. Len(submitted[p]) :
            i <= retired[p] + MaxInFlight /\ submitted[p][i] = range
      BY <2>1, Zenon DEF Sendable
    <3>2. i <= retired'[p] + MaxInFlight
      <4>1. retired[p] \in Nat /\ retired'[p] \in Nat /\ retired[p] <= retired'[p]
        BY <1>a, <1>c, PartitionTypes, Zenon
      <4> QED
        BY <3>1, <4>1, FlushAssumption
    <3> QED
      BY <1>1, <3>1, <3>2, Zenon DEF Sendable
  <2>2. \A b \in Broker : \A m \in late[b] : m[1] \in Partition
    BY <1>a, SMTT(20) DEF TypeOK
  <2>3. \A b \in Broker : \A i \in 1 .. Len(req[b]) : FALSE
    BY <1>1, SettledWire
  <2> QED
    BY <1>a, <1>1, <2>1, <2>2, <2>3, Zenon DEF WireSendable, netVars
<1>10. NoSelfFencing' /\ TrueOffsets'
  BY <1>a, <1>1, <1>d, Zenon DEF FlushInv, NoSelfFencing, TrueOffsets, stateVars, brokerVars
<1> QED
  BY <1>3, <1>4, <1>5, <1>6, <1>7, <1>8, <1>9, <1>10, Zenon DEF FlushInv

(* Every step preserves the invariant. *)
LEMMA NextInv ==
  ASSUME FlushInv, [Next]_vars
  PROVE  FlushInv'
<1>1. CASE Caller \/ \E p \in Partition : LingerExpires(p)
  BY <1>1, CallerInv, Zenon
<1>2. CASE Route \/ RouteFails \/ Refresh
  BY <1>2, RouteInv, Zenon
<1>3. ASSUME NEW b \in Broker, SendWindow(b) PROVE FlushInv'
  BY <1>3, SendWindowInv, Zenon
<1>4. ASSUME NEW b \in Broker, SendWindowFails(b) PROVE FlushInv'
  BY <1>4, SendWindowFailsInv, Zenon
<1>5. ASSUME NEW b \in Broker, Receive(b) PROVE FlushInv'
  BY <1>5, ReceiveInv, Zenon
<1>6. ASSUME NEW b \in Broker, ReceiveFails(b) \/ ReceiveTimesOut(b) PROVE FlushInv'
  BY <1>6, ReceiveFailsInv, Zenon
<1>7. CASE SettleTransport
  BY <1>7, SettleTransportInv, Zenon
<1>8. CASE SettleFatal
  BY <1>8, SettleFatalInv, Zenon
<1>9. CASE SettleWindow
  BY <1>9, SettleWindowInv, Zenon
<1>10. ASSUME NEW b \in Broker, Execute(b) PROVE FlushInv'
  BY <1>10, ExecuteInv, Zenon
<1>11. ASSUME NEW b \in Broker, ExecuteLate(b) PROVE FlushInv'
  BY <1>11, ExecuteLateInv, Zenon
<1>12. ASSUME NEW b \in Broker, BreakLink(b) PROVE FlushInv'
  BY <1>12, BreakLinkInv, Zenon
<1>13. ASSUME NEW p \in Partition, NEW b \in Broker, MoveLeader(p, b) PROVE FlushInv'
  BY <1>13, MoveLeaderInv, Zenon
<1>14. CASE UNCHANGED vars
  BY <1>14, StutterInv, Zenon
<1> QED
  BY <1>1, <1>2, <1>3, <1>4, <1>5, <1>6, <1>7, <1>8, <1>9, <1>10, <1>11, <1>12, <1>13, <1>14, Zenon
     DEF Next, FlushStep, Environment

(* The invariant holds of every behaviour, for any number of partitions    *)
(* and brokers, any window no deeper than the brokers' cache, and any      *)
(* number of faults.                                                       *)
THEOREM FlushInvariant == Spec => []FlushInv
<1>1. Init => FlushInv
  BY InitInv, Zenon
<1>2. FlushInv /\ [Next]_vars => FlushInv'
  BY NextInv, Zenon
<1> QED
  BY <1>1, <1>2, PTL DEF Spec

(* The variables keep their types. *)
THEOREM TypeCorrect == Spec => []TypeOK
<1>1. FlushInv => TypeOK
  BY Zenon DEF FlushInv
<1> QED
  BY <1>1, FlushInvariant, PTL

(* Every log is a prefix of what was queued for its partition, without gap *)
(* or duplicate, and flush retires only what is in it.                     *)
THEOREM ExactlyOnce == Spec => []ExactlyOnceInOrder
<1>1. FlushInv => ExactlyOnceInOrder
  BY Zenon DEF FlushInv
<1> QED
  BY <1>1, FlushInvariant, PTL

(* A batch stays queued, in order, until flush retires it. *)
THEOREM QueueKept == Spec => []NothingSkipped
<1>1. FlushInv => NothingSkipped
  BY Zenon DEF FlushInv
<1> QED
  BY <1>1, FlushInvariant, PTL

(* Only a broker's refusal ever fences the producer. *)
THEOREM NeverSelfFenced == Spec => []NoSelfFencing
<1>1. FlushInv => NoSelfFencing
  BY Zenon DEF FlushInv
<1> QED
  BY <1>1, FlushInvariant, PTL

(* Every offset flush returns is where its batch is in the log. *)
THEOREM OffsetsTrue == Spec => []TrueOffsets
<1>1. FlushInv => TrueOffsets
  BY Zenon DEF FlushInv
<1> QED
  BY <1>1, FlushInvariant, PTL

(* No connection carries anything from one window into the next. *)
THEOREM Drained == Spec => []DrainedBetweenWindows
<1>1. FlushInv => DrainedBetweenWindows
  BY Zenon DEF FlushInv, WindowCleared, InWindow, DrainedBetweenWindows
<1> QED
  BY <1>1, FlushInvariant, PTL

-----------------------------------------------------------------------------
(* The refinement of ExactlyOnceLog.                                       *)

(* Queueing submits: one more batch, starting where the last one ends. *)
LEMMA QueueSubmits ==
  ASSUME FlushInv, NEW S \in SUBSET Partition, NEW count \in [S -> Nat \ {0}], Queue(count),
         UNCHANGED << log, retired >>
  PROVE  Contract!Submit
<1>1. ASSUME NEW p \in S PROVE Contract!OneMore(submitted[p], submitted'[p])
  <2> DEFINE s == submitted[p]
             e == NextRange(p, count[p])
  <2>1. /\ s \in Seq(SequenceRange) /\ Chained(s) /\ Ordered(s) /\ sequences[p] \in Nat
        /\ sequences[p] = Contract!EndOf(s)
    BY PartitionTypes, Zenon DEF FlushInv, Contiguous, Ascending
  <2>2. e \in SequenceRange /\ e.base = Contract!EndOf(s) /\ e.count > 0
    <3>1. count[p] \in Nat \ {0} /\ count[p] > 0
      OBVIOUS
    <3> QED
      BY <2>1, <3>1, Zenon DEF NextRange, SequenceRange
  <2>3. submitted'[p] = Append(s, e)
    BY Zenon DEF Queue
  <2> HIDE DEF s, e
  <2>4. /\ Len(Append(s, e)) = Len(s) + 1
        /\ \A i \in 1 .. Len(s) : Append(s, e)[i] = s[i]
        /\ Append(s, e)[Len(s) + 1] = e
    BY <2>1, <2>2, OneMoreRange, Zenon
  <2> QED
    BY <2>2, <2>3, <2>4, Zenon DEF Contract!OneMore, s
<1>2. ASSUME NEW p \in Partition \ S PROVE submitted'[p] = submitted[p]
  BY Zenon DEF Queue
<1> QED
  BY <1>1, <1>2, Zenon DEF Contract!Submit

(* A log that grew by one batch and is still in order took the next one. *)
LEMMA GrowthIsNext ==
  ASSUME TypeOK, ExactlyOnceInOrder', UNCHANGED << submitted, retired >>,
         \A p \in Partition : \/ log'[p] = log[p]
                              \/ \E e \in SequenceRange : log'[p] = Append(log[p], e)
  PROVE  Contract!WriteNext
<1>1. ASSUME NEW p \in Partition, NEW e \in SequenceRange, log'[p] = Append(log[p], e)
      PROVE  /\ Len(log[p]) < Len(submitted[p])
             /\ log'[p] = Append(log[p], submitted[p][Len(log[p]) + 1])
  <2>1. log[p] \in Seq(SequenceRange) /\ Len(log[p]) \in Nat /\ Len(submitted[p]) \in Nat
    BY PartitionTypes, Zenon
  <2>2. /\ Len(log'[p]) <= Len(submitted[p])
        /\ \A i \in 1 .. Len(log'[p]) : log'[p][i] = submitted[p][i]
    BY Zenon DEF ExactlyOnceInOrder
  <2>3. Len(log'[p]) = Len(log[p]) + 1 /\ log'[p][Len(log[p]) + 1] = e
    BY <1>1, <2>1
  <2>4. Len(log[p]) < Len(submitted[p]) /\ Len(log[p]) + 1 \in 1 .. Len(log'[p])
    <3> DEFINE n == Len(log[p])
               n1 == Len(log'[p])
               m == Len(submitted[p])
    <3>1. n \in Nat /\ m \in Nat /\ n1 = n + 1 /\ n1 <= m
      BY <2>1, <2>2, <2>3, Zenon
    <3>2. n < m /\ n + 1 \in 1 .. n1
      <4> HIDE DEF n, n1, m
      <4> QED
        BY <3>1
    <3> QED
      BY <3>2, Zenon
  <2> QED
    BY <1>1, <2>2, <2>3, <2>4, Zenon
<1> QED
  BY <1>1, Zenon DEF Contract!WriteNext

(* Executing a request writes. *)
LEMMA ExecuteWrites ==
  ASSUME FlushInv, ExactlyOnceInOrder', NEW b \in Broker, Execute(b) \/ ExecuteLate(b)
  PROVE  Contract!WriteNext
<1>a. TypeOK /\ UNCHANGED << submitted, retired >>
  BY Zenon DEF FlushInv, Execute, ExecuteLate
<1>1. CASE Execute(b)
  <2> DEFINE body == Head(req[b])
             S == Carries(body)
  <2>1. body \in Request
    <3>1. req[b] \in Seq(Request) /\ req[b] # <<>>
      BY <1>a, <1>1, BrokerTypes, Zenon DEF Execute
    <3> QED
      BY <3>1
  <2>2. PICK v : log' = [p \in Partition |-> IF p \in S /\ v[p].append
                                             THEN Append(log[p], body[p]) ELSE log[p]]
    BY <1>1, Zenon DEF Execute
  <2> HIDE DEF body
  <2>3. \A p \in S : p \in Partition /\ body[p] \in SequenceRange
    BY <2>1, Zenon DEF Carries, Request
  <2>4. \A p \in Partition : \/ log'[p] = log[p]
                             \/ \E e \in SequenceRange : log'[p] = Append(log[p], e)
    BY <2>2, <2>3, Zenon
  <2> QED
    BY <1>a, <2>4, GrowthIsNext, Zenon
<1>2. CASE ExecuteLate(b)
  <2>1. PICK m \in late[b] : log' = [log EXCEPT ![m[1]] = Append(@, m[2])]
    BY <1>2, Zenon DEF ExecuteLate
  <2>2. m[1] \in Partition /\ m[2] \in SequenceRange
    BY <1>a, BrokerTypes, Zenon
  <2>3. log \in [Partition -> Seq(SequenceRange)]
    BY <1>a, Zenon DEF TypeOK
  <2>4. \A p \in Partition : \/ log'[p] = log[p]
                             \/ \E e \in SequenceRange : log'[p] = Append(log[p], e)
    BY <2>1, <2>2, <2>3, Zenon
  <2> QED
    BY <1>a, <2>4, GrowthIsNext, Zenon
<1> QED
  BY <1>1, <1>2, Zenon

(* Settling a window acknowledges. *)
LEMMA SettleAcknowledges ==
  ASSUME FlushInv, ExactlyOnceInOrder', SettleWindow
  PROVE  Contract!Acknowledge
<1>1. /\ retired' = [p \in Partition |-> retired[p] + LeadingRun(p)]
      /\ pc = "settle" /\ err = "none" /\ ~aborted
      /\ UNCHANGED << submitted, log >>
  BY Zenon DEF SettleWindow, brokerVars
<1>2. ASSUME NEW p \in Partition
      PROVE  retired[p] <= retired'[p] /\ retired'[p] <= Len(log[p])
  <2>1. LeadingRun(p) \in Nat
    BY <1>1, LeadingRunFacts, Zenon
  <2>2. retired[p] \in Nat
    BY PartitionTypes, Zenon DEF FlushInv
  <2>3. retired[p] <= retired'[p]
    BY <1>1, <2>1, <2>2, SMTT(20)
  <2>4. retired'[p] <= Len(log[p])
    BY <1>1, Zenon DEF ExactlyOnceInOrder
  <2> QED
    BY <2>3, <2>4, Zenon
<1> QED
  BY <1>1, <1>2, Zenon DEF Contract!Acknowledge

(* Seen through submissions, logs and acknowledgements, every step is a    *)
(* step of the contract or invisible.                                      *)
LEMMA StepRefines ==
  ASSUME FlushInv, [Next]_vars, ExactlyOnceInOrder'
  PROVE  [Contract!Next]_(Contract!logVars)
<1> USE DEF Contract!Next, Contract!logVars
<1>a. staged \in [Partition -> Nat]
  BY Zenon DEF FlushInv, TypeOK
<1>1. ASSUME NEW st \in [Partition -> Nat], StartFlush(st) PROVE Contract!Submit
  <2> DEFINE full == {p \in Partition : st[p] > 0}
             count == [p \in full |-> st[p]]
  <2>1. count \in [full -> Nat \ {0}] /\ full \in SUBSET Partition
    OBVIOUS
  <2>2. Queue(count) /\ UNCHANGED << log, retired >>
    BY <1>1, Zenon DEF StartFlush, brokerVars
  <2> HIDE DEF full, count
  <2> QED
    BY <2>1, <2>2, QueueSubmits, Zenon
<1>2. ASSUME NEW st, NEW ready, DropStaged(st, ready) PROVE UNCHANGED << submitted, log, retired >>
  BY <1>2, Zenon DEF DropStaged, brokerVars
<1>3. CASE Caller
  <2>1. ASSUME NEW p \in Partition, NEW n \in Counts, Enqueue(p, n) PROVE Contract!Submit
    <3> DEFINE count == [q \in {p} |-> n]
    <3>1. count \in [{p} -> Nat \ {0}] /\ {p} \in SUBSET Partition
      BY FlushAssumption, Zenon
    <3>2. Queue(count) /\ UNCHANGED << log, retired >>
      BY <2>1, Zenon DEF Enqueue, brokerVars
    <3> HIDE DEF count
    <3> QED
      BY <3>1, <3>2, QueueSubmits, Zenon
  <2>2. ASSUME NEW p \in Partition, ProduceTo(p)
        PROVE  Contract!Submit \/ UNCHANGED << submitted, log, retired >>
    <3>1. [staged EXCEPT ![p] = @ + 1] \in [Partition -> Nat]
      BY <1>a
    <3> QED
      BY <1>1, <1>2, <2>2, <3>1, Zenon DEF ProduceTo, SendReady, brokerVars
  <2>3. CASE Tick \/ Flush
    BY <1>1, <1>2, <1>a, <2>3, Zenon DEF Tick, Flush, SendReady
  <2> QED
    BY <1>3, <2>1, <2>2, <2>3, Zenon DEF Caller
<1>4. CASE Route \/ RouteFails \/ Refresh
  BY <1>4, Zenon DEF Route, RouteFails, Refresh
<1>5. ASSUME NEW b \in Broker, SendWindow(b) \/ SendWindowFails(b)
      PROVE  UNCHANGED << submitted, log, retired >>
  BY <1>5, Zenon DEF SendWindow, SendWindowFails, brokerVars
<1>6. ASSUME NEW b \in Broker, Receive(b) \/ ReceiveFails(b) \/ ReceiveTimesOut(b)
      PROVE  UNCHANGED << submitted, log, retired >>
  BY <1>6, Zenon DEF Receive, ReceiveFails, ReceiveTimesOut, Collected
<1>7. CASE SettleTransport \/ SettleFatal
  BY <1>7, Zenon DEF SettleTransport, SettleFatal, brokerVars
<1>8. CASE SettleWindow
  BY <1>8, SettleAcknowledges, Zenon
<1>9. ASSUME NEW b \in Broker, Execute(b) \/ ExecuteLate(b) PROVE Contract!WriteNext
  BY <1>9, ExecuteWrites, Zenon
<1>10. ASSUME NEW b \in Broker, BreakLink(b) PROVE UNCHANGED << submitted, log, retired >>
  BY <1>10, Zenon DEF BreakLink
<1>11. ASSUME NEW p \in Partition, NEW b \in Broker, MoveLeader(p, b)
       PROVE  UNCHANGED << submitted, log, retired >>
  BY <1>11, Zenon DEF MoveLeader
<1>12. ASSUME NEW p \in Partition, LingerExpires(p) PROVE UNCHANGED << submitted, log, retired >>
  BY <1>12, Zenon DEF LingerExpires, brokerVars
<1>13. CASE UNCHANGED vars
  BY <1>13, Zenon DEF vars, brokerVars
<1> QED
  BY <1>3, <1>4, <1>5, <1>6, <1>7, <1>8, <1>9, <1>10, <1>11, <1>12, <1>13, Zenon
     DEF Next, FlushStep, Environment

(* flush keeps the contract of ExactlyOnceLog through windows, retries,    *)
(* reconnects and late executions.                                         *)
THEOREM FlushRefinesContract == Spec => ImplementsContract
<1>1. Init => Contract!Init
  BY Zenon DEF Init, Contract!Init
<1>2. FlushInv /\ FlushInv' /\ [Next]_vars => [Contract!Next]_(Contract!logVars)
  BY StepRefines, Zenon DEF FlushInv
<1> QED
  BY <1>1, <1>2, FlushInvariant, PTL DEF Spec, ImplementsContract, Contract!Spec
=============================================================================
