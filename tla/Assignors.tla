----------------------------- MODULE Assignors -----------------------------
(***************************************************************************)
(* The four partition assignors of barnabas-core/src/group.rs.  The leader *)
(* of a group runs one of them on the subscriptions the coordinator hands  *)
(* it and on the partition count of every subscribed topic.                *)
(*                                                                         *)
(* Member ids and topics are naturals (the code compares the strings), a   *)
(* TopicPartition is a pair, and a list the code keeps sorted is a set.    *)
(***************************************************************************)
EXTENDS Integers, FiniteSets, Sequences, Functions

(* members is the sequence of subscriptions in the coordinator's order,    *)
(* which may be any: [member_id, topics, owned, generation].               *)
Listings(subscriptions) == Bijection(1 .. Cardinality(subscriptions), subscriptions)

MemberIds(members) == {members[i].member_id : i \in DOMAIN members}
SubscriptionOf(members, m) ==
  members[CHOOSE i \in DOMAIN members : members[i].member_id = m]
Subscribers(members, t) ==
  {m \in MemberIds(members) : t \in SubscriptionOf(members, m).topics}

(* The derived order of TopicPartition: topic, then partition. *)
Before(a, b) == a[1] < b[1] \/ (a[1] = b[1] /\ a[2] < b[2])
LastOf(tps) == CHOOSE tp \in tps : \A u \in tps : u = tp \/ Before(u, tp)

(* The place of member m among ids in their order, the member at a place,  *)
(* and the last of them.                                                   *)
Rank(ids, m) == Cardinality({n \in ids : n < m})
Ranked(ids, r) == CHOOSE m \in ids : Rank(ids, m) = r
LastId(ids) == CHOOSE m \in ids : \A n \in ids : n <= m

(* Every partition of the topics counted. *)
AllPartitions(counts) ==
  UNION { {t} \X (0 .. counts[t] - 1) : t \in DOMAIN counts }

Nothing(members) == [m \in MemberIds(members) |-> {}]

-----------------------------------------------------------------------------
(* Mutant: a member counts nobody but itself. *)
RangeBlockAlone(m, t, subscribers, count) == {t} \X (0 .. count - 1)

(* Mutant: the remainder goes to the last members. *)
RangeBlockLate(m, t, subscribers, count) ==
  LET index == Rank(subscribers, m)
      per_member == count \div Cardinality(subscribers)
      without_extra == Cardinality(subscribers) - (count % Cardinality(subscribers))
      start == per_member * index + IF index < without_extra THEN 0 ELSE index - without_extra
      length == per_member + IF index < without_extra THEN 0 ELSE 1
  IN {t} \X (start .. start + length - 1)

(* Mutant: the block's end is one too far. *)
RangeBlockInclusive(m, t, subscribers, count) ==
  LET index == Rank(subscribers, m)
      per_member == count \div Cardinality(subscribers)
      with_extra == count % Cardinality(subscribers)
      start == per_member * index + IF index < with_extra THEN index ELSE with_extra
      length == per_member + IF index < with_extra THEN 1 ELSE 0
  IN {t} \X (start .. start + length)

(* range: a contiguous block of every topic, the remainder to the earliest *)
(* members.                                                                *)
RangeBlock(m, t, subscribers, count) ==
  LET index == Rank(subscribers, m)
      per_member == count \div Cardinality(subscribers)
      with_extra == count % Cardinality(subscribers)
      start == per_member * index + IF index < with_extra THEN index ELSE with_extra
      length == per_member + IF index < with_extra THEN 1 ELSE 0
  IN {t} \X (start .. start + length - 1)

RangeAssignor(members, counts) ==
  [m \in MemberIds(members) |->
     UNION { RangeBlock(m, t, Subscribers(members, t), counts[t]) :
             t \in {u \in DOMAIN counts : m \in Subscribers(members, u)} }]

-----------------------------------------------------------------------------
(* Mutant: the deal goes to the member whose turn it is, subscribed or not. *)
DealAnyone(members, dealt, tp) ==
  LET ids == MemberIds(members)
  IN [next |-> dealt.next + 1,
      assignment |-> [dealt.assignment EXCEPT
                        ![Ranked(ids, dealt.next % Cardinality(ids))] = @ \cup {tp}]]

(* roundrobin: the partitions in order, dealt around the members in order, *)
(* skipping a member that did not subscribe to the topic.                  *)
Deal(members, dealt, tp) ==
  LET ids == MemberIds(members)
      size == Cardinality(ids)
      at(k) == Ranked(ids, k % size)
      wants == {k \in dealt.next .. dealt.next + size - 1 :
                  at(k) \in Subscribers(members, tp[1])}
      chosen == CHOOSE k \in wants : \A j \in wants : k <= j
  IN IF wants = {}
     THEN [dealt EXCEPT !.next = @ + size]
     ELSE [next |-> chosen + 1,
           assignment |-> [dealt.assignment EXCEPT ![at(chosen)] = @ \cup {tp}]]

DealAll(members, tps) ==
  LET dealt[S \in SUBSET tps] ==
        IF S = {} THEN [next |-> 0, assignment |-> Nothing(members)]
        ELSE Deal(members, dealt[S \ {LastOf(S)}], LastOf(S))
  IN dealt[tps].assignment

RoundRobinAssignor(members, counts) ==
  IF members = <<>> THEN Nothing(members) ELSE DealAll(members, AllPartitions(counts))

-----------------------------------------------------------------------------
(* sticky: members keep what they validly claim, up to a fair share; the   *)
(* rest goes to whoever holds fewest.                                      *)

(* A claim dated below the highest generation in the group is stale. *)
live_claims(members) ==
  LET highest == CHOOSE g \in {members[i].generation : i \in DOMAIN members} :
                   \A i \in DOMAIN members : members[i].generation <= g
  IN [m \in MemberIds(members) |->
        LET s == SubscriptionOf(members, m)
        IN IF s.generation >= highest /\ highest >= 0 THEN s.owned ELSE {}]

(* wanted.div_ceil(sharers). *)
quota_of(members, counts, m) ==
  LET mine == SubscriptionOf(members, m).topics
      wanted == Cardinality({tp \in AllPartitions(counts) : tp[1] \in mine})
      sharers == Cardinality({n \in MemberIds(members) :
                                SubscriptionOf(members, n).topics \cap mine # {}})
      shared == IF sharers = 0 THEN 1 ELSE sharers
  IN (wanted + shared - 1) \div shared

FirstOf(tps, n) == {tp \in tps : Cardinality({u \in tps : Before(u, tp)}) < n}

(* Member m keeps its first quota claims that are valid and not yet taken. *)
Keep(members, counts, assignment, m) ==
  LET taken == UNION {assignment[n] : n \in DOMAIN assignment}
      keepable == {tp \in live_claims(members)[m] \cap AllPartitions(counts) :
                     tp \notin taken /\ m \in Subscribers(members, tp[1])}
  IN [assignment EXCEPT ![m] = FirstOf(keepable, quota_of(members, counts, m))]

(* Mutant: tp goes to the subscriber with the least id. *)
HandFirst(members, assignment, tp) ==
  LET candidates == Subscribers(members, tp[1])
  IN IF candidates = {} THEN assignment
     ELSE [assignment EXCEPT
             ![CHOOSE m \in candidates : \A n \in candidates : m <= n] = @ \cup {tp}]

(* tp goes to the subscriber with the fewest partitions, then the least id. *)
Hand(members, assignment, tp) ==
  LET held(m) == Cardinality(assignment[m])
      candidates == Subscribers(members, tp[1])
      first(m) == \A n \in candidates :
                    held(m) < held(n) \/ (held(m) = held(n) /\ m <= n)
  IN IF candidates = {} THEN assignment
     ELSE [assignment EXCEPT ![CHOOSE m \in candidates : first(m)] = @ \cup {tp}]

KeepAll(members, counts) ==
  LET ids == MemberIds(members)
      kept[S \in SUBSET ids] ==
        IF S = {} THEN Nothing(members)
        ELSE Keep(members, counts, kept[S \ {LastId(S)}], LastId(S))
  IN kept[ids]

HandAll(members, kept, tps) ==
  LET handed[S \in SUBSET tps] ==
        IF S = {} THEN kept
        ELSE Hand(members, handed[S \ {LastOf(S)}], LastOf(S))
  IN handed[tps]

StickyAssignor(members, counts) ==
  IF members = <<>> THEN Nothing(members)
  ELSE LET kept == KeepAll(members, counts)
           taken == UNION {kept[m] : m \in DOMAIN kept}
       IN HandAll(members, kept, AllPartitions(counts) \ taken)

-----------------------------------------------------------------------------
(* cooperative-sticky: the sticky target, less whatever another member     *)
(* claims to hold, stale claims included.  Of two claims on a partition    *)
(* the later in the coordinator's order is the one remembered.             *)
OwnerOf(members, tp) ==
  LET claims == {i \in DOMAIN members : tp \in members[i].owned}
  IN IF claims = {} THEN {}
     ELSE {members[CHOOSE i \in claims : \A j \in claims : j <= i].member_id}

(* Mutant: the target is published as it is. *)
CooperativeAtOnce(members, counts) == StickyAssignor(members, counts)

(* Mutant: what a member claims is withheld from that member as well. *)
CooperativeWithheld(members, counts) ==
  LET target == StickyAssignor(members, counts)
  IN [m \in DOMAIN target |-> {tp \in target[m] : OwnerOf(members, tp) = {}}]

CooperativeStickyAssignor(members, counts) ==
  LET target == StickyAssignor(members, counts)
  IN [m \in DOMAIN target |->
        {tp \in target[m] : OwnerOf(members, tp) \subseteq {m}}]
=============================================================================
