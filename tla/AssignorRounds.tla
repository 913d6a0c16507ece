--------------------------- MODULE AssignorRounds ---------------------------
(***************************************************************************)
(* A group over many rebalances, as far as its leader's assignor sees it:  *)
(* members come, go, drop out and come back with claims from the past, and *)
(* topics grow, while every round feeds the last one's outcome to the next *)
(* (subscription in core member.rs: what a member holds, dated with its    *)
(* generation).  Under the eager protocol a member gives everything up     *)
(* before it rejoins; under the cooperative one it keeps what the round    *)
(* left it, and a member that dropped out keeps everything it had.         *)
(***************************************************************************)
EXTENDS Assignors

CONSTANTS Ids,         \* member ids, naturals
          Topics,      \* topics, naturals
          MaxCount,    \* bound: partitions per topic
          MaxGroup,    \* bound: members at a time
          MaxChanges,  \* bound: what makes the group rebalance
          MaxRounds    \* bound: rebalances in a row

ASSUME RoundsAssumption ==
  /\ Ids \subseteq Nat /\ Topics \subseteq Nat /\ IsFiniteSet(Topics)
  /\ MaxCount \in Nat /\ MaxGroup \in Nat /\ MaxChanges \in Nat /\ MaxRounds \in Nat

VARIABLES
  strategy,   \* the assignor the group agreed on
  counts,     \* partitions per topic
  group,      \* the members' subscriptions
  away,       \* members the coordinator dropped, still holding what they had
  generation, \* the group's generation
  rounds,     \* rebalances since the last change
  rejoin,     \* some member has to rejoin: it lost a partition
  changes     \* changes so far

vars == << strategy, counts, group, away, generation, rounds, rejoin, changes >>

Strategy == {"range", "roundrobin", "sticky", "cooperative-sticky"}
Cooperative == strategy = "cooperative-sticky"

Subscription == [member_id : Ids, topics : SUBSET Topics,
                 owned : SUBSET (Topics \X (0 .. MaxCount - 1)),
                 generation : {-1} \cup Nat]

TypeOK ==
  /\ strategy \in Strategy
  /\ counts \in [Topics -> 0 .. MaxCount]
  /\ group \subseteq Subscription /\ away \subseteq Subscription
  /\ \A s, t \in group : s.member_id = t.member_id => s = t
  /\ generation \in Nat /\ rounds \in Nat /\ rejoin \in BOOLEAN /\ changes \in Nat

Init ==
  /\ strategy \in Strategy
  /\ counts \in [Topics -> 0 .. MaxCount]
  /\ group = {} /\ away = {}
  /\ generation = 0 /\ rounds = 0 /\ rejoin = FALSE /\ changes = 0

Taken == {s.member_id : s \in group}

Change ==
  /\ changes < MaxChanges
  /\ changes' = changes + 1
  /\ rounds' = 0
  /\ UNCHANGED << strategy, generation, rejoin >>

(* A member joins for the first time: it holds nothing. *)
Join(m, topics) ==
  /\ Change
  /\ m \notin Taken /\ Cardinality(group) < MaxGroup
  /\ group' = group \cup {[member_id |-> m, topics |-> topics, owned |-> {},
                           generation |-> -1]}
  /\ UNCHANGED << counts, away >>

(* A member leaves for good. *)
Leave(s) ==
  /\ Change
  /\ group' = group \ {s}
  /\ UNCHANGED << counts, away >>

(* The coordinator drops a member that has not been heard of. *)
DropOut(s) ==
  /\ Change
  /\ Cooperative
  /\ group' = group \ {s}
  /\ away' = away \cup {s}
  /\ UNCHANGED counts

(* It comes back under a new id, its old claims and generation with it. *)
ComeBack(s, m) ==
  /\ Change
  /\ m \notin Taken /\ Cardinality(group) < MaxGroup
  /\ away' = away \ {s}
  /\ group' = group \cup {[s EXCEPT !.member_id = m]}
  /\ UNCHANGED counts

(* A member rejoins though nothing changed: the coordinator moved, or a    *)
(* heartbeat was answered with an error.                                   *)
Disturb == Change /\ UNCHANGED << counts, group, away >>

(* A subscribed topic gains a partition. *)
Grow(t) ==
  /\ Change
  /\ counts[t] < MaxCount
  /\ counts' = [counts EXCEPT ![t] = @ + 1]
  /\ UNCHANGED << group, away >>

Assign(members, cs) ==
  CASE strategy = "range" -> RangeAssignor(members, cs)
    [] strategy = "roundrobin" -> RoundRobinAssignor(members, cs)
    [] strategy = "sticky" -> StickyAssignor(members, cs)
    [] strategy = "cooperative-sticky" -> CooperativeStickyAssignor(members, cs)

(* The counts the leader looks up: those of the topics someone wants. *)
Wanted(subs) ==
  [t \in UNION {s.topics : s \in subs} |-> counts[t]]

(* What the members send when they rejoin: under the eager protocol they   *)
(* have given everything up by then.                                       *)
Claims ==
  IF Cooperative THEN group ELSE {[s EXCEPT !.owned = {}] : s \in group}

(* One rebalance: the coordinator lists the members in some order, the     *)
(* leader assigns, everyone takes what it was given.  A cooperative member *)
(* that lost something rejoins, which makes the next one.                  *)
Rebalance ==
  /\ group # {} /\ rounds < MaxRounds
  /\ rounds = 0 \/ rejoin
  /\ \E members \in Listings(Claims) :
       LET assignment == Assign(members, Wanted(group))
       IN group' = {[s EXCEPT !.owned = assignment[s.member_id],
                              !.generation = generation + 1] : s \in group}
  /\ generation' = generation + 1
  /\ rounds' = rounds + 1
  /\ rejoin' = (Cooperative /\ \E s \in group, s2 \in group' :
                  s.member_id = s2.member_id /\ ~(s.owned \subseteq s2.owned))
  /\ UNCHANGED << strategy, counts, away, changes >>

Next ==
  \/ \E m \in Ids, topics \in SUBSET Topics \ {{}} : Join(m, topics)
  \/ \E s \in group : Leave(s) \/ DropOut(s)
  \/ Disturb
  \/ \E s \in away, m \in Ids : ComeBack(s, m)
  \/ \E t \in Topics : Grow(t)
  \/ Rebalance

Spec == Init /\ [][Next]_vars

-----------------------------------------------------------------------------
(* Properties. *)

(* Partitions some member wants. *)
Subscribed ==
  UNION {{t} \X (0 .. counts[t] - 1) : t \in UNION {s.topics : s \in group}}

(* The group has rebalanced and nobody is about to rejoin. *)
Settled == rounds > 0 /\ ~rejoin

(* Once the group has settled, every partition of a subscribed topic is    *)
(* with exactly one member, and that member subscribed to its topic (what  *)
(* the Assignor trait's assign is for), whatever stale or doubled claims   *)
(* the rounds before had to deal with.                                     *)
EverythingAssignedOnce ==
  Settled =>
    \A tp \in Subscribed :
      /\ Cardinality({s \in group : tp \in s.owned}) = 1
      /\ \A s \in group : tp \in s.owned => tp[1] \in s.topics

(* Members of one generation never hold the same partition, even between   *)
(* the two rounds of a cooperative handover.                               *)
OneHolder ==
  \A s, t \in group :
    s # t /\ s.generation = t.generation => s.owned \cap t.owned = {}

(* range is Java's: the blocks of a topic follow each other in member      *)
(* order, and an earlier member's is as long as or one longer than a later *)
(* one's.                                                                  *)
RangeIsContiguous ==
  strategy = "range" /\ Settled =>
    \A s, u \in group : \A t \in s.topics \cap u.topics :
      LET mine == {tp[2] : tp \in {x \in s.owned : x[1] = t}}
          theirs == {tp[2] : tp \in {x \in u.owned : x[1] = t}}
      IN s.member_id < u.member_id =>
           /\ \A i \in mine, j \in theirs : i < j
           /\ Cardinality(mine) - Cardinality(theirs) \in {0, 1}

SameTopics == \A s, t \in group : s.topics = t.topics

(* When everyone wants the same topics, roundrobin is even to within one   *)
(* partition, across topics, and the sticky assignors give nobody more     *)
(* than a fair share rounded up (the quota).                               *)
FairShare ==
  Settled /\ strategy # "range" /\ SameTopics =>
    \A s, t \in group :
      IF strategy = "roundrobin"
      THEN Cardinality(s.owned) - Cardinality(t.owned) \in {-1, 0, 1}
      ELSE Cardinality(group) * (Cardinality(s.owned) - 1) < Cardinality(Subscribed)

(* A cooperative round never gives a member a partition that another       *)
(* member of the group comes to it reading, however out of date that       *)
(* member's claim: it is withheld until the reader has given it up.        *)
HandedOverInTwoRounds ==
  [][Cooperative =>
       \A s, t \in group : \A s2 \in group' :
         (s # t /\ s2.member_id = s.member_id /\ generation' > generation) =>
           (s2.owned \ s.owned) \cap t.owned = {}]_vars

(* However the claims conflict, a cooperative rebalance of members that    *)
(* want the same topics is done with its second round (RebalanceProtocol   *)
(* in member.rs): nobody is made to rejoin after it.                       *)
TwoRoundsSuffice == SameTopics /\ rejoin => rounds < 2

(* Where wishes differ, a member may be handed more than its quota and     *)
(* lose that again, but such a rebalance ends too, before MaxRounds.       *)
HandoverEnds == TwoRoundsSuffice /\ (rejoin => rounds < MaxRounds)

-----------------------------------------------------------------------------
(* A cooperative round leaves members that want the same topics claims of  *)
(* one date, to partitions there are and within a fair share, which the    *)
(* next round lets them keep: a third is not needed.                       *)
TwoRounds ==
  Cooperative /\ rounds > 0 /\ SameTopics =>
    /\ \A s \in group :
         /\ s.generation = generation /\ s.owned \subseteq Subscribed
         /\ Cardinality(group) * (Cardinality(s.owned) - 1) < Cardinality(Subscribed)
    /\ rejoin => rounds = 1

(* The inductive invariant: claims are dated no later than the group, a    *)
(* claim without a date is empty, and claims of one date are disjoint      *)
(* wherever they are, with a member of the group or with one that dropped  *)
(* out of it; on which every round's outcome rests.                        *)
RoundsInv ==
  /\ TypeOK /\ IsFiniteSet(group)
  /\ \A s \in group \cup away :
       s.generation <= generation /\ (s.generation = -1 => s.owned = {})
  /\ \A s, t \in group \cup away :
       s # t /\ s.generation = t.generation => s.owned \cap t.owned = {}
  /\ \A s \in group \cap away : s.owned = {}
  /\ EverythingAssignedOnce /\ RangeIsContiguous /\ FairShare
  /\ TwoRounds /\ (rejoin => Cooperative)
=============================================================================
