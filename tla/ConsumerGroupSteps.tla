------------------------- MODULE ConsumerGroupSteps -------------------------
(***************************************************************************)
(* Lemmas for ConsumerGroupProofs: what the methods of a member make of    *)
(* it, what keeps the consumers and the coordinator in agreement, and the  *)
(* steps whose effect does not depend on which partitions an assignor      *)
(* gives to whom.                                                          *)
(***************************************************************************)
EXTENDS ConsumerGroupInv, TLAPS

-----------------------------------------------------------------------------
(* GroupMember: what its methods make of a member. *)

(* Member m gone back to the start, its id kept or forgotten. *)
Left(m, m2) ==
  m2 \in Member /\ m2.state = "Unjoined" /\ m2.member_id \in {m.member_id, NoId}

(* A member sent back to the start, and one with a new assignment. *)
Back(m, l, a) ==
  [m EXCEPT !.lost = l, !.assignment = a, !.pending_members = <<>>, !.leader = FALSE,
            !.state = "Unjoined"]

Settled(m, a) ==
  [m EXCEPT !.lost = {}, !.assignment = a, !.state = "Stable", !.leader = m.leader,
            !.pending_members = m.pending_members]

(* A member told that it leads generation g, and one that it does not. *)
Leads(m, i, g, p) ==
  [m EXCEPT !.member_id = i, !.generation = g, !.leader = TRUE, !.state = "Syncing",
            !.pending_members = p]

Follows(m, i, g) ==
  [m EXCEPT !.member_id = i, !.generation = g, !.leader = FALSE, !.state = "Syncing",
            !.pending_members = <<>>]

(* They are members (revoke_and_rejoin, on_sync, on_join). *)
LEMMA MemberBack ==
  ASSUME NEW m \in Member, NEW l \in SUBSET Partition, NEW a \in SUBSET Partition
  PROVE  /\ Back(m, l, a) \in Member
         /\ Back(m, l, a).state = "Unjoined"
         /\ Back(m, l, a).member_id = m.member_id
         /\ Back(m, l, a).generation = m.generation
         /\ Back(m, l, a).assignment = a
<1>1. <<>> \in Seq(Claim) /\ "Unjoined" \in MemberState
  BY DEF MemberState
<1>2. Back(m, l, a) \in Member
  BY <1>1, Zenon DEF Member, Back
<1> QED
  BY <1>2, Zenon DEF Member, Back

(* A member takes its assignment (on_sync). *)
LEMMA MemberSettled ==
  ASSUME NEW m \in Member, NEW a \in SUBSET Partition
  PROVE  /\ Settled(m, a) \in Member
         /\ Settled(m, a).state = "Stable"
         /\ Settled(m, a).member_id = m.member_id
         /\ Settled(m, a).generation = m.generation
         /\ Settled(m, a).assignment = a
<1>1. {} \in SUBSET Partition /\ "Stable" \in MemberState
  BY Zenon DEF MemberState
<1>2. Settled(m, a) \in Member
  BY <1>1, Zenon DEF Member, Settled
<1> QED
  BY <1>2, Zenon DEF Member, Settled

(* A member joins and is told that it leads (on_join). *)
LEMMA MemberLeads ==
  ASSUME NEW m \in Member, NEW i \in Nat, NEW g \in Generation, NEW p \in Seq(Claim)
  PROVE  /\ Leads(m, i, g, p) \in Member
         /\ Leads(m, i, g, p).state = "Syncing"
         /\ Leads(m, i, g, p).member_id = i
         /\ Leads(m, i, g, p).generation = g
         /\ Leads(m, i, g, p).leader
         /\ Leads(m, i, g, p).pending_members = p
<1>1. "Syncing" \in MemberState
  BY Zenon DEF MemberState
<1>2. Leads(m, i, g, p) \in Member
  BY <1>1, Zenon DEF Member, Leads
<1> QED
  BY <1>2, Zenon DEF Member, Leads

(* A member joins and is told that another leads (on_join). *)
LEMMA MemberFollows ==
  ASSUME NEW m \in Member, NEW i \in Nat, NEW g \in Generation
  PROVE  /\ Follows(m, i, g) \in Member
         /\ Follows(m, i, g).state = "Syncing"
         /\ Follows(m, i, g).member_id = i
         /\ Follows(m, i, g).generation = g
         /\ ~Follows(m, i, g).leader
<1>1. "Syncing" \in MemberState /\ <<>> \in Seq(Claim)
  BY DEF MemberState
<1>2. Follows(m, i, g) \in Member
  BY <1>1, Zenon DEF Member, Follows
<1> QED
  BY <1>2, Zenon DEF Member, Follows

(* revoke_and_rejoin and request_rejoin send a member back to the start. *)
LEMMA RevokeLeaves ==
  ASSUME NEW m \in Member
  PROVE  Left(m, revoke_and_rejoin(m)) /\ Left(m, Forget(m))
<1>1. \A n \in Member : /\ revoke_and_rejoin(n) \in Member
                        /\ revoke_and_rejoin(n).state = "Unjoined"
                        /\ revoke_and_rejoin(n).member_id = n.member_id
  <2> SUFFICES ASSUME NEW n \in Member
               PROVE  /\ revoke_and_rejoin(n) \in Member
                      /\ revoke_and_rejoin(n).state = "Unjoined"
                      /\ revoke_and_rejoin(n).member_id = n.member_id
    BY Zenon
  <2>1. n.assignment \in SUBSET Partition /\ {} \in SUBSET Partition
    BY Zenon DEF Member
  <2>2. CASE n.protocol = "Eager"
    <3>1. revoke_and_rejoin(n) =
            Back(n, n.assignment, {})
      <4>1. /\ (IF n.protocol = "Eager" THEN n.assignment ELSE {}) = n.assignment
            /\ (IF n.protocol = "Eager" THEN {} ELSE n.assignment) = {}
        BY <2>2, Zenon
      <4> QED
        BY <4>1, Zenon DEF revoke_and_rejoin, Back
    <3> QED
      BY <3>1, <2>1, MemberBack
  <2>3. CASE n.protocol # "Eager"
    <3>1. revoke_and_rejoin(n) =
            Back(n, {}, n.assignment)
      <4>1. /\ (IF n.protocol = "Eager" THEN n.assignment ELSE {}) = {}
            /\ (IF n.protocol = "Eager" THEN {} ELSE n.assignment) = n.assignment
        BY <2>3, Zenon
      <4> QED
        BY <4>1, Zenon DEF revoke_and_rejoin, Back
    <3> QED
      BY <3>1, <2>1, MemberBack
  <2> QED
    BY <2>2, <2>3, Zenon
<1>2. [m EXCEPT !.member_id = NoId] \in Member /\ [m EXCEPT !.member_id = NoId].member_id = NoId
  BY Zenon DEF Member, NoId
<1> QED
  BY <1>1, <1>2, Zenon DEF Left, Forget

(* A consumer that is new, or has forgotten its group, has a new member. *)
LEMMA NewMemberLeft ==
  ASSUME NEW m, NEW p \in RebalanceProtocol
  PROVE  Left(m, NewMember(p))
BY DEF Left, NewMember, Member, MemberState, NoId, NO_GENERATION, Generation

(* Errors to JoinGroup, SyncGroup and Heartbeat. *)
Refusal == {"NOT_COORDINATOR", "COORDINATOR_LOAD_IN_PROGRESS", "UNKNOWN_MEMBER_ID",
            "ILLEGAL_GENERATION", "REBALANCE_IN_PROGRESS"}

(* on_join, with an error: back to the start. *)
LEMMA JoinRefused ==
  ASSUME NEW m \in Member, NEW code \in Refusal, NEW g, NEW id, NEW leader, NEW members
  PROVE  Left(m, on_join(m, code, g, id, leader, members))
<1>1. Left(m, [m EXCEPT !.state = "Unjoined"])
  BY Zenon DEF Left, Member, MemberState
<1>2. on_join(m, code, g, id, leader, members)
        \in {[m EXCEPT !.state = "Unjoined"], Forget(m), revoke_and_rejoin(m)}
  BY Zenon DEF on_join, Refusal, Fenced, Moved
<1> QED
  BY <1>1, <1>2, RevokeLeaves, Zenon

(* on_join, with an id and the request to join again with it. *)
LEMMA JoinNamed ==
  ASSUME NEW m \in Member, NEW g, NEW id \in Nat, NEW leader, NEW members,
         NEW m2, m2 = on_join(m, "MEMBER_ID_REQUIRED", g, id, leader, members)
  PROVE  m2 \in Member /\ m2.state = "Unjoined" /\ m2.member_id = id
<1>1. m2 = [m EXCEPT !.member_id = id, !.state = "Unjoined"]
  BY Zenon DEF on_join, Fenced, Moved
<1> QED
  BY <1>1, Zenon DEF Member, MemberState

(* on_join, with a generation: the member knows whether it leads, and a    *)
(* leader knows the members.                                               *)
LEMMA JoinTold ==
  ASSUME NEW m \in Member, NEW g \in Nat, NEW id \in Nat, NEW leader, NEW members \in Seq(Claim),
         NEW m2, m2 = on_join(m, "NONE", g, id, leader, members)
  PROVE  /\ m2 \in Member /\ m2.state = "Syncing" /\ m2.member_id = id /\ m2.generation = g
         /\ m2.leader <=> id = leader
         /\ m2.leader => m2.pending_members = members
<1>1. CASE leader = id
  <2>1. m2 = Leads(m, id, g, members)
    BY <1>1, Zenon DEF on_join, Fenced, Moved, Leads
  <2>2. g \in Generation
    BY Zenon DEF Generation
  <2>3. /\ m2 \in Member /\ m2.state = "Syncing" /\ m2.member_id = id /\ m2.generation = g
        /\ m2.leader /\ m2.pending_members = members
    BY <2>1, <2>2, MemberLeads
  <2> QED
    BY <1>1, <2>3, Zenon
<1>2. CASE leader # id
  <2>1. m2 = Follows(m, id, g)
    BY <1>2, Zenon DEF on_join, Fenced, Moved, Follows
  <2>2. g \in Generation
    BY Zenon DEF Generation
  <2>3. /\ m2 \in Member /\ m2.state = "Syncing" /\ m2.member_id = id /\ m2.generation = g
        /\ ~m2.leader
    BY <2>1, <2>2, MemberFollows
  <2> QED
    BY <1>2, <2>3, Zenon
<1> QED
  BY <1>1, <1>2, Zenon

(* on_sync, with an error. *)
LEMMA SyncRefused ==
  ASSUME NEW m \in Member, NEW code \in Refusal, NEW assigned
  PROVE  Left(m, on_sync(m, code, assigned))
<1>1. on_sync(m, code, assigned) \in {Forget(m), revoke_and_rejoin(m)}
  BY Zenon DEF on_sync, Refusal, Fenced
<1> QED
  BY <1>1, RevokeLeaves, Zenon

(* on_sync, with an assignment: it is taken as it is, and a member that    *)
(* misses nothing is stable.                                               *)
LEMMA SyncGiven ==
  ASSUME NEW m \in Member, NEW assigned \in SUBSET Partition,
         NEW m2, m2 = on_sync(m, "NONE", assigned)
  PROVE  /\ m2 \in Member /\ m2.state \in {"Stable", "Unjoined"} /\ m2.member_id = m.member_id
         /\ m2.generation = m.generation /\ m2.assignment = assigned
<1> DEFINE lost == IF m.protocol = "Cooperative" THEN m.assignment \ assigned ELSE {}
<1>1. lost \in SUBSET Partition
  BY Zenon DEF Member
<1>3. CASE lost = {}
  <2>1. m2 = Settled(m, assigned)
    BY <1>3, Zenon DEF on_sync, Fenced, Settled
  <2> QED
    BY <2>1, MemberSettled
<1>4. CASE lost # {}
  <2>1. m2 = Back(m, lost, assigned)
    BY <1>4, Zenon DEF on_sync, Fenced, Back
  <2> HIDE DEF lost
  <2> QED
    BY <2>1, <1>1, MemberBack
<1> QED
  BY <1>3, <1>4, Zenon

(* on_heartbeat leaves a member as it is, or sends it back. *)
LEMMA Heartbeaten ==
  ASSUME NEW m \in Member, NEW code \in Refusal \cup {"NONE"}
  PROVE  on_heartbeat(m, code) = m \/ Left(m, on_heartbeat(m, code))
<1>1. on_heartbeat(m, code) \in {m, Forget(m), revoke_and_rejoin(m)}
  BY Zenon DEF on_heartbeat, Refusal, Fenced
<1> QED
  BY <1>1, RevokeLeaves, Zenon

-----------------------------------------------------------------------------
(* One consumer: what the parts of advance and of advance_group make of it. *)

(* The consumer with the same membership, in the same group. *)
Alike(k, k2) ==
  k2 \in Client /\ k2.member = k.member /\ k2.group = k.group /\ k2.held = k.held

(* Positions are a function from partitions to offsets. *)
LEMMA PositionsAre ==
  /\ \A f \in Positions : DOMAIN f \in SUBSET Partition /\ f \in [DOMAIN f -> Offset]
  /\ \A S \in SUBSET Partition : \A f \in [S -> Offset] : f \in Positions
BY Zenon DEF Positions

(* What is covered stays covered, for fewer partitions and more records. *)
LEMMA CoversMore ==
  ASSUME NEW f, NEW g, NEW done, NEW more, Covers(f, done), done \subseteq more,
         DOMAIN g \subseteq DOMAIN f, \A p \in DOMAIN g : g[p] = f[p]
  PROVE  Covers(g, more)
BY Zenon DEF Covers

(* A position that is no offset covers nothing. *)
LEMMA NothingCovered ==
  ASSUME NEW f, NEW done, \A p \in DOMAIN f : f[p] \in Offset /\ f[p] <= 0
  PROVE  Covers(f, done)
<1>1. \A p \in DOMAIN f : 0 .. f[p] - 1 = {}
  BY GroupAssumption DEF Offset, EARLIEST
<1> QED
  BY <1>1, Zenon DEF Covers

(* EndAdvance. *)
LEMMA EndAlike ==
  ASSUME NEW k \in Client
  PROVE  /\ Alike(k, EndAdvance(k))
         /\ EndAdvance(k).positions = k.positions /\ EndAdvance(k).pc = "fetch"
<1>1. EndAdvance(k) \in Client
  BY Zenon DEF Client, EndAdvance
<1> QED
  BY <1>1, Zenon DEF Client, EndAdvance, Alike

(* Again: the loop of advance_group runs at most MAX_STEPS times. *)
LEMMA AgainAlike ==
  ASSUME NEW k \in Client
  PROVE  /\ Alike(k, Again(k))
         /\ Again(k).positions = k.positions /\ Again(k).pc \in {"fetch", "advance"}
<1>1. CASE k.steps + 1 = MaxSteps
  BY <1>1, EndAlike, Zenon DEF Again
<1>2. CASE k.steps + 1 # MaxSteps
  <2> DEFINE n == k.steps + 1
             k2 == [k EXCEPT !.steps = n, !.pc = "advance"]
  <2>1. n \in 0 .. MaxSteps - 1
    BY <1>2, GroupAssumption DEF Client
  <2>2. Again(k) = k2
    BY <1>2, Zenon DEF Again
  <2> HIDE DEF n
  <2>3. k2 \in Client
    BY <2>1, Zenon DEF Client
  <2>4. Alike(k, k2) /\ k2.positions = k.positions /\ k2.pc = "advance"
    BY <2>3, Zenon DEF Client, Alike
  <2> QED
    BY <2>2, <2>4, Zenon
<1> QED
  BY <1>1, <1>2, Zenon

(* Install: the positions are those of the assignment. *)
LEMMA InstallAlike ==
  ASSUME NEW k \in Client, NEW offsets, \A p \in DOMAIN offsets : offsets[p] \in Offset
  PROVE  /\ Alike(k, Install(k, offsets)) /\ Install(k, offsets).pc = "fetch"
         /\ DOMAIN Install(k, offsets).positions = k.member.assignment
         /\ \A p \in k.member.assignment :
              Install(k, offsets).positions[p] =
                IF p \in DOMAIN offsets THEN offsets[p] ELSE EARLIEST
<1> DEFINE f == [p \in k.member.assignment |->
                   IF p \in DOMAIN offsets THEN offsets[p] ELSE EARLIEST]
           k2 == [k EXCEPT !.positions = f, !.changed = TRUE]
<1>1. k.member.assignment \in SUBSET Partition
  BY Zenon DEF Client, Member
<1>2. EARLIEST \in Offset
  BY GroupAssumption, Zenon DEF EARLIEST, Offset
<1>3. f \in [k.member.assignment -> Offset]
  BY <1>2, Zenon
<1>4. f \in Positions
  BY <1>1, <1>3, PositionsAre, Zenon
<1>5. /\ Install(k, offsets) = EndAdvance(k2) /\ DOMAIN f = k.member.assignment
      /\ \A p \in k.member.assignment :
           f[p] = IF p \in DOMAIN offsets THEN offsets[p] ELSE EARLIEST
  BY Zenon DEF Install
<1> HIDE DEF f
<1>6. k2 \in Client
  BY <1>4, Zenon DEF Client
<1>7. Alike(k, k2) /\ k2.positions = f
  BY <1>6, Zenon DEF Client, Alike
<1> HIDE DEF k2
<1> QED
  BY <1>5, <1>7, EndAlike DEF Alike

(* Announce: whatever the answer was, the consumer is fit to go on: stable *)
(* with the positions of its assignment or about to ask for them.          *)
LEMMA Announced ==
  ASSUME NEW k \in Client, k.held = "none", NEW done, Covers(k.positions, done)
  PROVE  Alike(k, Announce(k)) /\ Fine(Announce(k), done)
<1>1. CASE k.member.state = "Stable"
  <2> DEFINE k2 == [k EXCEPT !.announced_revoked = FALSE, !.ever_assigned = TRUE]
             k3 == [k2 EXCEPT !.pc = "offsets"]
  <2>1. k2 \in Client
    BY Zenon DEF Client
  <2>2. Alike(k, k2) /\ k2.positions = k.positions
    BY <2>1, Zenon DEF Client, Alike
  <2>3. k3 \in Client
    BY <2>1, Zenon DEF Client
  <2>4. Alike(k2, k3) /\ k3.positions = k2.positions /\ k3.pc = "offsets"
    BY <2>3, Zenon DEF Client, Alike
  <2>5. CASE DOMAIN k.positions = k.member.assignment
    <3>1. Announce(k) = EndAdvance(k2)
      BY <1>1, <2>5, Zenon DEF Announce, Assigned
    <3> HIDE DEF k2
    <3> QED
      BY <2>2, <2>5, <3>1, EndAlike DEF Alike, Fine, ClientOK
  <2>6. CASE DOMAIN k.positions # k.member.assignment
             /\ DOMAIN k.positions # {} /\ k.member.assignment = {}
    <3>1. Announce(k) = Install(k2, Empty)
      BY <1>1, <2>6, Zenon DEF Announce, Assigned
    <3>2. DOMAIN Empty = {}
      BY Zenon DEF Empty
    <3> HIDE DEF k2
    <3>3. /\ Alike(k2, Announce(k)) /\ Announce(k).pc = "fetch"
          /\ DOMAIN Announce(k).positions = k2.member.assignment
      BY <2>1, <3>1, <3>2, InstallAlike
    <3> QED
      BY <2>2, <2>6, <3>3, Zenon DEF Alike, Fine, ClientOK, Covers
  <2>7. CASE DOMAIN k.positions # k.member.assignment
             /\ ~(DOMAIN k.positions # {} /\ k.member.assignment = {})
    <3>1. Announce(k) = k3
      BY <1>1, <2>7, Zenon DEF Announce, Assigned
    <3> HIDE DEF k2, k3
    <3> QED
      BY <2>2, <2>4, <3>1, Zenon DEF Alike, Fine, ClientOK
  <2> QED
    BY <2>5, <2>6, <2>7, Zenon
<1>2. CASE k.member.state # "Stable" /\ k.ever_assigned /\ ~k.announced_revoked
  <2> DEFINE f == Without(k.positions, k.member.lost)
             b == k.changed \/ k.member.lost # {}
             k2 == [k EXCEPT !.announced_revoked = TRUE, !.positions = f, !.changed = b]
  <2>1. k.positions \in Positions /\ b \in BOOLEAN
    BY Zenon DEF Client
  <2>2. f \in Positions /\ DOMAIN f \subseteq DOMAIN k.positions
        /\ \A p \in DOMAIN f : f[p] = k.positions[p]
    <3>1. DOMAIN k.positions \in SUBSET Partition /\ k.positions \in [DOMAIN k.positions -> Offset]
      BY <2>1, PositionsAre, Zenon
    <3>2. /\ f \in [DOMAIN k.positions \ k.member.lost -> Offset]
          /\ DOMAIN f \subseteq DOMAIN k.positions
          /\ \A p \in DOMAIN f : f[p] = k.positions[p]
      BY <3>1, Zenon DEF Without
    <3> HIDE DEF f
    <3> QED
      BY <3>1, <3>2, PositionsAre, Zenon
  <2>3. Announce(k) = Again(k2)
    BY <1>2, Zenon DEF Announce, Revoked
  <2> HIDE DEF f, b
  <2>4. k2 \in Client
    BY <2>1, <2>2, Zenon DEF Client
  <2>5. Alike(k, k2) /\ k2.positions = f
    BY <2>4, Zenon DEF Client, Alike
  <2>6. Covers(f, done)
    BY <2>2, CoversMore, Zenon
  <2> HIDE DEF k2
  <2>7. Alike(k2, Announce(k)) /\ Announce(k).positions = f
    BY <2>3, <2>4, <2>5, AgainAlike, Zenon
  <2> QED
    BY <1>2, <2>5, <2>6, <2>7, Zenon DEF Alike, Fine, ClientOK
<1>3. CASE k.member.state # "Stable" /\ ~(k.ever_assigned /\ ~k.announced_revoked)
  <2>1. Announce(k) = Again(k)
    BY <1>3, Zenon DEF Announce
  <2> QED
    BY <1>3, <2>1, AgainAlike, Zenon DEF Alike, Fine, ClientOK
<1> QED
  BY <1>1, <1>2, <1>3, Zenon

(* The consumer after an answer that made m of its member. *)
Took(k, k2, m, done) ==
  Fine(k2, done) /\ k2.member = m /\ k2.held = "none" /\ k2.group = k.group

(* What Handled does with a member the state machine has stepped. *)
LEMMA Stepped ==
  ASSUME NEW k, NEW done, Fine(k, done), NEW m \in Member, NEW x \in Broker \cup {NoBroker},
         NEW k2, k2 = Announce([k EXCEPT !.member = m, !.held = "none", !.cached = x])
  PROVE  Took(k, k2, m, done)
<1> DEFINE k1 == [k EXCEPT !.member = m, !.held = "none", !.cached = x]
<1>1. k \in Client /\ Covers(k.positions, done)
  BY Zenon DEF Fine, ClientOK
<1>2. k1 \in Client
  BY <1>1, Zenon DEF Client
<1>3. k1.member = m /\ k1.held = "none" /\ k1.group = k.group /\ k1.positions = k.positions
  BY <1>1, Zenon DEF Client
<1> HIDE DEF k1
<1>4. Alike(k1, Announce(k1)) /\ Fine(Announce(k1), done)
  BY <1>1, <1>2, <1>3, Announced, Zenon
<1>5. k2 = Announce(k1)
  BY Zenon DEF k1
<1> QED
  BY <1>3, <1>4, <1>5, Zenon DEF Took, Alike

(* Answers to JoinGroup, SyncGroup and Heartbeat. *)
LEMMA HandledStep ==
  ASSUME NEW k, NEW done, Fine(k, done), NEW a, NEW m \in Member,
         \/ a.call = "Join" /\ m = on_join(k.member, a.code, a.generation, a.id, a.leader, a.members)
         \/ a.call = "Sync" /\ m = on_sync(k.member, a.code, a.assigned)
         \/ a.call = "Heartbeat" /\ m = on_heartbeat(k.member, a.code)
  PROVE  Took(k, Handled(k, a), m, done)
<1> DEFINE x == IF Rediscover(a.call, a.code) THEN NoBroker ELSE k.cached
<1>1. x \in Broker \cup {NoBroker}
  BY Zenon DEF Fine, ClientOK, Client
<1>2. Handled(k, a) = Announce([k EXCEPT !.member = m, !.held = "none", !.cached = x])
  BY Zenon DEF Handled
<1> HIDE DEF x
<1> QED
  BY <1>1, <1>2, Stepped, Zenon

(* Return and GroupLost: a call that ended, or failed. *)
LEMMA ReturnFine ==
  ASSUME NEW k, NEW done, k \in Client, Covers(k.positions, done),
         k.group /\ k.member.state = "Stable" => DOMAIN k.positions = k.member.assignment
  PROVE  Took(k, Return(k), k.member, done)
<1>0. 0 \in 0 .. MaxSteps - 1
  BY GroupAssumption
<1>1. Return(k) \in Client
  BY <1>0, Zenon DEF Return, Client
<1>2. /\ Return(k).member = k.member /\ Return(k).held = "none"
      /\ Return(k).group = k.group /\ Return(k).positions = k.positions
  BY Zenon DEF Return, Client
<1> QED
  BY <1>1, <1>2 DEF Took, Fine, ClientOK

(* A consumer whose group was lost in advance_group is in order. *)
LEMMA LostFine ==
  ASSUME NEW k, NEW done, k \in Client, Covers(k.positions, done)
  PROVE  /\ Fine(GroupLost(k), done) /\ GroupLost(k).member = k.member
         /\ GroupLost(k).held = "none"
<1>0. 0 \in 0 .. MaxSteps - 1
  BY GroupAssumption
<1>1. Return(k) \in Client
  BY <1>0, Zenon DEF Return, Client
<1>2. /\ Return(k).member = k.member /\ Return(k).held = "none"
      /\ Return(k).positions = k.positions
  BY Zenon DEF Return, Client
<1>3. GroupLost(k) \in Client
  BY <1>1, Zenon DEF GroupLost, Client
<1>4. /\ GroupLost(k).member = k.member /\ GroupLost(k).held = "none"
      /\ GroupLost(k).positions = k.positions /\ GroupLost(k).group = FALSE
  BY <1>1, <1>2, Zenon DEF GroupLost, Client
<1> QED
  BY <1>3, <1>4, Zenon DEF Fine, ClientOK

(* What becomes of a consumer whose request was answered a: the answer     *)
(* arrives, or the call fails, or it is sent again.                        *)
Outcome(k, k2, m, done) ==
  Fine(k2, done) /\ k2.held = "none" /\ k2.member \in {m, k.member}

(* A call that fails leaves its consumer in order, its member as it was. *)
LEMMA FailedFine ==
  ASSUME NEW k, NEW done, Fine(k, done), NEW m
  PROVE  Outcome(k, Failed(k), m, done) /\ Outcome(k, [k EXCEPT !.held = "none"], m, done)
<1>1. k \in Client /\ Covers(k.positions, done)
  BY Zenon DEF Fine, ClientOK
<1>2. Outcome(k, Failed(k), m, done)
  <2>1. CASE k.pc = "offsets"
    BY <1>1, <2>1, LostFine, Zenon DEF Failed, Outcome
  <2>2. CASE k.pc # "offsets"
    <3>1. Took(k, Return(k), k.member, done)
      BY <1>1, <2>2, ReturnFine, Zenon DEF Fine, ClientOK
    <3> QED
      BY <2>2, <3>1, Zenon DEF Failed, Outcome, Took
  <2> QED
    BY <2>1, <2>2, Zenon
<1> DEFINE k2 == [k EXCEPT !.held = "none"]
<1>3. k2 \in Client
  BY <1>1, Zenon DEF Client
<1>4. /\ k2.held = "none" /\ k2.member = k.member /\ k2.positions = k.positions
      /\ k2.pc = k.pc /\ k2.group = k.group
  BY <1>1, Zenon DEF Client
<1> HIDE DEF k2
<1>5. Outcome(k, k2, m, done)
  BY <1>3, <1>4 DEF Outcome, Fine, ClientOK
<1> QED
  BY <1>2, <1>5, Zenon DEF k2

(* An answer is handled, lost, or its call sent again (call_coordinator):  *)
(* whichever it is, one consumer changes, and it is in order.              *)
LEMMA AnsweredFine ==
  ASSUME NEW clients, NEW c \in Consumer, DOMAIN clients = Consumer, NEW a, NEW m,
         Fine(clients[c], read), Outcome(clients[c], Handled(clients[c], a), m, read),
         Answered(clients, c, a)
  PROVE  /\ DOMAIN client' = Consumer
         /\ \A d \in Consumer : d # c => client'[d] = clients[d]
         /\ Outcome(clients[c], client'[c], m, read)
<1>2. /\ Outcome(clients[c], Failed(clients[c]), m, read)
      /\ Outcome(clients[c], [clients[c] EXCEPT !.held = "none"], m, read)
  BY FailedFine, Zenon
<1>3. PICK k2 : client' = [clients EXCEPT ![c] = k2] /\ Outcome(clients[c], k2, m, read)
  BY <1>2, Zenon DEF Answered
<1> QED
  BY <1>3, Zenon

-----------------------------------------------------------------------------
(* The consumers and the group. *)

(* A consumer that has not moved towards the group: it knows what it knew, *)
(* or is back at the start.                                                *)
Calm(k, k2) ==
  \/ k2.member = k.member /\ k2.held \in {k.held, "none", "Join"}
  \/ Left(k.member, k2.member) /\ k2.held # "Sync"

(* Such a consumer agrees with a group it agreed with. *)
LEMMA CalmAgrees ==
  ASSUME NEW k, NEW k2, NEW g, NEW sv, Agrees(k, g, sv), Calm(k, k2)
  PROVE  Agrees(k2, g, sv)
<1>1. CASE k2.member = k.member /\ k2.held \in {k.held, "none", "Join"}
  BY <1>1, Zenon DEF Agrees
<1>2. CASE Left(k.member, k2.member) /\ k2.held # "Sync"
  BY <1>2, Zenon DEF Agrees, Left
<1> QED
  BY <1>1, <1>2, Zenon DEF Calm

(* Consumers that only gave something up agree with the group as before. *)
LEMMA CalmAgreed ==
  ASSUME NEW cl, NEW cl2, NEW g, NEW sv, Agreed(cl, g, sv),
         \A c \in Consumer : Calm(cl[c], cl2[c])
  PROVE  Agreed(cl2, g, sv)
<1>1. \A c \in Consumer : Agrees(cl2[c], g, sv)
  BY CalmAgrees, Zenon DEF Agreed
<1>2. \A c \in Consumer : cl2[c].member.member_id \in {cl[c].member.member_id, NoId}
  BY Zenon DEF Calm, Left
<1> DEFINE old(c) == cl[c].member.member_id
           new(c) == cl2[c].member.member_id
<1>3. /\ \A c \in Consumer : old(c) \in 0 .. g.nextId - 1
      /\ \A c, d \in Consumer : c # d => old(c) # old(d) \/ old(c) = NoId
      /\ g.nextId \in Nat \ {0}
  BY Zenon DEF Agreed, OwnIds
<1>4. \A c \in Consumer : new(c) \in {old(c), NoId}
  BY <1>2, Zenon
<1> HIDE DEF old, new
<1>5. /\ \A c \in Consumer : new(c) \in 0 .. g.nextId - 1
      /\ \A c, d \in Consumer : c # d => new(c) # new(d) \/ new(c) = NoId
  BY <1>3, <1>4 DEF NoId
<1>6. OwnIds(cl2, g.nextId)
  BY <1>5, Zenon DEF OwnIds, new
<1> QED
  BY <1>1, <1>6, Zenon DEF Agreed

(* What a step has to leave as it is, or as it should be. *)
LEMMA StepKeeps ==
  ASSUME GroupInv, UNCHANGED << protocol, read >>, coordinator' \in Broker,
         count' \in 1 .. MaxCount, committed' \in [Partition -> -1 .. MaxOffset],
         Covers(committed', read), DOMAIN client' = Consumer,
         \A c \in Consumer : Fine(client'[c], read),
         Agreed(client', co', saved')
  PROVE  GroupInv'
BY Zenon DEF GroupInv

(* A step of consumers alone. *)
LEMMA OnlyClients ==
  ASSUME GroupInv, UNCHANGED << protocol, coordinator, co, saved, count, read >>,
         committed' \in [Partition -> -1 .. MaxOffset], Covers(committed', read),
         DOMAIN client' = Consumer,
         \A c \in Consumer : Fine(client'[c], read) /\ Calm(client[c], client'[c])
  PROVE  GroupInv'
<1>1. Agreed(client', co', saved')
  BY CalmAgreed, Zenon DEF GroupInv
<1>2. coordinator' \in Broker /\ count' \in 1 .. MaxCount
  BY Zenon DEF GroupInv
<1> QED
  BY <1>1, <1>2, StepKeeps, Zenon

(* A step of one consumer that at most gives something up keeps the        *)
(* invariant.                                                              *)
LEMMA OnlyOne ==
  ASSUME GroupInv, UNCHANGED << protocol, coordinator, co, saved, count, read >>,
         committed' \in [Partition -> -1 .. MaxOffset], Covers(committed', read),
         NEW c \in Consumer, DOMAIN client' = Consumer,
         \A d \in Consumer : d # c => client'[d] = client[d],
         Fine(client'[c], read), Calm(client[c], client'[c])
  PROVE  GroupInv'
<1>1. \A d \in Consumer : Fine(client'[d], read) /\ Calm(client[d], client'[d])
  BY Zenon DEF GroupInv, Calm
<1> QED
  BY <1>1, OnlyClients, Zenon

(* SyncsReleased: nobody's SyncGroup is held any more, and those who lost  *)
(* one are back at the start.                                              *)
LEMMA ReleasedCalm ==
  ASSUME NEW cl, NEW done, \A d \in Consumer : Fine(cl[d], done)
  PROVE  /\ DOMAIN SyncsReleased(cl) = Consumer
         /\ \A d \in Consumer :
              /\ Fine(SyncsReleased(cl)[d], done) /\ SyncsReleased(cl)[d].held # "Sync"
              /\ Calm(cl[d], SyncsReleased(cl)[d])
<1> SUFFICES ASSUME NEW d \in Consumer
             PROVE  /\ Fine(SyncsReleased(cl)[d], done) /\ SyncsReleased(cl)[d].held # "Sync"
                    /\ Calm(cl[d], SyncsReleased(cl)[d])
  BY Zenon DEF SyncsReleased
<1>1. CASE cl[d].held # "Sync"
  BY <1>1, Zenon DEF SyncsReleased, Calm
<1>2. CASE cl[d].held = "Sync"
  <2> DEFINE a == SyncError("REBALANCE_IN_PROGRESS")
             m == on_sync(cl[d].member, "REBALANCE_IN_PROGRESS", {})
  <2>1. Fine(cl[d], done) /\ cl[d].member \in Member
    BY Zenon DEF Fine, ClientOK, Client
  <2>2. Left(cl[d].member, m)
    BY <2>1, SyncRefused, Zenon DEF Refusal
  <2>3. a.call = "Sync" /\ m = on_sync(cl[d].member, a.code, a.assigned) /\ m \in Member
    BY <2>2, Zenon DEF SyncError, Left
  <2>4. SyncsReleased(cl)[d] = Handled(cl[d], a)
    BY <1>2, Zenon DEF SyncsReleased
  <2> HIDE DEF a, m
  <2>5. Took(cl[d], Handled(cl[d], a), m, done)
    BY <2>1, <2>3, HandledStep, Zenon
  <2> QED
    BY <2>2, <2>4, <2>5, Zenon DEF Took, Calm
<1> QED
  BY <1>1, <1>2, Zenon

(* Found: only where the coordinator is has been learnt. *)
LEMMA FoundCalm ==
  ASSUME GroupInv, NEW c \in Consumer
  PROVE  /\ DOMAIN Found(c) = Consumer
         /\ \A d \in Consumer : d # c => Found(c)[d] = client[d]
         /\ Fine(Found(c)[c], read) /\ Alike(client[c], Found(c)[c])
         /\ Found(c)[c].positions = client[c].positions /\ Found(c)[c].pc = client[c].pc
         /\ Found(c)[c].known = client[c].known
<1> DEFINE k == client[c]
           x == CoordinatorAddr(c)
           k2 == [k EXCEPT !.cached = x]
<1>1. Fine(k, read) /\ k \in Client /\ DOMAIN client = Consumer
  BY Zenon DEF GroupInv, Fine, ClientOK
<1>2. x \in Broker \cup {NoBroker}
  BY <1>1, Zenon DEF GroupInv, CoordinatorAddr, Client
<1>3. /\ DOMAIN Found(c) = Consumer /\ Found(c)[c] = k2
      /\ \A d \in Consumer : d # c => Found(c)[d] = client[d]
  BY <1>1, Zenon DEF Found
<1> HIDE DEF x, k
<1>4. k2 \in Client
  BY <1>1, <1>2, Zenon DEF Client
<1>5. /\ k2.member = k.member /\ k2.group = k.group /\ k2.held = k.held
      /\ k2.positions = k.positions /\ k2.pc = k.pc /\ k2.known = k.known
  BY <1>1, Zenon DEF Client
<1> HIDE DEF k2
<1> QED
  BY <1>1, <1>3, <1>4, <1>5, Zenon DEF k, Fine, ClientOK, Alike

-----------------------------------------------------------------------------
(* What the coordinator does to the group. *)

Fields == {"state", "generation", "leader", "nextId", "pending", "members", "assignment"}

Seat == [sub : Claim, joined : BOOLEAN]

Typed(cl) == \A c \in Consumer : cl[c].member \in Member

(* One consumer has changed. *)
LEMMA OneAgreed ==
  ASSUME NEW cl, NEW cl2, NEW g, NEW sv, Agreed(cl, g, sv), NEW c \in Consumer,
         \A d \in Consumer : d # c => cl2[d] = cl[d],
         cl2[c].member.member_id = cl[c].member.member_id, Agrees(cl2[c], g, sv)
  PROVE  Agreed(cl2, g, sv)
<1>1. \A d \in Consumer : cl2[d].member.member_id = cl[d].member.member_id
  BY Zenon
<1>2. \A d \in Consumer : Agrees(cl2[d], g, sv)
  BY Zenon DEF Agreed
<1>3. OwnIds(cl2, g.nextId)
  BY <1>1 DEF Agreed, OwnIds
<1> QED
  BY <1>2, <1>3, Zenon DEF Agreed

(* g2 is g, or what is left of it: nobody has joined who had not. *)
Within(g, g2) ==
  /\ DOMAIN g2 = Fields
  /\ g2.generation = g.generation /\ g2.leader = g.leader /\ g2.nextId = g.nextId
  /\ g2.pending \subseteq g.pending
  /\ DOMAIN g2.members \subseteq DOMAIN g.members
  /\ g2.members \in [DOMAIN g2.members -> Seat]
  /\ \A m \in DOMAIN g2.members : /\ g2.members[m].sub = g.members[m].sub
                                  /\ g2.members[m].joined => g.members[m].joined
  /\ g2.assignment = [m \in DOMAIN g2.members |-> g.assignment[m]]

(* A group that lost members, and is saved if it is in a state to be. *)
LEMMA WithinAgreed ==
  ASSUME NEW cl, Typed(cl), NEW g, NEW sv, Agreed(cl, g, sv), NEW g2, Within(g, g2),
         g2.state \in {"Empty", "Preparing", "Completing", "Stable"},
         g2.state = "Empty" <=> DOMAIN g2.members = {},
         g2.state # "Preparing" => \A m \in DOMAIN g2.members : ~g2.members[m].joined,
         g2.state = "Completing" => g.state = "Completing" /\ g2.members = g.members,
         g2.state # "Completing" => \A c \in Consumer : cl[c].held # "Sync",
         NEW sv2, sv2 = IF g2.state \in {"Stable", "Empty"} THEN g2 ELSE sv
  PROVE  Agreed(cl, g2, sv2)
<1>1. GroupOK(g, g.nextId) /\ GroupOK(sv, g.nextId) /\ g.nextId \in Nat \ {0}
  BY Zenon DEF Agreed
<1>2. GroupOK(g2, g2.nextId)
  <2>1. DOMAIN g2.members \subseteq 1 .. g2.nextId - 1
    BY <1>1, Zenon DEF GroupOK, Within
  <2>2. \A m \in DOMAIN g2.members : g2.members[m].sub.member_id = m
    BY <1>1, SMTT(20) DEF GroupOK, Within
  <2>3. /\ g2.assignment \in [DOMAIN g2.members -> SUBSET Partition]
        /\ \A m, n \in DOMAIN g2.members : m # n => g2.assignment[m] \cap g2.assignment[n] = {}
    BY <1>1 DEF GroupOK, Within
  <2>4. /\ DOMAIN g2 = Fields /\ g2.generation \in Nat /\ g2.members \in [DOMAIN g2.members -> Seat]
        /\ g2.state = "Completing" => g2.leader \in DOMAIN g2.members
    BY <1>1, Zenon DEF GroupOK, Within
  <2> QED
    BY <2>1, <2>2, <2>3, <2>4, Zenon DEF GroupOK, Fields, Seat
<1>3. GroupOK(sv2, g2.nextId) /\ sv2.state \in {"Stable", "Empty"}
      /\ sv.generation <= sv2.generation /\ sv2.generation <= g2.generation
      /\ (g2.state = "Completing" => sv2.generation < g2.generation)
      /\ sv.generation \in Nat /\ sv2.generation \in Nat
  <2>1. /\ sv.generation \in Nat /\ g2.generation \in Nat /\ g2.generation = g.generation
        /\ sv.generation <= g.generation /\ sv.state \in {"Stable", "Empty"}
        /\ g.state = "Completing" => sv.generation < g.generation
        /\ g2.nextId = g.nextId
    BY <1>1, <1>2, Zenon DEF GroupOK, Agreed, Within
  <2>2. CASE g2.state \in {"Stable", "Empty"}
    BY <1>2, <2>1, <2>2
  <2>3. CASE g2.state \notin {"Stable", "Empty"}
    BY <1>1, <2>1, <2>3
  <2> QED
    BY <2>2, <2>3, Zenon
<1>4. ASSUME NEW c \in Consumer
      PROVE  Agrees(cl[c], g2, sv2)
  <2> DEFINE m == cl[c].member
  <2>1. Agrees(cl[c], g, sv)
    BY Zenon DEF Agreed
  <2>2. In(m, g2) => In(m, g)
    BY Zenon DEF In, Within
  <2>3. Owns(m, g) => Owns(m, g2)
    BY <2>2 DEF Owns, Within, In
  <2>4. m.member_id \in DOMAIN g2.members /\ g2.members[m.member_id].joined =>
          m.state \notin {"Syncing", "Stable"}
    BY <2>1, Zenon DEF Agrees, Within
  <2>5. g2.state = "Completing" => Orders(g2) = Orders(g) /\ (In(m, g) => In(m, g2))
    <3>1. g2.generation = g.generation
      BY Zenon DEF Within
    <3> QED
      BY <3>1, Zenon DEF Orders, In
  <2>6. m.state = "Stable" => m.generation <= sv2.generation /\ Owns(m, g2) /\ Owns(m, sv2)
    <3>1. m.state = "Stable" => m.generation <= sv.generation /\ Owns(m, g) /\ Owns(m, sv)
      BY <2>1, Zenon DEF Agrees
    <3>2. m.generation <= sv.generation => m.generation <= sv2.generation
      BY <1>3 DEF Typed, Member, Generation, NO_GENERATION
    <3> QED
      BY <2>3, <3>1, <3>2, Zenon
  <2> QED
    BY <2>1, <2>2, <2>4, <2>5, <2>6, Zenon DEF Agrees, Within
<1> QED
  BY <1>2, <1>3, <1>4, Zenon DEF Agreed, Within

(* Preparing: everyone has to join again. *)
LEMMA PreparingWithin ==
  ASSUME NEW g, NEW g1, Within(g, g1)
  PROVE  /\ Within(g, Preparing(g1)) /\ Preparing(g1).state = "Preparing"
         /\ DOMAIN Preparing(g1).members = DOMAIN g1.members
<1> DEFINE f == [m \in DOMAIN g1.members |-> [g1.members[m] EXCEPT !.joined = FALSE]]
<1>1. g1.members \in [DOMAIN g1.members -> Seat] /\ DOMAIN g1 = Fields
  BY Zenon DEF Within
<1>2. \A m \in DOMAIN g1.members :
        f[m] \in Seat /\ f[m].sub = g1.members[m].sub /\ ~f[m].joined
  BY <1>1, Zenon DEF Seat
<1>3. f \in [DOMAIN g1.members -> Seat] /\ DOMAIN f = DOMAIN g1.members
  BY <1>2, Zenon
<1>4. Preparing(g1) = [g1 EXCEPT !.state = "Preparing", !.members = f]
  BY Zenon DEF Preparing
<1> HIDE DEF f
<1>5. /\ DOMAIN Preparing(g1) = Fields /\ Preparing(g1).state = "Preparing"
      /\ Preparing(g1).members = f /\ Preparing(g1).generation = g1.generation
      /\ Preparing(g1).leader = g1.leader /\ Preparing(g1).nextId = g1.nextId
      /\ Preparing(g1).pending = g1.pending /\ Preparing(g1).assignment = g1.assignment
  BY <1>1, <1>4, Zenon DEF Fields
<1> QED
  BY <1>2, <1>3, <1>5, Zenon DEF Within

(* A group is within itself, and may be saved. *)
LEMMA SavedAgreed ==
  ASSUME NEW cl, Typed(cl), NEW g, NEW sv, Agreed(cl, g, sv),
         NEW sv2, sv2 = IF g.state \in {"Stable", "Empty"} THEN g ELSE sv
  PROVE  Agreed(cl, g, sv2) /\ Within(g, g)
<1>1. GroupOK(g, g.nextId)
  BY Zenon DEF Agreed
<1>2. Within(g, g)
  BY <1>1, Zenon DEF GroupOK, Within, Fields, Seat
<1>3. g.state # "Completing" => \A c \in Consumer : cl[c].held # "Sync"
  BY Zenon DEF Agreed, Agrees
<1> QED
  BY <1>1, <1>2, <1>3, WithinAgreed, Zenon DEF GroupOK

(* Removed: a member that leaves or is dropped.  A SyncGroup is held for a *)
(* follower, so that the last member to go cannot leave one behind.        *)
LEMMA RemovedAgreed ==
  ASSUME NEW cl, Typed(cl), NEW g, NEW sv, Agreed(cl, g, sv), NEW id, NEW g2, g2 = Removed(g, id),
         g2.state = "Preparing" => \A c \in Consumer : cl[c].held # "Sync",
         NEW sv2, sv2 = IF g2.state \in {"Stable", "Empty"} THEN g2 ELSE sv
  PROVE  Agreed(cl, g2, sv2)
<1> DEFINE rest == [g EXCEPT !.members = Without(@, {id}), !.assignment = Without(@, {id}),
                             !.pending = @ \ {id}]
<1>1. GroupOK(g, g.nextId) /\ DOMAIN g = Fields
  BY Zenon DEF Agreed, GroupOK, Fields
<1>2. /\ DOMAIN rest = Fields /\ rest.state = g.state /\ rest.generation = g.generation
      /\ rest.leader = g.leader /\ rest.nextId = g.nextId /\ rest.pending = g.pending \ {id}
      /\ rest.members = Without(g.members, {id}) /\ rest.assignment = Without(g.assignment, {id})
  BY <1>1, Zenon DEF Fields
<1>3. /\ DOMAIN rest.members = DOMAIN g.members \ {id}
      /\ \A m \in DOMAIN rest.members : rest.members[m] = g.members[m]
      /\ rest.members \in [DOMAIN rest.members -> Seat]
      /\ rest.assignment = [m \in DOMAIN rest.members |-> g.assignment[m]]
  BY <1>1, <1>2, Zenon DEF Without, GroupOK, Seat
<1>4. Within(g, rest)
  BY <1>2, <1>3, Zenon DEF Within
<1>5. \A c \in Consumer : cl[c].held = "Sync" =>
        /\ g.state = "Completing" /\ g.leader \in DOMAIN g.members
        /\ cl[c].member.member_id \in DOMAIN g.members /\ cl[c].member.member_id # g.leader
  BY Zenon DEF Agreed, Agrees, In, GroupOK
<1>6. CASE id \notin DOMAIN g.members
  <2>1. g2 = rest
    BY <1>6, Zenon DEF Removed
  <2>2. rest.members = g.members
    <3>1. DOMAIN g.members \ {id} = DOMAIN g.members
      BY <1>6, Zenon
    <3>2. g.members = [m \in DOMAIN g.members |-> g.members[m]]
      BY <1>1, Zenon DEF GroupOK
    <3> QED
      BY <1>2, <3>1, <3>2, Zenon DEF Without
  <2> HIDE DEF rest
  <2> QED
    BY <1>1, <1>2, <1>4, <1>5, <2>1, <2>2, WithinAgreed, SMTT(20) DEF GroupOK
<1>7. CASE id \in DOMAIN g.members /\ DOMAIN rest.members = {}
  <2> DEFINE last == [rest EXCEPT !.state = "Empty"]
  <2>1. g2 = last
    BY <1>7, Zenon DEF Removed
  <2>2. Within(g, last) /\ last.state = "Empty" /\ last.members = rest.members
    BY <1>2, <1>4, ZenonT(40) DEF Within, Fields
  <2>3. \A c \in Consumer : cl[c].held # "Sync"
    BY <1>3, <1>5, <1>7
  <2> HIDE DEF rest, last
  <2> QED
    BY <1>7, <2>1, <2>2, <2>3, WithinAgreed, Zenon
<1>8. CASE id \in DOMAIN g.members /\ DOMAIN rest.members # {}
  <2>1. g2 = IF g.state = "Preparing" THEN rest ELSE Preparing(rest)
    BY <1>8, Zenon DEF Removed
  <2>2. Within(g, g2) /\ g2.state = "Preparing" /\ DOMAIN g2.members # {}
    <3>1. CASE g.state = "Preparing"
      BY <1>2, <1>4, <1>8, <2>1, <3>1, Zenon
    <3>2. CASE g.state # "Preparing"
      <4> HIDE DEF rest
      <4>1. Within(g, Preparing(rest)) /\ Preparing(rest).state = "Preparing"
            /\ DOMAIN Preparing(rest).members = DOMAIN rest.members
        BY <1>2, <1>4, PreparingWithin, Zenon
      <4> QED
        BY <1>8, <2>1, <3>2, <4>1
    <3> QED
      BY <3>1, <3>2, Zenon
  <2> QED
    BY <2>2, WithinAgreed, Zenon
<1> QED
  BY <1>6, <1>7, <1>8, Zenon

(* Two consumers have different ids, and ids are not reused. *)
LEMMA OwnId ==
  ASSUME NEW cl, NEW g, NEW sv, Agreed(cl, g, sv), NEW c \in Consumer, NEW d \in Consumer,
         cl[c].member.member_id = cl[d].member.member_id, cl[c].member.member_id # NoId
  PROVE  c = d
BY Zenon DEF Agreed, OwnIds

(* A JoinGroup without an id: the coordinator makes one up. *)
LEMMA NamedAgreed ==
  ASSUME NEW cl, NEW cl2, NEW g, NEW sv, Agreed(cl, g, sv), NEW c \in Consumer,
         \A d \in Consumer : d # c => cl2[d] = cl[d],
         \/ Calm(cl[c], cl2[c])
         \/ /\ cl2[c].member.state = "Unjoined" /\ cl2[c].held # "Sync"
            /\ cl2[c].member.member_id = g.nextId,
         NEW g2, g2 = [g EXCEPT !.pending = @ \cup {g.nextId}, !.nextId = @ + 1]
  PROVE  Agreed(cl2, g2, sv)
<1>1. GroupOK(g, g.nextId) /\ GroupOK(sv, g.nextId) /\ g.nextId \in Nat \ {0} /\ DOMAIN g = Fields
      /\ g.pending \subseteq 1 .. g.nextId - 1
  BY Zenon DEF Agreed, GroupOK, Fields
<1>2. /\ DOMAIN g2 = Fields /\ g2.state = g.state /\ g2.generation = g.generation
      /\ g2.leader = g.leader /\ g2.members = g.members /\ g2.assignment = g.assignment
      /\ g2.nextId = g.nextId + 1 /\ g2.pending = g.pending \cup {g.nextId}
  BY <1>1, Zenon DEF Fields
<1>3. GroupOK(g2, g2.nextId) /\ GroupOK(sv, g2.nextId)
  <2>1. 1 .. g.nextId - 1 \subseteq 1 .. g2.nextId - 1
    BY <1>1, <1>2
  <2> QED
    BY <1>1, <1>2, <2>1 DEF GroupOK, Fields
<1>4. g2.nextId \in Nat \ {0} /\ g2.pending \subseteq 1 .. g2.nextId - 1
  BY <1>1, <1>2, SMTT(20)
<1>5. \A k : Agrees(k, g, sv) => Agrees(k, g2, sv)
  BY <1>2 DEF Agrees, In, Owns, Orders
<1>6. \A d \in Consumer : Agrees(cl2[d], g2, sv)
  <2>1. \A d \in Consumer : Agrees(cl[d], g, sv)
    BY Zenon DEF Agreed
  <2>2. Agrees(cl2[c], g2, sv)
    <3>1. CASE Calm(cl[c], cl2[c])
      BY <1>5, <2>1, <3>1, CalmAgrees, Zenon
    <3>2. CASE cl2[c].member.state = "Unjoined" /\ cl2[c].held # "Sync"
      BY <3>2, Zenon DEF Agrees
    <3> QED
      BY <3>1, <3>2, Zenon
  <2> QED
    BY <1>5, <2>1, <2>2, Zenon
<1> DEFINE old(d) == cl[d].member.member_id
           new(d) == cl2[d].member.member_id
<1>7. /\ \A d \in Consumer : old(d) \in 0 .. g.nextId - 1
      /\ \A d, e \in Consumer : d # e => old(d) # old(e) \/ old(d) = NoId
      /\ \A d \in Consumer : d # c => new(d) = old(d)
      /\ new(c) \in {old(c), NoId, g.nextId}
  BY Zenon DEF Agreed, OwnIds, Calm, Left
<1>8. /\ sv.state \in {"Stable", "Empty"} /\ sv.generation <= g2.generation
      /\ g2.state = "Completing" => sv.generation < g2.generation
  BY <1>2, Zenon DEF Agreed
<1> HIDE DEF old, new
<1>9. /\ \A d \in Consumer : new(d) \in 0 .. g2.nextId - 1
      /\ \A d, e \in Consumer : d # e => new(d) # new(e) \/ new(d) = NoId
  BY <1>1, <1>2, <1>7 DEF NoId
<1>10. OwnIds(cl2, g2.nextId)
  BY <1>9, Zenon DEF OwnIds, new
<1> QED
  BY <1>3, <1>4, <1>6, <1>8, <1>10, Zenon DEF Agreed

(* The group with the one that sent a JoinGroup among those that joined. *)
Seating(g, id, sub) ==
  [g EXCEPT !.members = Over(Only(id, [sub |-> sub, joined |-> TRUE]), @),
            !.assignment = Over(@, Only(id, {})),
            !.pending = @ \ {id}]

(* A JoinGroup that begins a rebalance, or takes part in one. *)
LEMMA JoinAgreed ==
  ASSUME NEW cl, NEW g, NEW sv, Agreed(cl, g, sv), NEW c \in Consumer,
         cl[c].member.state \notin {"Syncing", "Stable"},
         \A d \in Consumer : cl[d].held # "Sync",
         NEW id, id = cl[c].member.member_id, id \in DOMAIN g.members \cup g.pending,
         NEW sub \in Claim, sub.member_id = id,
         NEW g1, Within(g, g1), DOMAIN g1.members = DOMAIN g.members, g1.state = "Preparing",
         NEW g2, g2 = Seating(g1, id, sub)
  PROVE  Agreed(cl, g2, sv)
<1>1. GroupOK(g, g.nextId) /\ GroupOK(sv, g.nextId) /\ g.nextId \in Nat \ {0}
      /\ g.pending \subseteq 1 .. g.nextId - 1
  BY Zenon DEF Agreed
<1>2. /\ DOMAIN g2 = Fields /\ g2.state = "Preparing" /\ g2.generation = g.generation
      /\ g2.leader = g.leader /\ g2.nextId = g.nextId /\ g2.pending \subseteq g.pending
      /\ g2.members = Over(Only(id, [sub |-> sub, joined |-> TRUE]), g1.members)
      /\ g2.assignment = Over(g1.assignment, Only(id, {}))
  BY Zenon DEF Within, Fields, Seating
<1> DEFINE seat == [sub |-> sub, joined |-> TRUE]
<1>3. seat \in Seat /\ seat.sub = sub
  BY Zenon DEF Seat
<1>a. /\ DOMAIN g.members \subseteq 1 .. g.nextId - 1
      /\ \A m \in DOMAIN g.members : g.members[m].sub.member_id = m
      /\ g.assignment \in [DOMAIN g.members -> SUBSET Partition]
      /\ \A m, n \in DOMAIN g.members : m # n => g.assignment[m] \cap g.assignment[n] = {}
  BY <1>1, Zenon DEF GroupOK
<1>b. /\ g1.members \in [DOMAIN g.members -> Seat]
      /\ \A m \in DOMAIN g.members : g1.members[m].sub = g.members[m].sub
                                    /\ (g1.members[m].joined => g.members[m].joined)
      /\ g1.assignment = g.assignment
  BY <1>a, SMTT(20) DEF Within
<1> HIDE DEF seat
<1>4. /\ DOMAIN g2.members = DOMAIN g.members \cup {id}
      /\ g2.members[id] = seat
      /\ \A m \in DOMAIN g.members : m # id => g2.members[m] = g1.members[m]
      /\ g2.members \in [DOMAIN g2.members -> Seat]
  <2> DEFINE one == Only(id, seat)
  <2>1. g2.members = Over(one, g1.members)
    BY <1>2, Zenon DEF seat
  <2>2. DOMAIN one = {id} /\ one[id] = seat
    BY Zenon DEF Only
  <2> HIDE DEF one
  <2>3. g2.members = [x \in {id} \cup DOMAIN g.members |->
                        IF x \in {id} THEN one[x] ELSE g1.members[x]]
    BY <1>b, <2>1, <2>2, ZenonT(30) DEF Over
  <2> QED
    BY <1>3, <1>b, <2>2, <2>3
<1>5. /\ g2.assignment \in [DOMAIN g2.members -> SUBSET Partition]
      /\ \A m \in DOMAIN g.members : g2.assignment[m] = g.assignment[m]
      /\ id \notin DOMAIN g.members => g2.assignment[id] = {}
  <2> DEFINE none == Only(id, {})
  <2>1. DOMAIN none = {id} /\ none[id] = {}
    BY Zenon DEF Only
  <2>3. g2.assignment = Over(g.assignment, none) /\ DOMAIN g.assignment = DOMAIN g.members
    BY <1>2, <1>a, <1>b, Zenon
  <2> HIDE DEF none
  <2>2. g2.assignment = [x \in DOMAIN g.members \cup {id} |->
                           IF x \in DOMAIN g.members THEN g.assignment[x] ELSE none[x]]
    BY <2>1, <2>3, Zenon DEF Over
  <2>4. \A m \in DOMAIN g.members : g2.assignment[m] = g.assignment[m]
    BY <2>2, Zenon
  <2>5. id \notin DOMAIN g.members => g2.assignment[id] = {}
    BY <2>1, <2>2, Zenon
  <2>6. ASSUME NEW x \in DOMAIN g.members \cup {id}
        PROVE  (IF x \in DOMAIN g.members THEN g.assignment[x] ELSE none[x]) \in SUBSET Partition
    <3>1. CASE x \in DOMAIN g.members
      BY <1>a, <3>1, Zenon
    <3>2. CASE x \notin DOMAIN g.members
      <4>1. none[x] = {}
        BY <2>1, <3>2, Zenon
      <4> QED
        BY <3>2, <4>1, Zenon
    <3> QED
      BY <3>1, <3>2, Zenon
  <2>7. g2.assignment \in [DOMAIN g.members \cup {id} -> SUBSET Partition]
    BY <2>2, <2>6, Zenon
  <2> QED
    BY <1>4, <2>4, <2>5, <2>7, Zenon
<1>6. DOMAIN g2.members \subseteq 1 .. g2.nextId - 1
  <2>1. id \in 1 .. g.nextId - 1
    BY <1>1, <1>a, Zenon
  <2> QED
    BY <1>2, <1>4, <1>a, <2>1, Zenon
<1>7. \A m \in DOMAIN g2.members : g2.members[m].sub.member_id = m
  <2>1. g2.members[id].sub.member_id = id
    BY <1>3, <1>4, Zenon
  <2>2. ASSUME NEW m \in DOMAIN g.members, m # id
        PROVE  g2.members[m].sub.member_id = m
    <3>1. g2.members[m] = g1.members[m] /\ g1.members[m].sub = g.members[m].sub
      BY <1>4, <1>b, <2>2, Zenon
    <3> QED
      BY <1>a, <3>1, Zenon
  <2> QED
    BY <1>4, <2>1, <2>2, Zenon
<1>8. \A m, n \in DOMAIN g2.members : m # n => g2.assignment[m] \cap g2.assignment[n] = {}
  <2> SUFFICES ASSUME NEW m \in DOMAIN g2.members, NEW n \in DOMAIN g2.members, m # n
               PROVE  g2.assignment[m] \cap g2.assignment[n] = {}
    BY Zenon
  <2>1. CASE m \in DOMAIN g.members /\ n \in DOMAIN g.members
    <3>1. g2.assignment[m] = g.assignment[m] /\ g2.assignment[n] = g.assignment[n]
      BY <1>5, <2>1, Zenon
    <3> QED
      BY <1>a, <2>1, <3>1, Zenon
  <2>2. CASE m \notin DOMAIN g.members
    <3>1. m = id
      BY <1>4, <2>2, Zenon
    <3> QED
      BY <1>5, <2>2, <3>1, Zenon
  <2>3. CASE n \notin DOMAIN g.members
    <3>1. n = id
      BY <1>4, <2>3, Zenon
    <3> QED
      BY <1>5, <2>3, <3>1, Zenon
  <2> QED
    BY <2>1, <2>2, <2>3, Zenon
<1>9. GroupOK(g2, g2.nextId)
  BY <1>1, <1>2, <1>4, <1>5, <1>6, <1>7, <1>8, Zenon DEF GroupOK, Fields, Seat
<1>10. id # NoId
  BY <1>1 DEF GroupOK, NoId
<1>11. ASSUME NEW d \in Consumer
       PROVE  Agrees(cl[d], g2, sv)
  <2> DEFINE m == cl[d].member
  <2>1. Agrees(cl[d], g, sv)
    BY Zenon DEF Agreed
  <2>2. m.state \in {"Syncing", "Stable"} => m.member_id # id
    BY <1>10, OwnId, Zenon
  <2>3. m.state \in {"Syncing", "Stable"} /\ m.member_id \in DOMAIN g2.members =>
          ~g2.members[m.member_id].joined
    BY <1>4, <1>b, <2>1, <2>2, Zenon DEF Agrees
  <2>4. m.state = "Stable" /\ Owns(m, g) => Owns(m, g2)
    BY <1>2, <1>4, <1>5, <2>2, Zenon DEF Owns, In
  <2> QED
    BY <1>2, <2>1, <2>3, <2>4, Zenon DEF Agrees
<1>12. /\ sv.state \in {"Stable", "Empty"} /\ sv.generation <= g2.generation
       /\ OwnIds(cl, g2.nextId)
  BY <1>2, Zenon DEF Agreed
<1> QED
  BY <1>1, <1>2, <1>9, <1>11, <1>12, Zenon DEF Agreed

(* The generation g2 that CompleteJoin opens in group g, led by leader. *)
Opened(g, g2, leader) ==
  /\ g.state = "Preparing" /\ leader \in DOMAIN g.members
  /\ \A m \in DOMAIN g.members : g.members[m].joined
  /\ DOMAIN g2 = Fields /\ g2.state = "Completing" /\ g2.generation = g.generation + 1
  /\ g2.leader = leader /\ g2.nextId = g.nextId /\ g2.pending = g.pending
  /\ DOMAIN g2.members = DOMAIN g.members /\ g2.members \in [DOMAIN g.members -> Seat]
  /\ \A m \in DOMAIN g.members : g2.members[m].sub = g.members[m].sub /\ ~g2.members[m].joined
  /\ g2.assignment = [m \in DOMAIN g.members |-> {}]

(* A client that CompleteJoin leaves alone, or tells of the generation. *)
Told(k, k2, leader, order) ==
  \/ k2 = k
  \/ /\ k2.member.state = "Syncing" /\ k2.held = "none"
     /\ k2.member.member_id = k.member.member_id
     /\ k2.member.leader <=> k.member.member_id = leader
     /\ k2.member.leader => k2.member.pending_members = order

(* CompleteJoin: those who waited know the new generation, and nobody else *)
(* is of it.                                                               *)
LEMMA CompleteAgreed ==
  ASSUME NEW cl, NEW cl2, NEW g, NEW sv, Agreed(cl, g, sv), NEW leader,
         NEW g2, Opened(g, g2, leader), NEW order \in Orders(g2),
         \A d \in Consumer : Told(cl[d], cl2[d], leader, order)
  PROVE  Agreed(cl2, g2, sv)
<1> USE DEF Opened, Told
<1>1. GroupOK(g, g.nextId) /\ GroupOK(sv, g.nextId) /\ g.nextId \in Nat \ {0}
      /\ g.pending \subseteq 1 .. g.nextId - 1 /\ sv.state \in {"Stable", "Empty"}
      /\ sv.generation \in Nat /\ g.generation \in Nat /\ sv.generation <= g.generation
  BY Zenon DEF Agreed, GroupOK
<1>2. GroupOK(g2, g2.nextId)
  <2>1. /\ DOMAIN g.members \subseteq 1 .. g.nextId - 1
        /\ \A m \in DOMAIN g.members : g.members[m].sub.member_id = m
    BY <1>1, Zenon DEF GroupOK
  <2>2. /\ g2.assignment \in [DOMAIN g.members -> SUBSET Partition]
        /\ \A m, n \in DOMAIN g.members : m # n => g2.assignment[m] \cap g2.assignment[n] = {}
    BY Zenon
  <2>3. g2.state = "Empty" <=> DOMAIN g2.members = {}
    BY Zenon
  <2> QED
    BY <1>1, <2>1, <2>2, <2>3 DEF GroupOK, Fields, Seat
<1>3. sv.generation < g2.generation
  BY <1>1
<1>4. ASSUME NEW d \in Consumer
      PROVE  Agrees(cl2[d], g2, sv)
  <2>1. Agrees(cl[d], g, sv)
    BY Zenon DEF Agreed
  <2>2. CASE cl2[d] = cl[d]
    <3> DEFINE m == cl[d].member
    <3>1. m.member_id \in DOMAIN g2.members => m.state \notin {"Syncing", "Stable"}
      BY <2>1, Zenon DEF Agrees
    <3>2. cl[d].held # "Sync"
      BY <2>1, Zenon DEF Agrees
    <3>3. m.state = "Stable" => m.generation <= sv.generation /\ Owns(m, sv)
      BY <2>1, Zenon DEF Agrees
    <3> QED
      BY <2>2, <3>1, <3>2, <3>3, Zenon DEF Agrees, In, Owns
  <2>3. CASE cl2[d] # cl[d]
    BY <2>3 DEF Agrees
  <2> QED
    BY <2>2, <2>3, Zenon
<1>5. \A d \in Consumer : cl2[d].member.member_id = cl[d].member.member_id
  BY Zenon
<1>6. OwnIds(cl2, g2.nextId)
  BY <1>5 DEF Agreed, OwnIds
<1> QED
  BY <1>1, <1>2, <1>3, <1>4, <1>6 DEF Agreed

(* What assignment a makes of client k: it has its share, or it does not   *)
(* know yet.                                                               *)
Shared(k, k2, g, a) ==
  \/ k2.member = k.member /\ k2.held = "none"
  \/ k2 = k /\ k.held # "Sync"
  \/ /\ In(k.member, g) /\ k2.held = "none"
     /\ k2.member.state \in {"Stable", "Unjoined"}
     /\ k2.member.member_id = k.member.member_id
     /\ k2.member.generation = k.member.generation
     /\ k2.member.assignment = a[k.member.member_id]

(* assign_and_sync: the leader's assignment becomes the group's, and the   *)
(* answer to everyone who waited for it.                                   *)
LEMMA AssignedAgreed ==
  ASSUME NEW cl, Typed(cl), NEW cl2, NEW g, NEW sv, Agreed(cl, g, sv), g.state = "Completing",
         NEW a \in [DOMAIN g.members -> SUBSET Partition],
         \A m, n \in DOMAIN g.members : m # n => a[m] \cap a[n] = {},
         NEW g2, g2 = [g EXCEPT !.state = "Stable", !.assignment = a],
         \A d \in Consumer : Shared(cl[d], cl2[d], g, a)
  PROVE  Agreed(cl2, g2, g2)
<1>1. GroupOK(g, g.nextId) /\ g.nextId \in Nat \ {0} /\ DOMAIN g = Fields
      /\ g.pending \subseteq 1 .. g.nextId - 1
      /\ sv.generation \in Nat /\ g.generation \in Nat /\ sv.generation < g.generation
  BY Zenon DEF Agreed, GroupOK, Fields
<1>2. /\ DOMAIN g2 = Fields /\ g2.state = "Stable" /\ g2.generation = g.generation
      /\ g2.leader = g.leader /\ g2.members = g.members /\ g2.assignment = a
      /\ g2.nextId = g.nextId /\ g2.pending = g.pending
  BY <1>1, Zenon DEF Fields
<1>3. GroupOK(g2, g2.nextId)
  BY <1>1, <1>2, Zenon DEF GroupOK, Fields
<1>4. \A m \in DOMAIN g.members : ~g.members[m].joined
  BY <1>1, Zenon DEF GroupOK
<1>5. ASSUME NEW d \in Consumer
      PROVE  Agrees(cl2[d], g2, g2)
  <2>1. Agrees(cl[d], g, sv)
    BY Zenon DEF Agreed
  <2>2. CASE cl2[d].member = cl[d].member /\ cl2[d].held # "Sync"
    <3> DEFINE m == cl[d].member
    <3>1. m.state = "Stable" => m.generation <= sv.generation
      BY <2>1, Zenon DEF Agrees
    <3>2. m.state = "Stable" => m.generation <= g.generation /\ m.generation # g.generation
      <4>1. m.state = "Stable" /\ m.generation = g.generation => FALSE
        BY <1>1, <3>1, SMTT(20)
      <4> QED
        BY <1>1, <3>1, <4>1 DEF Typed, Member, Generation, NO_GENERATION
    <3> QED
      BY <1>2, <1>4, <2>2, <3>2, Zenon DEF Agrees, In, Owns
  <2>3. CASE /\ In(cl[d].member, g) /\ cl2[d].held = "none"
             /\ cl2[d].member.state \in {"Stable", "Unjoined"}
             /\ cl2[d].member.member_id = cl[d].member.member_id
             /\ cl2[d].member.generation = cl[d].member.generation
             /\ cl2[d].member.assignment = a[cl[d].member.member_id]
    BY <1>1, <1>2, <1>4, <2>3 DEF Agrees, In, Owns
  <2> QED
    BY <2>2, <2>3, Zenon DEF Shared
<1>6. \A d \in Consumer : cl2[d].member.member_id = cl[d].member.member_id
  BY Zenon DEF Shared
<1>7. OwnIds(cl2, g2.nextId)
  BY <1>2, <1>6 DEF Agreed, OwnIds
<1> QED
  BY <1>1, <1>2, <1>3, <1>5, <1>7, SMTT(20) DEF Agreed

(* MoveCoordinator: the group as it was saved. *)
LEMMA MovedAgreed ==
  ASSUME NEW cl, NEW g, NEW sv, Agreed(cl, g, sv), \A d \in Consumer : cl[d].held # "Sync",
         NEW g2, g2 = [sv EXCEPT !.nextId = g.nextId, !.pending = {}]
  PROVE  Agreed(cl, g2, sv)
<1>1. GroupOK(sv, g.nextId) /\ g.nextId \in Nat \ {0} /\ DOMAIN sv = Fields
      /\ sv.state \in {"Stable", "Empty"} /\ sv.generation \in Nat
  BY Zenon DEF Agreed, GroupOK, Fields
<1>2. /\ DOMAIN g2 = Fields /\ g2.state = sv.state /\ g2.generation = sv.generation
      /\ g2.leader = sv.leader /\ g2.members = sv.members /\ g2.assignment = sv.assignment
      /\ g2.nextId = g.nextId /\ g2.pending = {}
  BY <1>1, Zenon DEF Fields
<1>3. GroupOK(g2, g2.nextId)
  BY <1>1, <1>2, Zenon DEF GroupOK, Fields
<1>4. ASSUME NEW d \in Consumer
      PROVE  Agrees(cl[d], g2, sv)
  <2>1. Agrees(cl[d], g, sv)
    BY Zenon DEF Agreed
  <2>2. \A m \in DOMAIN g2.members : ~g2.members[m].joined
    BY <1>1, <1>2, Zenon DEF GroupOK
  <2>3. Owns(cl[d].member, sv) => Owns(cl[d].member, g2)
    BY <1>2, Zenon DEF Owns, In
  <2> QED
    BY <1>1, <1>2, <2>1, <2>2, <2>3, Zenon DEF Agrees
<1>5. OwnIds(cl, g2.nextId)
  BY <1>2, Zenon DEF Agreed
<1> QED
  BY <1>1, <1>2, <1>3, <1>4, <1>5, SMTT(20) DEF Agreed

-----------------------------------------------------------------------------
(* The steps. *)

(* What the invariant says of the consumers and of the group. *)
LEMMA Unpack ==
  ASSUME GroupInv
  PROVE  /\ DOMAIN client = Consumer /\ Typed(client) /\ Agreed(client, co, saved)
         /\ \A c \in Consumer : Fine(client[c], read) /\ client[c] \in Client
         /\ GroupOK(co, co.nextId) /\ co.nextId \in Nat \ {0}
         /\ committed \in [Partition -> -1 .. MaxOffset] /\ Covers(committed, read)
<1>1. \A c \in Consumer : client[c] \in Client
  BY Zenon DEF GroupInv, Fine, ClientOK
<1>2. Typed(client)
  BY <1>1, Zenon DEF Typed, Client
<1> QED
  BY <1>1, <1>2, Zenon DEF GroupInv, Agreed

(* A call answered with something that changes nothing, or sends the       *)
(* member back.                                                            *)
LEMMA AnsweredCalm ==
  ASSUME GroupInv, NEW c \in Consumer, NEW clients, DOMAIN clients = Consumer,
         Fine(clients[c], read), clients[c].member = client[c].member,
         NEW a, NEW m \in Member, m = client[c].member \/ Left(client[c].member, m),
         Took(clients[c], Handled(clients[c], a), m, read), Answered(clients, c, a)
  PROVE  /\ DOMAIN client' = Consumer /\ \A d \in Consumer : d # c => client'[d] = clients[d]
         /\ Fine(client'[c], read) /\ Calm(client[c], client'[c])
<1>1. Outcome(clients[c], Handled(clients[c], a), m, read)
  BY Zenon DEF Outcome, Took
<1>2. /\ DOMAIN client' = Consumer /\ \A d \in Consumer : d # c => client'[d] = clients[d]
      /\ Outcome(clients[c], client'[c], m, read)
  BY <1>1, AnsweredFine, Zenon
<1> QED
  BY <1>2, Zenon DEF Outcome, Calm

(* subscribe and unsubscribe: a consumer that is new to its group. *)
IsNew(k) == /\ Fine(k, read) /\ k.held = "none" /\ \A m : Left(m, k.member)

(* What subscribe and unsubscribe leave behind. *)
LEMMA NewFine ==
  ASSUME GroupInv, NEW n \in 0 .. MaxCount
  PROVE  /\ IsNew([NewClient EXCEPT !.group = TRUE, !.known = n])
         /\ IsNew([NewClient EXCEPT !.known = n])
<1>1. (\A m : Left(m, NewMember(protocol))) /\ NewMember(protocol) \in Member
  BY NewMemberLeft, Zenon DEF GroupInv, Left
<1>2. Empty \in Positions /\ DOMAIN Empty = {} /\ 0 \in 0 .. MaxSteps - 1 /\ 0 \in 0 .. MaxCount
  <2>1. Empty \in [{} -> Offset] /\ DOMAIN Empty = {}
    BY Zenon DEF Empty
  <2>2. Empty \in Positions
    BY <2>1, PositionsAre, Zenon
  <2> QED
    BY <2>1, <2>2, GroupAssumption
<1>3. NewClient \in Client
  BY <1>1, <1>2, Zenon DEF NewClient, Client
<1>4. ASSUME NEW k \in Client, k.member = NewMember(protocol), k.positions = Empty, k.held = "none"
      PROVE  IsNew(k)
  BY <1>1, <1>2, <1>4, Zenon DEF IsNew, Left, Fine, ClientOK, Covers
<1>5. /\ [NewClient EXCEPT !.group = TRUE, !.known = n] \in Client
      /\ [NewClient EXCEPT !.known = n] \in Client
  BY <1>3, Zenon DEF Client
<1> QED
  BY <1>4, <1>5, Zenon DEF NewClient

(* Consumer::subscribe. *)
LEMMA SubscribeStep ==
  ASSUME GroupInv, NEW c \in Consumer, Subscribe(c)
  PROVE  GroupInv'
<1> DEFINE k2 == [NewClient EXCEPT !.group = TRUE, !.known = client[c].known]
<1>1. client[c].known \in 0 .. MaxCount
  BY Unpack, Zenon DEF Client
<1>2. Fine(k2, read) /\ k2.held = "none" /\ Left(client[c].member, k2.member)
  BY <1>1, NewFine, Zenon DEF IsNew
<1>3. /\ client' = [client EXCEPT ![c] = k2]
      /\ UNCHANGED << protocol, coordinator, co, saved, committed, count, read >>
  BY Zenon DEF Subscribe
<1> HIDE DEF k2
<1> QED
  BY <1>2, <1>3, Unpack, OnlyOne, Zenon DEF Calm

(* Consumer::unsubscribe. *)
LEMMA UnsubscribeStep ==
  ASSUME GroupInv, NEW c \in Consumer, NEW told \in BOOLEAN, Unsubscribe(c, told)
  PROVE  GroupInv'
<1> DEFINE rest == IF co'.state = "Preparing" THEN SyncsReleased(client) ELSE client
           k2 == [NewClient EXCEPT !.known = client[c].known]
<1>1. client[c].known \in 0 .. MaxCount
  BY Unpack, Zenon DEF Client
<1>2. Fine(k2, read) /\ k2.held = "none" /\ \A m : Left(m, k2.member)
  BY <1>1, NewFine, Zenon DEF IsNew
<1>3. /\ client' = [rest EXCEPT ![c] = k2] /\ Save
      /\ co' = co \/ \E id : co' = Removed(co, id)
      /\ UNCHANGED << protocol, coordinator, committed, count, read >>
  BY Zenon DEF Unsubscribe, Leave
<1> HIDE DEF k2
<1>4. /\ DOMAIN rest = Consumer
      /\ \A d \in Consumer : Fine(rest[d], read) /\ Calm(client[d], rest[d])
      /\ co'.state = "Preparing" => \A d \in Consumer : rest[d].held # "Sync"
  BY Unpack, ReleasedCalm, Zenon DEF Calm
<1> HIDE DEF rest
<1>5. Agreed(rest, co, saved) /\ Typed(rest)
  BY <1>4, Unpack, CalmAgreed, Zenon DEF Typed, Fine, ClientOK, Client
<1>6. Agreed(rest, co', saved')
  <2>1. saved' = IF co'.state \in {"Stable", "Empty"} THEN co' ELSE saved
    BY <1>3, Zenon DEF Save
  <2>2. CASE co' = co
    BY <1>5, <2>1, <2>2, SavedAgreed, Zenon
  <2>3. ASSUME NEW id, co' = Removed(co, id)
        PROVE  Agreed(rest, co', saved')
    BY <1>4, <1>5, <2>1, <2>3, RemovedAgreed, Zenon
  <2> QED
    BY <1>3, <2>2, <2>3, Zenon
<1>7. \A d \in Consumer : Fine(client'[d], read) /\ Calm(rest[d], client'[d])
  BY <1>2, <1>3, <1>4, Zenon DEF Calm
<1>8. Agreed(client', co', saved')
  BY <1>6, <1>7, CalmAgreed, Zenon
<1> QED
  BY <1>3, <1>4, <1>7, <1>8, Unpack, StepKeeps, Zenon DEF GroupInv

(* What a commit stores was read (commit, auto commit). *)
LEMMA CommitFine ==
  ASSUME GroupInv, NEW c \in Consumer, CommitOffsets(c)
  PROVE  committed' \in [Partition -> -1 .. MaxOffset] /\ Covers(committed', read)
<1> DEFINE f == client[c].positions
           g == Over(Stored(f), committed)
<1>1. /\ committed \in [Partition -> -1 .. MaxOffset] /\ Covers(committed, read)
      /\ f \in Positions /\ Covers(f, read)
  BY Unpack, Zenon DEF Fine, Client
<1>2. DOMAIN f \in SUBSET Partition /\ f \in [DOMAIN f -> Offset]
  BY <1>1, PositionsAre, Zenon
<1> HIDE DEF f
<1>3. /\ DOMAIN g = Partition
      /\ \A p \in Partition : p \notin DOMAIN f => g[p] = committed[p]
      /\ \A p \in DOMAIN f : g[p] = IF f[p] < 0 THEN -1 ELSE f[p]
  BY <1>1, <1>2, Zenon DEF Over, Stored
<1>4. \A p \in DOMAIN f : /\ g[p] \in -1 .. MaxOffset
                          /\ \A o \in 0 .. g[p] - 1 : o \in 0 .. f[p] - 1
  BY <1>2, <1>3, GroupAssumption DEF Offset, EARLIEST
<1>5. g \in [Partition -> -1 .. MaxOffset]
  <2>1. \A p \in Partition : g[p] \in -1 .. MaxOffset
    BY <1>1, <1>3, <1>4, Zenon
  <2> QED
    BY <1>3, <2>1, Zenon DEF Over
<1>6. Covers(g, read)
  BY <1>1, <1>3, <1>4, Zenon DEF Covers
<1>7. committed' = g \/ committed' = committed
  BY Zenon DEF CommitOffsets, f
<1> HIDE DEF g
<1> QED
  BY <1>1, <1>5, <1>6, <1>7, Zenon

(* Consumer::commit. *)
LEMMA CommitStep ==
  ASSUME GroupInv, NEW c \in Consumer, Commit(c)
  PROVE  GroupInv'
<1>1. /\ CommitOffsets(c) /\ client' = Found(c)
      /\ UNCHANGED << protocol, coordinator, co, saved, count, read >>
  BY Zenon DEF Commit
<1> QED
  BY <1>1, CommitFine, FoundCalm, OnlyOne, Zenon DEF Calm, Alike

(* poll and heartbeat begin: a topic that grew sends the member back. *)
LEMMA PollStep ==
  ASSUME GroupInv, NEW c \in Consumer, NEW fresh \in BOOLEAN, NEW auto \in BOOLEAN,
         Poll(c, fresh, auto)
  PROVE  GroupInv'
<1> DEFINE k0 == client[c]
           n == IF fresh THEN count ELSE k0.known
           k1 == [k0 EXCEPT !.known = n]
           m == IF Grown(k0, fresh) /\ k0.group THEN request_rejoin(k1.member) ELSE k1.member
           k2 == [k1 EXCEPT !.member = m]
           x == IF auto THEN CoordinatorAddr(c) ELSE k2.cached
           k3 == [k2 EXCEPT !.cached = x]
           p == IF k2.group THEN "advance" ELSE "fetch"
           k4 == [k3 EXCEPT !.pc = p]
<1>0. k2 = CheckForExpansion(k0, fresh)
  BY Zenon DEF CheckForExpansion, Refreshed
<1> HIDE DEF k2
<1>1. /\ client' \in {[client EXCEPT ![c] = k4], [client EXCEPT ![c] = k3]}
      /\ CommitOffsets(c) \/ UNCHANGED committed
      /\ UNCHANGED << protocol, coordinator, co, saved, count, read >>
  BY <1>0, Zenon DEF Poll, AutoCommit, Idle
<1> USE DEF k2
<1>a. k0.pc = "idle"
  BY Zenon DEF Poll, Idle
<1>2. k0 \in Client /\ Fine(k0, read) /\ DOMAIN client = Consumer
  BY Unpack, Zenon
<1>3. n \in 0 .. MaxCount /\ p \in {"idle", "advance", "offsets", "fetch"}
  BY <1>2 DEF GroupInv, Client
<1> HIDE DEF k0, n, p
<1>4. k1 \in Client
  BY <1>2, <1>3, Zenon DEF Client
<1>5. /\ k1.member = k0.member /\ k1.held = k0.held /\ k1.group = k0.group
      /\ k1.positions = k0.positions /\ k1.pc = k0.pc
  BY <1>2, Zenon DEF Client
<1> HIDE DEF k1
<1>6. m \in Member /\ (m = k0.member \/ Left(k0.member, m))
  <2>1. k0.member \in Member
    BY <1>2, Zenon DEF Client
  <2> QED
    BY <1>5, <2>1, RevokeLeaves, Zenon DEF request_rejoin, Left
<1> HIDE DEF m
<1>7. k2 \in Client
  BY <1>4, <1>6, Zenon DEF Client
<1>8. /\ k2.member = m /\ k2.held = k0.held /\ k2.group = k0.group
      /\ k2.positions = k0.positions /\ k2.pc = k0.pc
  BY <1>4, <1>5, Zenon DEF Client
<1>9. x \in Broker \cup {NoBroker}
  BY <1>2, <1>7, Zenon DEF GroupInv, CoordinatorAddr, Client, k0
<1> HIDE DEF k2, x
<1>10. k3 \in Client
  BY <1>7, <1>9, Zenon DEF Client
<1>11. /\ k3.member = m /\ k3.held = k0.held /\ k3.group = k0.group
       /\ k3.positions = k0.positions /\ k3.pc = k0.pc
  BY <1>7, <1>8, Zenon DEF Client
<1> HIDE DEF k3
<1>12. k4 \in Client
  BY <1>3, <1>10, Zenon DEF Client
<1>13. /\ k4.member = m /\ k4.held = k0.held /\ k4.group = k0.group
       /\ k4.positions = k0.positions /\ k4.pc \in {"advance", "fetch"}
  BY <1>10, <1>11, Zenon DEF Client, p
<1> HIDE DEF k4
<1>14. ASSUME NEW k \in {k3, k4}
       PROVE  Fine(k, read) /\ Calm(k0, k)
  <2>1. /\ k \in Client /\ k.member = m /\ k.held = k0.held /\ k.group = k0.group
        /\ k.positions = k0.positions /\ k.pc # "offsets"
    BY <1>a, <1>10, <1>11, <1>12, <1>13, Zenon
  <2>2. k.held = "none"
    BY <1>2, <1>a, <2>1, Zenon DEF Fine, ClientOK
  <2>3. m.state = "Stable" => m = k0.member
    BY <1>6, Zenon DEF Left
  <2> QED
    BY <1>2, <1>6, <1>a, <2>1, <2>2, <2>3, Zenon DEF Fine, ClientOK, Calm
<1>15. committed' \in [Partition -> -1 .. MaxOffset] /\ Covers(committed', read)
  BY <1>1, CommitFine, Unpack, Zenon
<1>16. PICK k \in {k3, k4} : client' = [client EXCEPT ![c] = k]
  BY <1>1, Zenon
<1>17. DOMAIN client' = Consumer /\ client'[c] = k /\ \A d \in Consumer : d # c => client'[d] = client[d]
  BY <1>2, <1>16, Zenon
<1> QED
  BY <1>1, <1>14, <1>15, <1>17, OnlyOne, Zenon DEF k0

(* heartbeat enters advance_group, and changes nothing else. *)
LEMMA HeartbeatStep ==
  ASSUME GroupInv, NEW c \in Consumer, Heartbeat(c)
  PROVE  GroupInv'
<1> DEFINE k == client[c]
           k2 == [k EXCEPT !.pc = "advance"]
<1>1. /\ k.pc = "idle" /\ client' = [client EXCEPT ![c] = k2]
      /\ UNCHANGED << protocol, coordinator, co, saved, committed, count, read >>
  BY Zenon DEF Heartbeat, Idle
<1>2. k \in Client /\ Fine(k, read) /\ DOMAIN client = Consumer
  BY Unpack, Zenon
<1> HIDE DEF k
<1>3. k2 \in Client
  BY <1>2, Zenon DEF Client
<1>4. /\ k2.member = k.member /\ k2.held = k.held /\ k2.group = k.group
      /\ k2.positions = k.positions /\ k2.pc = "advance"
  BY <1>2, Zenon DEF Client
<1> HIDE DEF k2
<1>5. Fine(k2, read) /\ Calm(k, k2)
  BY <1>1, <1>2, <1>3, <1>4, Zenon DEF Fine, ClientOK, Calm
<1> QED
  BY <1>1, <1>2, <1>5, Unpack, OnlyOne, Zenon DEF k

(* What the next call of a member says of its state. *)
LEMMA StepIs ==
  ASSUME NEW m \in Member
  PROVE  /\ step(m) = "Join" => m.state \in {"Unjoined", "Joining"}
         /\ step(m) = "Sync" => m.state = "Syncing" /\ ~m.leader
         /\ step(m) = "AssignAndSync" => m.state = "Syncing" /\ m.leader
         /\ step(m) = "Heartbeat" => m.state = "Stable"
<1>1. CASE m.state \in {"Unjoined", "Joining"}
  <2>1. step(m) = "Join"
    BY <1>1, Zenon DEF step
  <2> QED
    BY <1>1, <2>1, Zenon
<1>2. CASE m.state = "Syncing" /\ m.leader
  <2>1. step(m) = "AssignAndSync"
    BY <1>2, Zenon DEF step
  <2> QED
    BY <1>2, <2>1, Zenon
<1>3. CASE m.state = "Syncing" /\ ~m.leader
  <2>1. step(m) = "Sync"
    BY <1>3, Zenon DEF step
  <2> QED
    BY <1>3, <2>1, Zenon
<1>4. CASE m.state = "Stable"
  <2>1. step(m) = "Heartbeat"
    BY <1>4, Zenon DEF step
  <2> QED
    BY <1>4, <2>1, Zenon
<1>5. m.state \in {"Unjoined", "Joining", "Syncing", "Stable"}
  BY Zenon DEF Member, MemberState
<1> QED
  BY <1>1, <1>2, <1>3, <1>4, <1>5, Zenon

(* join: a refusal sends the member back, or leaves it where it was. *)
LEMMA JoinRefusedStep ==
  ASSUME GroupInv, NEW c \in Consumer, NEW code \in Refusal, NEW id,
         Answered(Found(c), c, JoinError(code, id)),
         UNCHANGED << protocol, coordinator, co, saved, committed, count, read >>
  PROVE  GroupInv'
<1> DEFINE a == JoinError(code, id)
           m == on_join(client[c].member, code, NO_GENERATION, id, NoId, <<>>)
           clients == Found(c)
<1>1. /\ DOMAIN clients = Consumer /\ \A d \in Consumer : d # c => clients[d] = client[d]
      /\ Fine(clients[c], read) /\ clients[c].member = client[c].member
  BY FoundCalm, Zenon DEF Alike
<1>2. client[c].member \in Member
  BY Unpack, Zenon DEF Typed
<1>3. Left(client[c].member, m)
  BY <1>2, JoinRefused, Zenon
<1>4. /\ a.call = "Join" /\ m \in Member
      /\ m = on_join(clients[c].member, a.code, a.generation, a.id, a.leader, a.members)
  BY <1>1, <1>3, Zenon DEF JoinError, Left
<1>5. Answered(clients, c, a)
  BY Zenon
<1> HIDE DEF a, m, clients
<1>6. Took(clients[c], Handled(clients[c], a), m, read)
  BY <1>1, <1>4, HandledStep, Zenon
<1>7. /\ DOMAIN client' = Consumer /\ \A d \in Consumer : d # c => client'[d] = clients[d]
      /\ Fine(client'[c], read) /\ Calm(client[c], client'[c])
  BY <1>1, <1>3, <1>4, <1>5, <1>6, AnsweredCalm, Zenon
<1> QED
  BY <1>1, <1>7, Unpack, OnlyOne, Zenon

(* join: a member without an id is given one. *)
LEMMA JoinNamedStep ==
  ASSUME GroupInv, NEW c \in Consumer,
         Answered(Found(c), c, JoinError("MEMBER_ID_REQUIRED", co.nextId)),
         co' = [co EXCEPT !.pending = @ \cup {co.nextId}, !.nextId = @ + 1],
         UNCHANGED << protocol, coordinator, saved, committed, count, read >>
  PROVE  GroupInv'
<1> DEFINE a == JoinError("MEMBER_ID_REQUIRED", co.nextId)
           m == on_join(client[c].member, "MEMBER_ID_REQUIRED", NO_GENERATION, co.nextId, NoId, <<>>)
           clients == Found(c)
<1>1. /\ DOMAIN clients = Consumer /\ \A d \in Consumer : d # c => clients[d] = client[d]
      /\ Fine(clients[c], read) /\ clients[c].member = client[c].member
  BY FoundCalm, Zenon DEF Alike
<1>2. client[c].member \in Member /\ co.nextId \in Nat
  BY Unpack, Zenon DEF Typed
<1>3. m \in Member /\ m.state = "Unjoined" /\ m.member_id = co.nextId
  BY <1>2, JoinNamed
<1>4. /\ a.call = "Join"
      /\ m = on_join(clients[c].member, a.code, a.generation, a.id, a.leader, a.members)
  BY <1>1, Zenon DEF JoinError
<1>5. Answered(clients, c, a)
  BY Zenon
<1> HIDE DEF a, m, clients
<1>6. Outcome(clients[c], Handled(clients[c], a), m, read)
  BY <1>1, <1>3, <1>4, HandledStep DEF Took, Outcome
<1>7. /\ DOMAIN client' = Consumer /\ \A d \in Consumer : d # c => client'[d] = clients[d]
      /\ Outcome(clients[c], client'[c], m, read)
  BY <1>1, <1>5, <1>6, AnsweredFine, Zenon
<1>8. \A d \in Consumer : Fine(client'[d], read)
  BY <1>1, <1>7, Unpack, Zenon DEF Outcome
<1>9. \A d \in Consumer : d # c => client'[d] = client[d]
  BY <1>1, <1>7, Zenon
<1>10. \/ Calm(client[c], client'[c])
       \/ /\ client'[c].member.state = "Unjoined" /\ client'[c].held # "Sync"
          /\ client'[c].member.member_id = co.nextId
  BY <1>1, <1>3, <1>7, Zenon DEF Outcome, Calm
<1>11. Agreed(client', co', saved)
  BY <1>9, <1>10, Unpack, NamedAgreed, Zenon
<1> QED
  BY <1>7, <1>8, <1>11, StepKeeps, Zenon DEF GroupInv

(* join: a rebalance begins, or goes on. *)
LEMMA JoinHeldStep ==
  ASSUME GroupInv, NEW c \in Consumer, client[c].held = "none", client[c].pc = "advance",
         client[c].member.state \in {"Unjoined", "Joining"},
         NEW id, id = client[c].member.member_id, id \in DOMAIN co.members \cup co.pending,
         NEW g, g = IF co.state = "Preparing" THEN co ELSE Preparing(co),
         NEW sub, sub = subscription(client[c].member, {1}),
         co' = [g EXCEPT !.members = Over(Only(id, [sub |-> sub, joined |-> TRUE]), @),
                         !.assignment = Over(@, Only(id, {})),
                         !.pending = @ \ {id}],
         client' = [SyncsReleased(Found(c)) EXCEPT ![c].held = "Join"],
         UNCHANGED << protocol, coordinator, saved, committed, count, read >>
  PROVE  GroupInv'
<1> DEFINE clients == Found(c)
           rest == SyncsReleased(clients)
           k == clients[c]
           k2 == [k EXCEPT !.held = "Join"]
<1>1. /\ DOMAIN clients = Consumer /\ \A d \in Consumer : d # c => clients[d] = client[d]
      /\ Fine(k, read) /\ k.member = client[c].member /\ k.held = "none" /\ k \in Client
      /\ k.pc = "advance"
  BY FoundCalm, Zenon DEF Alike
<1>2. \A d \in Consumer : Fine(clients[d], read) /\ Calm(client[d], clients[d])
  BY <1>1, Unpack, Zenon DEF Calm
<1> HIDE DEF clients
<1>3. /\ DOMAIN rest = Consumer
      /\ \A d \in Consumer : /\ Fine(rest[d], read) /\ rest[d].held # "Sync"
                             /\ Calm(clients[d], rest[d])
  BY <1>2, ReleasedCalm, Zenon
<1>4. rest[c] = k
  BY <1>1, Zenon DEF SyncsReleased
<1>5. client' = [rest EXCEPT ![c] = k2]
  BY <1>3, <1>4, Zenon DEF clients
<1> HIDE DEF k, rest
<1>6. k2 \in Client
  BY <1>1, Zenon DEF Client
<1>7. /\ k2.member = k.member /\ k2.held = "Join" /\ k2.pc = k.pc /\ k2.positions = k.positions
      /\ k2.group = k.group
  BY <1>1, Zenon DEF Client
<1> HIDE DEF k2
<1>8. Fine(k2, read) /\ Calm(k, k2)
  BY <1>1, <1>6, <1>7, Zenon DEF Fine, ClientOK, Calm
<1>9. /\ DOMAIN client' = Consumer /\ client'[c] = k2
      /\ \A d \in Consumer : d # c => client'[d] = rest[d]
  BY <1>3, <1>5, Zenon
<1>10. \A d \in Consumer : /\ Fine(client'[d], read) /\ client'[d].held # "Sync"
                           /\ Calm(clients[d], client'[d])
  <2>1. TAKE d \in Consumer
  <2>2. CASE d = c
    BY <1>7, <1>8, <1>9, <2>2, Zenon DEF k
  <2>3. CASE d # c
    BY <1>3, <1>9, <2>3, Zenon
  <2> QED
    BY <2>2, <2>3, Zenon
<1>11. Agreed(clients, co, saved)
  BY <1>2, Unpack, CalmAgreed, Zenon
<1>12. Agreed(client', co, saved)
  BY <1>10, <1>11, CalmAgreed, Zenon
<1>13. Within(co, co) /\ GroupOK(co, co.nextId)
  BY Unpack, SavedAgreed, Zenon
<1>14. /\ Within(co, g) /\ DOMAIN g.members = DOMAIN co.members /\ g.state = "Preparing"
  <2>1. CASE co.state = "Preparing"
    BY <1>13, <2>1, Zenon
  <2>2. CASE co.state # "Preparing"
    BY <1>13, <2>2, PreparingWithin, Zenon
  <2> QED
    BY <2>1, <2>2, Zenon
<1>15. sub \in Claim /\ sub.member_id = id
  <2>1. client[c].member \in Member
    BY Unpack, Zenon DEF Typed
  <2> QED
    BY <2>1, Zenon DEF subscription, Member, Claim
<1>16. client'[c].member = client[c].member
  BY <1>1, <1>7, <1>9, ZenonT(40)
<1>17. Agreed(client', co', saved)
  BY <1>10, <1>12, <1>14, <1>15, <1>16, JoinAgreed, ZenonT(40) DEF Seating
<1> QED
  BY <1>9, <1>10, <1>17, StepKeeps, Zenon DEF GroupInv

(* What the coordinator says to a call of a member. *)
LEMMA RejectedIs ==
  ASSUME NEW c \in Consumer, NEW code,
         code = IF Rejected(c) = "NONE" /\ co.state = "Preparing"
                THEN "REBALANCE_IN_PROGRESS" ELSE Rejected(c)
  PROVE  /\ code \in Refusal \cup {"NONE"}
         /\ code = "NONE" => In(client[c].member, co)
         /\ Rejected(c) = "NONE" => In(client[c].member, co)
<1>1. CASE CoordinatorAddr(c) # coordinator
  BY <1>1, Zenon DEF Rejected, Refusal
<1>2. CASE CoordinatorAddr(c) = coordinator /\ loading
  BY <1>2, Zenon DEF Rejected, Refusal
<1>3. CASE /\ CoordinatorAddr(c) = coordinator /\ ~loading
           /\ client[c].member.member_id \notin DOMAIN co.members
  BY <1>3, Zenon DEF Rejected, Refusal
<1>4. CASE /\ CoordinatorAddr(c) = coordinator /\ ~loading
           /\ client[c].member.member_id \in DOMAIN co.members
           /\ client[c].member.generation # co.generation
  BY <1>4, Zenon DEF Rejected, Refusal
<1>5. CASE In(client[c].member, co) /\ CoordinatorAddr(c) = coordinator /\ ~loading
  BY <1>5, Zenon DEF Rejected, Refusal, In
<1> QED
  BY <1>1, <1>2, <1>3, <1>4, <1>5, Zenon DEF In

(* The leader counts partitions: nothing the group depends on. *)
LEMMA CountedAlike ==
  ASSUME GroupInv, NEW c \in Consumer, NEW cl, DOMAIN cl = Consumer, cl[c] = client[c],
         NEW n \in 0 .. MaxCount, NEW clients,
         clients = Counted(cl, c, n)
  PROVE  /\ DOMAIN clients = Consumer /\ \A d \in Consumer : d # c => clients[d] = cl[d]
         /\ Fine(clients[c], read) /\ Alike(client[c], clients[c])
<1> DEFINE k == client[c]
           x == CoordinatorAddr(c)
           k2 == [k EXCEPT !.known = n, !.cached = x]
<1>1. Fine(k, read) /\ k \in Client
  BY Unpack, Zenon
<1>2. x \in Broker \cup {NoBroker}
  BY <1>1, Zenon DEF GroupInv, CoordinatorAddr, Client
<1>3. /\ DOMAIN clients = Consumer /\ clients[c] = k2
      /\ \A d \in Consumer : d # c => clients[d] = cl[d]
  BY <1>1, Zenon DEF Counted
<1> HIDE DEF x, k
<1>4. k2 \in Client
  BY <1>1, <1>2, Zenon DEF Client
<1>5. /\ k2.member = k.member /\ k2.group = k.group /\ k2.held = k.held
      /\ k2.positions = k.positions /\ k2.pc = k.pc
  BY <1>1, Zenon DEF Client
<1> HIDE DEF k2
<1> QED
  BY <1>1, <1>3, <1>4, <1>5, Zenon DEF k, Fine, ClientOK, Alike

(* sync and assign_and_sync refused. *)
LEMMA SyncRefusedStep ==
  ASSUME GroupInv, NEW c \in Consumer, NEW code \in Refusal, NEW clients,
         DOMAIN clients = Consumer, \A d \in Consumer : d # c => clients[d] = client[d],
         Fine(clients[c], read), Alike(client[c], clients[c]),
         Answered(clients, c, SyncError(code)), Save,
         UNCHANGED << protocol, coordinator, co, committed, count, read >>
  PROVE  GroupInv'
<1> DEFINE a == SyncError(code)
           m == on_sync(client[c].member, code, {})
<1>1. client[c].member \in Member /\ clients[c].member = client[c].member
  BY Unpack, Zenon DEF Typed, Alike
<1>2. Left(client[c].member, m)
  BY <1>1, SyncRefused, Zenon
<1>3. a.call = "Sync" /\ m \in Member /\ m = on_sync(clients[c].member, a.code, a.assigned)
  BY <1>1, <1>2, Zenon DEF SyncError, Left
<1>4. Answered(clients, c, a)
  BY Zenon
<1> HIDE DEF a, m
<1>5. Took(clients[c], Handled(clients[c], a), m, read)
  BY <1>3, HandledStep, Zenon
<1>6. /\ DOMAIN client' = Consumer /\ \A d \in Consumer : d # c => client'[d] = clients[d]
      /\ Fine(client'[c], read) /\ Calm(client[c], client'[c])
  BY <1>1, <1>2, <1>3, <1>4, <1>5, AnsweredCalm, Zenon
<1>7. \A d \in Consumer : Fine(client'[d], read) /\ Calm(client[d], client'[d])
  BY <1>6, Unpack, Zenon DEF Calm
<1>8. Agreed(client, co', saved')
  BY Unpack, SavedAgreed, Zenon DEF Save
<1>9. Agreed(client', co', saved')
  BY <1>7, <1>8, CalmAgreed, Zenon
<1> QED
  BY <1>6, <1>7, <1>9, StepKeeps, Zenon DEF GroupInv

(* Member m is consumer d's with what assignment a gives it. *)
HasShare(m, a, d) ==
  /\ m.state \in {"Stable", "Unjoined"}
  /\ m.member_id = client[d].member.member_id
  /\ m.generation = client[d].member.generation
  /\ m.assignment = a[client[d].member.member_id]

(* on_sync: the member takes what the answer to its SyncGroup gives it. *)
LEMMA SyncTaken ==
  ASSUME GroupInv, NEW d \in Consumer, NEW a, a[client[d].member.member_id] \in SUBSET Partition,
         NEW k, Fine(k, read), k.member = client[d].member
  PROVE  \E m \in Member : /\ Took(k, Handled(k, SyncAnswer(a, d)), m, read)
                           /\ HasShare(m, a, d)
<1> DEFINE given == a[client[d].member.member_id]
           an == SyncAnswer(a, d)
           m == on_sync(client[d].member, "NONE", given)
<1>1. client[d].member \in Member
  BY Unpack, Zenon DEF Typed
<1>2. an.call = "Sync" /\ an.code = "NONE" /\ an.assigned = given
  BY Zenon DEF SyncAnswer
<1>3. given \in SUBSET Partition
  BY Zenon
<1> HIDE DEF an, given
<1>4. /\ m \in Member /\ m.state \in {"Stable", "Unjoined"}
      /\ m.member_id = client[d].member.member_id /\ m.generation = client[d].member.generation
      /\ m.assignment = given
  BY <1>1, <1>3, SyncGiven
<1>5. m = on_sync(k.member, an.code, an.assigned)
  BY <1>2, Zenon
<1> HIDE DEF m
<1>6. Took(k, Handled(k, an), m, read)
  BY <1>2, <1>4, <1>5, HandledStep, Zenon
<1>7. HasShare(m, a, d)
  BY <1>4, Zenon DEF HasShare, given
<1> QED
  BY <1>4, <1>6, <1>7, Zenon DEF an

(* sync in a group that is stable already: the member is told what it has. *)
LEMMA SyncStableStep ==
  ASSUME GroupInv, NEW c \in Consumer, co.state = "Stable", In(client[c].member, co), NEW clients,
         DOMAIN clients = Consumer, \A d \in Consumer : d # c => clients[d] = client[d],
         Fine(clients[c], read), Alike(client[c], clients[c]),
         Answered(clients, c, SyncAnswer(co.assignment, c)), Save,
         UNCHANGED << protocol, coordinator, co, committed, count, read >>
  PROVE  GroupInv'
<1> DEFINE an == SyncAnswer(co.assignment, c)
<1>1. clients[c].member = client[c].member
  BY Zenon DEF Alike
<1>2. /\ co.assignment[client[c].member.member_id] \in SUBSET Partition /\ co.generation \in Nat
      /\ \A i \in DOMAIN co.members : ~co.members[i].joined
  BY Unpack, Zenon DEF GroupOK, In
<1>3. PICK m \in Member : Took(clients[c], Handled(clients[c], an), m, read)
                          /\ HasShare(m, co.assignment, c)
  BY <1>1, <1>2, SyncTaken, Zenon
<1>4. Answered(clients, c, an)
  BY Zenon
<1> HIDE DEF an
<1>5. Outcome(clients[c], Handled(clients[c], an), m, read)
  BY <1>3, Zenon DEF Took, Outcome
<1>6. /\ DOMAIN client' = Consumer /\ \A d \in Consumer : d # c => client'[d] = clients[d]
      /\ Outcome(clients[c], client'[c], m, read)
  BY <1>4, <1>5, AnsweredFine, Zenon
<1>7. \A d \in Consumer : Fine(client'[d], read)
  BY <1>6, Unpack, Zenon DEF Outcome
<1>8. Agreed(client, co, co) /\ saved' = co /\ co' = co
  BY Unpack, SavedAgreed, Zenon DEF Save
<1>9. Agrees(client'[c], co, co) /\ client'[c].member.member_id = client[c].member.member_id
  <2>1. CASE client'[c].member = m
    <3>1. Owns(m, co) /\ m.generation <= co.generation
      BY <1>2, <1>3 DEF Owns, In, HasShare
    <3> QED
      BY <1>2, <1>3, <1>6, <2>1, <3>1, Zenon DEF Agrees, Outcome, HasShare
  <2>2. CASE client'[c].member = client[c].member
    <3>1. Calm(client[c], client'[c])
      BY <1>6, <2>2, Zenon DEF Calm, Outcome
    <3> QED
      BY <1>8, <2>2, <3>1, CalmAgrees, Zenon DEF Agreed
  <2> QED
    BY <1>1, <1>6, <2>1, <2>2, Zenon DEF Outcome
<1>10. Agreed(client', co, co)
  BY <1>6, <1>8, <1>9, OneAgreed, SMTT(20)
<1> QED
  BY <1>6, <1>7, <1>8, <1>10, StepKeeps, Zenon DEF GroupInv

(* sync of a follower, held until the leader has assigned. *)
LEMMA SyncHeldStep ==
  ASSUME GroupInv, NEW c \in Consumer, co.state = "Completing", In(client[c].member, co),
         client[c].pc = "advance", client[c].member.state = "Syncing", ~client[c].member.leader,
         client' = SyncHeld(c), Save,
         UNCHANGED << protocol, coordinator, co, committed, count, read >>
  PROVE  GroupInv'
<1> DEFINE clients == Found(c)
           k == clients[c]
           k2 == [k EXCEPT !.held = "Sync"]
<1>1. /\ DOMAIN clients = Consumer /\ \A d \in Consumer : d # c => clients[d] = client[d]
      /\ Fine(k, read) /\ k.member = client[c].member /\ k \in Client /\ k.pc = "advance"
  BY FoundCalm, Zenon DEF Alike
<1>2. client' = [clients EXCEPT ![c] = k2]
  BY <1>1, Zenon DEF SyncHeld
<1> HIDE DEF k, clients
<1>3. k2 \in Client
  BY <1>1, Zenon DEF Client
<1>4. /\ k2.member = k.member /\ k2.held = "Sync" /\ k2.pc = k.pc /\ k2.positions = k.positions
      /\ k2.group = k.group
  BY <1>1, Zenon DEF Client
<1> HIDE DEF k2
<1>5. Fine(k2, read)
  BY <1>1, <1>3, <1>4, Zenon DEF Fine, ClientOK
<1>6. /\ DOMAIN client' = Consumer /\ client'[c] = k2
      /\ \A d \in Consumer : d # c => client'[d] = client[d]
  BY <1>1, <1>2, Zenon
<1>7. Agrees(k2, co, saved)
  <2>1. Agrees(client[c], co, saved)
    BY Unpack, Zenon DEF Agreed
  <2> QED
    BY <1>1, <1>4, <2>1, Zenon DEF Agrees
<1>8. Agreed(client', co, saved)
  <2>1. Agreed(client, co, saved)
    BY Unpack, Zenon
  <2>2. /\ client'[c].member.member_id = client[c].member.member_id
        /\ Agrees(client'[c], co, saved)
    BY <1>1, <1>4, <1>6, <1>7, Zenon
  <2> QED
    BY <1>6, <2>1, <2>2, OneAgreed
<1>9. saved' = saved /\ co' = co
  BY Zenon DEF Save
<1>10. \A d \in Consumer : Fine(client'[d], read)
  BY <1>5, <1>6, Unpack, Zenon
<1> QED
  BY <1>6, <1>8, <1>9, <1>10, StepKeeps, Zenon DEF GroupInv

(* ClassicProtocol::heartbeat. *)
LEMMA SendHeartbeatStep ==
  ASSUME GroupInv, NEW c \in Consumer, SendHeartbeat(c)
  PROVE  GroupInv'
<1> DEFINE code == HeartbeatCode(c)
           a == HeartbeatAnswer(code)
           m == on_heartbeat(client[c].member, code)
           clients == Found(c)
<1>1. /\ DOMAIN clients = Consumer /\ \A d \in Consumer : d # c => clients[d] = client[d]
      /\ Fine(clients[c], read) /\ clients[c].member = client[c].member
  BY FoundCalm, Zenon DEF Alike
<1>2. client[c].member \in Member
  BY Unpack, Zenon DEF Typed
<1>3. code \in Refusal \cup {"NONE"}
  <2>1. (IF Rejected(c) = "NONE" /\ co.state = "Preparing"
         THEN "REBALANCE_IN_PROGRESS" ELSE Rejected(c)) \in Refusal \cup {"NONE"}
    BY RejectedIs, Zenon
  <2> QED
    BY <2>1 DEF HeartbeatCode, Refusal
<1>4. /\ Answered(clients, c, a)
      /\ UNCHANGED << protocol, coordinator, co, saved, committed, count, read >>
  BY Zenon DEF SendHeartbeat
<1> HIDE DEF code, clients
<1>5. m = client[c].member \/ Left(client[c].member, m)
  BY <1>2, <1>3, Heartbeaten, Zenon
<1>6. a.call = "Heartbeat" /\ m = on_heartbeat(clients[c].member, a.code) /\ m \in Member
  BY <1>1, <1>2, <1>5, Zenon DEF HeartbeatAnswer, Left
<1> HIDE DEF a, m
<1>7. Took(clients[c], Handled(clients[c], a), m, read)
  BY <1>1, <1>6, HandledStep, Zenon
<1>8. /\ DOMAIN client' = Consumer /\ \A d \in Consumer : d # c => client'[d] = clients[d]
      /\ Fine(client'[c], read) /\ Calm(client[c], client'[c])
  BY <1>1, <1>4, <1>5, <1>6, <1>7, AnsweredCalm, Zenon
<1> QED
  BY <1>1, <1>4, <1>8, Unpack, OnlyOne, Zenon

(* ClassicProtocol::fetch_offsets. *)
LEMMA SendOffsetsStep ==
  ASSUME GroupInv, NEW c \in Consumer, SendOffsets(c)
  PROVE  GroupInv'
<1> DEFINE known == {p \in client[c].member.assignment : committed[p] >= 0}
           offs == [p \in known |-> committed[p]]
           code == CASE CoordinatorAddr(c) # coordinator -> "NOT_COORDINATOR"
                     [] CoordinatorAddr(c) = coordinator /\ loading -> "COORDINATOR_LOAD_IN_PROGRESS"
                     [] OTHER -> "NONE"
           a == [call |-> "Offsets", code |-> code, offsets |-> offs]
           clients == Found(c)
           k == clients[c]
<1>1. /\ DOMAIN clients = Consumer /\ \A d \in Consumer : d # c => clients[d] = client[d]
      /\ Fine(k, read) /\ k.member = client[c].member /\ k \in Client
      /\ k.held = client[c].held
  BY FoundCalm, Zenon DEF Alike
<1>2. /\ Answered(clients, c, a) /\ client[c].held = "none"
      /\ UNCHANGED << protocol, coordinator, co, saved, committed, count, read >>
  BY Zenon DEF SendOffsets, Calling
<1>3. /\ committed \in [Partition -> -1 .. MaxOffset] /\ Covers(committed, read)
      /\ client[c].member.assignment \subseteq Partition
  BY Unpack, Zenon DEF Typed, Member
<1>4. /\ DOMAIN offs = known /\ \A p \in known : offs[p] = committed[p] /\ p \in Partition
      /\ \A p \in DOMAIN offs : offs[p] \in Offset
  BY <1>3, GroupAssumption DEF Offset, EARLIEST
<1>5. \A p \in known : \A o \in 0 .. committed[p] - 1 : << p, o >> \in read
  BY <1>3, <1>4, Zenon DEF Covers
<1>6. a.call = "Offsets" /\ a.code = code /\ a.offsets = offs
  BY Zenon
<1> HIDE DEF known, offs, a, k, code
<1>7. Handled(k, a) = IF a.code = "NONE" THEN Install(k, a.offsets) ELSE GroupLost(k)
  BY <1>6, Zenon DEF Handled
<1>8. Outcome(k, Handled(k, a), k.member, read)
  <2>1. CASE a.code = "NONE"
    <3> DEFINE k2 == Install(k, offs)
    <3>1. /\ Alike(k, k2) /\ k2.pc = "fetch" /\ DOMAIN k2.positions = k.member.assignment
          /\ \A p \in k.member.assignment :
               k2.positions[p] = IF p \in DOMAIN offs THEN offs[p] ELSE EARLIEST
      BY <1>1, <1>4, InstallAlike
    <3> HIDE DEF k2
    <3>2. 0 .. EARLIEST - 1 = {}
      BY DEF EARLIEST
    <3>3. Covers(k2.positions, read)
      BY <1>4, <1>5, <3>1, <3>2, Zenon DEF Covers
    <3> QED
      BY <1>1, <1>2, <1>6, <1>7, <2>1, <3>1, <3>3, ZenonT(30) DEF k2, Alike, Outcome, Fine, ClientOK
  <2>2. CASE a.code # "NONE"
    BY <1>1, <1>7, <2>2, LostFine, Zenon DEF Outcome, Fine
  <2> QED
    BY <2>1, <2>2, Zenon
<1>9. /\ DOMAIN client' = Consumer /\ \A d \in Consumer : d # c => client'[d] = clients[d]
      /\ Outcome(k, client'[c], k.member, read)
  BY <1>1, <1>2, <1>8, AnsweredFine, Zenon DEF k
<1>10. Fine(client'[c], read) /\ Calm(client[c], client'[c])
  BY <1>1, <1>9, Zenon DEF Outcome, Calm
<1> HIDE DEF clients
<1> QED
  BY <1>1, <1>2, <1>9, <1>10, Unpack, OnlyOne, Zenon

(* A failed call, and one that is sent again. *)
LEMMA FailStep ==
  ASSUME GroupInv, NEW c \in Consumer, CallFails(c) \/ SentAgain(c)
  PROVE  GroupInv'
<1>1. PICK k2 : /\ client' = [client EXCEPT ![c] = k2]
                /\ k2 = Failed(client[c]) \/ k2 = [client[c] EXCEPT !.held = "none"]
  BY Zenon DEF CallFails, SentAgain
<1>2. UNCHANGED << protocol, coordinator, co, saved, committed, count, read >>
  BY Zenon DEF CallFails, SentAgain
<1>3. Outcome(client[c], k2, client[c].member, read)
  <2> DEFINE k == client[c]
  <2>1. Fine(k, read)
    BY Unpack, Zenon
  <2>2. k2 = Failed(k) \/ k2 = [k EXCEPT !.held = "none"]
    BY <1>1, Zenon
  <2> HIDE DEF k
  <2>3. /\ Outcome(k, Failed(k), k.member, read)
        /\ Outcome(k, [k EXCEPT !.held = "none"], k.member, read)
    BY <2>1, FailedFine, Zenon
  <2> QED
    BY <2>2, <2>3, Zenon DEF k
<1>4. /\ DOMAIN client' = Consumer /\ client'[c] = k2
      /\ \A d \in Consumer : d # c => client'[d] = client[d]
  BY <1>1, Unpack, Zenon
<1>5. Fine(client'[c], read) /\ Calm(client[c], client'[c])
  BY <1>3, <1>4, Zenon DEF Outcome, Calm
<1> QED
  BY <1>2, <1>4, <1>5, Unpack, OnlyOne, Zenon

(* The positions, and the partition count the metadata showed, replaced. *)
Advanced(k, f, n) == [k EXCEPT !.positions = f, !.known = n]

(* Positions moved for the same partitions, at the end of a call. *)
LEMMA MovedOn ==
  ASSUME NEW k \in Client, NEW f \in Positions, DOMAIN f = DOMAIN k.positions,
         NEW done, Covers(f, done), k.pc = "fetch", ClientOK(k), NEW n \in 0 .. MaxCount,
         NEW k2, k2 = Advanced(k, f, n)
  PROVE  Fine(Return(k2), done) /\ Return(k2).held = "none" /\ Return(k2).member = k.member
<1>1. k2 \in Client
  BY Zenon DEF Client, Advanced
<1>2. /\ k2.member = k.member /\ k2.positions = f /\ k2.group = k.group
  BY Zenon DEF Client, Advanced
<1>3. Took(k2, Return(k2), k2.member, done)
  BY <1>1, <1>2, ReturnFine, Zenon DEF ClientOK
<1> QED
  BY <1>2, <1>3, Zenon DEF Took

(* Resolving positions: an offset there is stays, one there is not becomes *)
(* the first.                                                              *)
LEMMA ResolvedCovers ==
  ASSUME NEW f \in Positions, NEW g, NEW done, Covers(f, done), DOMAIN g = DOMAIN f,
         g = [p \in DOMAIN g |-> g[p]], \A p \in DOMAIN f : g[p] \in {f[p], 0}
  PROVE  g \in Positions /\ Covers(g, done)
<1>1. DOMAIN f \in SUBSET Partition /\ f \in [DOMAIN f -> Offset]
  BY PositionsAre, Zenon
<1>2. 0 \in Offset /\ 0 .. 0 - 1 = {}
  BY GroupAssumption DEF Offset, EARLIEST
<1>3. g \in [DOMAIN f -> Offset]
  BY <1>1, <1>2, Zenon
<1>4. Covers(g, done)
  <2> SUFFICES ASSUME NEW p \in DOMAIN g, NEW o \in 0 .. g[p] - 1
               PROVE  << p, o >> \in done
    BY Zenon DEF Covers
  <2>1. g[p] # 0
    BY <1>2, Zenon
  <2> QED
    BY <2>1, Zenon DEF Covers
<1> QED
  BY <1>1, <1>3, <1>4, PositionsAre, Zenon

(* ListOffsets fails half way. *)
LEMMA ResolveFailsStep ==
  ASSUME GroupInv, NEW c \in Consumer, ResolveFails(c)
  PROVE  GroupInv'
<1> DEFINE k == client[c]
<1>1. PICK failing \in Unresolved(k) :
          client' = [client EXCEPT
                       ![c] = Return([k EXCEPT !.positions =
                                [p \in DOMAIN @ |-> IF p \in Unresolved(k) /\ Before(p, failing)
                                                    THEN 0 ELSE @[p]]])]
  BY Zenon DEF ResolveFails
<1> DEFINE f == [p \in DOMAIN k.positions |-> IF p \in Unresolved(k) /\ Before(p, failing)
                                              THEN 0 ELSE k.positions[p]]
           n == k.known
           k2 == Advanced(k, f, n)
<1>2. /\ k.pc = "fetch"
      /\ UNCHANGED << protocol, coordinator, co, saved, committed, count, read >>
  BY Zenon DEF ResolveFails
<1>3. k \in Client /\ ClientOK(k) /\ Covers(k.positions, read) /\ DOMAIN client = Consumer
      /\ k.positions \in Positions /\ n \in 0 .. MaxCount
  BY Unpack, Zenon DEF Fine, Client
<1>4. client' = [client EXCEPT ![c] = Return([k EXCEPT !.positions = f])]
  BY <1>1, Zenon
<1>5. DOMAIN f = DOMAIN k.positions /\ f = [p \in DOMAIN f |-> f[p]]
      /\ \A p \in DOMAIN f : f[p] \in {k.positions[p], 0}
  BY Zenon
<1> HIDE DEF f, k
<1>6. [k EXCEPT !.positions = f] = k2
  BY <1>3, Zenon DEF Client, Advanced
<1>7. f \in Positions /\ Covers(f, read)
  BY <1>3, <1>5, ResolvedCovers, Zenon
<1> HIDE DEF n
<1>8. Fine(Return(k2), read) /\ Return(k2).held = "none" /\ Return(k2).member = k.member
  BY <1>2, <1>3, <1>5, <1>7, MovedOn, SMTT(20)
<1> HIDE DEF k2
<1>9. /\ DOMAIN client' = Consumer /\ client'[c] = Return(k2)
      /\ \A d \in Consumer : d # c => client'[d] = client[d]
  BY <1>3, <1>4, <1>6, Zenon
<1>10. Calm(client[c], client'[c])
  BY <1>8, <1>9, Zenon DEF Calm, k
<1> QED
  BY <1>2, <1>8, <1>9, <1>10, Unpack, OnlyOne, Zenon

(* A poll that fetches: the positions move past what it reads. *)
LEMMA FetchStep ==
  ASSUME GroupInv, NEW c \in Consumer, NEW S \in SUBSET Partition, Fetch(c, S)
  PROVE  GroupInv'
<1> DEFINE k0 == client[c]
           f0 == [p \in DOMAIN k0.positions |-> IF k0.changed /\ p \in Unresolved(k0) THEN 0
                                                ELSE k0.positions[p]]
           k1 == Resolved(k0)
           k == LookedUp(k1)
           more == {p \in DOMAIN k.positions : k.positions[p] \in 0 .. MaxOffset - 1}
           f == [p \in DOMAIN k.positions |-> IF p \in S THEN k.positions[p] + 1 ELSE k.positions[p]]
<1>1. /\ k0.pc = "fetch" /\ S \subseteq more
      /\ client' = [client EXCEPT ![c] = Return([k EXCEPT !.positions = f])]
      /\ read' = read \cup {<< p, k.positions[p] >> : p \in S}
      /\ UNCHANGED << protocol, coordinator, co, saved, committed, count >>
  BY Zenon DEF Fetch
<1>2. k0 \in Client /\ ClientOK(k0) /\ Covers(k0.positions, read) /\ DOMAIN client = Consumer
      /\ k0.positions \in Positions /\ k0.known \in 0 .. MaxCount
      /\ k0.positions = [p \in DOMAIN k0.positions |-> k0.positions[p]]
  <2>1. k0 \in Client /\ ClientOK(k0) /\ Covers(k0.positions, read) /\ DOMAIN client = Consumer
    BY Unpack, Zenon DEF Fine
  <2>2. k0.positions \in Positions /\ k0.known \in 0 .. MaxCount
    BY <2>1, Zenon DEF Client
  <2>3. k0.positions = [p \in DOMAIN k0.positions |-> k0.positions[p]]
    BY <2>2, PositionsAre, Zenon
  <2> QED
    BY <2>1, <2>2, <2>3, Zenon
<1> HIDE DEF k0
<1>3. k1 = [k0 EXCEPT !.positions = f0]
  <2>1. CASE k0.changed
    BY <2>1, Zenon DEF Resolved
  <2>2. CASE ~k0.changed
    <3>1. f0 = k0.positions
      BY <1>2, <2>2, Zenon
    <3> HIDE DEF f0
    <3>2. [k0 EXCEPT !.positions = k0.positions] = k0
      BY <1>2, Zenon DEF Client
    <3> QED
      BY <2>2, <3>1, <3>2, Zenon DEF Resolved
  <2> QED
    BY <2>1, <2>2, Zenon
<1>4. f0 \in Positions /\ Covers(f0, read) /\ DOMAIN f0 = DOMAIN k0.positions
  BY <1>2, ResolvedCovers
<1> HIDE DEF f0, k1
<1>5. /\ k1 \in Client /\ k1.positions = f0 /\ k1.known = k0.known /\ k1.pc = k0.pc
      /\ k1.group = k0.group /\ k1.member = k0.member /\ k1.held = k0.held
  <2>1. k1 \in Client
    BY <1>2, <1>3, <1>4, Zenon DEF Client
  <2> QED
    BY <1>2, <1>3, <2>1, Zenon DEF Client
<1> DEFINE n == IF \E p \in DOMAIN k1.positions : p[2] >= k1.known THEN count ELSE k1.known
<1>6. k = [k1 EXCEPT !.known = n]
  BY Zenon DEF LookedUp
<1>7. n \in 0 .. MaxCount
  BY <1>2, <1>5 DEF GroupInv
<1> HIDE DEF n, k
<1>8. /\ k.positions = f0 /\ [k EXCEPT !.positions = f] = Advanced(k1, f, n)
  BY <1>5, <1>6, Zenon DEF Client, Advanced
<1>9. DOMAIN f0 \in SUBSET Partition /\ f0 \in [DOMAIN f0 -> Offset]
  BY <1>4, PositionsAre, Zenon
<1>10. /\ DOMAIN f = DOMAIN f0 /\ S \subseteq DOMAIN f0
       /\ \A p \in S : f0[p] \in 0 .. MaxOffset - 1 /\ f[p] = f0[p] + 1
       /\ \A p \in DOMAIN f0 \ S : f[p] = f0[p]
  <2>1. \A p \in S : p \in DOMAIN f0 /\ f0[p] \in 0 .. MaxOffset - 1
    BY <1>1, <1>8, Zenon
  <2> QED
    BY <1>8, <2>1, Zenon
<1>11. f \in Positions
  <2>1. \A p \in DOMAIN f0 : f[p] \in Offset
    <3> HIDE DEF f
    <3> QED
      BY <1>9, <1>10, GroupAssumption DEF Offset, EARLIEST
  <2>2. f \in [DOMAIN f0 -> Offset]
    BY <1>8, <2>1, Zenon
  <2> QED
    BY <1>9, <2>2, PositionsAre, Zenon
<1>12. read \subseteq read'
  BY <1>1, Zenon
<1>13. Covers(f, read')
  <2> SUFFICES ASSUME NEW p \in DOMAIN f, NEW o \in 0 .. f[p] - 1
               PROVE  << p, o >> \in read'
    BY Zenon DEF Covers
  <2>1. CASE p \in S
    <3>1. o = f0[p] \/ o \in 0 .. f0[p] - 1
      BY <1>10, <2>1
    <3>2. << p, f0[p] >> \in read'
      BY <1>1, <1>8, <2>1, Zenon
    <3> QED
      BY <1>4, <1>10, <1>12, <3>1, <3>2, Zenon DEF Covers
  <2>2. CASE p \notin S
    BY <1>4, <1>10, <1>12, <2>2, Zenon DEF Covers
  <2> QED
    BY <2>1, <2>2, Zenon
<1>14. ClientOK(k1)
  BY <1>2, <1>4, <1>5, Zenon DEF ClientOK
<1> DEFINE k2 == Advanced(k1, f, n)
<1>15. DOMAIN f = DOMAIN k1.positions
  BY <1>5, <1>10, Zenon
<1> HIDE DEF f
<1>16. Fine(Return(k2), read') /\ Return(k2).held = "none" /\ Return(k2).member = k1.member
  BY <1>1, <1>5, <1>7, <1>11, <1>13, <1>14, <1>15, MovedOn, SMTT(20)
<1> HIDE DEF k2
<1>17. /\ DOMAIN client' = Consumer /\ client'[c] = Return(k2)
       /\ \A d \in Consumer : d # c => client'[d] = client[d]
  BY <1>1, <1>2, <1>8, Zenon DEF k2
<1>18. \A d \in Consumer : Fine(client'[d], read')
  <2>1. \A d \in Consumer : Fine(client[d], read')
    BY <1>12, Unpack, Zenon DEF Fine, Covers
  <2> QED
    BY <1>16, <1>17, <2>1, Zenon
<1>19. Agreed(client', co, saved)
  <2>1. \A d \in Consumer : Calm(client[d], client'[d])
    BY <1>5, <1>16, <1>17, Zenon DEF Calm, k0
  <2> QED
    BY <2>1, Unpack, CalmAgreed, Zenon
<1>20. read' \subseteq Partition \X (0 .. MaxOffset - 1)
  BY <1>1, <1>8, <1>9, <1>10, SMTT(20) DEF GroupInv
<1>21. Covers(committed, read')
  BY <1>12, Unpack, Zenon DEF Covers
<1> QED
  BY <1>1, <1>17, <1>18, <1>19, <1>20, <1>21, Zenon DEF GroupInv

(* A member is dropped (Expire). *)
LEMMA ExpireStep ==
  ASSUME GroupInv, NEW id, Expire(id)
  PROVE  GroupInv'
<1>1. /\ co' = Removed(co, id) /\ Save
      /\ client' = IF co'.state = "Preparing" THEN SyncsReleased(client) ELSE client
      /\ UNCHANGED << protocol, coordinator, committed, count, read >>
  BY Zenon DEF Expire
<1>2. /\ DOMAIN client' = Consumer
      /\ \A d \in Consumer : Fine(client'[d], read) /\ Calm(client[d], client'[d])
      /\ co'.state = "Preparing" => \A d \in Consumer : client'[d].held # "Sync"
  BY <1>1, Unpack, ReleasedCalm, Zenon DEF Calm
<1>3. Agreed(client', co, saved) /\ Typed(client')
  BY <1>2, Unpack, CalmAgreed, Zenon DEF Typed, Fine, ClientOK, Client
<1>4. Agreed(client', co', saved')
  BY <1>1, <1>2, <1>3, RemovedAgreed, Zenon DEF Save
<1> QED
  BY <1>1, <1>2, <1>4, StepKeeps, Zenon DEF GroupInv

(* The group moves to another broker (MoveCoordinator). *)
LEMMA MoveStep ==
  ASSUME GroupInv, MoveCoordinator
  PROVE  GroupInv'
<1>1. /\ coordinator' \in Broker /\ co' = [saved EXCEPT !.nextId = co.nextId, !.pending = {}]
      /\ UNCHANGED << protocol, saved, committed, count, read >>
      /\ DOMAIN client' = Consumer
  BY Zenon DEF MoveCoordinator
<1>2. ASSUME NEW d \in Consumer
      PROVE  /\ Fine(client'[d], read) /\ Calm(client[d], client'[d])
             /\ client'[d].held # "Sync"
  <2> DEFINE k == client[d]
  <2>1. k.member \in Member /\ Fine(k, read)
    BY Unpack, Zenon DEF Typed
  <2>2. CASE k.held = "Join"
    <3> DEFINE a == JoinError("NOT_COORDINATOR", NoId)
               m == on_join(k.member, "NOT_COORDINATOR", NO_GENERATION, NoId, NoId, <<>>)
    <3>1. client'[d] = Handled(k, a)
      BY <2>2, Zenon DEF MoveCoordinator
    <3>2. Left(k.member, m)
      BY <2>1, JoinRefused, Zenon DEF Refusal
    <3>3. /\ a.call = "Join" /\ m \in Member
          /\ m = on_join(k.member, a.code, a.generation, a.id, a.leader, a.members)
      BY <3>2, Zenon DEF JoinError, Left
    <3> HIDE DEF a, m
    <3>4. Took(k, Handled(k, a), m, read)
      BY <2>1, <3>3, HandledStep, Zenon
    <3> QED
      BY <3>1, <3>2, <3>4, Zenon DEF Took, Calm
  <2>3. CASE k.held = "Sync"
    <3> DEFINE a == SyncError("NOT_COORDINATOR")
               m == on_sync(k.member, "NOT_COORDINATOR", {})
    <3>1. client'[d] = Handled(k, a)
      BY <2>3, Zenon DEF MoveCoordinator
    <3>2. Left(k.member, m)
      BY <2>1, SyncRefused, Zenon DEF Refusal
    <3>3. a.call = "Sync" /\ m \in Member /\ m = on_sync(k.member, a.code, a.assigned)
      BY <3>2, Zenon DEF SyncError, Left
    <3> HIDE DEF a, m
    <3>4. Took(k, Handled(k, a), m, read)
      BY <2>1, <3>3, HandledStep, Zenon
    <3> QED
      BY <3>1, <3>2, <3>4, Zenon DEF Took, Calm
  <2>4. CASE k.held # "Join" /\ k.held # "Sync"
    <3>1. client'[d] = k
      BY <2>4, Zenon DEF MoveCoordinator
    <3> QED
      BY <2>1, <2>4, <3>1, Zenon DEF Calm
  <2> QED
    BY <2>2, <2>3, <2>4, Zenon
<1>3. Agreed(client', co, saved)
  BY <1>2, Unpack, CalmAgreed, Zenon
<1>4. Agreed(client', co', saved)
  BY <1>1, <1>2, <1>3, MovedAgreed, Zenon
<1> QED
  BY <1>1, <1>2, <1>4, StepKeeps, Zenon DEF GroupInv

(* The broker that took the group over has loaded it (Loaded). *)
LEMMA LoadedStep ==
  ASSUME GroupInv, Loaded
  PROVE  GroupInv'
BY Zenon DEF GroupInv, Loaded

(* A partition is added (Grow). *)
LEMMA GrowStep ==
  ASSUME GroupInv, Grow
  PROVE  GroupInv'
<1>1. /\ count' \in 1 .. MaxCount
      /\ UNCHANGED << protocol, client, coordinator, co, saved, committed, read >>
  BY GroupAssumption DEF GroupInv, Grow
<1> QED
  BY <1>1, Zenon DEF GroupInv

(* Nobody has joined anything. *)
LEMMA InitHolds ==
  ASSUME Init
  PROVE  GroupInv
<1>1. /\ protocol \in RebalanceProtocol /\ coordinator \in Broker /\ count \in 1 .. MaxCount
      /\ read \subseteq Partition \X (0 .. MaxOffset - 1)
  BY GroupAssumption, Zenon DEF Init
<1>2. committed \in [Partition -> -1 .. MaxOffset] /\ Covers(committed, read)
  <2>1. -1 \in -1 .. MaxOffset /\ 0 .. (-1) - 1 = {}
    BY GroupAssumption
  <2>2. committed = [p \in Partition |-> -1]
    BY Zenon DEF Init
  <2> QED
    BY <2>1, <2>2, Zenon DEF Covers
<1>3. NewMember(protocol) \in Member
  BY <1>1, NewMemberLeft, Zenon DEF Left
<1>4. Empty \in Positions /\ DOMAIN Empty = {} /\ 0 \in 0 .. MaxSteps - 1 /\ 0 \in 0 .. MaxCount
  <2>1. Empty \in [{} -> Offset] /\ DOMAIN Empty = {}
    BY Zenon DEF Empty
  <2>2. Empty \in Positions
    BY <2>1, PositionsAre, Zenon
  <2> QED
    BY <2>1, <2>2, GroupAssumption
<1>5. NewClient \in Client /\ NewClient.member = NewMember(protocol) /\ NewClient.held = "none"
      /\ NewClient.positions = Empty
  BY <1>3, <1>4, Zenon DEF NewClient, Client
<1>6. NewMember(protocol).state = "Unjoined" /\ NewMember(protocol).member_id = NoId
  BY Zenon DEF NewMember
<1>7. DOMAIN client = Consumer /\ \A c \in Consumer : client[c] = NewClient
  BY Zenon DEF Init
<1> HIDE DEF NewClient
<1>8. \A c \in Consumer : Fine(client[c], read)
  BY <1>4, <1>5, <1>6, <1>7, Zenon DEF Fine, ClientOK, Covers
<1>9. GroupOK(co, co.nextId) /\ co.nextId = 1 /\ co.pending = {} /\ co.state = "Empty"
      /\ co.generation = 0 /\ saved = co
  <2> DEFINE no == [m \in {} |-> {}]
  <2>1. co = [state |-> "Empty", generation |-> 0, leader |-> NoId, nextId |-> 1,
              pending |-> {}, members |-> no, assignment |-> no] /\ saved = co
    BY Zenon DEF Init
  <2>2. DOMAIN no = {} /\ no \in [{} -> Seat] /\ no \in [{} -> SUBSET Partition]
    BY Zenon
  <2> HIDE DEF no
  <2> QED
    BY <2>1, <2>2, Zenon DEF GroupOK, Seat
<1>10. \A c \in Consumer : Agrees(client[c], co, saved)
  BY <1>5, <1>6, <1>7, <1>9, Zenon DEF Agrees, GroupOK
<1>11. Agreed(client, co, saved)
  <2>1. OwnIds(client, co.nextId)
    BY <1>5, <1>6, <1>7, <1>9 DEF OwnIds, NoId
  <2> QED
    BY <1>9, <1>10, <2>1, SMTT(20) DEF Agreed
<1> QED
  BY <1>1, <1>2, <1>7, <1>8, <1>11, Zenon DEF GroupInv
=============================================================================
