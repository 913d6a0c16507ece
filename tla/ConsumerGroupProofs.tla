------------------------- MODULE ConsumerGroupProofs ------------------------
(***************************************************************************)
(* Proofs about ConsumerGroup, for any number of consumers, partitions,    *)
(* calls and faults: no partition belongs to two stable members of a       *)
(* generation, only its owner commits it, a stable member's positions are  *)
(* its assignment, and nothing is committed that nobody has read.          *)
(***************************************************************************)
EXTENDS ConsumerGroupSteps, AssignorProofs

(* The members a leader is told of, in any order, are claims with ids of   *)
(* their own.                                                              *)
LEMMA OrderIs ==
  ASSUME NEW g, GroupOK(g, g.nextId), g.nextId \in Nat, NEW order \in Orders(g)
  PROVE  /\ order \in Seq(Claim) /\ IsMembers(order) /\ MemberIds(order) = DOMAIN g.members
<1> DEFINE S == {g.members[m].sub : m \in DOMAIN g.members}
           n == Cardinality(S)
<1>a. DOMAIN g.members \subseteq 1 .. g.nextId - 1
  BY Zenon DEF GroupOK
<1>b. IsFiniteSet(1 .. g.nextId - 1) /\ 1 .. g.nextId - 1 \subseteq Nat
  <2>1. 1 \in Int /\ g.nextId - 1 \in Int /\ 1 .. g.nextId - 1 \subseteq Nat
    OBVIOUS
  <2> DEFINE n1 == g.nextId - 1
  <2> HIDE DEF n1
  <2>2. 1 \in Int /\ n1 \in Int
    BY <2>1, Zenon DEF n1
  <2>3. IsFiniteSet(1 .. n1)
    BY <2>2, FS_Interval, Zenon
  <2> QED
    BY <2>1, <2>3, Zenon DEF n1
<1>1. /\ S \subseteq Claim /\ IsFiniteSet(DOMAIN g.members) /\ DOMAIN g.members \subseteq Nat
      /\ \A m \in DOMAIN g.members : g.members[m].sub.member_id = m
  <2>1. IsFiniteSet(DOMAIN g.members) /\ DOMAIN g.members \subseteq Nat
    BY <1>a, <1>b, FS_Subset, Zenon
  <2>2. S \subseteq Claim /\ \A m \in DOMAIN g.members : g.members[m].sub.member_id = m
    BY DEF GroupOK
  <2> QED
    BY <2>1, <2>2, Zenon
<1>2. IsFiniteSet(S)
  <2> DEFINE f == [m \in DOMAIN g.members |-> g.members[m].sub]
  <2>1. f \in Surjection(DOMAIN g.members, S)
    BY Zenon DEF Surjection
  <2> QED
    BY <1>1, <2>1, FS_Surjection, SMTT(20)
<1>3. n \in Nat
  BY <1>2, FS_CardinalityType, Zenon
<1>4. /\ order \in [1 .. n -> S] /\ \A s \in S : \E i \in 1 .. n : order[i] = s
      /\ \A i, j \in 1 .. n : order[i] = order[j] => i = j
  BY Zenon DEF Orders, Listings, Bijection, Injection, Surjection, IsInjective
<1> HIDE DEF n
<1>5. order \in Seq(Claim)
  BY <1>1, <1>3, <1>4, SMTT(20)
<1>6. DOMAIN order = 1 .. n /\ IsFiniteSet(1 .. n) /\ 1 .. n \subseteq Nat
  BY <1>3, <1>4, FS_Interval, SMTT(20)
<1>7. \A i \in 1 .. n : \E m \in DOMAIN g.members : order[i] = g.members[m].sub
  BY <1>4
<1>8. \A i \in 1 .. n : order[i].member_id \in DOMAIN g.members
                        /\ order[i] = g.members[order[i].member_id].sub
  BY <1>1, <1>7, Zenon
<1>9. IsMembers(order)
  BY <1>1, <1>4, <1>6, <1>8, SMTT(20) DEF IsMembers
<1>10. MemberIds(order) = DOMAIN g.members
  <2>1. ASSUME NEW m \in DOMAIN g.members
        PROVE  \E i \in 1 .. n : order[i].member_id = m
    <3>1. g.members[m].sub \in S
      BY Zenon
    <3>2. PICK i \in 1 .. n : order[i] = g.members[m].sub
      BY <1>4, <3>1, Zenon
    <3> QED
      BY <1>1, <3>2, Zenon
  <2> QED
    BY <1>6, <1>8, <2>1, SMTT(20) DEF MemberIds
<1> QED
  BY <1>5, <1>9, <1>10, Zenon

(* join: the present generation is told again. *)
LEMMA JoinToldStep ==
  ASSUME GroupInv, NEW c \in Consumer, NEW id, id = client[c].member.member_id,
         id \in DOMAIN co.members, co.state \in {"Completing", "Stable"},
         NEW order \in Orders(co), Answered(Found(c), c, JoinAnswer(co, id, order)),
         UNCHANGED << protocol, coordinator, co, saved, committed, count, read >>
  PROVE  GroupInv'
<1> DEFINE a == JoinAnswer(co, id, order)
           told == IF id = co.leader THEN order ELSE <<>>
           m == on_join(client[c].member, "NONE", co.generation, id, co.leader, told)
           clients == Found(c)
<1>1. /\ DOMAIN clients = Consumer /\ \A d \in Consumer : d # c => clients[d] = client[d]
      /\ Fine(clients[c], read) /\ clients[c].member = client[c].member
  BY FoundCalm, Zenon DEF Alike
<1>2. client[c].member \in Member /\ co.generation \in Nat /\ id \in Nat
  BY Unpack, Zenon DEF Typed, GroupOK, Member
<1>3. told \in Seq(Claim)
  BY Unpack, OrderIs, SMTT(20)
<1>4. told = order \/ id # co.leader
  BY Zenon
<1>5. /\ a.call = "Join"
      /\ m = on_join(clients[c].member, a.code, a.generation, a.id, a.leader, a.members)
  BY <1>1, Zenon DEF JoinAnswer
<1>6. Answered(clients, c, a)
  BY ZenonT(30)
<1> HIDE DEF told, a, clients
<1>7. /\ m \in Member /\ m.state = "Syncing" /\ m.member_id = id /\ m.generation = co.generation
      /\ m.leader <=> id = co.leader
      /\ m.leader => m.pending_members = told
  BY <1>2, <1>3, JoinTold, SMTT(20)
<1> HIDE DEF m
<1>8. Outcome(clients[c], Handled(clients[c], a), m, read)
  BY <1>1, <1>5, <1>7, HandledStep, SMTT(20) DEF Took, Outcome
<1>9. /\ DOMAIN client' = Consumer /\ \A d \in Consumer : d # c => client'[d] = clients[d]
      /\ Outcome(clients[c], client'[c], m, read)
  BY <1>1, <1>6, <1>8, AnsweredFine, Zenon
<1>10. \A d \in Consumer : Fine(client'[d], read)
  BY <1>1, <1>9, Unpack, Zenon DEF Outcome
<1>11. Agrees(client'[c], co, saved) /\ client'[c].member.member_id = client[c].member.member_id
  <2>1. CASE client'[c].member = m
    <3>1. ~co.members[id].joined
      BY Unpack, Zenon DEF GroupOK
    <3> QED
      BY <1>4, <1>7, <1>9, <2>1, <3>1, Zenon DEF Agrees, Outcome
  <2>2. CASE client'[c].member = client[c].member
    <3>1. Calm(client[c], client'[c])
      BY <1>9, <2>2, ZenonT(30) DEF Calm, Outcome
    <3> QED
      BY <2>2, <3>1, CalmAgrees, Unpack, Zenon DEF Agreed
  <2> QED
    BY <1>1, <1>9, <2>1, <2>2, Zenon DEF Outcome
<1>12. Agreed(client', co, saved)
  BY <1>1, <1>9, <1>11, Unpack, OneAgreed, SMTT(20)
<1> QED
  BY <1>9, <1>10, <1>12, StepKeeps, Zenon DEF GroupInv

(* ClassicProtocol::join. *)
LEMMA JoinStep ==
  ASSUME GroupInv, NEW c \in Consumer, Join(c)
  PROVE  GroupInv'
<1> DEFINE m == client[c].member
           id == m.member_id
           sub == subscription(m, {1})
           same == id \in DOMAIN co.members /\ co.members[id].sub = sub
           told == same /\ \/ co.state = "Completing"
                           \/ co.state = "Stable" /\ id # co.leader
           g == IF co.state = "Preparing" THEN co ELSE Preparing(co)
<1>1. /\ client[c].held = "none" /\ client[c].pc = "advance"
      /\ m.state \in {"Unjoined", "Joining"}
      /\ UNCHANGED << protocol, coordinator, committed, count, read >>
  <2>1. step(m) = "Join" /\ m \in Member
    BY Unpack, Zenon DEF Join, Stepping, Typed
  <2> QED
    BY <2>1, StepIs, Zenon DEF Join, Stepping, Calling
<1>2. CASE Answered(Found(c), c, JoinError("NOT_COORDINATOR", NoId)) /\ UNCHANGED << co, saved >>
  BY <1>1, <1>2, JoinRefusedStep, Zenon DEF Refusal
<1>3. CASE /\ Answered(Found(c), c, JoinError("COORDINATOR_LOAD_IN_PROGRESS", NoId))
           /\ UNCHANGED << co, saved >>
  BY <1>1, <1>3, JoinRefusedStep, Zenon DEF Refusal
<1>4. CASE /\ Answered(Found(c), c, JoinError("MEMBER_ID_REQUIRED", co.nextId))
           /\ co' = [co EXCEPT !.pending = @ \cup {co.nextId}, !.nextId = @ + 1]
           /\ UNCHANGED saved
  BY <1>1, <1>4, JoinNamedStep, ZenonT(30)
<1>5. CASE Answered(Found(c), c, JoinError("UNKNOWN_MEMBER_ID", NoId)) /\ UNCHANGED << co, saved >>
  BY <1>1, <1>5, JoinRefusedStep, Zenon DEF Refusal
<1>6. CASE /\ told /\ \E order \in Orders(co) : Answered(Found(c), c, JoinAnswer(co, id, order))
           /\ UNCHANGED << co, saved >>
  BY <1>1, <1>6, JoinToldStep, Zenon
<1>7. CASE /\ id \in DOMAIN co.members \cup co.pending
           /\ co' = [g EXCEPT !.members = Over(Only(id, [sub |-> sub, joined |-> TRUE]), @),
                              !.assignment = Over(@, Only(id, {})),
                              !.pending = @ \ {id}]
           /\ client' = [SyncsReleased(Found(c)) EXCEPT ![c].held = "Join"]
           /\ UNCHANGED saved
  BY <1>1, <1>7, JoinHeldStep, Zenon
<1> QED
  BY <1>2, <1>3, <1>4, <1>5, <1>6, <1>7, Zenon DEF Join

(* The assignors give every partition to one member at most. *)
LEMMA AssignGives ==
  ASSUME GroupInv, NEW order \in Orders(co), NEW n \in 1 .. MaxCount, NEW a, a = Assign(order, n)
  PROVE  /\ a \in [DOMAIN co.members -> SUBSET Partition]
         /\ \A i, j \in DOMAIN co.members : i # j => a[i] \cap a[j] = {}
<1> DEFINE counts == Only(1, n)
<1>1. IsMembers(order) /\ MemberIds(order) = DOMAIN co.members
  BY Unpack, OrderIs, Zenon
<1>2. DOMAIN counts = {1} /\ counts[1] = n /\ n \in Nat /\ n <= MaxCount
  BY GroupAssumption, SMTT(20) DEF Only
<1>3. a = IF protocol = "Eager" THEN RangeAssignor(order, counts)
          ELSE CooperativeStickyAssignor(order, counts)
  BY Zenon DEF Assign
<1> HIDE DEF counts
<1>4. IsCounts(counts)
  <2>1. IsFiniteSet({1})
    BY FS_Singleton, Zenon
  <2> QED
    BY <1>2, <2>1, SMTT(20) DEF IsCounts
<1>5. Valid(order, counts, a)
  BY <1>1, <1>3, <1>4, RangeAssigns, CooperativeAssigns, Zenon
<1>6. AllPartitions(counts) \subseteq Partition
  BY <1>2, GroupAssumption, SMTT(20) DEF AllPartitions, Partition
<1> QED
  BY <1>1, <1>5, <1>6, Zenon DEF Valid

(* assign_and_sync: everybody who waited is given its share. *)
LEMMA SyncLeaderStep ==
  ASSUME GroupInv, NEW c \in Consumer, co.state = "Completing", In(client[c].member, co),
         client[c].held = "none", client[c].member.state = "Syncing", client[c].member.leader,
         NEW n \in 1 .. MaxCount, NEW a, a = Assign(client[c].member.pending_members, n),
         co' = [co EXCEPT !.state = "Stable", !.assignment = a],
         Answered(Counted(SyncsAnswered(a), c, n), c, SyncAnswer(a, c)), Save,
         UNCHANGED << protocol, coordinator, committed, count, read >>
  PROVE  GroupInv'
<1> DEFINE cl == SyncsAnswered(a)
           clients == Counted(cl, c, n)
<1>1. client[c].member.pending_members \in Orders(co)
  <2>1. Agrees(client[c], co, saved)
    BY Unpack, Zenon DEF Agreed
  <2> QED
    BY <2>1, Zenon DEF Agrees
<1>2. /\ a \in [DOMAIN co.members -> SUBSET Partition]
      /\ \A i, j \in DOMAIN co.members : i # j => a[i] \cap a[j] = {}
  BY <1>1, AssignGives, Zenon
<1>3. ASSUME NEW d \in Consumer, In(client[d].member, co), NEW k, Fine(k, read),
             k.member = client[d].member
      PROVE  \E m \in Member : /\ Took(k, Handled(k, SyncAnswer(a, d)), m, read)
                               /\ HasShare(m, a, d)
  <2>1. a[client[d].member.member_id] \in SUBSET Partition
    BY <1>2, <1>3, Zenon DEF In
  <2> QED
    BY <1>3, <2>1, SyncTaken, Zenon
<1>4. /\ DOMAIN cl = Consumer /\ cl[c] = client[c]
      /\ \A d \in Consumer : cl[d] = IF client[d].held = "Sync"
                                     THEN Handled(client[d], SyncAnswer(a, d)) ELSE client[d]
  BY Zenon DEF SyncsAnswered
<1> HIDE DEF cl
<1>5. /\ DOMAIN clients = Consumer /\ \A d \in Consumer : d # c => clients[d] = cl[d]
      /\ Fine(clients[c], read) /\ Alike(client[c], clients[c])
  <2>1. n \in 0 .. MaxCount
    BY GroupAssumption, SMTT(20)
  <2> QED
    BY <1>4, <2>1, CountedAlike, Zenon
<1>6. Answered(clients, c, SyncAnswer(a, c))
  BY Zenon DEF cl
<1> HIDE DEF clients
<1>7. PICK m \in Member : /\ Took(clients[c], Handled(clients[c], SyncAnswer(a, c)), m, read)
                          /\ HasShare(m, a, c)
  BY <1>3, <1>5, Zenon DEF Alike
<1>8. /\ DOMAIN client' = Consumer /\ \A d \in Consumer : d # c => client'[d] = clients[d]
      /\ Outcome(clients[c], client'[c], m, read)
  <2>1. Outcome(clients[c], Handled(clients[c], SyncAnswer(a, c)), m, read)
    BY <1>7, Zenon DEF Took, Outcome
  <2> QED
    BY <1>5, <1>6, <2>1, AnsweredFine, Zenon
<1>9. ASSUME NEW d \in Consumer
      PROVE  Fine(client'[d], read) /\ Shared(client[d], client'[d], co, a)
  <2>1. CASE d = c
    BY <1>5, <1>7, <1>8, <2>1, Zenon DEF Outcome, Alike, HasShare, Shared
  <2>2. CASE d # c /\ client[d].held # "Sync"
    BY <1>4, <1>5, <1>8, <2>2, Unpack, Zenon DEF Shared
  <2>3. CASE d # c /\ client[d].held = "Sync"
    <3>1. In(client[d].member, co) /\ Fine(client[d], read)
      BY <2>3, Unpack, Zenon DEF Agreed, Agrees
    <3>2. PICK m2 \in Member : /\ Took(client[d], Handled(client[d], SyncAnswer(a, d)), m2, read)
                               /\ HasShare(m2, a, d)
      BY <1>3, <3>1, Zenon
    <3>3. client'[d] = Handled(client[d], SyncAnswer(a, d))
      BY <1>4, <1>5, <1>8, <2>3, Zenon
    <3> QED
      BY <3>1, <3>2, <3>3, Zenon DEF Took, HasShare, Shared
  <2> QED
    BY <2>1, <2>2, <2>3, Zenon
<1>10. saved' = co'
  <2>1. co'.state = "Stable"
    BY Unpack, Zenon DEF GroupOK
  <2> QED
    BY <2>1, Zenon DEF Save
<1>11. Agreed(client', co', co')
  <2>1. Agreed(client, co, saved) /\ Typed(client)
    BY Unpack, Zenon
  <2> QED
    BY <1>2, <1>9, <2>1, AssignedAgreed, Zenon
<1>12. \A d \in Consumer : Fine(client'[d], read)
  BY <1>9, Zenon
<1> QED
  BY <1>8, <1>10, <1>11, <1>12, StepKeeps, ZenonT(30) DEF GroupInv

(* ClassicProtocol::sync and assign_and_sync. *)
LEMMA SyncStep ==
  ASSUME GroupInv, NEW c \in Consumer, Sync(c)
  PROVE  GroupInv'
<1> DEFINE m == client[c].member
           code == IF Rejected(c) = "NONE" /\ co.state = "Preparing"
                   THEN "REBALANCE_IN_PROGRESS" ELSE Rejected(c)
<1>1. PICK n \in IF step(m) = "Sync" THEN {client[c].known} ELSE PartitionCount(client[c]) :
          \/ /\ code # "NONE"
             /\ Answered(Counted(client, c, n), c, SyncError(code))
             /\ UNCHANGED co
          \/ /\ code = "NONE" /\ co.state = "Stable"
             /\ Answered(Counted(client, c, n), c, SyncAnswer(co.assignment, c))
             /\ UNCHANGED co
          \/ /\ code = "NONE" /\ co.state = "Completing" /\ step(m) = "Sync"
             /\ client' = SyncHeld(c)
             /\ UNCHANGED co
          \/ /\ code = "NONE" /\ co.state = "Completing" /\ step(m) = "AssignAndSync"
             /\ LET a == Assign(m.pending_members, n)
                IN /\ co' = [co EXCEPT !.state = "Stable", !.assignment = a]
                   /\ Answered(Counted(SyncsAnswered(a), c, n), c, SyncAnswer(a, c))
  BY Zenon DEF Sync
<1>2. /\ client[c].held = "none" /\ client[c].pc = "advance" /\ m \in Member /\ Save
      /\ UNCHANGED << protocol, coordinator, committed, count, read >>
  BY Unpack, Zenon DEF Sync, Stepping, Calling, Typed
<1>3. /\ step(m) = "Sync" => m.state = "Syncing" /\ ~m.leader
      /\ step(m) = "AssignAndSync" => m.state = "Syncing" /\ m.leader
  BY <1>2, StepIs, Zenon
<1>4. /\ code \in Refusal \cup {"NONE"}
      /\ code = "NONE" => In(m, co)
  BY RejectedIs, Zenon
<1>5. /\ n \in 0 .. MaxCount
      /\ step(m) = "AssignAndSync" => n \in 1 .. MaxCount
  <2>1. client[c].known \in 0 .. MaxCount /\ count \in 1 .. MaxCount
    BY Unpack, Zenon DEF Client, GroupInv
  <2> QED
    BY <1>1, <2>1, GroupAssumption, SMTT(20) DEF PartitionCount
<1> HIDE DEF code
<1> DEFINE clients == Counted(client, c, n)
<1>6. /\ DOMAIN clients = Consumer /\ \A d \in Consumer : d # c => clients[d] = client[d]
      /\ Fine(clients[c], read) /\ Alike(client[c], clients[c])
  BY <1>5, CountedAlike, Unpack, Zenon
<1> HIDE DEF clients
<1>7. CASE code # "NONE" /\ Answered(clients, c, SyncError(code)) /\ UNCHANGED co
  BY <1>2, <1>4, <1>6, <1>7, SyncRefusedStep, SMTT(20)
<1>8. CASE code = "NONE" /\ co.state = "Stable" /\ UNCHANGED co
             /\ Answered(clients, c, SyncAnswer(co.assignment, c))
  BY <1>2, <1>4, <1>6, <1>8, SyncStableStep, SMTT(20)
<1>9. CASE code = "NONE" /\ co.state = "Completing" /\ step(m) = "Sync" /\ UNCHANGED co
             /\ client' = SyncHeld(c)
  BY <1>2, <1>3, <1>4, <1>9, SyncHeldStep, Zenon
<1>10. CASE /\ code = "NONE" /\ co.state = "Completing" /\ step(m) = "AssignAndSync"
            /\ LET a == Assign(m.pending_members, n)
               IN /\ co' = [co EXCEPT !.state = "Stable", !.assignment = a]
                  /\ Answered(Counted(SyncsAnswered(a), c, n), c, SyncAnswer(a, c))
  <2> DEFINE a == Assign(m.pending_members, n)
  <2>1. /\ co' = [co EXCEPT !.state = "Stable", !.assignment = a]
        /\ Answered(Counted(SyncsAnswered(a), c, n), c, SyncAnswer(a, c))
    BY <1>10, Zenon
  <2>2. /\ co.state = "Completing" /\ In(m, co) /\ m.state = "Syncing" /\ m.leader
        /\ n \in 1 .. MaxCount
    BY <1>3, <1>4, <1>5, <1>10, Zenon
  <2>3. a = Assign(m.pending_members, n)
    BY Zenon
  <2> HIDE DEF a
  <2> QED
    BY <1>2, <2>1, <2>2, <2>3, SyncLeaderStep, Zenon
<1> QED
  BY <1>1, <1>7, <1>8, <1>9, <1>10, ZenonT(30) DEF clients

(* Everyone has joined (CompleteJoin). *)
LEMMA CompleteStep ==
  ASSUME GroupInv, CompleteJoin
  PROVE  GroupInv'
<1>1. PICK leader \in IF co.leader \in DOMAIN co.members THEN {co.leader} ELSE DOMAIN co.members :
         LET g == [Preparing(co) EXCEPT !.state = "Completing",
                                        !.generation = @ + 1, !.leader = leader,
                                        !.assignment = [m \in DOMAIN co.members |-> {}]]
         IN /\ co' = g
            /\ \E order \in Orders(g) :
                 client' = [d \in Consumer |->
                              IF client[d].held = "Join"
                              THEN Handled(client[d], JoinAnswer(g, client[d].member.member_id, order))
                              ELSE client[d]]
  BY Zenon DEF CompleteJoin
<1> DEFINE p == Preparing(co)
           none == [m \in DOMAIN co.members |-> {}]
           g == [p EXCEPT !.state = "Completing", !.generation = @ + 1, !.leader = leader,
                          !.assignment = none]
<1>2. PICK order \in Orders(g) :
        client' = [d \in Consumer |->
                     IF client[d].held = "Join"
                     THEN Handled(client[d], JoinAnswer(g, client[d].member.member_id, order))
                     ELSE client[d]]
  BY <1>1, Zenon
<1>3. /\ co' = g /\ leader \in DOMAIN co.members /\ co.state = "Preparing"
      /\ \A m \in DOMAIN co.members : co.members[m].joined
      /\ UNCHANGED << protocol, coordinator, saved, committed, count, read >>
  BY <1>1, Zenon DEF CompleteJoin
<1>4. GroupOK(co, co.nextId) /\ co.nextId \in Nat
  BY Unpack, Zenon
<1>5. /\ DOMAIN p = Fields /\ DOMAIN p.members = DOMAIN co.members /\ p.nextId = co.nextId
      /\ p.pending = co.pending /\ p.generation = co.generation /\ co.generation \in Nat
      /\ p.members \in [DOMAIN co.members -> Seat]
      /\ \A m \in DOMAIN co.members : p.members[m].sub = co.members[m].sub /\ ~p.members[m].joined
  <2>1. DOMAIN co = Fields /\ co.members \in [DOMAIN co.members -> Seat] /\ co.generation \in Nat
    BY <1>4, Zenon DEF GroupOK, Fields, Seat
  <2>2. /\ DOMAIN p = Fields /\ p.nextId = co.nextId /\ p.pending = co.pending
        /\ p.generation = co.generation
        /\ p.members = [m \in DOMAIN co.members |-> [co.members[m] EXCEPT !.joined = FALSE]]
    BY <2>1, Zenon DEF Preparing, Fields
  <2>3. \A m \in DOMAIN co.members : /\ p.members[m] \in Seat /\ ~p.members[m].joined
                                     /\ p.members[m].sub = co.members[m].sub
    <3> SUFFICES ASSUME NEW m \in DOMAIN co.members
                 PROVE  /\ p.members[m] \in Seat /\ ~p.members[m].joined
                        /\ p.members[m].sub = co.members[m].sub
      BY Zenon
    <3> DEFINE s == co.members[m]
    <3>1. s \in Seat /\ p.members[m] = [s EXCEPT !.joined = FALSE]
      BY <2>1, <2>2, Zenon
    <3> HIDE DEF s, p
    <3>2. [s EXCEPT !.joined = FALSE] \in Seat
      BY <3>1, Zenon DEF Seat
    <3>3. [s EXCEPT !.joined = FALSE].joined = FALSE /\ [s EXCEPT !.joined = FALSE].sub = s.sub
      BY <3>1, Zenon DEF Seat
    <3> QED
      BY <3>1, <3>2, <3>3, Zenon DEF s
  <2> QED
    BY <2>1, <2>2, <2>3, Zenon
<1> HIDE DEF p
<1>6. /\ DOMAIN g = Fields /\ g.state = "Completing" /\ g.generation = co.generation + 1
      /\ g.leader = leader /\ g.nextId = co.nextId /\ g.pending = co.pending
      /\ g.members = p.members /\ g.assignment = none
  BY <1>5, Zenon DEF Fields
<1>7. Orders(g) = Orders(co)
  <2>1. {g.members[m].sub : m \in DOMAIN g.members} = {co.members[m].sub : m \in DOMAIN co.members}
    BY <1>5, <1>6, SMTT(20)
  <2> QED
    BY <2>1, Zenon DEF Orders
<1>8. order \in Seq(Claim)
  BY <1>2, <1>4, <1>7, OrderIs, ZenonT(30)
<1> HIDE DEF g, none
<1>9. ASSUME NEW d \in Consumer
      PROVE  Fine(client'[d], read) /\ Told(client[d], client'[d], leader, order)
  <2>1. CASE client[d].held # "Join"
    BY <1>2, <2>1, Unpack, Zenon DEF Told
  <2>2. CASE client[d].held = "Join"
    <3> DEFINE k == client[d]
               id == k.member.member_id
               told == IF id = g.leader THEN order ELSE <<>>
               m == on_join(k.member, "NONE", g.generation, id, g.leader, told)
               a == JoinAnswer(g, id, order)
    <3>1. k.member \in Member /\ Fine(k, read)
      BY Unpack, ZenonT(30) DEF Typed
    <3>2. id \in Nat /\ g.generation \in Nat /\ told \in Seq(Claim)
      BY <1>5, <1>6, <1>8, <3>1, SMTT(20) DEF Member
    <3>3. client'[d] = Handled(k, a)
      BY <1>2, <2>2, Zenon
    <3>4. a.call = "Join" /\ m = on_join(k.member, a.code, a.generation, a.id, a.leader, a.members)
      BY Zenon DEF JoinAnswer
    <3>5. id = g.leader => told = order
      BY ZenonT(30)
    <3> HIDE DEF a, told
    <3>6. /\ m \in Member /\ m.state = "Syncing" /\ m.member_id = id
          /\ m.leader <=> id = g.leader
          /\ m.leader => m.pending_members = told
      BY <3>1, <3>2, JoinTold, SMTT(20)
    <3> HIDE DEF m
    <3>7. Took(k, Handled(k, a), m, read)
      BY <3>1, <3>4, <3>6, HandledStep, Zenon
    <3> QED
      BY <1>6, <3>3, <3>5, <3>6, <3>7, ZenonT(30) DEF Took, Told
  <2> QED
    BY <2>1, <2>2, Zenon
<1>10. \A d \in Consumer : Told(client[d], client'[d], leader, order)
  BY <1>9, Zenon
<1>11. DOMAIN client' = Consumer /\ \A d \in Consumer : Fine(client'[d], read)
  BY <1>2, <1>9, ZenonT(30)
<1>12. Agreed(client', co', saved)
  <2>1. Opened(co, g, leader)
    BY <1>3, <1>5, <1>6, ZenonT(30) DEF Opened, none
  <2>2. Agreed(client, co, saved)
    BY Unpack, Zenon
  <2> QED
    BY <1>2, <1>3, <1>10, <2>1, <2>2, CompleteAgreed, Zenon
<1> QED
  BY <1>3, <1>11, <1>12, StepKeeps, Zenon DEF GroupInv

-----------------------------------------------------------------------------

(* The members, the coordinator and what was saved of the group agree in   *)
(* every state of any number of consumers, brokers, partitions and faults: *)
(* whoever was dropped, answered late, sent again or moved to another      *)
(* broker (group.rs, member.rs and consumer.rs).                           *)
THEOREM GroupInvariant == Spec => []GroupInv
<1>1. Init => GroupInv
  BY InitHolds, Zenon
<1>2. GroupInv /\ [Next]_vars => GroupInv'
  <2> SUFFICES ASSUME GroupInv, [Next]_vars
               PROVE  GroupInv'
    BY Zenon
  <2>1. ASSUME NEW c \in Consumer,
               \/ Subscribe(c) \/ (\E told \in BOOLEAN : Unsubscribe(c, told)) \/ Commit(c)
               \/ (\E fresh, auto \in BOOLEAN : Poll(c, fresh, auto)) \/ Heartbeat(c)
        PROVE  GroupInv'
    BY <2>1, SubscribeStep, UnsubscribeStep, CommitStep, PollStep, HeartbeatStep, Zenon
  <2>2. ASSUME NEW c \in Consumer,
               \/ Join(c) \/ Sync(c) \/ SendHeartbeat(c) \/ SendOffsets(c)
               \/ (\E S \in SUBSET Partition : Fetch(c, S))
               \/ ResolveFails(c) \/ CallFails(c) \/ SentAgain(c)
        PROVE  GroupInv'
    BY <2>2, JoinStep, SyncStep, SendHeartbeatStep, SendOffsetsStep, FetchStep, ResolveFailsStep,
       FailStep, Zenon
  <2>3. CASE CompleteJoin \/ (\E id \in DOMAIN co.members : Expire(id)) \/ MoveCoordinator
             \/ Loaded \/ Grow
    BY <2>3, CompleteStep, ExpireStep, MoveStep, LoadedStep, GrowStep, Zenon
  <2>4. CASE UNCHANGED vars
    BY <2>4, Zenon DEF GroupInv, vars
  <2> QED
    BY <2>1, <2>2, <2>3, <2>4, ZenonT(30) DEF Next
<1> QED
  BY <1>1, <1>2, PTL DEF Spec

(* No partition belongs to two stable members of the present generation:   *)
(* each has what the coordinator gave it (on_sync), ids are never shared,  *)
(* and the assignors give a partition once (assign_and_sync).              *)
THEOREM NeverTwoOwners == Spec => []OneOwner
<1>1. GroupInv => OneOwner
  <2> SUFFICES ASSUME GroupInv, NEW c \in Consumer, NEW d \in Consumer, c # d,
                      Current(c), Current(d), client[c].member.state = "Stable",
                      client[d].member.state = "Stable"
               PROVE  client[c].member.assignment \cap client[d].member.assignment = {}
    BY Zenon DEF OneOwner
  <2> DEFINE m == client[c].member
             n == client[d].member
  <2>1. Agreed(client, co, saved) /\ GroupOK(co, co.nextId)
    BY Unpack, Zenon
  <2>2. In(m, co) /\ In(n, co)
    BY Zenon DEF Current, In
  <2>3. m.assignment = co.assignment[m.member_id] /\ n.assignment = co.assignment[n.member_id]
    BY <2>1, <2>2, Zenon DEF Agreed, Agrees, Owns
  <2>4. m.member_id # NoId
    BY <2>1, <2>2, SMTT(20) DEF In, GroupOK, NoId
  <2>5. m.member_id # n.member_id
    BY <2>1, <2>4, OwnId, Zenon
  <2> QED
    BY <2>1, <2>2, <2>3, <2>5, ZenonT(40) DEF GroupOK, In
<1> QED
  BY <1>1, GroupInvariant, PTL

(* Between calls a stable member's positions are those of its assignment,  *)
(* whatever failed in the middle of advance_group.                         *)
THEOREM PositionsFollowAssignment == Spec => []PositionsAreAssignment
<1>1. GroupInv => PositionsAreAssignment
  BY Zenon DEF GroupInv, Fine, ClientOK, PositionsAreAssignment, Idle
<1> QED
  BY <1>1, GroupInvariant, PTL

(* Everything below a committed offset has been read by some poll (commit, *)
(* maybe_auto_commit): no handover, failure or resolution of a position    *)
(* lets the offsets run ahead of what was read.                            *)
THEOREM NothingCommittedUnread == Spec => []CommittedWasRead
<1>1. GroupInv => CommittedWasRead
  <2> SUFFICES ASSUME GroupInv
               PROVE  CommittedWasRead
    BY Zenon
  <2>1. DOMAIN committed = Partition /\ Covers(committed, read)
    BY Unpack, Zenon
  <2> QED
    BY <2>1, Zenon DEF CommittedWasRead, Covers
<1> QED
  BY <1>1, GroupInvariant, PTL

(* What a commit of a stable member may write. *)
LEMMA OwnerCommits ==
  ASSUME GroupInv, NEW c \in Consumer, client[c].pc = "idle", client[c].group,
         client[c].member.state = "Stable", CommitOffsets(c),
         NEW p \in Partition, committed'[p] # committed[p]
  PROVE  p \in co.assignment[client[c].member.member_id]
<1> DEFINE f == client[c].positions
<1>1. CommitCode(c) = "NONE" /\ committed' = Over(Stored(f), committed)
  BY Zenon DEF CommitOffsets
<1>2. In(client[c].member, co)
  <2>1. Rejected(c) = "NONE"
    BY <1>1, Zenon DEF CommitCode
  <2> QED
    BY <2>1, RejectedIs, Zenon
<1>3. DOMAIN f = client[c].member.assignment
  BY Unpack, Zenon DEF Fine, ClientOK
<1>4. client[c].member.assignment = co.assignment[client[c].member.member_id]
  BY <1>2, Unpack, Zenon DEF Agreed, Agrees, Owns
<1>5. DOMAIN committed = Partition
  BY Unpack, Zenon
<1>6. p \notin DOMAIN f => committed'[p] = committed[p]
  BY <1>1, <1>5, Zenon DEF Over, Stored
<1> QED
  BY <1>3, <1>4, <1>6, Zenon

(* A commit, asked for or automatic, writes only partitions the            *)
(* coordinator has given to the member that sends it (can_commit,          *)
(* commit_offsets).                                                        *)
THEOREM OnlyOwnersCommit == Spec => CommitByOwner
<1> DEFINE A == \A c \in Consumer :
                  Commit(c) \/ (\E fresh, auto \in BOOLEAN : Poll(c, fresh, auto)) =>
                    \A p \in Partition :
                      committed'[p] # committed[p] =>
                        p \in co.assignment[client[c].member.member_id]
<1>1. GroupInv => [A]_vars
  <2> SUFFICES ASSUME GroupInv, NEW c \in Consumer,
                      Commit(c) \/ (\E fresh, auto \in BOOLEAN : Poll(c, fresh, auto)),
                      NEW p \in Partition, committed'[p] # committed[p]
               PROVE  p \in co.assignment[client[c].member.member_id]
    BY Zenon
  <2>1. CASE Commit(c)
    <3>1. /\ client[c].pc = "idle" /\ client[c].group /\ client[c].member.state = "Stable"
          /\ CommitOffsets(c)
      BY <2>1, Zenon DEF Commit, Idle, MayCommit, can_commit
    <3> QED
      BY <3>1, OwnerCommits, Zenon
  <2>2. ASSUME NEW fresh \in BOOLEAN, NEW auto \in BOOLEAN, Poll(c, fresh, auto)
        PROVE  p \in co.assignment[client[c].member.member_id]
    <3> DEFINE k == CheckForExpansion(client[c], fresh)
    <3>1. client[c].pc = "idle" /\ MayCommit(k) /\ CommitOffsets(c)
      BY <2>2, Zenon DEF Poll, Idle, AutoCommit
    <3>2. k.group /\ k.member.state = "Stable"
      BY <3>1, Zenon DEF MayCommit, can_commit
    <3>3. client[c] \in Client /\ client[c].member \in Member
      BY Unpack, Zenon DEF Typed
    <3> DEFINE n == IF fresh THEN count ELSE client[c].known
               k1 == [client[c] EXCEPT !.known = n]
               m == IF Grown(client[c], fresh) /\ client[c].group THEN request_rejoin(k1.member)
                    ELSE k1.member
    <3>4. k = [k1 EXCEPT !.member = m]
      BY Zenon DEF CheckForExpansion, Refreshed
    <3>5. /\ k1.group = client[c].group /\ k1.member = client[c].member
          /\ DOMAIN k1 = DOMAIN client[c]
      BY <3>3, Zenon DEF Client
    <3> HIDE DEF k, k1
    <3>6. k.group = client[c].group /\ k.member = m
      BY <3>3, <3>4, <3>5, Zenon DEF Client
    <3>7. m.state = "Stable" => client[c].member.state = "Stable"
      <4>1. revoke_and_rejoin(client[c].member).state = "Unjoined"
        BY <3>3, RevokeLeaves, ZenonT(40) DEF Left
      <4> QED
        BY <3>5, <4>1, Zenon DEF request_rejoin
    <3> QED
      BY <3>1, <3>2, <3>6, <3>7, OwnerCommits, Zenon
  <2> QED
    BY <2>1, <2>2, Zenon
<1>2. Spec => [][A]_vars
  BY <1>1, GroupInvariant, PTL DEF Spec
<1> QED
  BY <1>2, Zenon DEF CommitByOwner
=============================================================================
