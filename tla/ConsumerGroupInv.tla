-------------------------- MODULE ConsumerGroupInv --------------------------
(***************************************************************************)
(* The inductive invariant of ConsumerGroup: what the members know of the  *)
(* group, what the coordinator knows of it, and what another broker would  *)
(* take over agree as far as ownership of partitions depends on it.        *)
(***************************************************************************)
EXTENDS ConsumerGroup

Generation == {NO_GENERATION} \cup Nat
Claim == [member_id : Nat, topics : {{1}}, owned : SUBSET Partition, generation : Generation]
Member ==
  [member_id : Nat, generation : Generation, state : MemberState, assignment : SUBSET Partition,
   leader : BOOLEAN, protocol : RebalanceProtocol, lost : SUBSET Partition,
   pending_members : Seq(Claim)]
Positions == UNION {[S -> Offset] : S \in SUBSET Partition}
Client ==
  [member : Member, group : BOOLEAN, cached : Broker \cup {NoBroker},
   announced_revoked : BOOLEAN, ever_assigned : BOOLEAN, positions : Positions,
   known : 0 .. MaxCount, pc : {"idle", "advance", "offsets", "fetch"},
   held : {"none", "Join", "Sync"}, steps : 0 .. MaxSteps - 1, changed : BOOLEAN]

(* A consumer by itself.  A call is held within advance; a stable member   *)
(* of a group has the positions of its assignment, unless it is about to   *)
(* ask for them.                                                           *)
ClientOK(k) ==
  /\ k \in Client
  /\ k.held # "none" => k.pc = "advance"
  /\ k.group /\ k.member.state = "Stable" /\ k.pc # "offsets"
       => DOMAIN k.positions = k.member.assignment

(* Everything below an offset has been read. *)
Covers(f, done) == \A p \in DOMAIN f : \A o \in 0 .. f[p] - 1 : << p, o >> \in done
Fine(k, done) == ClientOK(k) /\ Covers(k.positions, done)

(* A group as the coordinator keeps it: its members have sent claims of    *)
(* their own, no partition is given to two of them, nobody has joined      *)
(* anything unless a rebalance is in preparation.                          *)
GroupOK(g, nextId) ==
  /\ DOMAIN g = {"state", "generation", "leader", "nextId", "pending", "members", "assignment"}
  /\ g.state \in {"Empty", "Preparing", "Completing", "Stable"}
  /\ g.state = "Empty" <=> DOMAIN g.members = {}
  /\ g.generation \in Nat
  /\ DOMAIN g.members \subseteq 1 .. nextId - 1
  /\ g.members \in [DOMAIN g.members -> [sub : Claim, joined : BOOLEAN]]
  /\ \A m \in DOMAIN g.members : g.members[m].sub.member_id = m
  /\ g.assignment \in [DOMAIN g.members -> SUBSET Partition]
  /\ \A m, n \in DOMAIN g.members : m # n => g.assignment[m] \cap g.assignment[n] = {}
  /\ g.state # "Preparing" => \A m \in DOMAIN g.members : ~g.members[m].joined
  /\ g.state = "Completing" => g.leader \in DOMAIN g.members

(* A member of the generation g is in. *)
In(m, g) == m.member_id \in DOMAIN g.members /\ m.generation = g.generation

(* What g says member m owns, if it is of that generation, m knows. *)
Owns(m, g) == In(m, g) => m.assignment = g.assignment[m.member_id]

(* One consumer and the group: it joins while the coordinator waits for    *)
(* it; while the group waits for its leader, the leader knows it is and    *)
(* who the members are; a SyncGroup is held for a follower of the present  *)
(* generation; and a stable member is of a generation that has been saved, *)
(* and has what it was given.                                              *)
Agrees(k, g, sv) ==
  LET m == k.member
  IN /\ m.member_id \in DOMAIN g.members /\ g.members[m.member_id].joined =>
          m.state \notin {"Syncing", "Stable"}
     /\ g.state = "Completing" /\ m.state = "Syncing" /\ In(m, g) =>
          /\ m.leader <=> m.member_id = g.leader
          /\ m.leader => m.pending_members \in Orders(g)
     /\ k.held = "Sync" =>
          g.state = "Completing" /\ m.state = "Syncing" /\ ~m.leader /\ In(m, g)
     /\ m.state = "Stable" =>
          m.generation <= sv.generation /\ Owns(m, g) /\ Owns(m, sv)

(* The ids consumers have were handed out, each to one of them. *)
OwnIds(clients, nextId) ==
  LET id(c) == clients[c].member.member_id
  IN /\ \A c \in Consumer : id(c) \in 0 .. nextId - 1
     /\ \A c, d \in Consumer : c # d => id(c) # id(d) \/ id(c) = NoId

Agreed(clients, g, sv) ==
  /\ g.nextId \in Nat \ {0} /\ g.pending \subseteq 1 .. g.nextId - 1
  /\ GroupOK(g, g.nextId) /\ GroupOK(sv, g.nextId)
  /\ sv.state \in {"Stable", "Empty"} /\ sv.generation <= g.generation
  /\ g.state = "Completing" => sv.generation < g.generation
  /\ OwnIds(clients, g.nextId)
  /\ \A c \in Consumer : Agrees(clients[c], g, sv)

GroupInv ==
  /\ protocol \in RebalanceProtocol /\ coordinator \in Broker /\ count \in 1 .. MaxCount
  /\ read \subseteq Partition \X (0 .. MaxOffset - 1)
  /\ committed \in [Partition -> -1 .. MaxOffset] /\ Covers(committed, read)
  /\ DOMAIN client = Consumer
  /\ \A c \in Consumer : Fine(client[c], read)
  /\ Agreed(client, co, saved)
=============================================================================
