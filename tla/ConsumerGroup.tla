--------------------------- MODULE ConsumerGroup ---------------------------
(***************************************************************************)
(* Consumers sharing one group under the classic protocol: the calls of    *)
(* barnabas-client/src/group.rs (ClassicProtocol) and the way              *)
(* consumer.rs drives them from subscribe, poll, heartbeat, commit and     *)
(* unsubscribe.  The group coordinator is external.                        *)
(*                                                                         *)
(* A consumer is single threaded: it is in one call at a time, and blocked *)
(* while it waits for the coordinator, so nobody can tell when a request   *)
(* or its answer was on the way: one step sends, executes and handles the  *)
(* answer.  The coordinator holds JoinGroup and SyncGroup until the group  *)
(* is ready; the step that answers them is the coordinator's.              *)
(*                                                                         *)
(* One topic, 1.  Fetching is reduced to handing the next record of some   *)
(* of the partitions to the caller; ConsumerFetch models it.               *)
(***************************************************************************)
EXTENDS GroupMember, Assignors

CONSTANTS Consumer,
          Broker,
          NoBroker,    \* no coordinator known
          Protocols,   \* the rebalance protocols to look at
          MaxSteps,    \* MAX_STEPS of advance_group (20)
          StartCounts, \* partitions the topic may start with
          MaxCount,    \* bound: partitions of the topic
          MaxOffset,   \* bound: records per partition
          MaxCalls,    \* bound: calls of subscribe and unsubscribe
          MaxFaults,   \* bound: faults
          Faults       \* the kinds of fault to look at

ASSUME GroupAssumption ==
  /\ NoBroker \notin Broker
  /\ Protocols \subseteq RebalanceProtocol
  /\ MaxSteps \in Nat \ {0} /\ MaxCount \in Nat \ {0} /\ MaxOffset \in Nat
  /\ StartCounts \subseteq 1 .. MaxCount
  /\ MaxCalls \in Nat /\ MaxFaults \in Nat
  /\ Faults \subseteq {"lost", "expire", "move", "grow"}

VARIABLES
  protocol,    \* the assignor's rebalance protocol, the same for everyone
  client,      \* each consumer
  coordinator, \* the broker that coordinates the group
  loading,     \* it has taken the group over and has still to load it
  co,          \* what the coordinator knows of the group
  saved,       \* what another broker would take over
  committed,   \* the group's committed offsets
  count,       \* partitions of the topic
  read,        \* history: records a poll has taken, for its caller or lost with its error
  calls, faults

vars == << protocol, client, coordinator, loading, co, saved, committed, count, read,
           calls, faults >>

Partition == {1} \X (0 .. MaxCount - 1)
EARLIEST == -2          \* a position that ListOffsets has still to resolve
Offset == {EARLIEST} \cup (0 .. MaxOffset)
Empty == [p \in {} |-> EARLIEST]

(* ClassicProtocol, and the fields of Consumer that concern the group.     *)
(* pc says where a poll is: at a step of advance, at reading the offsets   *)
(* of a new assignment, or at the fetch; held is the call the coordinator  *)
(* is keeping.                                                             *)
NewClient ==
  [member |-> NewMember(protocol), group |-> FALSE, cached |-> NoBroker,
   announced_revoked |-> FALSE, ever_assigned |-> FALSE, positions |-> Empty,
   known |-> 0, pc |-> "idle", held |-> "none", steps |-> 0, changed |-> FALSE]

Init ==
  /\ protocol \in Protocols
  /\ client = [c \in Consumer |-> NewClient]
  /\ coordinator \in Broker /\ loading = FALSE
  /\ co = [state |-> "Empty", generation |-> 0, leader |-> NoId, nextId |-> 1,
           pending |-> {}, members |-> [m \in {} |-> {}],
           assignment |-> [m \in {} |-> {}]]
  /\ saved = co
  /\ committed = [p \in Partition |-> -1]
  /\ count \in StartCounts
  /\ read = {}
  /\ calls = 0 /\ faults = 0

-----------------------------------------------------------------------------
(* Mutant: a call that fails leaves its request behind. *)
ReturnHeld(k) == [k EXCEPT !.pc = "idle", !.steps = 0, !.changed = FALSE]

(* The end of a call of the consumer. *)
Return(k) == [k EXCEPT !.pc = "idle", !.held = "none", !.steps = 0, !.changed = FALSE]

Idle(c) == client[c].pc = "idle"

-----------------------------------------------------------------------------
(* advance, from the answer on: the announcement, and what advance_group   *)
(* makes of it.  k is the consumer with its member already stepped.        *)

(* Out of the loop. *)
EndAdvance(k) == [k EXCEPT !.pc = "fetch"]

(* Round the loop again, at most MAX_STEPS times. *)
Again(k) ==
  IF k.steps + 1 = MaxSteps THEN EndAdvance(k)
  ELSE [k EXCEPT !.steps = @ + 1, !.pc = "advance"]

Without(f, S) == [p \in DOMAIN f \ S |-> f[p]]
Over(f, g) == [x \in DOMAIN f \cup DOMAIN g |-> IF x \in DOMAIN f THEN f[x] ELSE g[x]]
Only(x, v) == [y \in {x} |-> v]

(* New partitions start where the group committed, or where reset says. *)
Install(k, offsets) ==
  EndAdvance([k EXCEPT !.positions = [p \in k.member.assignment |->
                                        IF p \in DOMAIN offsets THEN offsets[p] ELSE EARLIEST],
                       !.changed = TRUE])

(* Mutant: a smaller assignment looks the same. *)
AssignedWithin(k) ==
  LET stable == [k EXCEPT !.announced_revoked = FALSE, !.ever_assigned = TRUE]
  IN IF k.member.assignment \subseteq DOMAIN k.positions THEN EndAdvance(stable)
     ELSE [stable EXCEPT !.pc = "offsets"]

Assigned(k) ==
  LET stable == [k EXCEPT !.announced_revoked = FALSE, !.ever_assigned = TRUE]
  IN CASE DOMAIN k.positions = k.member.assignment -> EndAdvance(stable)
       [] DOMAIN k.positions # {} /\ k.member.assignment = {} -> Install(stable, Empty)
       [] OTHER -> [stable EXCEPT !.pc = "offsets"]

Revoked(k) ==
  Again([k EXCEPT !.announced_revoked = TRUE,
                  !.positions = Without(@, k.member.lost),
                  !.changed = @ \/ k.member.lost # {}])

Announce(k) ==
  IF k.member.state = "Stable" THEN Assigned(k)
  ELSE IF k.ever_assigned /\ ~k.announced_revoked THEN Revoked(k)
  ELSE Again(k)

(* ClassicProtocol::coordinator_addr: FindCoordinator is asked if the      *)
(* coordinator is not known.                                               *)
CoordinatorAddr(c) == IF client[c].cached = NoBroker THEN coordinator ELSE client[c].cached
Found(c) == [client EXCEPT ![c].cached = CoordinatorAddr(c)]

(* Mutant: the group is put back, the assignment not installed. *)
GroupKept(k) == Return(k)

(* An error return with the group out of the consumer: advance_group holds *)
(* it (self.group.take()) while it reads the offsets of a new assignment,  *)
(* and an error returns without putting it back.                           *)
GroupLost(k) == [Return(k) EXCEPT !.group = FALSE]

(* What an answer makes of consumer k: join, sync, heartbeat and the rest  *)
(* of advance; fetch_offsets and the rest of advance_group's loop.         *)
Handled(k, a) ==
  LET Stepped(m) ==
        Announce([k EXCEPT !.member = m, !.held = "none",
                           !.cached = IF Rediscover(a.call, a.code) THEN NoBroker ELSE @])
  IN CASE a.call = "Join" ->
            Stepped(on_join(k.member, a.code, a.generation, a.id, a.leader, a.members))
       [] a.call = "Sync" -> Stepped(on_sync(k.member, a.code, a.assigned))
       [] a.call = "Heartbeat" -> Stepped(on_heartbeat(k.member, a.code))
       [] a.call = "Offsets" ->
            IF a.code = "NONE" THEN Install(k, a.offsets) ELSE GroupLost(k)

(* The call failed for good: no coordinator, two broken connections, or a  *)
(* timeout.                                                                *)
Failed(k) == IF k.pc = "offsets" THEN GroupLost(k) ELSE Return(k)

-----------------------------------------------------------------------------
(* Faults are counted, by kind. *)
Fault(kind) == kind \in Faults /\ faults < MaxFaults /\ faults' = faults + 1

(* Answers. *)
JoinError(code, id) ==
  [call |-> "Join", code |-> code, generation |-> NO_GENERATION, id |-> id,
   leader |-> NoId, members |-> <<>>]
SyncError(code) == [call |-> "Sync", code |-> code, assigned |-> {}]
HeartbeatAnswer(code) == [call |-> "Heartbeat", code |-> code]

(* Consumer c's request has been executed and answered a.  The answer      *)
(* arrives; or it is lost, and the call fails, or call_coordinator sends   *)
(* the request again.                                                      *)
Answered(clients, c, a) ==
  \/ client' = [clients EXCEPT ![c] = Handled(@, a)] /\ UNCHANGED faults
  \/ client' = [clients EXCEPT ![c] = Failed(@)] /\ Fault("lost")
  \/ client' = [clients EXCEPT ![c].held = "none"] /\ Fault("lost")

-----------------------------------------------------------------------------
(* The coordinator, external. *)

(* Every SyncGroup being held is answered that a rebalance has begun. *)
SyncsReleased(clients) ==
  [d \in Consumer |-> IF clients[d].held = "Sync"
                      THEN Handled(clients[d], SyncError("REBALANCE_IN_PROGRESS"))
                      ELSE clients[d]]

(* A rebalance begins: everyone has to join again. *)
Preparing(g) ==
  [g EXCEPT !.state = "Preparing",
            !.members = [m \in DOMAIN g.members |-> [g.members[m] EXCEPT !.joined = FALSE]]]

(* The group without member id. *)
Removed(g, id) ==
  LET rest == [g EXCEPT !.members = Without(@, {id}), !.assignment = Without(@, {id}),
                        !.pending = @ \ {id}]
  IN IF id \notin DOMAIN g.members THEN rest
     ELSE IF DOMAIN rest.members = {} THEN [rest EXCEPT !.state = "Empty"]
     ELSE IF g.state = "Preparing" THEN rest
     ELSE Preparing(rest)

(* What the group's log keeps: the group when it is stable or empty. *)
Save == saved' = IF co'.state \in {"Stable", "Empty"} THEN co' ELSE saved

(* The checks every call but JoinGroup passes first. *)
Rejected(c) ==
  LET m == client[c].member
  IN IF CoordinatorAddr(c) # coordinator THEN "NOT_COORDINATOR"
     ELSE IF loading THEN "COORDINATOR_LOAD_IN_PROGRESS"
     ELSE IF m.member_id \notin DOMAIN co.members THEN "UNKNOWN_MEMBER_ID"
     ELSE IF m.generation # co.generation THEN "ILLEGAL_GENERATION"
     ELSE "NONE"

(* A completed JoinGroup, to member id; the leader is told the members in  *)
(* some order.                                                             *)
JoinAnswer(g, id, order) ==
  [call |-> "Join", code |-> "NONE", generation |-> g.generation, id |-> id,
   leader |-> g.leader, members |-> IF id = g.leader THEN order ELSE <<>>]

Orders(g) == Listings({g.members[m].sub : m \in DOMAIN g.members})

(* Everyone has joined: a new generation, and a leader if the old one went. *)
CompleteJoin ==
  /\ co.state = "Preparing"
  /\ \A m \in DOMAIN co.members : co.members[m].joined
  /\ \E leader \in IF co.leader \in DOMAIN co.members THEN {co.leader} ELSE DOMAIN co.members :
       LET g == [Preparing(co) EXCEPT !.state = "Completing",
                                      !.generation = @ + 1, !.leader = leader,
                                      !.assignment = [m \in DOMAIN co.members |-> {}]]
       IN /\ co' = g
          /\ \E order \in Orders(g) :
               client' = [d \in Consumer |->
                            IF client[d].held = "Join"
                            THEN Handled(client[d], JoinAnswer(g, client[d].member.member_id, order))
                            ELSE client[d]]
  /\ UNCHANGED << protocol, coordinator, loading, saved, committed, count, read, calls, faults >>

-----------------------------------------------------------------------------
(* What a caller does with an idle consumer. *)

(* Consumer::subscribe.  A membership there was is forgotten, and the      *)
(* coordinator not told.                                                   *)
Subscribe(c) ==
  /\ Idle(c)
  /\ calls < MaxCalls /\ calls' = calls + 1
  /\ client' = [client EXCEPT ![c] =
                  [NewClient EXCEPT !.group = TRUE, !.known = client[c].known]]
  /\ UNCHANGED << protocol, coordinator, loading, co, saved, committed, count, read, faults >>

(* ClassicProtocol::leave: LeaveGroup reaches the coordinator (told) or    *)
(* does not; a member without an id has nothing to leave.                  *)
Leave(c, told) ==
  LET id == client[c].member.member_id
  IN IF told /\ client[c].group /\ id # NoId /\ CoordinatorAddr(c) = coordinator /\ ~loading
     THEN Removed(co, id) ELSE co

(* Consumer::unsubscribe.  Either way the positions and the group are      *)
(* forgotten.                                                              *)
Unsubscribe(c, told) ==
  LET rest == IF co'.state = "Preparing" THEN SyncsReleased(client) ELSE client
  IN /\ Idle(c)
     /\ client[c].group \/ (told /\ DOMAIN client[c].positions # {})
     /\ calls < MaxCalls /\ calls' = calls + 1
     /\ IF told THEN UNCHANGED faults ELSE Fault("lost")
     /\ co' = Leave(c, told)
     /\ Save
     /\ client' = [rest EXCEPT ![c] = [NewClient EXCEPT !.known = client[c].known]]
     /\ UNCHANGED << protocol, coordinator, loading, committed, count, read >>

(* What the coordinator says to offsets: it takes those of the present     *)
(* generation until the next one begins to form.                           *)
CommitCode(c) ==
  IF Rejected(c) = "NONE" /\ co.state = "Completing"
  THEN "REBALANCE_IN_PROGRESS" ELSE Rejected(c)

(* Mutant: the offset after the next one to read. *)
StoredNext(f) == [p \in DOMAIN f |-> f[p] + 1]

(* An offset as fetch_offsets will see it: one below zero is none. *)
Stored(f) == [p \in DOMAIN f |-> IF f[p] < 0 THEN -1 ELSE f[p]]

(* commit_offsets, for a consumer that holds something: between            *)
(* assignments it refuses.                                                 *)
MayCommit(k) == k.group /\ DOMAIN k.positions # {} /\ can_commit(k.member)

CommitOffsets(c) ==
  committed' = IF CommitCode(c) = "NONE" THEN Over(Stored(client[c].positions), committed)
               ELSE committed

(* Consumer::commit, whatever becomes of the answer. *)
Commit(c) ==
  /\ Idle(c) /\ MayCommit(client[c])
  /\ CommitOffsets(c)
  /\ client' = Found(c)
  /\ UNCHANGED << protocol, coordinator, loading, co, saved, count, read, calls, faults >>

(* Mutant: an expansion is noted, nothing more. *)
ExpansionNoted(k, fresh) == IF fresh THEN [k EXCEPT !.known = count] ELSE k

(* refresh_if_stale: metadata that has gone stale is read again (a topic   *)
(* never read is stale); fresh says whether a read takes place and         *)
(* succeeds.  It reports whether the topic has grown.                      *)
Refreshed(k, fresh) == [k EXCEPT !.known = IF fresh THEN count ELSE @]
Grown(k, fresh) == fresh /\ k.known > 0 /\ count > k.known

(* check_for_expansion: a topic that grew makes the member rejoin. *)
CheckForExpansion(k, fresh) ==
  [Refreshed(k, fresh) EXCEPT
     !.member = IF Grown(k, fresh) /\ k.group THEN request_rejoin(@) ELSE @]

(* maybe_auto_commit, due or not: what the previous polls handed out. *)
AutoCommit(c, k, auto) ==
  IF auto THEN MayCommit(k) /\ CommitOffsets(c) ELSE UNCHANGED committed

(* Consumer::poll, up to membership: the metadata check, and the automatic *)
(* commit if it is due (auto).  A refused commit does not fail the poll, a *)
(* lost one does.  A consumer without a group only fetches.                *)
Poll(c, fresh, auto) ==
  LET k == CheckForExpansion(client[c], fresh)
      at == [k EXCEPT !.cached = IF auto THEN CoordinatorAddr(c) ELSE @]
  IN /\ Idle(c)
     /\ k.group \/ DOMAIN k.positions # {}
     /\ fresh => k.known # client[c].known
     /\ AutoCommit(c, k, auto)
     /\ \/ /\ client' = [client EXCEPT ![c] =
                            [at EXCEPT !.pc = IF k.group THEN "advance" ELSE "fetch"]]
           /\ UNCHANGED faults
        \/ auto /\ client' = [client EXCEPT ![c] = at] /\ Fault("lost")
     /\ UNCHANGED << protocol, coordinator, loading, co, saved, count, read, calls >>

(* Consumer::heartbeat: membership alone.  It is a poll that neither reads *)
(* metadata nor commits, and that fetches nothing.                         *)
Heartbeat(c) ==
  /\ Idle(c) /\ client[c].group
  /\ client' = [client EXCEPT ![c].pc = "advance"]
  /\ UNCHANGED << protocol, coordinator, loading, co, saved, committed, count, read, calls,
                  faults >>

-----------------------------------------------------------------------------
(* The calls: what pc says, to the coordinator the consumer knows. *)
Calling(c, pc) == client[c].pc = pc /\ client[c].held = "none"
Stepping(c, steps) == Calling(c, "advance") /\ step(client[c].member) \in steps

(* ClassicProtocol::join.  A member without an id is given one.  A known   *)
(* member whose subscription has not changed is told the present           *)
(* generation, unless it leads a stable group; anything else begins a      *)
(* rebalance, or takes part in one, and waits for it.                      *)
Join(c) ==
  LET m == client[c].member
      id == m.member_id
      sub == subscription(m, {1})
      member == id \in DOMAIN co.members \cup co.pending
      same == id \in DOMAIN co.members /\ co.members[id].sub = sub
      told == same /\ \/ co.state = "Completing"
                      \/ co.state = "Stable" /\ id # co.leader
      g == IF co.state = "Preparing" THEN co ELSE Preparing(co)
      there == CoordinatorAddr(c) = coordinator /\ ~loading
  IN /\ Stepping(c, {"Join"})
     /\ \/ /\ CoordinatorAddr(c) # coordinator
           /\ Answered(Found(c), c, JoinError("NOT_COORDINATOR", NoId))
           /\ UNCHANGED << co, saved >>
        \/ /\ CoordinatorAddr(c) = coordinator /\ loading
           /\ Answered(Found(c), c, JoinError("COORDINATOR_LOAD_IN_PROGRESS", NoId))
           /\ UNCHANGED << co, saved >>
        \/ /\ there /\ id = NoId
           /\ Answered(Found(c), c, JoinError("MEMBER_ID_REQUIRED", co.nextId))
           /\ co' = [co EXCEPT !.pending = @ \cup {co.nextId}, !.nextId = @ + 1]
           /\ UNCHANGED saved
        \/ /\ there /\ id # NoId /\ ~member
           /\ Answered(Found(c), c, JoinError("UNKNOWN_MEMBER_ID", NoId))
           /\ UNCHANGED << co, saved >>
        \/ /\ there /\ told
           /\ \E order \in Orders(co) : Answered(Found(c), c, JoinAnswer(co, id, order))
           /\ UNCHANGED << co, saved >>
        \/ /\ there /\ member /\ ~told
           /\ co' = [g EXCEPT !.members = Over(Only(id, [sub |-> sub, joined |-> TRUE]), @),
                              !.assignment = Over(@, Only(id, {})),
                              !.pending = @ \ {id}]
           /\ client' = [SyncsReleased(Found(c)) EXCEPT ![c].held = "Join"]
           /\ UNCHANGED << saved, faults >>
     /\ UNCHANGED << protocol, coordinator, loading, committed, count, read, calls >>

(* Cluster::partition_count: what is known, or read again if it is stale. *)
PartitionCount(k) == {k.known, count} \ {0}

Assign(members, n) ==
  IF protocol = "Eager" THEN RangeAssignor(members, Only(1, n))
  ELSE CooperativeStickyAssignor(members, Only(1, n))

(* What assignment a gives the member of consumer d, in the answer to its  *)
(* SyncGroup, and to those whose SyncGroup waits for it.                   *)
SyncAnswer(a, d) == [call |-> "Sync", code |-> "NONE", assigned |-> a[client[d].member.member_id]]
SyncsAnswered(a) ==
  [d \in Consumer |-> IF client[d].held = "Sync"
                      THEN Handled(client[d], SyncAnswer(a, d)) ELSE client[d]]

(* The leader has counted n partitions; a follower's SyncGroup is held. *)
Counted(clients, c, n) == [clients EXCEPT ![c].known = n, ![c].cached = CoordinatorAddr(c)]
SyncHeld(c) == [Found(c) EXCEPT ![c].held = "Sync"]

(* ClassicProtocol::sync and assign_and_sync.  The leader counts the       *)
(* partitions first, from metadata it reads again if they are stale.  Its  *)
(* assignment is everyone's answer.                                        *)
Sync(c) ==
  LET m == client[c].member
      code == IF Rejected(c) = "NONE" /\ co.state = "Preparing"
              THEN "REBALANCE_IN_PROGRESS" ELSE Rejected(c)
  IN /\ Stepping(c, {"Sync", "AssignAndSync"})
     /\ \E n \in IF step(m) = "Sync" THEN {client[c].known}
                  ELSE PartitionCount(client[c]) :
          \/ /\ code # "NONE"
             /\ Answered(Counted(client, c, n), c, SyncError(code))
             /\ UNCHANGED co
          \/ /\ code = "NONE" /\ co.state = "Stable"
             /\ Answered(Counted(client, c, n), c, SyncAnswer(co.assignment, c))
             /\ UNCHANGED co
          \/ /\ code = "NONE" /\ co.state = "Completing" /\ step(m) = "Sync"
             /\ client' = SyncHeld(c)
             /\ UNCHANGED << co, faults >>
          \/ /\ code = "NONE" /\ co.state = "Completing" /\ step(m) = "AssignAndSync"
             /\ LET a == Assign(m.pending_members, n)
                IN /\ co' = [co EXCEPT !.state = "Stable", !.assignment = a]
                   /\ Answered(Counted(SyncsAnswered(a), c, n), c, SyncAnswer(a, c))
     /\ Save
     /\ UNCHANGED << protocol, coordinator, loading, committed, count, read, calls >>

(* ClassicProtocol::heartbeat.  A coordinator that is loading says yes. *)
HeartbeatCode(c) ==
  CASE Rejected(c) = "COORDINATOR_LOAD_IN_PROGRESS" -> "NONE"
    [] Rejected(c) = "NONE" /\ co.state = "Preparing" -> "REBALANCE_IN_PROGRESS"
    [] OTHER -> Rejected(c)

SendHeartbeat(c) ==
  /\ Stepping(c, {"Heartbeat"})
  /\ Answered(Found(c), c, HeartbeatAnswer(HeartbeatCode(c)))
  /\ UNCHANGED << protocol, coordinator, loading, co, saved, committed, count, read, calls >>

(* ClassicProtocol::fetch_offsets. *)
SendOffsets(c) ==
  LET known == {p \in client[c].member.assignment : committed[p] >= 0}
  IN /\ Calling(c, "offsets")
     /\ Answered(Found(c), c,
          [call |-> "Offsets",
           code |-> CASE CoordinatorAddr(c) # coordinator -> "NOT_COORDINATOR"
                      [] CoordinatorAddr(c) = coordinator /\ loading -> "COORDINATOR_LOAD_IN_PROGRESS"
                      [] OTHER -> "NONE",
           offsets |-> [p \in known |-> committed[p]]])
     /\ UNCHANGED << protocol, coordinator, loading, co, saved, committed, count, read, calls >>

-----------------------------------------------------------------------------
(* The rest of advance_group and of poll.  Positions that came without an  *)
(* offset are resolved, but only if the assignment changed in this call;   *)
(* a poll then takes the next record of some partitions, S.  One that fails *)
(* does so too: an error ends it after it has advanced the positions of    *)
(* the answers it got to, whose records its caller never sees.  A position *)
(* left unresolved by an earlier failure is no offset: nothing is read     *)
(* there, and such polls fail.                                             *)

Unresolved(k) == {p \in DOMAIN k.positions : k.positions[p] = EARLIEST}

Resolved(k) ==
  IF k.changed
  THEN [k EXCEPT !.positions = [p \in DOMAIN @ |-> IF p \in Unresolved(k) THEN 0 ELSE @[p]]]
  ELSE k

(* The leader of a partition that is not known yet is looked up. *)
LookedUp(k) ==
  [k EXCEPT !.known = IF \E p \in DOMAIN k.positions : p[2] >= @ THEN count ELSE @]

Fetch(c, S) ==
  LET k == LookedUp(Resolved(client[c]))
      more == {p \in DOMAIN k.positions : k.positions[p] \in 0 .. MaxOffset - 1}
  IN /\ client[c].pc = "fetch"
     /\ S \subseteq more
     /\ client' = [client EXCEPT
                     ![c] = Return([k EXCEPT !.positions =
                              [p \in DOMAIN @ |-> IF p \in S THEN @[p] + 1 ELSE @[p]]])]
     /\ read' = read \cup {<< p, k.positions[p] >> : p \in S}
     /\ UNCHANGED << protocol, coordinator, loading, co, saved, committed, count, calls, faults >>

(* ListOffsets fails for one of them, those before it resolved already. *)
ResolveFails(c) ==
  LET k == client[c]
  IN /\ k.pc = "fetch" /\ k.changed
     /\ Fault("lost")
     /\ \E failing \in Unresolved(k) :
          client' = [client EXCEPT
                       ![c] = Return([k EXCEPT !.positions =
                                [p \in DOMAIN @ |-> IF p \in Unresolved(k) /\ Before(p, failing)
                                                    THEN 0 ELSE @[p]]])]
     /\ UNCHANGED << protocol, coordinator, loading, co, saved, committed, count, read, calls >>

-----------------------------------------------------------------------------
(* Faults, and what the cluster does by itself. *)

(* A request that was not sent, or is being held, fails. *)
CallFails(c) ==
  /\ client[c].pc \in {"advance", "offsets"}
  /\ Fault("lost")
  /\ client' = [client EXCEPT ![c] = Failed(@)]
  /\ UNCHANGED << protocol, coordinator, loading, co, saved, committed, count, read, calls >>

(* The connection breaks under a call being held, which is sent again. *)
SentAgain(c) ==
  /\ client[c].held # "none"
  /\ Fault("lost")
  /\ client' = [client EXCEPT ![c].held = "none"]
  /\ UNCHANGED << protocol, coordinator, loading, co, saved, committed, count, read, calls >>

(* The coordinator drops a member it has not heard from, or that did not   *)
(* join in time: a slow consumer (a fault), or an id nobody uses any more. *)
InUse == {client[c].member.member_id : c \in {d \in Consumer : client[d].group}}

Expire(id) ==
  /\ id \in DOMAIN co.members /\ ~loading
  /\ IF id \in InUse THEN ~co.members[id].joined /\ Fault("expire") ELSE UNCHANGED faults
  /\ co' = Removed(co, id)
  /\ client' = IF co'.state = "Preparing" THEN SyncsReleased(client) ELSE client
  /\ Save
  /\ UNCHANGED << protocol, coordinator, loading, committed, count, read, calls >>

(* The group moves to another broker, which has what was saved once it has *)
(* loaded it.  The calls being held are answered.                          *)
MoveCoordinator ==
  /\ Fault("move")
  /\ coordinator' \in Broker \ {coordinator} /\ loading' = TRUE
  /\ co' = [saved EXCEPT !.nextId = co.nextId, !.pending = {}]
  /\ client' = [c \in Consumer |->
                  CASE client[c].held = "Join" ->
                         Handled(client[c], JoinError("NOT_COORDINATOR", NoId))
                    [] client[c].held = "Sync" ->
                         Handled(client[c], SyncError("NOT_COORDINATOR"))
                    [] OTHER -> client[c]]
  /\ UNCHANGED << protocol, saved, committed, count, read, calls >>

Loaded ==
  /\ loading /\ loading' = FALSE
  /\ UNCHANGED << protocol, client, coordinator, co, saved, committed, count, read, calls,
                  faults >>

(* A partition is added to the topic. *)
Grow ==
  /\ Fault("grow")
  /\ count < MaxCount /\ count' = count + 1
  /\ UNCHANGED << protocol, client, coordinator, loading, co, saved, committed, read, calls >>

-----------------------------------------------------------------------------
Next ==
  \/ \E c \in Consumer :
       \/ Subscribe(c)
       \/ \E told \in BOOLEAN : Unsubscribe(c, told)
       \/ Commit(c)
       \/ \E fresh, auto \in BOOLEAN : Poll(c, fresh, auto)
       \/ Heartbeat(c)
       \/ Join(c) \/ Sync(c) \/ SendHeartbeat(c) \/ SendOffsets(c)
       \/ \E S \in SUBSET Partition : Fetch(c, S)
       \/ ResolveFails(c) \/ CallFails(c) \/ SentAgain(c)
  \/ CompleteJoin
  \/ \E id \in DOMAIN co.members : Expire(id)
  \/ MoveCoordinator \/ Loaded
  \/ Grow

Spec == Init /\ [][Next]_vars

(* A caller keeps polling; metadata goes stale again and again, and is     *)
(* read; calls are answered; polls come back and, where no position is     *)
(* unresolved, read some of the records there are again and again; the     *)
(* coordinator completes a join everyone has made, drops the ids nobody    *)
(* uses, and loads a group it took over.  Weak fairness of A is written    *)
(* <>[]CanA => []<><<A>>, and strong fairness []<>CanA => []<><<A>>: the   *)
(* condition that enables the action is spelled out, being long to         *)
(* evaluate otherwise.                                                     *)
CanPoll(c) == Idle(c) /\ (client[c].group \/ DOMAIN client[c].positions # {})
CanCall(c) == client[c].pc \in {"advance", "offsets"} /\ client[c].held = "none"
CanFetch(c) == client[c].pc = "fetch"
CanComplete ==
  co.state = "Preparing" /\ \A m \in DOMAIN co.members : co.members[m].joined
CanExpire == DOMAIN co.members \ InUse # {} /\ ~loading

(* What a poll that gets something reads. *)
Due(c, S) ==
  LET k == Resolved(client[c])
  IN Unresolved(k) = {} /\ (\E p \in DOMAIN k.positions : k.positions[p] < MaxOffset) => S # {}

Fairness ==
  /\ \A c \in Consumer :
       /\ <>[]CanPoll(c) => []<><<\E fresh, auto \in BOOLEAN : Poll(c, fresh, auto)>>_vars
       /\ []<>(CanPoll(c) /\ client[c].known # count) =>
            []<><<\E auto \in BOOLEAN : Poll(c, TRUE, auto)>>_vars
       /\ <>[]CanCall(c) => []<><<Join(c) \/ Sync(c) \/ SendHeartbeat(c) \/ SendOffsets(c)>>_vars
       /\ []<>CanFetch(c) => []<><<\E S \in SUBSET Partition : Due(c, S) /\ Fetch(c, S)>>_vars
  /\ <>[]CanComplete => []<><<CompleteJoin>>_vars
  /\ <>[]CanExpire => []<><<\E id \in DOMAIN co.members \ InUse : Expire(id)>>_vars
  /\ <>[]loading => []<><<Loaded>>_vars

FairSpec == Spec /\ Fairness

-----------------------------------------------------------------------------
(* Member c, as the coordinator would see a call of it now. *)
Current(c) ==
  /\ client[c].group
  /\ client[c].member.member_id \in DOMAIN co.members
  /\ client[c].member.generation = co.generation

(* No partition belongs to two stable members of the present generation,   *)
(* whichever members were dropped, moved or answered late on the way       *)
(* (on_join, on_sync, assign_and_sync).                                    *)
OneOwner ==
  \A c, d \in Consumer :
    c # d /\ Current(c) /\ Current(d)
      /\ client[c].member.state = "Stable" /\ client[d].member.state = "Stable"
    => client[c].member.assignment \cap client[d].member.assignment = {}

(* Between calls too a stable member's positions, which is what commit     *)
(* sends, are those of its assignment: no failure in the middle of         *)
(* advance_group leaves it stable with the positions of an earlier one.    *)
PositionsAreAssignment ==
  \A c \in Consumer :
    Idle(c) /\ client[c].group /\ client[c].member.state = "Stable"
    => DOMAIN client[c].positions = client[c].member.assignment

(* Everything below a committed offset has been read by a poll, whoever    *)
(* read it and whoever committed it (auto commit and commit): offsets      *)
(* never run ahead of the positions, through any handover.  That what a    *)
(* poll read reached its caller is another matter, which a failing poll    *)
(* does not keep.                                                          *)
CommittedWasRead ==
  \A p \in Partition : \A o \in 0 .. committed[p] - 1 : << p, o >> \in read

(* A commit changes only partitions the coordinator has given to the       *)
(* member that sends it: a member between assignments, one whose poll gave *)
(* up before membership had settled, or one that was dropped, never writes *)
(* over the next owner's offsets (can_commit).                             *)
CommitByOwner ==
  [][\A c \in Consumer :
       Commit(c) \/ (\E fresh, auto \in BOOLEAN : Poll(c, fresh, auto)) =>
         \A p \in Partition :
           committed'[p] # committed[p] => p \in co.assignment[client[c].member.member_id]]_vars

(* As long as nobody is dropped, a stable member and another member of the *)
(* present generation that has yet to hear what it must give up never hold *)
(* the same partition: it moves only once its owner has let go (the two    *)
(* rounds of the cooperative protocol).                                    *)
HandedOver ==
  \A c, d \in Consumer :
    c # d /\ Current(c) /\ Current(d) /\ client[c].member.state = "Stable"
    => client[c].member.assignment \cap client[d].member.assignment = {}

(* If anybody stays in the group, every partition of the topic is read to  *)
(* its end by a member that keeps it, those added later and those of       *)
(* members that failed or left included -- unless a ListOffsets failure    *)
(* has left that member a position unresolved, which nothing resolves      *)
(* until its assignment changes (advance_group).                           *)
AllRead ==
  <>[]((\E c \in Consumer : client[c].group) =>
         \A p \in {1} \X (0 .. count - 1) :
           \E c \in Consumer :
             /\ client[c].group /\ p \in DOMAIN client[c].positions
             /\ client[c].positions[p] = MaxOffset \/ Unresolved(client[c]) # {})
=============================================================================
