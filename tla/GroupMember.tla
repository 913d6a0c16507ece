---------------------------- MODULE GroupMember ----------------------------
(***************************************************************************)
(* One member of a consumer group: the classic protocol's state machine of *)
(* barnabas-core/src/member.rs, which holds no IO.  A member is a record   *)
(* with the fields of GroupMember (its group and topics never change in    *)
(* this client: nothing calls set_topics); the methods that change it are  *)
(* functions from records to records.                                      *)
(***************************************************************************)
EXTENDS Integers

NO_GENERATION == -1
NoId == 0    \* the empty member id; the coordinator hands out positive ones

MemberState == {"Unjoined", "Joining", "Syncing", "Stable"}
RebalanceProtocol == {"Eager", "Cooperative"}

(* GroupMember::new, with_protocol. *)
NewMember(protocol) ==
  [member_id |-> NoId, generation |-> NO_GENERATION, state |-> "Unjoined",
   assignment |-> {}, leader |-> FALSE, protocol |-> protocol, lost |-> {},
   pending_members |-> <<>>]

can_commit(m) == m.state = "Stable" /\ m.generation # NO_GENERATION

(* What the IO layer should do next. *)
step(m) ==
  CASE m.state \in {"Unjoined", "Joining"} -> "Join"
    [] m.state = "Syncing" /\ m.leader -> "AssignAndSync"
    [] m.state = "Syncing" /\ ~m.leader -> "Sync"
    [] m.state = "Stable" -> "Heartbeat"

(* Mutant: a member does not say what it has. *)
subscription_bare(m, topics) ==
  [member_id |-> m.member_id, topics |-> topics, owned |-> {}, generation |-> m.generation]

(* The claim a JoinGroup carries. *)
subscription(m, topics) ==
  [member_id |-> m.member_id, topics |-> topics, owned |-> m.assignment,
   generation |-> m.generation]

(* Back to the start.  An eager member gives up everything it has; a       *)
(* cooperative one gives up nothing until it is told what moved.           *)
revoke_and_rejoin(m) ==
  LET eager == m.protocol = "Eager"
  IN [m EXCEPT !.lost = IF eager THEN m.assignment ELSE {},
               !.assignment = IF eager THEN {} ELSE m.assignment,
               !.pending_members = <<>>,
               !.leader = FALSE,
               !.state = "Unjoined"]

request_rejoin(m) == IF m.state # "Unjoined" THEN revoke_and_rejoin(m) ELSE m

Forget(m) == revoke_and_rejoin([m EXCEPT !.member_id = NoId])

Fenced == {"UNKNOWN_MEMBER_ID", "FENCED_INSTANCE_ID"}
Moved == {"COORDINATOR_NOT_AVAILABLE", "NOT_COORDINATOR"}

(* JoinGroup answered.  members is empty unless this member leads. *)
on_join(m, code, generation, member_id, leader_id, members) ==
  CASE code = "NONE" ->
         [m EXCEPT !.member_id = member_id, !.generation = generation,
                   !.leader = (leader_id = member_id),
                   !.state = "Syncing",
                   !.pending_members = IF leader_id = member_id THEN members ELSE <<>>]
    [] code = "MEMBER_ID_REQUIRED" ->
         [m EXCEPT !.member_id = member_id, !.state = "Unjoined"]
    [] code \in Fenced -> Forget(m)
    [] code \in Moved \cup {"COORDINATOR_LOAD_IN_PROGRESS"} ->
         [m EXCEPT !.state = "Unjoined"]
    [] OTHER -> revoke_and_rejoin(m)

(* SyncGroup answered.  A cooperative member that is missing something it  *)
(* had goes straight back to join, its generation and the rest of its      *)
(* partitions kept.                                                        *)
on_sync(m, code, assigned) ==
  LET lost == IF m.protocol = "Cooperative" THEN m.assignment \ assigned ELSE {}
  IN CASE code = "NONE" ->
            [m EXCEPT !.lost = lost,
                      !.assignment = assigned,
                      !.state = IF lost = {} THEN "Stable" ELSE "Unjoined",
                      !.leader = IF lost = {} THEN @ ELSE FALSE,
                      !.pending_members = IF lost = {} THEN @ ELSE <<>>]
       [] code \in Fenced -> Forget(m)
       [] OTHER -> revoke_and_rejoin(m)

(* Heartbeat answered. *)
on_heartbeat(m, code) ==
  CASE code = "NONE" -> m
    [] code \in Fenced -> Forget(m)
    [] OTHER -> revoke_and_rejoin(m)

(* Whether an answer to a call sends the client back to find the           *)
(* coordinator (the FindCoordinator step the three handlers return).       *)
Rediscover(call, code) ==
  \/ code \in Moved
  \/ call = "Join" /\ code = "COORDINATOR_LOAD_IN_PROGRESS"
=============================================================================
