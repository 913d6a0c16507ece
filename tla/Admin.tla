------------------------------- MODULE Admin -------------------------------
(***************************************************************************)
(* The admin client (barnabas-client/src/admin.rs) over the pool of        *)
(* Cluster: topics are created, deleted and grown at the controller, which *)
(* is looked up and may move; creating and growing return once the topic   *)
(* is visible; records are deleted at the leader.  One topic of one        *)
(* partition leader stands for all.                                        *)
(***************************************************************************)
EXTENDS Cluster

VARIABLES
  md,        \* Metadata: what the client knows of the cluster
  admin,     \* the operation: what it is, where it stands, its attempts
  outcome,   \* what the last operation returned
  seen,      \* history: the partitions a broker told this operation of
  deleted,   \* history: this client has asked for the topic's deletion
  unsettled  \* history: who the controller is was in doubt during the operation

adminVars == << md, admin, outcome, seen, deleted, unsettled >>
history == << seen, deleted, unsettled >>

Idle == [op |-> "none", arg |-> 0, step |-> "idle", attempt |-> 0]
LastAttempt == admin.attempt + 1 >= MaxRetries

AdminDue(step) == NotCalling /\ admin.step = step
AdminReturned(step) == call.phase = "done" /\ admin.step = step

To(step) == admin' = [admin EXCEPT !.step = step, !.attempt = 0] /\ UNCHANGED outcome
Again(step) == admin' = [admin EXCEPT !.step = step, !.attempt = @ + 1] /\ UNCHANGED outcome
Ends(result) == admin' = [admin EXCEPT !.step = "idle"] /\ outcome' = result

FirstStep(op) ==
  CASE op \in ControllerOps -> "controller"
    [] op = "describe_cluster" -> "describe"
    [] op = "describe_topic_config" -> "config"
    [] op = "delete_records" -> "leader"

AdminBegins(op, arg) ==
  /\ admin.step = "idle" /\ NotCalling /\ calls < MaxCalls
  /\ calls' = calls + 1
  /\ admin' = [op |-> op, arg |-> arg, step |-> FirstStep(op), attempt |-> 0]
  /\ outcome' = "none" /\ seen' = 0
  /\ deleted' = (deleted \/ op = "DeleteTopics")
  /\ unsettled' = (controller = NoAddr \/ \E a \in Addr : view[a].controller # controller)
  /\ UNCHANGED << conns, call, late, abandoned, brokerVars, faults, md >>

-----------------------------------------------------------------------------
(* controller_call. *)

(* controller_addr: known, or asked of any broker. *)
controller_addr ==
  /\ AdminDue("controller") /\ md.controller = NoAddr
  /\ StartAny("Metadata", 0)
  /\ UNCHANGED << brokerVars, calls, adminVars >>

controller_looked_up ==
  /\ AdminReturned("controller")
  /\ IF call.result # "Ok" THEN Ends(call.result) /\ UNCHANGED md
     ELSE /\ md' = update(md, call.answer)
          /\ IF md'.controller # NoAddr THEN UNCHANGED << admin, outcome >>
             ELSE IF LastAttempt THEN Ends("Missing") ELSE Again("controller")
  /\ UNCHANGED history

call_controller ==
  /\ AdminDue("controller") /\ md.controller \in Addr
  /\ Start("call", Main(md.controller), admin.op, admin.arg)
  /\ admin' = [admin EXCEPT !.step = "control"]
  /\ UNCHANGED << brokerVars, calls, md, outcome, history >>

(* Mutant: the controller is asked again without forgetting it. *)
not_controller_remembered == UNCHANGED md

not_controller == md' = invalidate_controller(md)

(* Mutant: a topic that exists already will do. *)
AcceptedAlready(code) == code \in {"NONE", "TOPIC_ALREADY_EXISTS"}

Accepted(code) == code = "NONE"

controller_answered ==
  /\ AdminReturned("control")
  /\ IF call.result # "Ok" THEN Ends(call.result) /\ UNCHANGED md
     ELSE LET code == call.answer.code
          IN IF Accepted(code)
             THEN /\ IF admin.op = "DeleteTopics" THEN Ends("Ok") ELSE To("visible")
                  /\ UNCHANGED md
             ELSE IF code = "NOT_CONTROLLER"
             THEN /\ not_controller
                  /\ IF LastAttempt THEN Ends("NOT_CONTROLLER") ELSE Again("controller")
             ELSE /\ IF disposition(code) = "Retry" /\ ~LastAttempt
                     THEN Again("controller") ELSE Ends(code)
                  /\ UNCHANGED md
  /\ UNCHANGED history

(* create_topics and create_partitions return when the partitions are      *)
(* visible; a refresh that fails is only an attempt.                       *)
await_visible ==
  /\ AdminDue("visible")
  /\ StartAny("Metadata", 1)
  /\ UNCHANGED << brokerVars, calls, adminVars >>

visible ==
  /\ AdminReturned("visible")
  /\ IF call.result = "Ok"
     THEN md' = update(md, call.answer) /\ seen' = call.answer.count
     ELSE UNCHANGED << md, seen >>
  /\ IF md'.count >= admin.arg THEN Ends("Ok")
     ELSE IF LastAttempt THEN Ends("NoLeader") ELSE Again("visible")
  /\ UNCHANGED << deleted, unsettled >>

-----------------------------------------------------------------------------
describe_cluster ==
  /\ AdminDue("describe")
  /\ StartAny("Metadata", 0)
  /\ UNCHANGED << brokerVars, calls, adminVars >>

described ==
  /\ AdminReturned("describe")
  /\ IF call.result = "Ok" THEN md' = update(md, call.answer) ELSE UNCHANGED md
  /\ Ends(call.result)
  /\ UNCHANGED history

(* A topic not yet known to the broker asked is waited for. *)
describe_topic_config ==
  /\ AdminDue("config")
  /\ StartAny("DescribeConfigs", 0)
  /\ UNCHANGED << brokerVars, calls, adminVars >>

configured ==
  /\ AdminReturned("config")
  /\ IF call.result # "Ok" THEN Ends(call.result)
     ELSE IF disposition(call.answer.code) = "RefreshMetadata" /\ ~LastAttempt
          THEN Again("config")
     ELSE Ends(IF call.answer.code = "NONE" THEN "Ok" ELSE call.answer.code)
  /\ UNCHANGED << md, history >>

(* delete_records: at the leader the client knows of, asking if it knows   *)
(* of none; a leader that has moved is not forgotten.                      *)
leader_addr ==
  /\ AdminDue("leader") /\ md.leader = NoAddr
  /\ StartAny("Metadata", 1)
  /\ UNCHANGED << brokerVars, calls, adminVars >>

leader_looked_up ==
  /\ AdminReturned("leader")
  /\ IF call.result # "Ok" THEN Ends(call.result) /\ UNCHANGED md
     ELSE /\ md' = update(md, call.answer)
          /\ IF md'.leader = NoAddr THEN Ends("NoLeader") ELSE UNCHANGED << admin, outcome >>
  /\ UNCHANGED history

delete_records ==
  /\ AdminDue("leader") /\ md.leader \in Addr
  /\ Start("call", Main(md.leader), "DeleteRecords", 0)
  /\ admin' = [admin EXCEPT !.step = "records"]
  /\ UNCHANGED << brokerVars, calls, md, outcome, history >>

records_deleted ==
  /\ AdminReturned("records")
  /\ Ends(IF call.result # "Ok" THEN call.result
          ELSE IF call.answer.code = "NONE" THEN "Ok" ELSE call.answer.code)
  /\ UNCHANGED << md, history >>

-----------------------------------------------------------------------------
AdminCallReturns ==
  /\ \/ controller_looked_up \/ controller_answered \/ visible
     \/ described \/ configured \/ leader_looked_up \/ records_deleted
  /\ call' = NoCall
  /\ UNCHANGED << conns, late, abandoned, brokerVars, calls, faults >>

AdminCancels ==
  /\ admin.step # "idle" /\ Fault("cancel")
  /\ Abandon({})
  /\ Ends("Cancelled")
  /\ UNCHANGED << brokerVars, calls, md, history >>

(* A new client where there is no topic, or one that has used it. *)
AdminInit ==
  /\ md = IF count = 0 THEN NewMetadata
          ELSE [controller |-> controller, leader |-> leader, count |-> count]
  /\ admin = Idle /\ outcome = "none"
  /\ seen = 0 /\ deleted = FALSE /\ unsettled = FALSE

AdminStep ==
  \/ controller_addr \/ call_controller \/ await_visible \/ describe_cluster
  \/ describe_topic_config \/ leader_addr \/ delete_records \/ AdminCallReturns
=============================================================================
