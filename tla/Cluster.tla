------------------------------ MODULE Cluster ------------------------------
(***************************************************************************)
(* The connections of one client: the pool of barnabas-client/src/         *)
(* cluster.rs, with Connection of barnabas-core/src/conn.rs on each of     *)
(* them, the calls made on it, the pipelined sends and their collection;   *)
(* and the cluster map of core metadata.rs.  The brokers are external.     *)
(*                                                                         *)
(* The client is single threaded: one call is in progress at a time.  A    *)
(* request is on the connection until the broker answers it, in order; its *)
(* answer is on the connection until somebody reads it.  Several rounds of *)
(* reading bytes are one step.                                             *)
(***************************************************************************)
EXTENDS Integers, Sequences, ErrorCodes

CONSTANTS Addr,       \* addresses of the brokers
          NoAddr,     \* no broker
          Bootstrap,  \* the addresses to begin with, in order
          MaxCount,   \* bound: partitions of the topic
          MaxRetries, \* attempts: MAX_RETRIES, MAX_LEADER_RETRIES, COORDINATOR_RETRIES
          MaxCalls,   \* bound: calls of the public interface
          MaxFaults,  \* bound: faults
          Faults,     \* the kinds of fault to look at
          Alone       \* those after which, and before which, no other is

ASSUME ClusterAssumption ==
  /\ NoAddr \notin Addr
  /\ Bootstrap \in Seq(Addr) /\ Bootstrap # << >>
  /\ MaxCount \in Nat \ {0} /\ MaxRetries \in Nat \ {0}
  /\ MaxCalls \in Nat /\ MaxFaults \in Nat

VARIABLES
  conns,      \* the pools: a connection, or none, for every slot
  call,       \* the call in progress
  controller, \* the brokers: who the controller is
  leader,     \* ... who leads the topic's partition
  count,      \* ... how many partitions the topic has, 0 if there is none
  view,       \* ... what each of them believes
  late,       \* ... requests received on connections that are gone
  silent,     \* ... those that have stopped answering
  abandoned,  \* history: slots with a request in flight nobody will take up
  made,       \* history: the calls whose CreateTopics made the topic
  calls,      \* calls of the public interface so far
  faults

poolVars == << conns, call, late, abandoned, calls >>
brokerVars == << controller, leader, count, view, silent, made >>

(* conns, and coordinator_conns: what goes to a coordinator has connections *)
(* of its own.                                                             *)
Slot == {"main", "coordinator"} \X Addr
Main(a) == << "main", a >>

(* The requests that only the controller carries out. *)
ControllerOps == {"CreateTopics", "DeleteTopics", "CreatePartitions"}

Fault(kind) ==
  /\ kind \in Faults
  /\ faults' = faults + (IF kind \in Alone THEN MaxFaults ELSE 1)
  /\ faults' <= MaxFaults

-----------------------------------------------------------------------------
(* Connection: a request is remembered in order; the answer read next must *)
(* be that of the oldest one, whose correlation id it has to carry.  The   *)
(* ids, of 32 bits, are only compared with those in flight: they are       *)
(* counted from zero whenever nothing is.                                  *)

(* A connection after its handshake; and none. *)
Fresh == [open |-> TRUE, in_flight |-> << >>, wire |-> << >>, back |-> << >>]
NoConn == [open |-> FALSE, in_flight |-> << >>, wire |-> << >>, back |-> << >>]

NewRequest(c, op, arg) ==
  [op |-> op, arg |-> arg, by |-> calls,
   id |-> IF c.in_flight = << >> THEN 0 ELSE c.in_flight[Len(c.in_flight)].id + 1]

request(c, r) == [c EXCEPT !.in_flight = Append(@, r), !.wire = Append(@, r)]

in_flight(s) == Len(conns[s].in_flight)

(* Mutant: the request answered is still awaited. *)
next_response_kept(c) == [c EXCEPT !.back = Tail(@)]

(* next_response, if the answer is the one expected. *)
next_response(c) == [c EXCEPT !.in_flight = Tail(@), !.back = Tail(@)]
Correlated(c) == Head(c.back).req.id = Head(c.in_flight).id

(* next_response when the frame or its header does not decode, or carries  *)
(* another id: the frame is consumed, its request stays in flight.  (Of a  *)
(* frame that is too long nothing is consumed, and whatever is read from   *)
(* the connection afterwards fails, as it does here.)                      *)
Unmatched(c) == [c EXCEPT !.back = Tail(@)]

(* Out of the pool.  What was written may still reach the broker, which    *)
(* matters if it changes something there.                                  *)
Unread(s) ==
  IF conns[s] = NoConn THEN {}
  ELSE {[at |-> s[2], req |-> r] :
          r \in {conns[s].wire[i] : i \in {j \in DOMAIN conns[s].wire :
                                            conns[s].wire[j].op \in ControllerOps}}}

Removed(S) ==
  /\ conns' = [s \in Slot |-> IF s \in S THEN NoConn ELSE conns[s]]
  /\ late' = late \cup UNION {Unread(s) : s \in S}
  /\ abandoned' = abandoned \ S

-----------------------------------------------------------------------------
(* Metadata. *)

NewMetadata == [controller |-> NoAddr, leader |-> NoAddr, count |-> 0]

(* update: what the answer does not know is kept as it was. *)
update(m, a) ==
  [controller |-> IF a.controller # NoAddr THEN a.controller ELSE m.controller,
   leader |-> IF a.count > 0 THEN a.leader ELSE m.leader,
   count |-> IF a.count > 0 THEN a.count ELSE m.count]

invalidate_controller(m) == [m EXCEPT !.controller = NoAddr]

-----------------------------------------------------------------------------
(* Calls.  A call ends in phase "done" with a result, for its caller to    *)
(* take up.                                                                *)

NoCall == [phase |-> "none"]
Failed(result) == [phase |-> "done", result |-> result]
Busy(s, op) == [phase |-> "done", result |-> "ConnectionBusy", slot |-> s, op |-> op]
Answered(answer) == [phase |-> "done", result |-> "Ok", answer |-> answer]

NotCalling == call.phase = "none"

(* Mutant: a request is written behind whatever is in flight. *)
MayUsePipelined(kind, s) == TRUE

(* A request and its answer need an idle connection; a send does not. *)
MayUse(kind, s) == kind = "send" \/ in_flight(s) = 0

(* Write the request on connection c of slot s, and wait if it is a call. *)
Write(kind, s, c, op, arg, attempt) ==
  LET r == NewRequest(c, op, arg)
  IN /\ conns' = [conns EXCEPT ![s] = request(c, r)]
     /\ call' = IF kind = "call"
                THEN [phase |-> "wait", slot |-> s, op |-> op, arg |-> arg,
                      attempt |-> attempt, asked |-> r]
                ELSE Answered(r)

Connecting(kind, s, op, arg, attempt) ==
  [phase |-> "connect", kind |-> kind, slot |-> s, op |-> op, arg |-> arg, attempt |-> attempt]

(* call_at, call_coordinator and send_at, the first attempt, with the      *)
(* connection there is.  A write that fails is repeated on a new one.      *)
Start(kind, s, op, arg) ==
  \/ /\ conns[s] = NoConn
     /\ call' = Connecting(kind, s, op, arg, 0)
     /\ UNCHANGED << conns, late, abandoned, faults >>
  \/ /\ conns[s] # NoConn /\ ~MayUse(kind, s)
     /\ call' = Busy(s, op)
     /\ UNCHANGED << conns, late, abandoned, faults >>
  \/ /\ conns[s] # NoConn /\ MayUse(kind, s)
     /\ Write(kind, s, conns[s], op, arg, 0)
     /\ UNCHANGED << late, abandoned, faults >>
  \/ /\ kind = "send" /\ conns[s] # NoConn
     /\ Fault("io")
     /\ Removed({s})
     /\ call' = Connecting(kind, s, op, arg, 1)

Pooled == {a \in Addr : conns[Main(a)] # NoConn}

(* call_any: any pooled connection, in no particular order; when there is  *)
(* none, the first bootstrap address that can be connected to.             *)
StartAny(op, arg) ==
  \/ \E a \in Pooled : Start("call", Main(a), op, arg)
  \/ /\ Pooled = {}
     /\ call' = [phase |-> "bootstrap", at |-> 1, op |-> op, arg |-> arg]
     /\ UNCHANGED << conns, late, abandoned, faults >>

(* Broker::connect ends with its handshake, which has no deadline: of a    *)
(* broker that stays silent it is awaited for ever.                        *)
ConnectingTo == IF call.phase = "bootstrap" THEN Bootstrap[call.at] ELSE call.slot[2]
ShakesHands == ConnectingTo \notin silent

(* any_broker_addr: an address connected to, or one that could not be. *)
BootstrapConnects ==
  /\ call.phase = "bootstrap" /\ ShakesHands
  /\ LET s == Main(Bootstrap[call.at])
     IN Write("call", s, Fresh, call.op, call.arg, 0)
  /\ UNCHANGED << late, abandoned, brokerVars, calls, faults >>

BootstrapFails ==
  /\ call.phase = "bootstrap"
  /\ Fault("connect")
  /\ call' = IF call.at < Len(Bootstrap) THEN [call EXCEPT !.at = @ + 1]
                                         ELSE Failed("Connect")
  /\ UNCHANGED << conns, late, abandoned, brokerVars, calls >>

(* broker_at.  The write after the handshake may still fail, a second and  *)
(* last time.                                                              *)
Connects ==
  /\ call.phase = "connect" /\ ShakesHands
  /\ \/ /\ Write(call.kind, call.slot, Fresh, call.op, call.arg, call.attempt)
        /\ UNCHANGED faults
     \/ /\ Fault("io")
        /\ call' = IF call.attempt = 0 THEN [call EXCEPT !.attempt = 1] ELSE Failed("Io")
        /\ UNCHANGED conns
  /\ UNCHANGED << late, abandoned, brokerVars, calls >>

ConnectFails ==
  /\ call.phase = "connect"
  /\ Fault("connect")
  /\ call' = Failed("Connect")
  /\ UNCHANGED << conns, late, abandoned, brokerVars, calls >>

(* recv: the answer that comes next on connection s.  One whose body does  *)
(* not decode is an error, and its request is done with; one that is not   *)
(* matched is an error and leaves its request in flight.  Either way the   *)
(* connection stays in the pool.                                           *)
recv(s, ok) ==
  LET c == conns[s]
  IN /\ c.back # << >>
     /\ \/ /\ Correlated(c)
           /\ conns' = [conns EXCEPT ![s] = next_response(c)]
           /\ IF ok THEN UNCHANGED faults ELSE Fault("codec")
           /\ UNCHANGED abandoned
        \/ /\ ~ok
           /\ conns' = [conns EXCEPT ![s] = Unmatched(c)]
           /\ IF Correlated(c) THEN Fault("codec") ELSE UNCHANGED faults
           /\ abandoned' = abandoned \cup {s}

Receives ==
  /\ call.phase = "wait"
  /\ \E ok \in BOOLEAN :
       /\ recv(call.slot, ok)
       /\ call' = IF ok THEN Answered(Head(conns[call.slot].back)) ELSE Failed("Codec")
  /\ UNCHANGED << late, brokerVars, calls >>

(* The socket fails: once more on a new connection, and only once. *)
Breaks ==
  /\ call.phase = "wait"
  /\ Fault("io")
  /\ Removed({call.slot})
  /\ call' = IF call.attempt = 0
             THEN Connecting("call", call.slot, call.op, call.arg, 1)
             ELSE Failed("Io")
  /\ UNCHANGED << brokerVars, calls >>

(* Mutant: silence is waited out. *)
DeadlinePassesNever(a) == a \notin silent /\ Fault("timeout")

(* Of a broker that still answers, slowness is a fault. *)
DeadlinePasses(a) == \/ a \in silent /\ UNCHANGED faults
                     \/ a \notin silent /\ Fault("timeout")

(* The deadline passes with nothing to read; with_timeout polls the work   *)
(* first.                                                                  *)
TimesOut ==
  /\ call.phase = "wait"
  /\ conns[call.slot].back = << >>
  /\ DeadlinePasses(call.slot[2])
  /\ Removed({call.slot})
  /\ call' = Failed("Timeout")
  /\ UNCHANGED << brokerVars, calls >>

-----------------------------------------------------------------------------
(* recv_many: what was sent to each of the addresses, all at once.  expect *)
(* is what the caller believes it is about to read.                        *)

StartCollect(expect) ==
  /\ call' = IF DOMAIN expect = {}
             THEN Answered("nothing")
             ELSE [phase |-> "collect", from |-> DOMAIN expect, expect |-> expect, failed |-> FALSE]
  /\ UNCHANGED << conns, late, abandoned, faults >>

Collected(a, failed) ==
  LET rest == call.from \ {a}
      bad == call.failed \/ failed
  IN call' = IF rest # {} THEN [call EXCEPT !.from = rest, !.failed = bad]
             ELSE IF bad THEN Failed("Fetch") ELSE Answered("fetched")

(* The connection goes back to the pool unless the socket failed or the    *)
(* deadline passed; one that is gone already is an error and not a wait.   *)
Collects(a) ==
  /\ call.phase = "collect" /\ a \in call.from
  /\ LET c == conns[Main(a)]
     IN \/ /\ c = NoConn
           /\ Collected(a, TRUE)
           /\ UNCHANGED << conns, late, abandoned, faults >>
        \/ \E ok \in BOOLEAN : recv(Main(a), ok) /\ Collected(a, ~ok) /\ UNCHANGED late
        \/ /\ c # NoConn
           /\ \/ Fault("io")
              \/ c.back = << >> /\ a \in silent /\ UNCHANGED faults
              \/ c.back = << >> /\ Fault("timeout")
           /\ Removed({Main(a)})
           /\ Collected(a, TRUE)
  /\ UNCHANGED << brokerVars, calls >>

(* The caller drops the future it awaits.  What was taken out of the pool  *)
(* goes with it; a request written by a call stays on its connection, as   *)
(* do the sends the caller has not recorded.                               *)
Abandon(unrecorded) ==
  LET taken == IF call.phase = "collect" THEN {Main(a) : a \in DOMAIN call.expect} ELSE {}
      left == IF call.phase = "wait" THEN {call.slot} ELSE {}
  IN /\ conns' = [s \in Slot |-> IF s \in taken THEN NoConn ELSE conns[s]]
     /\ late' = late \cup UNION {Unread(s) : s \in taken}
     /\ abandoned' = (abandoned \cup left \cup unrecorded) \ taken
     /\ call' = NoCall

-----------------------------------------------------------------------------
(* The brokers: external.  A connection's requests are answered in order;  *)
(* what was written on a connection that is gone may still be carried out. *)

(* A broker's view of the cluster lags behind; the controller's knowledge  *)
(* of the topics does not.                                                 *)
Code(a, r) ==
  CASE r.op \in ControllerOps /\ a # controller -> "NOT_CONTROLLER"
    [] r.op = "CreateTopics" /\ count > 0 -> "TOPIC_ALREADY_EXISTS"
    [] r.op \in {"DeleteTopics", "CreatePartitions", "DeleteRecords"} /\ count = 0
         -> "UNKNOWN_TOPIC_OR_PARTITION"
    [] r.op = "CreatePartitions" /\ r.arg <= count -> "INVALID_PARTITIONS"
    [] r.op = "DeleteRecords" /\ a # leader -> "NOT_LEADER_OR_FOLLOWER"
    [] r.op = "DescribeConfigs" /\ view[a].count = 0 -> "UNKNOWN_TOPIC_OR_PARTITION"
    [] OTHER -> "NONE"

NewCount(a, r) ==
  IF Code(a, r) # "NONE" \/ r.op \notin ControllerOps THEN count
  ELSE IF r.op = "DeleteTopics" THEN 0 ELSE r.arg

(* What a broker may answer instead, once it has carried the request out. *)
Trouble(op) ==
  CASE op \in ControllerOps -> "REQUEST_TIMED_OUT"
    [] op = "FindCoordinator" -> "COORDINATOR_NOT_AVAILABLE"
    [] op \in {"Group", "Offsets"} -> "NOT_COORDINATOR"
    [] op = "ListOffsets" -> "NOT_LEADER_OR_FOLLOWER"
    [] OTHER -> "NONE"

AnswerTo(a, r, code) ==
  [req |-> r, code |-> code, controller |-> view[a].controller, leader |-> leader,
   count |-> IF r.op = "Metadata" /\ r.arg = 0 THEN 0 ELSE view[a].count]

(* Metadata that names a missing topic may create it, if the brokers are   *)
(* set up that way.                                                        *)
AutoCreates(r) == r.op = "Metadata" /\ r.arg = 1 /\ count = 0 /\ Fault("auto")

CarriesOut(a, r) ==
  /\ \/ count' = NewCount(a, r) /\ UNCHANGED faults
     \/ count' = 1 /\ AutoCreates(r)
  /\ made' = IF r.op = "CreateTopics" /\ Code(a, r) = "NONE" THEN made \cup {r.by} ELSE made

Answers(s) ==
  /\ conns[s] # NoConn /\ conns[s].wire # << >> /\ s[2] \notin silent
  /\ LET r == Head(conns[s].wire)
         Answer(code) == conns' = [conns EXCEPT ![s].wire = Tail(@),
                                   ![s].back = Append(@, AnswerTo(s[2], r, code))]
     IN \/ Answer(Code(s[2], r)) /\ CarriesOut(s[2], r)
        \/ /\ Code(s[2], r) = "NONE" /\ Trouble(r.op) # "NONE" /\ Fault("code")
           /\ Answer(Trouble(r.op))
           /\ count' = NewCount(s[2], r)
           /\ made' = IF r.op = "CreateTopics" THEN made \cup {r.by} ELSE made
  /\ UNCHANGED << call, late, abandoned, controller, leader, view, silent, calls >>

AnswersLate(l) ==
  /\ l \in late
  /\ late' = late \ {l}
  /\ CarriesOut(l.at, l.req) \/ UNCHANGED << count, made, faults >>
  /\ UNCHANGED << conns, call, abandoned, controller, leader, view, silent, calls >>

(* There is no controller until another is elected, which knows that it    *)
(* is; the leader moves; a broker learns what is so; one stops answering.  *)
Elects ==
  /\ \/ controller # NoAddr /\ controller' = NoAddr /\ Fault("elect") /\ UNCHANGED view
     \/ /\ controller = NoAddr /\ UNCHANGED faults
        /\ \E c \in Addr : controller' = c /\ view' = [view EXCEPT ![c].controller = c]
  /\ UNCHANGED << poolVars, leader, count, silent, made >>

MovesLeader ==
  /\ \E a \in Addr \ {leader} : leader' = a
  /\ Fault("leader")
  /\ UNCHANGED << poolVars, controller, count, view, silent, made >>

Learns(a) ==
  /\ view[a] # [controller |-> controller, count |-> count]
  /\ view' = [view EXCEPT ![a] = [controller |-> controller, count |-> count]]
  /\ UNCHANGED << poolVars, controller, leader, count, silent, made, faults >>

FallsSilent(a) ==
  /\ a \notin silent /\ Fault("silent")
  /\ silent' = silent \cup {a}
  /\ UNCHANGED << poolVars, controller, leader, count, view, made >>

-----------------------------------------------------------------------------
(* Cluster::connect has connected to the first bootstrap address. *)
ClusterInit ==
  /\ conns = [s \in Slot |-> IF s = Main(Bootstrap[1]) THEN Fresh ELSE NoConn]
  /\ call = NoCall /\ late = {} /\ abandoned = {} /\ made = {}
  /\ controller = Bootstrap[Len(Bootstrap)] /\ leader = Bootstrap[1] /\ count \in 0 .. 1
  /\ view = [a \in Addr |-> [controller |-> controller, count |-> count]]
  /\ silent = {} /\ calls = 0 /\ faults = 0

ClientStep ==
  \/ BootstrapConnects \/ BootstrapFails \/ Connects \/ ConnectFails
  \/ Receives \/ Breaks \/ TimesOut \/ \E a \in Addr : Collects(a)

BrokerStep ==
  \/ \E s \in Slot : Answers(s)
  \/ \E l \in late : AnswersLate(l)
=============================================================================
