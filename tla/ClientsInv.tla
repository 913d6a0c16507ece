----------------------------- MODULE ClientsInv -----------------------------
(***************************************************************************)
(* Why every answer is read by the one who asked: the inductive invariant  *)
(* of Clients behind OwnAnswer.  Every request on a connection is claimed  *)
(* by exactly one party -- the call that waits for it, the prefetch that   *)
(* is recorded, the sends not yet recorded, the collection in progress --  *)
(* unless a dropped future or an unmatched answer has left one there; and  *)
(* a connection's answers and requests are in the order of what it has in  *)
(* flight.                                                                 *)
(***************************************************************************)
EXTENDS Clients

(* Types, no narrower than the argument needs. *)
Arg == Nat \cup Addr
MaybeAddr == Addr \cup {NoAddr}
Op == ControllerOps \cup {"Metadata", "FindCoordinator", "Group", "Offsets", "ListOffsets",
                          "Fetch", "DescribeConfigs", "DeleteRecords"}
AnyOp == Op \cup {"none", "describe_cluster", "describe_topic_config", "delete_records"}
AnyCode == {"NONE", "NOT_CONTROLLER", "TOPIC_ALREADY_EXISTS", "UNKNOWN_TOPIC_OR_PARTITION",
            "INVALID_PARTITIONS", "NOT_LEADER_OR_FOLLOWER", "REQUEST_TIMED_OUT",
            "COORDINATOR_NOT_AVAILABLE", "NOT_COORDINATOR"}
Request == [op : AnyOp, arg : Arg, by : Nat, id : Nat]
Answer == [req : Request, code : AnyCode, controller : MaybeAddr, leader : Addr, count : Arg]
Conn == [open : BOOLEAN, in_flight : Seq(Request), wire : Seq(Request), back : Seq(Answer)]

AdminState == [op : AnyOp, arg : Arg, attempt : Nat,
               step : {"idle", "controller", "control", "visible", "describe", "config",
                       "leader", "records"}]

Types ==
  /\ calls \in Nat /\ leader \in Addr /\ controller \in MaybeAddr /\ count \in Arg
  /\ view \in [Addr -> [controller : MaybeAddr, count : Arg]]
  /\ late \subseteq [at : Addr, req : Request]
  /\ admin \in AdminState
  /\ owner \in {"consumer", "admin"}

(* What is in flight ends with what was answered and not read, then what   *)
(* was not answered, in order.  Before them, lost of them: those whose     *)
(* answers were consumed without being matched.                            *)
Lost(f, b, w) == Len(f) - (Len(b) + Len(w))

InOrder(f, b, w) ==
  /\ Lost(f, b, w) >= 0
  /\ \A i \in 1 .. Len(b) : b[i].req = f[Lost(f, b, w) + i]
  /\ \A i \in 1 .. Len(w) : w[i] = f[Lost(f, b, w) + Len(b) + i]

Aligned(c) == InOrder(c.in_flight, c.back, c.wire)

Pool == /\ conns \in [Slot -> Conn]
        /\ \A s \in Slot : Aligned(conns[s])

-----------------------------------------------------------------------------
(* The call in progress belongs to what the client is at. *)

Doing(name) == todo # << >> /\ Head(todo)[1] = name

CallNames == {"discard", "receive", "send", "Metadata", "refresh", "FindCoordinator",
              "Group", "Offsets", "ListOffsets"}

Bootstrapping ==
  /\ call = [phase |-> "bootstrap", at |-> call.at, op |-> call.op, arg |-> call.arg]
  /\ call.at \in 1 .. Len(Bootstrap) /\ call.op \in AnyOp /\ call.arg \in Arg
  /\ \A a \in Addr : conns[Main(a)] = NoConn
  /\ ~Doing("send")

BeingConnected ==
  /\ call = Connecting(call.kind, call.slot, call.op, call.arg, call.attempt)
  /\ call.slot \in Slot /\ call.op \in AnyOp /\ call.arg \in Arg /\ call.attempt \in Nat
  /\ conns[call.slot] = NoConn
  /\ \/ call.kind = "call" /\ ~Doing("send")
     \/ /\ call.kind = "send" /\ call.op = "Fetch"
        /\ Doing("send") /\ outstanding = Nothing
        /\ call.arg \in Addr \ DOMAIN sent /\ call.slot = Main(call.arg)

Waiting ==
  /\ call.slot \in Slot /\ call.op \in AnyOp /\ call.arg \in Arg /\ call.attempt \in Nat
  /\ conns[call.slot].in_flight = << call.asked >>
  /\ \A a \in DOMAIN outstanding : call.slot # Main(a)
  /\ ~Doing("send")

(* The request is in flight, and alone unless something was left there. *)
Holds(a, r) ==
  /\ conns[Main(a)].in_flight # << >>
  /\ Main(a) \in abandoned \/ conns[Main(a)].in_flight = << r >>

Collecting ==
  /\ call = [phase |-> "collect", from |-> call.from, expect |-> call.expect,
             failed |-> call.failed]
  /\ call.from \subseteq DOMAIN call.expect /\ DOMAIN call.expect \subseteq Addr
  /\ \A a \in call.from : Holds(a, call.expect[a])
  /\ outstanding = Nothing /\ ~Doing("send")

(* A send that has returned and is not recorded yet. *)
JustSent == call.phase = "done" /\ Doing("send") /\ call.result = "Ok"

Sent ==
  /\ call.answer.arg \in Addr \ DOMAIN sent
  /\ Holds(call.answer.arg, call.answer)
  /\ outstanding = Nothing

Calling ==
  /\ call.phase \in {"none", "bootstrap", "connect", "wait", "collect", "done"}
  /\ owner = "consumer" /\ call.phase # "none" => todo # << >> /\ Head(todo)[1] \in CallNames
  /\ owner = "admin" => todo = << >>
  /\ call.phase = "bootstrap" => Bootstrapping
  /\ call.phase = "connect" => BeingConnected
  /\ call.phase = "wait" => Waiting
  /\ call.phase = "collect" => Collecting
  /\ JustSent => Sent

-----------------------------------------------------------------------------
(* Whose the requests in flight are. *)

Recorded ==
  /\ DOMAIN outstanding \subseteq Addr /\ DOMAIN sent \subseteq Addr
  /\ sent = Nothing \/ (outstanding = Nothing /\ Doing("send"))
  /\ \A a \in DOMAIN outstanding : Holds(a, outstanding[a])
  /\ \A a \in DOMAIN sent : Holds(a, sent[a])

Claimed(s) ==
  \/ call.phase = "wait" /\ s = call.slot
  \/ \E a \in Addr :
       /\ s = Main(a)
       /\ \/ a \in DOMAIN outstanding \/ a \in DOMAIN sent
          \/ call.phase = "collect" /\ a \in call.from
          \/ JustSent /\ a = call.answer.arg

Accounted == \A s \in Slot \ abandoned : conns[s].in_flight = << >> \/ Claimed(s)

(* Types, and: answers and requests stay in order on every connection, and *)
(* every request in flight is claimed by one party -- the call waiting,    *)
(* the prefetch recorded, a send not recorded yet, the collection -- or a  *)
(* dropped operation, or an answer that could not be read, has left it     *)
(* there.  This is what makes the busy check and the drains of the code    *)
(* enough for everything else.                                             *)
ClientInv == Types /\ Pool /\ Calling /\ Recorded /\ Accounted
=============================================================================
