------------------------------ MODULE Clients ------------------------------
(***************************************************************************)
(* A consumer, or an admin client, over its own pool of connections.  Each *)
(* client has a pool of its own, so the two never meet: which of them it   *)
(* is, is chosen at the beginning.                                         *)
(***************************************************************************)
EXTENDS ConsumerCalls, Admin

VARIABLE owner

vars == << conns, call, late, abandoned, calls, brokerVars, faults, consumerVars, adminVars, owner >>

Init ==
  /\ ClusterInit /\ ConsumerInit /\ AdminInit
  /\ owner \in {"consumer", "admin"}
  \* a consumer's calls tell nothing of this apart
  /\ owner = "consumer" => count = 1
  /\ owner = "admin" => ~subscribed

(* Between two awaits the client runs undisturbed: what others do can only *)
(* be told apart while it waits, or while no operation is in progress.     *)
Awaiting ==
  \/ call.phase \in {"bootstrap", "connect", "wait", "collect"}
  \/ todo = << >> /\ admin.step = "idle"

Step ==
  \/ owner = "consumer" /\ ConsumerStep /\ UNCHANGED adminVars
  \/ owner = "admin" /\ AdminStep /\ UNCHANGED consumerVars
  \/ ClientStep /\ UNCHANGED << consumerVars, adminVars >>

ConsumerBegins == owner = "consumer" /\ (\E op \in Operation : Begin(op)) /\ UNCHANGED adminVars

AdminBegin ==
  /\ owner = "admin"
  /\ \/ \E n \in 1 .. MaxCount - 1 : AdminBegins("CreateTopics", n)
     \/ \E n \in 2 .. MaxCount : AdminBegins("CreatePartitions", n)
     \/ \E op \in {"DeleteTopics", "describe_cluster", "describe_topic_config", "delete_records"} :
          AdminBegins(op, 0)
  /\ UNCHANGED consumerVars

Dropped ==
  /\ Awaiting
  /\ \/ owner = "consumer" /\ Cancels /\ UNCHANGED adminVars
     \/ owner = "admin" /\ AdminCancels /\ UNCHANGED consumerVars

Brokers == Awaiting /\ BrokerStep /\ UNCHANGED << consumerVars, adminVars >>

Environment ==
  /\ Awaiting
  /\ \/ owner = "consumer" /\ Ages /\ UNCHANGED adminVars
     \/ (\E a \in Addr : FallsSilent(a)) /\ UNCHANGED << consumerVars, adminVars >>
     \/ /\ owner = "admin"
        /\ \/ Elects /\ unsettled' = TRUE
           \/ (MovesLeader \/ \E a \in Addr : Learns(a)) /\ UNCHANGED unsettled
        /\ UNCHANGED << consumerVars, md, admin, outcome, seen, deleted >>

Next == (Step \/ ConsumerBegins \/ AdminBegin \/ Dropped \/ Brokers \/ Environment) /\ UNCHANGED owner

Spec == Init /\ [][Next]_vars

(* The runtime goes on polling the operation's future, and brokers that    *)
(* have not fallen silent answer what they are asked: one or the other     *)
(* goes on as long as either can.                                          *)
Progress ==
  \/ Step
  \/ Awaiting /\ (\E s \in Slot : Answers(s)) /\ UNCHANGED << consumerVars, adminVars >>

FairSpec == Spec /\ WF_vars(Progress /\ UNCHANGED owner)

-----------------------------------------------------------------------------
(* What is read next is the answer to what was asked: of a call, always;   *)
(* of a prefetched Fetch, unless a request was left on that connection, by *)
(* an operation that was dropped or an answer that could not be read.      *)
(* Whatever was refused, timed out, or left for later in between, no       *)
(* answer is taken for another (the busy check of call_at_with_timeout,    *)
(* the connections call_at and recv_many drop, and discard_outstanding).   *)
OwnAnswer ==
  /\ call.phase = "wait" =>
       LET c == conns[call.slot]
       IN c.back # << >> => Head(c.back).req = call.asked /\ Correlated(c)
  /\ call.phase = "collect" => \A a \in call.from :
       LET c == conns[Main(a)]
       IN /\ c # NoConn
          /\ Main(a) \notin abandoned /\ c.back # << >> =>
               Head(c.back).req = call.expect[a] /\ Correlated(c)

(* ConnectionBusy has two causes.  The lookup of the coordinator or of a   *)
(* partition count takes a connection that holds the prefetch, without     *)
(* draining it first; or a request was left on the connection, by an       *)
(* operation that was dropped or an answer whose frame or header did not   *)
(* decode.  Every other request finds its connection idle.                 *)
BusyOnlyBehindLeftover ==
  call.phase = "done" /\ call.result = "ConnectionBusy" =>
    \/ call.slot \in abandoned
    \/ /\ owner = "consumer"
       /\ call.slot[1] = "main" /\ call.slot[2] \in DOMAIN outstanding
       /\ Head(todo)[1] \in {"FindCoordinator", "Metadata"}

(* create_topics answers Ok only if its own request made the topic, and    *)
(* it and create_partitions only once a broker has shown them that many    *)
(* partitions -- unless this client has deleted the topic before, whose    *)
(* count is then still in its metadata.                                    *)
CreatedAndVisible ==
  admin.step = "idle" /\ outcome = "Ok" =>
    /\ admin.op = "CreateTopics" => calls \in made
    /\ admin.op \in {"CreateTopics", "CreatePartitions"} /\ ~deleted => seen >= admin.arg

(* An operation gives up on the controller only if there was a doubt while *)
(* it ran about who that is: a controller that moved before is found.      *)
SettledSucceeds ==
  admin.step = "idle" /\ outcome \in {"NOT_CONTROLLER", "Missing"} => unsettled

(* Every operation returns, or hangs in the handshake of a broker that     *)
(* accepts connections and is silent, where Broker::connect sets no        *)
(* deadline.  Broken connections, refusals and retries do not keep it, nor *)
(* brokers that fall silent once connected.                                *)
Operating == todo # << >> \/ admin.step # "idle"
Hanging == call.phase \in {"bootstrap", "connect"} /\ ~ShakesHands
Returns == Operating ~> (~Operating \/ Hanging)

(* As the tests have it, it returns whatever a broker does.                *)
(* adversarial.rs:358: "A broker that never answers must not hang the      *)
(* caller."                                                                *)
NeverHangs == Operating ~> ~Operating
=============================================================================
