--------------------------- MODULE ConsumerCalls ---------------------------
(***************************************************************************)
(* Which requests the operations of a consumer put on which connection,    *)
(* and in which order (barnabas-client/src/consumer.rs, and group.rs for   *)
(* the membership), over the pool of Cluster.  The prefetched Fetch stays  *)
(* on its connections between two operations.                              *)
(*                                                                         *)
(* todo is what is left of the operation: calls, and the functions that    *)
(* unfold into calls.  What decides between the ways a function can go,    *)
(* and is not about connections (the state of the membership, positions,   *)
(* intervals), is a choice.                                                *)
(***************************************************************************)
EXTENDS Cluster

CONSTANT MaxSteps \* MAX_STEPS of advance_group

VARIABLES
  todo,        \* what is left of the operation: << function, attempt or addresses >>
  outstanding, \* what was sent and not read: address |-> Fetch
  sent,        \* issue_fetch's own record of it, until it returns
  coordinator, \* the group's coordinator, if known
  subscribed,  \* there is a group
  stale        \* the topic's metadata is older than its maximum age

consumerVars == << todo, outstanding, sent, coordinator, subscribed, stale >>

Nothing == [a \in {} |-> 0]

Do(names) == [i \in 1 .. Len(names) |-> << names[i], 0 >>]

-----------------------------------------------------------------------------
(* The operations and the functions they call. *)

(* Mutant: the prefetch is left where it is. *)
check_for_expansion_undrained == IF stale THEN Do(<< "refresh" >>) ELSE << >>

(* Only metadata past its age is read again, behind the prefetch. *)
check_for_expansion == IF stale THEN Do(<< "discard", "refresh" >>) ELSE << >>

(* Not sent by a member that may not commit, or has nothing to; committed  *)
(* goes the same way.                                                      *)
commit == IF subscribed
          THEN {Do(<< "discard" >>), Do(<< "discard", "coordinator_addr", "Offsets" >>)}
          ELSE {Do(<< "discard" >>)}

(* A refusal of the coordinator is passed over (1), unlike commit's. *)
maybe_auto_commit ==
  {<< >>, Do(<< "discard" >>),
   Do(<< "discard", "coordinator_addr" >>) \o << << "Offsets", 1 >> >>}

(* The group is given up first; what the coordinator makes of it is        *)
(* passed over.  It is not told of a member that never joined.             *)
unsubscribe ==
  IF subscribed
  THEN {Do(<< "discard", "no_group" >>),
        Do(<< "discard", "no_group", "coordinator_addr" >>) \o << << "Offsets", 1 >> >>}
  ELSE {Do(<< "discard" >>)}

coordinator_addr == IF coordinator = NoAddr THEN Do(<< "FindCoordinator" >>) ELSE << >>

(* A step of the membership: a heartbeat, a join or a sync; the leader     *)
(* counts the partitions first.                                            *)
advance == {Do(<< "coordinator_addr", "Group" >>),
            Do(<< "partition_count", "coordinator_addr", "Group" >>)}

partition_count == IF stale THEN Do(<< "Metadata" >>) ELSE << >>

(* Steps until the membership settles, or too many of them.  The group is  *)
(* taken out of the consumer for a step, up to "settle" or "put_back".     *)
advance_group(n) == {Do(<< "advance" >>) \o << << "settle", n >> >>}

(* A new assignment has its committed offsets read, and what has none      *)
(* looked up.                                                              *)
settle(n) ==
  LET settled == {<< >>,
                  Do(<< "coordinator_addr", "Offsets", "put_back" >>),
                  Do(<< "coordinator_addr", "Offsets", "put_back", "list_offset" >>)}
  IN (IF coordinator = NoAddr THEN {} ELSE settled)
     \cup {IF n + 1 < MaxSteps THEN << << "advance_group", n + 1 >> >> ELSE << >>}

(* An election is waited for with more of the same. *)
list_offset == {Do(<< "discard" >>) \o l \o Do(<< "ListOffsets" >>) : l \in {<< >>, Do(<< "Metadata" >>)}}

(* One request per leader. *)
list_offsets_many == list_offset \cup {o \o Do(<< "ListOffsets" >>) : o \in list_offset}

(* leader_addr asks for what it does not know; then a send per leader. *)
issue_fetch ==
  {l \o << << "send", S >> >> :
     l \in {<< >>, Do(<< "Metadata" >>)}, S \in SUBSET Addr \ {{}}}

start_prefetch == {<< >>} \cup issue_fetch

(* From the membership on.  A prefetch made for another set of partitions  *)
(* is dropped.                                                             *)
fetch ==
  IF outstanding = Nothing
  THEN {f \o Do(<< "receive", "start_prefetch" >>) : f \in issue_fetch}
  ELSE {Do(<< "receive", "start_prefetch" >>), Do(<< "discard", "fetch" >>)}

(* Assigned by hand, by a group, or not at all, and with or without        *)
(* partitions that may be fetched.  A changed assignment drops the         *)
(* prefetch.                                                               *)
poll ==
  LET group == IF subscribed THEN << "maybe_auto_commit", "advance_group", "maybe_discard" >>
                             ELSE << >>
  IN {Do(<< "check_for_expansion" >> \o group \o f) : f \in {<< >>, << "fetch" >>}}
     \cup (IF subscribed THEN {} ELSE {<< >>})

assign == {Do(<< "discard", "Metadata" >>), Do(<< "discard", "Metadata", "list_offset" >>)}

Operation == {"poll", "heartbeat", "commit", "list_offsets_many", "partition_count", "assign", "subscribe", "unsubscribe"}

Unfolded(f) ==
  CASE f[1] = "poll" -> poll
    [] f[1] = "check_for_expansion" -> {check_for_expansion}
    [] f[1] = "maybe_auto_commit" -> maybe_auto_commit
    [] f[1] = "commit" -> commit
    [] f[1] = "heartbeat" -> IF subscribed THEN {Do(<< "advance_group" >>)} ELSE {<< >>}
    [] f[1] = "coordinator_addr" -> {coordinator_addr}
    [] f[1] = "advance" -> advance
    [] f[1] = "partition_count" -> {partition_count}
    [] f[1] = "advance_group" -> advance_group(f[2])
    [] f[1] = "settle" -> settle(f[2])
    [] f[1] = "put_back" -> {<< >>}
    [] f[1] = "maybe_discard" -> {<< >>, Do(<< "discard" >>)}
    [] f[1] = "list_offset" -> list_offset
    [] f[1] = "list_offsets_many" -> list_offsets_many
    [] f[1] = "start_prefetch" -> start_prefetch
    [] f[1] = "fetch" -> fetch
    [] f[1] = "assign" -> assign
    [] f[1] = "subscribe" -> {Do(<< "discard", "new_group" >>)}
    [] f[1] = "unsubscribe" -> unsubscribe
    [] OTHER -> {}

-----------------------------------------------------------------------------
Begin(op) ==
  /\ todo = << >> /\ calls < MaxCalls
  /\ calls' = calls + 1
  /\ todo' = Do(<< op >>)
  /\ UNCHANGED << conns, call, late, abandoned, brokerVars, faults,
                  outstanding, sent, coordinator, subscribed, stale >>

Unfolds ==
  /\ todo # << >>
  /\ \E body \in Unfolded(Head(todo)) : todo' = body \o Tail(todo)
  /\ UNCHANGED << poolVars, brokerVars, faults, outstanding, sent, coordinator, subscribed, stale >>

(* What is left begins with a call to name. *)
Due(name) == NotCalling /\ todo # << >> /\ Head(todo)[1] = name

discard_outstanding ==
  /\ Due("discard")
  /\ StartCollect(outstanding)
  /\ outstanding' = Nothing
  /\ UNCHANGED << brokerVars, calls, todo, sent, coordinator, subscribed, stale >>

receive ==
  /\ Due("receive")
  /\ StartCollect(outstanding)
  /\ outstanding' = Nothing
  /\ UNCHANGED << brokerVars, calls, todo, sent, coordinator, subscribed, stale >>

refresh_metadata ==
  /\ Due("Metadata") \/ Due("refresh")
  /\ StartAny("Metadata", 1)
  /\ UNCHANGED << brokerVars, calls, consumerVars >>

find_coordinator ==
  /\ Due("FindCoordinator")
  /\ StartAny("FindCoordinator", 0)
  /\ UNCHANGED << brokerVars, calls, consumerVars >>

(* The address is what coordinator_addr has returned. *)
call_coordinator ==
  /\ Due("Group") /\ coordinator \in Addr
  /\ Start("call", << "coordinator", coordinator >>, "Group", 0)
  /\ UNCHANGED << brokerVars, calls, consumerVars >>

call_offsets ==
  /\ Due("Offsets") /\ coordinator \in Addr
  /\ Start("call", << "coordinator", coordinator >>, "Offsets", 0)
  /\ UNCHANGED << brokerVars, calls, consumerVars >>

call_leader ==
  /\ Due("ListOffsets")
  /\ \E a \in Addr : Start("call", Main(a), "ListOffsets", 0)
  /\ UNCHANGED << brokerVars, calls, consumerVars >>

(* In the order of the addresses, which is one but may be any, and only    *)
(* with nothing outstanding.                                               *)
Unsent(a) == a \in Head(todo)[2] \ DOMAIN sent

send_fetch ==
  /\ Due("send") /\ outstanding = Nothing /\ \E a \in Addr : Unsent(a)
  /\ LET a == CHOOSE b \in Addr : Unsent(b)
     IN Start("send", Main(a), "Fetch", a)
  /\ UNCHANGED << brokerVars, calls, consumerVars >>

-----------------------------------------------------------------------------
(* A call has returned: go on with what is left, or give the error to the  *)
(* caller.                                                                 *)

Returned(name) == call.phase = "done" /\ todo # << >> /\ Head(todo)[1] = name
Attempt == Head(todo)[2]

Ahead(name) == \E i \in DOMAIN todo : todo[i][1] = name

(* What was sent before the failure is outstanding all the same.  A group  *)
(* whose committed offsets could not be read is not put back.              *)
Fails ==
  /\ todo' = << >>
  /\ outstanding' = IF sent = Nothing THEN outstanding ELSE sent
  /\ sent' = Nothing
  /\ subscribed' = (subscribed /\ ~Ahead("put_back"))
  /\ UNCHANGED << coordinator, stale >>

GoesOn == todo' = Tail(todo) /\ UNCHANGED << outstanding, sent >>

Retries(with) == todo' = with \o << << Head(todo)[1], Attempt + 1 >> >> \o Tail(todo)
                 /\ UNCHANGED << outstanding, sent, coordinator, subscribed, stale >>

discarded == Returned("discard") /\ GoesOn /\ UNCHANGED << coordinator, subscribed, stale >>

(* An answer may carry an error for the caller. *)
received ==
  /\ Returned("receive")
  /\ \/ call.result = "Ok" /\ GoesOn /\ UNCHANGED << coordinator, subscribed, stale >>
     \/ Fails

(* The refresh of check_for_expansion may fail. *)
refreshed ==
  \/ /\ Returned("refresh") /\ GoesOn
     /\ stale' = (stale /\ call.result # "Ok")
     /\ UNCHANGED << coordinator, subscribed >>
  \/ Returned("Metadata") /\ call.result = "Ok" /\ GoesOn /\ stale' = FALSE
     /\ UNCHANGED << coordinator, subscribed >>
  \/ Returned("Metadata") /\ call.result # "Ok" /\ Fails

found ==
  /\ Returned("FindCoordinator")
  /\ IF call.result # "Ok" THEN Fails
     ELSE IF call.answer.code = "NONE"
          THEN coordinator' = call.answer.leader /\ GoesOn /\ UNCHANGED << subscribed, stale >>
     ELSE IF Attempt + 1 < MaxRetries THEN Retries(<< >>) ELSE Fails

(* A coordinator that has moved is forgotten, to be found by the next step. *)
member_answered ==
  /\ Returned("Group")
  /\ IF call.result # "Ok" THEN Fails
     ELSE /\ coordinator' = IF disposition(call.answer.code) = "FindCoordinator"
                            THEN NoAddr ELSE coordinator
          /\ GoesOn /\ UNCHANGED << subscribed, stale >>

offsets_answered ==
  /\ Returned("Offsets")
  /\ IF call.result = "Ok" /\ (call.answer.code = "NONE" \/ Attempt = 1)
     THEN GoesOn /\ UNCHANGED << coordinator, subscribed, stale >>
     ELSE Fails

listed ==
  /\ Returned("ListOffsets")
  /\ IF call.result # "Ok" THEN Fails
     ELSE IF disposition(call.answer.code) # "RefreshMetadata"
          THEN GoesOn /\ UNCHANGED << coordinator, subscribed, stale >>
     ELSE IF Attempt < MaxRetries THEN Retries(Do(<< "Metadata" >>)) ELSE Fails

fetch_sent ==
  /\ Returned("send")
  /\ IF call.result # "Ok" THEN Fails
     ELSE LET all == [a \in DOMAIN sent \cup {call.answer.arg} |->
                        IF a \in DOMAIN sent THEN sent[a] ELSE call.answer]
          IN /\ IF DOMAIN all = Head(todo)[2]
                THEN todo' = Tail(todo) /\ outstanding' = all /\ sent' = Nothing
                ELSE sent' = all /\ UNCHANGED << todo, outstanding >>
             /\ UNCHANGED << coordinator, subscribed, stale >>

CallReturns ==
  /\ \/ discarded \/ received \/ refreshed \/ found \/ member_answered
     \/ offsets_answered \/ listed \/ fetch_sent
  /\ call' = NoCall
  /\ UNCHANGED << conns, late, abandoned, brokerVars, calls, faults >>

(* subscribe: a new group, whose coordinator is not known.  unsubscribe    *)
(* has its group until it has left it.                                     *)
changes_group ==
  /\ \/ Due("new_group") /\ coordinator' = NoAddr /\ subscribed' = TRUE
     \/ Due("no_group") /\ subscribed' = FALSE /\ UNCHANGED coordinator
  /\ todo' = Tail(todo)
  /\ UNCHANGED << poolVars, brokerVars, faults, outstanding, sent, stale >>

(* The caller drops the operation's future, and with it what issue_fetch   *)
(* has sent so far, and the group if it is taken.                          *)
Cancels ==
  /\ todo # << >> /\ Fault("cancel")
  /\ Abandon({Main(a) : a \in DOMAIN sent})
  /\ todo' = << >> /\ sent' = Nothing
  /\ subscribed' = (subscribed /\ ~Ahead("put_back") /\ ~Ahead("settle"))
  /\ UNCHANGED << brokerVars, calls, outstanding, coordinator, stale >>

(* The maximum age of the metadata passes. *)
Ages ==
  /\ ~stale /\ stale' = TRUE
  /\ UNCHANGED << poolVars, brokerVars, faults, todo, outstanding, sent, coordinator, subscribed >>

ConsumerInit ==
  /\ todo = << >> /\ outstanding = Nothing /\ sent = Nothing
  /\ coordinator = NoAddr /\ subscribed \in BOOLEAN /\ stale = TRUE

ConsumerStep ==
  \/ Unfolds \/ discard_outstanding \/ receive \/ refresh_metadata \/ find_coordinator
  \/ call_coordinator \/ call_offsets \/ call_leader \/ send_fetch \/ changes_group \/ CallReturns
=============================================================================
