# A TLA+ verification of barnabas

barnabas is a Kafka client in Rust. `barnabas-core` holds state machines without
I/O, `barnabas-client` drives them over sockets (routing, connection pool,
producer, consumer, groups, transactions), and two small crates bind it to tokio
and glommio. This directory holds TLA+ models of that code, the TLC runs that
check them on small instances, and TLAPS proofs, for every instance, about the
produce path, the connection pool, fetching, the assignors and consumer groups.

The repository has a specification of its own, `spec/ProducerWindow.tla`: one
partition's window on one connection. The modules here do not build on it. They
are translated from the Rust code and cover what its README leaves out:
several partitions and brokers, leadership, reconnects and late executions,
coordinators, groups, transactions and fetching.

## The system

Every client method takes `&mut self` and nothing is spawned, so a client is one
thread that stops at awaits. Concurrency is between a client and everything it
cannot see: brokers, the network, other clients, and the order in which its
caller makes calls.

| part | source | state | operations |
|---|---|---|---|
| idempotent producer | client `producer.rs`, core `producer.rs` | queued batches, staged records, sequence numbers | enqueue, produce, tick, flush |
| connection pool | client `cluster.rs`, `join.rs`, `timeout.rs`, core `conn.rs` | pooled connections, requests in flight | send_at, recv_many, call_at, call_any, call_coordinator |
| metadata cache | core `metadata.rs`, `cluster.rs` | leaders, partition counts, their age | update, invalidate, refresh_if_stale |
| transactions | client and core `producer.rs` | transaction state, epoch, enrolled partitions | init, begin, enroll, send, send offsets, commit, abort |
| read_committed | core `consumer.rs`, `records.rs` | none | filter, filter_batches |
| assignors | core `group.rs` | none | range, roundrobin, sticky, cooperative-sticky |
| group member | core `member.rs` | state, id, generation, assignment, lost | on_join, on_sync, on_heartbeat, request_rejoin |
| group protocol | client `group.rs`, `consumer.rs` | coordinator, announcements, positions | subscribe, poll, heartbeat, commit, unsubscribe |
| fetching | client `consumer.rs` | positions, paused, sessions, fetch in flight | assign, seek, remove, pause, resume, lookups, poll |
| admin client | client `admin.rs` | the controller it knows | create_topics, delete_topics, create_partitions, describe_cluster, describe_topic_config, delete_records |
| not modelled | SASL/TLS, builder, bindings, codecs, partitioner, bench | | see the end |

What is hard in this code: a window of requests that is partly written, answered
and lost; a broker that executes a request after its resend; a leader that moves
in the middle; a fetch in flight between two polls while the caller seeks or
pauses; a session whose two ends disagree; a rebalance at any point of a poll; a
process that dies between the steps of a transaction; a future dropped with its
request on a pooled connection. `PROJECT.json` lists these
hazards, each at its line, with the properties that would show it going wrong.

## Modules

**Produce path.** `ErrorCodes` has the error codes and `disposition`.
`ProducerState` is the core's sequence allocation. `ProducerFlush` is the produce
path: the variables are the fields of `Producer`, `Cluster` and `Connection` and
the local variables of `flush`; `pc` is where flush stands between two awaits.
Actions: `Enqueue`, `ProduceTo`, `Tick`, `Flush` (the caller), `Route`,
`SendWindow`, `Receive`, `ReceiveFails`, `ReceiveTimesOut`, `SettleTransport`,
`SettleFatal`, `SettleWindow`, `Refresh` (the body of flush), and the brokers:
`Execute`, `ExecuteLate`, `BreakLink`, `MoveLeader`. `submitted` and `retired`
are history. `ExactlyOnceLog` is the abstract specification: callers submit,
batches appear in the log in order and once, and only logged ones are
acknowledged. `ProducerFlushInv` has the inductive invariant;
`ProducerFlushWindow` and `ProducerFlushProofs` the proofs.

**Transactions.** `TransactionalProducer` is the core's transaction state machine
on records. `PartitionLog` has the views of a log a broker computes (last stable
offset, aborted transactions). `Transactions` runs instances of one
consume-transform-produce program, members of one group with a transactional id
each: an instance polls its position, begins, enqueues and flushes an output batch, sends offsets, commits or
aborts, may be refused or time out at every call, and may restart. Two history
variables mark what can mislead it: `stale`, an instance has read its position while
offsets were pending, and `crossed`, an offset was committed by a transaction that did
not send it. The
transaction coordinator, the group coordinator and the partition leader are
external. `ReadCommitted` has both filters, `CommittedReads` generates the logs
they are checked on.

**Groups.** `Assignors` has the four algorithms as operators; `AssignorRounds`
feeds every rebalance's outcome into the next, and has the invariant that links one
round with the next; `AssignorProofs` proves what one run of an assignor returns,
`AssignorRoundsProofs` what a group sees over many. `GroupMember` is the core's member
on records. `ConsumerGroup` composes members, assignors and the consumer's
`advance_group`, with the coordinator as an external component that holds
JoinGroup and SyncGroup, expires members, moves, and answers
COORDINATOR_LOAD_IN_PROGRESS until it has loaded the group. `Fetch` is the rest of a
poll: it may succeed or fail, having moved any of the positions it had answers for;
`read` is what answers have held so far. `ConsumerGroupInv` has
its inductive invariant, `ConsumerGroupSteps` and `ConsumerGroupProofs` the proofs.

**Fetching.** `ConsumerFetch` is the consumer that assigns its own partitions,
with incremental fetch sessions (KIP-227), a prefetch in flight, and brokers that
evict or refuse sessions. `AssignFails` is an assign whose ListOffsets fails: the
position stays `Unresolved` (EARLIEST or LATEST in the code). A lookup (`Drain`) may
read the metadata on its way. `ConsumerFetchInv` has the inductive invariant,
`ConsumerFetchProofs` the proofs.

**Calls.** The modules above take it that an answer is matched with its request.
The modules here show it. `Cluster` is the pool: connections with their
requests in flight and correlation ids, `call_at`, `call_any`, `call_coordinator`,
`send_at` and `recv_many` with their reconnects, retries and deadlines, the caches
(leader, coordinator, controller, partition count), the handshake of a new
connection, and brokers that answer, refuse, garble, close or stay silent. `recv` is
one answer read: it is the one expected, its body does not decode (the request is
done with), or its frame or header does not (the request stays in flight, and the
connection in the pool). `ConsumerCalls` is the order in which the
consumer's public operations use it: an operation is the list of calls it has left
(`todo`), shortened or extended by each answer; `Cancels` drops its future at any
await. `Admin` does the same for the admin client with its controller lookup and
its wait for a new topic. `Clients` composes them: one client of either kind, its
caller, brokers and a cluster whose leader, coordinator and controller move.
`ClientsInv` has the inductive invariant, `ClientsProofs` the proofs. Two guards of `ConsumerCalls` only say
what the code has by then: a coordinator's address before a call to it, nothing
outstanding before a send. They never keep a client from going on, or `Returns`
would fail.

`MCAlgorithms` runs the assignors and the filters side by side (they have no state
in common; a behaviour is of one or of the other). The other `MC*` modules give the constants their values: model values, the sets of faults,
symmetry.

### What is abstracted

* A batch is its range of sequence numbers, a record an offset or a number. Bytes,
  compression, CRCs, request encodings and the blobs of the group protocol are
  what they carry.
* One topic (the assignors have two). Partition counts are small sets.
* Time: a timeout, an expired linger, stale metadata is a step that may happen.
  When an answer is there it wins over the timeout, as `Race::poll` has it.
* Sequence numbers do not overflow; the fetch session's epoch does (`MaxEpoch`).
* A consumer is blocked while it waits, so in `ConsumerGroup` a call is sent,
  executed and answered in one step unless the coordinator holds it; a lost
  answer is the same step with another outcome.
* In `Cluster` correlation ids count from what is in flight, so they are 0 on an
  idle connection: only the differences matter to `next_response`. The client runs
  to its next await without interruption, so other parties move only while it
  waits. The handshake of a connection is one step that succeeds or fails, and is not
  taken while the broker is silent (`ShakesHands`): nothing in the code ends that wait.
* In `Transactions`, `coordinator_call` hides the lookup of the coordinator:
  attempts that change nothing are stutters. A resent request finds its first
  copy executed or never executed. Brokers check that a partition is part of the
  transaction before they append to it (as Kafka does since KIP-890).
* External parts are modelled by what the client relies on: brokers remember
  `CacheSize` batches per partition, append the next sequence only, answer a
  connection's requests in order.

## Runs

All pass runs explore every state of their instance; `SYMMETRY` is used for
safety properties only. Deadlock checking is off everywhere: a client whose
caller makes no more calls, a bounded fault budget used up, is a legal end.

| run | states | checks | result |
|---|---|---|---|
| `flush` | 80,000 | type, exactly-once in order, nothing skipped, no self-fencing, true offsets, drained between windows, the inductive invariant, refinement of `ExactlyOnceLog`; every queued batch is eventually retired | holds |
| `algorithms` | 303,000 | the inductive invariant of the rounds, assigned once, one holder, contiguous ranges, fair shares, handover in two rounds and ends; both filters return exactly what the isolation level allows | holds |
| `group` | 827,000 | the inductive invariant, one owner, positions are the assignment, nothing committed that was not read, commits by the owner | holds |
| `group_live` | 182,000 | no overlap in a handover; everything is read to its end | holds |
| `fetch` | 237,000 | the inductive invariant, no stranded answer, no gap, paused partitions silent; a polling consumer catches up while no leader moves | holds |
| `txn` | 1,328,000 | no input lost unless offsets crossed, once unless that or a stale offset was read, aborted stays aborted | holds |
| `cluster` | 333,000 | the inductive invariant of the pool, every answer goes to the request it belongs to, a connection is refused as busy only behind a prefetch or something left on it, a topic that was created is visible, the admin client gives up on the controller only while one is moving, every operation returns or hangs in a handshake | holds |
| `lost` | | `ConsumerFetch!AtLeastOnce` | **violated** |
| `stuck` | | `CatchesUp` after a leader moved | **violated** |
| `aborted` | | `AbortedStaysAborted` after a failed flush | **violated** |
| `twice` | | `OnceUnlessStale` with a late TxnOffsetCommit | **violated** |
| `hung` | | `NeverHangs` with a broker that accepts and is silent | **violated** |

Run one with `tlc -config flush.cfg MCProducerFlush`.

### Bounds

* `flush`: two brokers, two partitions, two batches per partition (one of them
  staged by `produce`), a window of two, a broker cache of two, one fault. Two rounds
  are the least in which a success can follow a failure, two partitions the least in
  which one fails while another is written. The proofs remove the bounds of the safety
  properties; two faults, in which a retry fails again, were checked by hand (210,000
  states up to symmetry, without staged records).
* `algorithms`: three members at a time, two topics of up to two partitions, four
  changes, four rounds in a row (two suffice where the members want the same topics;
  where they do not a third may be needed, and the run shows that nobody rejoins after
  the last); and every log of five batches, of one or two
  records, by two transactional producers and a plain one.
* `group`: two consumers, two brokers for the coordinator to move between, a topic
  that grows from one partition to two, one record per partition, two calls of
  subscribe or unsubscribe, one fault of any kind. Ids and generations are not
  bounded: they stay finite because faults and calls are. `MAX_STEPS` is 4 where the
  code has 20, so that a poll does run out of steps: a coordinator that is loading
  answers one COORDINATOR_LOAD_IN_PROGRESS after another.
* `group_live`: the cooperative protocol with one broker (no coordinator moves), one
  partition and one that is added, one record in each, and the code's 20 steps. The
  eager protocol (156,000 states) and a topic of one or two partitions to begin with
  (423,000) were checked by hand, as was a budget of 2 and of 4 steps.
* `fetch`: two partitions, two brokers, two records, epochs that wrap at 3, and one
  call besides polls or one fault (`MaxEvents` bounds the two together). One call and
  one fault were checked before (1,047,000 states, without liveness and without
  `AssignFails`), and with two faults the invariant on the first 30 million states.
* `txn`: two instances, two inputs, three transactions, one rebalance, one fault;
  no caller aborts with batches queued (`AbortsUnsent` is what `aborted` turns on).
  Output written twice by offsets that cross takes four transactions, and input lost
  that way five of two instances. So `twice` has one instance and four transactions; and
  one instance with five, three inputs and two faults was checked by hand against the
  properties of `txn` (12,650,000 states).
* `cluster`: two brokers, two operations in a row of either client, two partitions,
  two retries (the code has more: two are the least in which a retry follows a
  retry), two steps of `advance_group`, two faults of the kinds that hit one call
  (connection refused or closed, answer garbled, refused or late, cancellation) or one of
  those that change the cluster (`Alone`: a silent broker, an election, a leader
  that moves, a topic created by being asked for).

### Fairness

* `flush`: the caller flushes again while something is queued, an awaited
  future is polled, a broker executes what it received. Faults are finitely many.
* `group_live`: callers keep polling (the documented condition for keeping a place
  in a group); stale metadata is read from time to time, because
  `metadata_max_age` passes; the coordinator completes a join everyone made and
  drops ids nobody uses, which is its session timeout.
* `fetch` and `stuck`: callers keep polling, brokers answer, metadata goes stale again and
  again. Strong fairness of a poll with a refresh says that much and no more.
  The weak fairness of `End` is written out with its enabling condition (`CanEnd`),
  which TLC evaluates much faster than ENABLED; in every state of the instance the
  two agree. The same goes for the conditions written out in `group_live`.
* `cluster` and `hung`: weak fairness of `Progress`: the runtime polls the future, a broker that
  is not silent answers, and a deadline passes, where there is one, if nothing else
  happens. The caller
  is not fair, nor is any fault.

### What the violations show

1. `lost`. Auto commit promises at-least-once (`consumer.rs:464`). A poll that fails
   at one answer has moved the positions of the partitions before it and drops
   their records; the next commit covers them. In the trace the first broker answers
   and the connection to the second breaks.
2. `stuck`. `metadata.rs:11` says an error from the old leader always leads to
   invalidate, refresh, retry. `poll` does not invalidate; after the metadata ages
   out, the old leader's session still names the moved partition and fails every
   poll that asks that broker about another one.
3. `aborted`. `abort_transaction` promises that the transaction's records are
   filtered (`producer.rs:423`). Batches still queued after a failed flush survive
   the abort and are committed by the next transaction.
4. `twice`. `send_offsets_to_transaction` says the offsets are part of this transaction
   and "land only if the transaction commits" (`producer.rs:457`). A TxnOffsetCommit
   names a producer id and epoch, which are those of every transaction of the
   producer. One that is delayed until its transaction was aborted and a later one has
   enrolled the group is committed with that one, over its own offset if it arrives
   last: the input is read, and its output committed, again. With two instances, one
   of which reads a pending offset, the late offset may also be ahead, and input is
   lost; `crossed` marks both.
5. `hung`. `tests/adversarial.rs:358` says "A broker that never answers must not hang
   the caller". `Broker::connect` awaits the ApiVersions answer without a deadline
   (`cluster.rs:96`), so a broker that accepts a connection and stays silent does.

### Mutants

Every property has a mutant: an operator next to the definition it replaces,
marked `Mutant:`, that changes the code in a plausible way and makes TLC violate
that property. `PROJECT.json` pairs them.

## Proofs

Each theorem is for every value of the constants that satisfies the assumptions: any
sets of partitions, brokers, consumers, topics and any number of calls and faults.

| module | theorem | states |
|---|---|---|
| `ProducerFlushProofs` | `FlushInvariant` | `Spec => []FlushInv` |
| | `TypeCorrect` | `Spec => []TypeOK` |
| | `ExactlyOnce` | `Spec => []ExactlyOnceInOrder` |
| | `QueueKept` | `Spec => []NothingSkipped` |
| | `NeverSelfFenced` | `Spec => []NoSelfFencing` |
| | `OffsetsTrue` | `Spec => []TrueOffsets` |
| | `Drained` | `Spec => []DrainedBetweenWindows` |
| | `FlushRefinesContract` | `Spec => ImplementsContract`, the refinement of `ExactlyOnceLog` |
| `ClientsProofs` | `ClientInvariant` | `Spec => []ClientInv` |
| | `AnswersOwned` | `Spec => []OwnAnswer` |
| `ConsumerFetchProofs` | `FetchInvariant` | `Spec => []FetchInv` |
| | `NoAnswerStranded` | `Spec => []NoneStranded` |
| | `NoRecordSkipped` | `Spec => []NoGap` |
| | `PausedIsSilent` | `Spec => PausedSilent` (an action property) |
| `AssignorRoundsProofs` | `RoundsInvariant` | `Spec => []RoundsInv` |
| | `NeverTwoHolders` | `Spec => []OneHolder` |
| | `SettledGroupCovers` | `Spec => []EverythingAssignedOnce` |
| | `RangeDealsBlocks` | `Spec => []RangeIsContiguous` |
| | `SharesStayFair` | `Spec => []FairShare` |
| | `SecondRoundSettles` | `Spec => []TwoRoundsSuffice`, a conjunct of `HandoverEnds` |
| | `NothingTakenInOneRound` | `Spec => HandedOverInTwoRounds` (an action property) |
| `ConsumerGroupProofs` | `GroupInvariant` | `Spec => []GroupInv` |
| | `NeverTwoOwners` | `Spec => []OneOwner` |
| | `PositionsFollowAssignment` | `Spec => []PositionsAreAssignment` |
| | `NothingCommittedUnread` | `Spec => []CommittedWasRead` |
| | `OnlyOwnersCommit` | `Spec => CommitByOwner` (an action property) |

Every inductive invariant is also an invariant of the run of its module.

### The produce path

The assumptions are `FlushAssumption` (in `ProducerFlush`): the producer is
idempotent and not transactional, the constants have their types, and
`MaxInFlight <= CacheSize`. The last one is what `DEFAULT_MAX_IN_FLIGHT = 5` is
for; `set_max_in_flight` does not enforce it, and without it `NoSelfFencing` fails.

None of the properties is inductive alone. `FlushInv` adds:

* `Contiguous` and `Ascending`: the sequence ranges submitted form one chain, so a
  batch is identified by its range and the broker's "next sequence" by a position
  in the queue.
* `WireSendable`: whatever is on a connection, or in the hands of a broker after its
  connection was given up, is a submitted batch not beyond the current window.
* `WithinCache`: a log is never more than a window ahead of what was retired. With
  `MaxInFlight <= CacheSize` a resent batch is always recognised. This is why a late
  execution can never write a batch twice.
* `WindowCleared`, `WindowShape`: what the window's counters and connections look
  like in each phase of flush.
* `AlignedWindow`: while no transport error was seen, the answers on a connection
  and its requests are exactly the window's rounds in order; a success names the
  batch's place in the log, and a sequence error has an earlier failure in front of
  it. A window that lost a request runs out of answers and so ends in a transport
  error before anything is retired. This is the heart of the argument for the
  leading-run rule.

`ProducerFlushWindow` has lemmas about sequences and ranges, and the steps of the
client between windows and within one; `ProducerFlushProofs` those of the brokers and
the network, and what flush makes of a collected window. Each shows one action to
preserve every conjunct it can disturb.

### The connection pool

The assumptions are `ClusterAssumption` (in `Cluster`): there is a bootstrap address,
no address is the absent one, and the constants have their types.

`OwnAnswer` says that what is read next answers what was asked. Whether it does was
settled when the request was written, so `ClientInv` says of every moment:

* `Pool`: what was answered and not read, then what was not answered, are the last of
  what a connection has in flight, in order; all of it unless an answer was lost to the
  decoder there. So an answer is that of the oldest request, or is refused.
* `Accounted`: a connection with a request in flight is claimed: by the call that
  waits on it, the recorded prefetch, the sends of `issue_fetch` not recorded yet, or
  the collection in progress. The exceptions are connections (`abandoned`) a dropped
  operation left a request on, or an answer whose frame or header did not decode.
* `Recorded` and `Calling`: whoever claims a connection has its own request there,
  alone unless something was left there; a call that waits always has it alone,
  which is what the busy check of `call_at_with_timeout` is for. A send finds nothing
  outstanding, and a bootstrap no pooled connection.

A new request is therefore written where nobody else has one, or behind what was
left, and every way out of a call (an answer, a broken socket, a deadline, a dropped
future, a frame that does not decode) takes the request with it, hands it to a
record, or marks the connection.
`ClientsProofs` goes from connections to the pool, to the steps that begin and end
calls, to those of a call in progress, and to the caller, the brokers and the operations.

### Fetching

The assumptions are `FetchAssumption` (in `ConsumerFetch`): there is a broker, the
constants have their types, and `MaxFaults + 1 < MaxEpoch`. The code's epoch wraps at
`i32::MAX`, so the last one says that fewer than two thousand million requests are lost
in the life of a session. It is needed: a broker that executed requests the client gave
up on is ahead by one epoch for each, and after a full turn would take the next request
for the one it expects. Without the assumption TLC finds the gap, with `MaxEpoch = 1`
and one fault.

`NoGap` says that everything between where a position was set and where it stands was
in some answer. Whether the next answer has the right records depends on
what the broker remembers of the partitions the request leaves out. `FetchInv` says:

* `InFlight`: a connection has something on it exactly if its broker is in
  `outstanding`; a fetch that is still `fresh` asks for what would be asked for now.
* `Leadership`: a broker is asked, or remembers being asked, only about partitions it
  leads, led, or is thought to lead.
* `Sessions`: a broker whose session has the client's id remembers exactly what the
  client thinks (`Session::known`), at the epoch the client will send; or it is `k`
  epochs ahead, and `k` and the requests still to be executed late are together no more
  than the faults so far and one. Being ahead by less than a turn it refuses the next request,
  and the session is opened again. If the answer is on the wire the same holds of the
  session the client will have once it has read it, and the answer's records start at
  the positions (`TrueAnswer`).
* `NoGap` itself.

The proof found one case `NoGap` is false in. If leadership of a partition goes to
another broker and comes back, the session with the former leader still names the
partition, at the offset it had then. Asked about its other partitions, that broker
sends records of this one too, and poll takes them as if they followed the position.
The history variable `returned` marks such partitions, and `NoGap` leaves them out.

### The assignors

The assumptions are `RoundsAssumption` (in `AssignorRounds`): ids and topics are natural
numbers (the code compares strings; only the order counts), there are finitely many
topics, and the bounds are numbers.

`AssignorProofs` is about one call of `assign`. The loops of the code are recursive
functions over subsets, in the order of the sort (`DealAll`, `KeepAll`, `HandAll`), and
what they return is proved by induction over those subsets (`FoldExists`,
`SubsetInduction`; the library's induction theorems cannot be used here, its minimum principle
`WFMin` can). For each assignor: every partition of a wanted topic goes to
exactly one subscriber; for the cooperative one, at most one, and never to one while
another claims it. `AssignorRoundsProofs` adds the shares: turns of the deal differ by
one, quotas bound what is kept, and the hand-out to whoever holds fewest keeps below the
fair share rounded up.

Over rounds the claims of a member are what an earlier round gave it, and it may come
back with them later. `RoundsInv` therefore says that claims of one generation are
disjoint wherever they are, with members or with those that dropped out, that a claim
without a generation is empty, and that after a cooperative round of members with the same topics
all claims are current and within the fair share. So the next round's sticky target
lets everybody keep what it has, nobody rejoins, and two rounds suffice. With different
topics that is false (a member may be handed more than its quota, and lose it again in the
next round), which is why `SecondRoundSettles` has `SameTopics` in it.

### Consumer groups

The assumptions are `GroupAssumption` (in `ConsumerGroup`): the constants have their
types, `NoBroker` is no broker, and the topic has a partition.

`GroupInv` puts three views of a group next to each other, the consumers', the
coordinator's (`co`) and that of the group's log (`saved`), from which a broker that
takes over reads the group:

* `Fine`: what a consumer has by itself; in particular a stable member has the positions
  of its assignment unless it is about to fetch their offsets, and everything below a
  position or a committed offset has been read by some poll (`read`).
* `GroupOK`, of both `co` and `saved`: members have ids that were handed out, claims of
  their own, and assignments that are disjoint.
* `Agrees`, of each consumer: a stable member whose generation and id `co` or `saved`
  knows has exactly what that says it has; while the group waits for its leader, the
  leader knows that it leads and who the members are; SyncGroup is held for followers
  of the present generation only; and a stable member's generation was saved.
* `OwnIds`: no two consumers have one id.

The last clause of `Agrees` carries `OneOwner` over a move of the coordinator: a
generation that was not saved has no stable members, so what the new coordinator forgets
nobody relies on. The disjointness of a new assignment is `RangeAssigns` or
`CooperativeAssigns` of `AssignorProofs`, applied to the members in any order.
`ConsumerGroupSteps` has the steps that do not depend on the assignors;
`ConsumerGroupProofs` those of JoinGroup and SyncGroup, and the theorems.

### What is only model-checked

* Liveness, which is out of reach of this prover: `EventuallyRetired`, `AllRead`,
  `CatchesUpInPlace`, `Returns`. `AllRead` and `CatchesUpInPlace` leave out a consumer
  with a position that could not be resolved, which nothing resolves later;
  `CatchesUpInPlace` also a partition whose leader has moved (`stuck`), and `Returns` an
  operation in a handshake (`hung`).
* `HandedOver`, which is false when a member is expired while it is still reading, and so
  holds only of instances without that fault. What the assignor contributes to it is
  proved (`NothingTakenInOneRound`).
* `HandoverEnds` for members that want different topics: its bound on the rounds is one
  for the instance.
* `FilterExact`: both filters are recursive operators over sequences of batches.
* The transactions. `NoInputLost` and `OnceUnlessMisled` name the cases they leave out
  and are meant to hold of every instance; their inductive invariant is yet to be
  written. `AbortedStaysAborted` holds only of callers that abort with nothing queued.
* Of the pool, `BusyOnlyBehindLeftover`, `CreatedAndVisible` and `SettledSucceeds`.

## Known deviations that are modelled

Behaviour of the code a reader may not expect, and which no property forbids:

* An error of `committed()` inside `advance_group` loses the group: the consumer
  keeps fetching its old positions as if it had been assigned them by hand, and
  every automatic commit fails (`consumer.rs:760`, `GroupLost`).
* A cooperative member that gains a partition is set back to the committed offsets
  on all of them (`Install`).
* A position is EARLIEST or LATEST until ListOffsets has resolved it. When that fails, in
  `advance_group` (`consumer.rs:818`) or in `assign`, it stays so: every fetch of it is
  an error, which fails the poll, until the assignment changes or the caller seeks
  (`ResolveFails`, `AssignFails`).
* A poll that runs out of `MAX_STEPS` fetches with the positions it has, although
  membership has not settled; it cannot commit until it has (`CommitByOwner`).
* A member that must rejoin because its topic grew sends JoinGroup before it
  announces what it lost (`group.rs:517`).
* `fetch_offsets` may return an offset a transaction is about to replace; the output
  is then written twice (`stale` in `Transactions`).
* A fetch session is never told to forget a partition. When leadership of a partition
  goes to another broker and returns, within the life of the former leader's session,
  that session still has the partition at an old offset while the client asks another
  broker about it. The former leader sends records from there, and poll moves
  the position to their end wherever it was (`consumer.rs:1389`, `1586` to `1631`).
  `returned` marks the case.
* A fenced producer refuses new batches but still sends those it has queued when
  flush is called.
* Staged records of a failed `enqueue` are dropped (`DropStaged`).
* A heartbeat answered NOT_COORDINATOR with a prefetch outstanding forgets the
  coordinator; the lookup takes a pooled connection, which may be the one the
  prefetch is on, and poll fails with `ConnectionBusy`. So does every later poll
  until the metadata ages, an automatic commit is due or the caller commits.
  `partition_count` meets the same. `lib.rs:142` calls `ConnectionBusy` "a bug in
  this client, surfaced rather than suffered"; `BusyOnlyBehindLeftover` says that its
  only other cause is a request left on the connection by a dropped operation or an
  answer that did not decode.
* Dropping the future of poll or heartbeat during `advance_group` loses the group,
  which that function has taken out of the consumer.
* After an error in an answer's correlation id or encoding the connection stays in
  the pool (`cluster.rs:540`); core `lib.rs:66` says it must be dropped. If the frame or
  header was at fault its request stays in flight, and the connection is busy for good
  (`Unmatched`).
* CreateTopics whose answer was lost is sent again and fails with
  TOPIC_ALREADY_EXISTS, although the topic was created by this call.
* `create_topics` takes the cached partition count when its refreshes fail. If this
  client deleted the topic before, that is the old topic's (`delete_topics` forgets
  nothing); `CreatedAndVisible` excludes that case.
* `delete_records` does not invalidate a leader that has moved.

## Not modelled, and the plan

* The record and frame codecs, SASL and TLS: functions of bytes.
* The partitioner: murmur2 and crc32 are arithmetic on 32-bit words, and TLC's
  integers are 32 bits wide and fail on overflow. Without the hash what is left is a
  remainder.
* The builder: type states the compiler checks.
* The runtime bindings and the benchmarks: I/O.
* Futures dropped inside `flush`, and sequence numbers at 2^31.

Next, in this order:

1. The composition of `ConsumerGroup` and `ConsumerFetch`: a rebalance with a fetch
   in flight. `Clients` has the calls of both, but not their positions.
2. Transactions over several partitions, with a coordinator that moves.
3. Proofs of `NoInputLost` and `OnceUnlessMisled`.
4. Proofs of `BusyOnlyBehindLeftover` and of the admin client's promises.
