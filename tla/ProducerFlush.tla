--------------------------- MODULE ProducerFlush ---------------------------
(***************************************************************************)
(* The produce path of barnabas-client/src/producer.rs for an idempotent   *)
(* producer: batches are queued, flush puts a window of them on every      *)
(* leader's connection, collects the answers and retires the contiguous    *)
(* leading run.  Around it: the connection pool of cluster.rs, and the     *)
(* brokers (external), which check sequence numbers, lose connections,     *)
(* move leaders, answer with errors, and may execute a request long after  *)
(* the client gave its connection up.                                      *)
(*                                                                         *)
(* One topic; Partition is its set of partitions.  The client is single    *)
(* threaded (every method takes &mut self), so it interleaves only with    *)
(* the brokers and the network; every step below is the code between two   *)
(* awaits that can observe them.                                           *)
(***************************************************************************)
EXTENDS ProducerState, ErrorCodes, Sequences, FiniteSets

CONSTANTS Broker,
          NoBroker,      \* "no leader known"
          MaxInFlight,   \* Producer::max_in_flight
          MaxRetries,    \* MAX_RETRIES
          CacheSize,     \* batches per partition a broker remembers (Kafka: 5)
          Counts,        \* bound: the batch sizes callers use
          MaxBatches,    \* bound: batches submitted per partition
          MaxStaged,     \* bound: records staged per partition
          MaxFaults      \* bound: faults of the brokers and the network

ASSUME FlushAssumption ==
  /\ ~Transactional
  /\ NoBroker \notin Broker
  /\ MaxInFlight \in Nat \ {0}
  /\ MaxRetries \in Nat \ {0}
  /\ CacheSize \in Nat /\ MaxInFlight <= CacheSize
  /\ Counts \subseteq Nat \ {0}
  /\ MaxBatches \in Nat /\ MaxStaged \in Nat /\ MaxFaults \in Nat

VARIABLES
  pending,    \* Producer::pending: encoded batches per partition, in order
  staged,     \* Producer::staged: how many records wait to be encoded
  due,        \* partitions whose staged batch is full or past its linger
  meta,       \* the leaders the client's Metadata names
  link,       \* Cluster::conns: no connection, a live one, or one the peer
              \* closed without the client having noticed
  req, resp,  \* per connection: requests not yet executed, answers not yet read
  pc,         \* where flush is
  attempt,    \* flush's retry counter
  sent,       \* rounds of the window written to each broker
  answers,    \* per broker, the rounds collected so far
  err,        \* the window's first transport error
  aborted,    \* send_window failed: collect what went out, then return Err
  written,    \* what flush will return
  leader,     \* the true leader of each partition
  log,        \* batches in each partition's log, in log order
  late,       \* batches in requests on connections the client has given up
  faults,     \* faults so far
  refused,    \* some broker has answered with a fatal error of its own
  submitted,  \* history: every batch ever queued, in order
  retired     \* history: how many of them flush has removed as written

clientVars == << pending, staged, due, meta, pc, attempt, sent, answers, err,
                 aborted, written >>
netVars == << link, req, resp, late >>
brokerVars == << leader, log, faults, refused >>
vars == << stateVars, clientVars, netVars, brokerVars, submitted, retired >>

-----------------------------------------------------------------------------
(* Types. *)

(* A Produce request carries at most one batch per partition; its answer   *)
(* has a code and an offset for each of them.  A partition the request     *)
(* does not carry has not failed.                                          *)
NoBatch == [base |-> -1, count |-> 0]
Request == [Partition -> SequenceRange \cup {NoBatch}]
Outcome == [code : ErrorCode, off : Nat]
Absent == [code |-> "NONE", off |-> 0]
Answer == [Partition -> Outcome]

TypeOK ==
  /\ StateTypeOK
  /\ pending \in [Partition -> Seq(SequenceRange)]
  /\ staged \in [Partition -> Nat]
  /\ due \subseteq Partition
  /\ meta \in [Partition -> Broker \cup {NoBroker}]
  /\ link \in [Broker -> {"none", "up", "dead"}]
  /\ req \in [Broker -> Seq(Request)]
  /\ resp \in [Broker -> Seq(Answer)]
  /\ pc \in {"idle", "route", "send", "collect", "settle", "refresh"}
  /\ attempt \in Nat
  /\ sent \in [Broker -> Nat]
  /\ answers \in [Broker -> Seq(Answer)]
  /\ err \in {"none", "Io", "Timeout"}
  /\ aborted \in BOOLEAN
  /\ written \subseteq [p : Partition, off : Nat, range : SequenceRange]
  /\ leader \in [Partition -> Broker]
  /\ log \in [Partition -> Seq(SequenceRange)]
  /\ late \in [Broker -> SUBSET (Partition \X SequenceRange)]
  /\ faults \in Nat
  /\ refused \in BOOLEAN
  /\ submitted \in [Partition -> Seq(SequenceRange)]
  /\ retired \in [Partition -> Nat]

-----------------------------------------------------------------------------
(* Queueing.                                                               *)

(* One batch for each partition in count's domain is given its sequence    *)
(* numbers, encoded once, and appended to the partition's queue.           *)
Queue(count) ==
  LET queued(q) == [p \in Partition |->
                      IF p \in DOMAIN count
                      THEN Append(q[p], NextRange(p, count[p])) ELSE q[p]]
  IN /\ Allocate(count)
     /\ pending' = queued(pending)
     /\ submitted' = queued(submitted)

(* Bound: batches of p so far, the one its staged records will become      *)
(* included.                                                               *)
BatchesOf(p) == Len(submitted[p]) + IF staged[p] > 0 THEN 1 ELSE 0

Enqueue(p, n) ==
  /\ pc = "idle"
  /\ BatchesOf(p) < MaxBatches
  /\ Queue([q \in {p} |-> n])
  /\ UNCHANGED << staged, due, meta, pc, attempt, sent, answers, err, aborted,
                  written, netVars, brokerVars, retired >>

(* drain_staged, then the head of flush's loop. *)
StartFlush(st) ==
  LET full == {p \in Partition : st[p] > 0}
  IN /\ full # {} => Usable
     /\ Queue([p \in full |-> st[p]])
     /\ staged' = [p \in Partition |-> 0]
     /\ due' = {}
     /\ pc' = "route"
     /\ attempt' = 0
     /\ written' = {}
     /\ UNCHANGED << meta, sent, answers, err, aborted, netVars, brokerVars,
                     retired >>

(* The first staged batch is taken out of the map, its enqueue fails, and  *)
(* the call returns.                                                       *)
DropStaged(st, ready) ==
  /\ ~Usable
  /\ \E p \in ready : /\ staged' = [st EXCEPT ![p] = 0]
                      /\ due' = due \ {p}
  /\ UNCHANGED << stateVars, pending, meta, pc, attempt, sent, answers, err,
                  aborted, written, netVars, brokerVars, submitted, retired >>

Flush ==
  /\ pc = "idle"
  /\ \/ (\E p \in Partition : pending[p] # <<>> \/ staged[p] > 0) /\ StartFlush(staged)
     \/ DropStaged(staged, {p \in Partition : staged[p] > 0})

(* send_ready enqueues what is ready and then calls flush, which drains    *)
(* whatever else is staged.                                                *)
SendReady(st, ready) ==
  /\ ready # {}
  /\ StartFlush(st) \/ DropStaged(st, ready)

Tick == pc = "idle" /\ SendReady(staged, due)

(* A record for p; the batch it joins may now be full. *)
ProduceTo(p) ==
  LET st == [staged EXCEPT ![p] = @ + 1]
  IN /\ pc = "idle"
     /\ staged[p] < MaxStaged
     /\ staged[p] = 0 => BatchesOf(p) < MaxBatches
     /\ \/ SendReady(st, due \cup {p})
        \/ due # {} /\ SendReady(st, due)
        \/ /\ due = {}
           /\ staged' = st
           /\ UNCHANGED << stateVars, pending, due, meta, pc, attempt, sent,
                           answers, err, aborted, written, netVars, brokerVars,
                           submitted, retired >>

(* Time passes (the clock is only read by the calls above). *)
LingerExpires(p) ==
  /\ pc = "idle"
  /\ staged[p] > 0
  /\ p \notin due
  /\ due' = due \cup {p}
  /\ UNCHANGED << stateVars, pending, staged, meta, pc, attempt, sent, answers,
                  err, aborted, written, netVars, brokerVars, submitted, retired >>

-----------------------------------------------------------------------------
(* Metadata and routing.                                                   *)

Needed == {p \in Partition : pending[p] # <<>>}

(* A connection call_any would use: a pooled one, else a bootstrap one. *)
Pool == IF \A b \in Broker : link[b] = "none"
        THEN Broker ELSE {b \in Broker : link[b] # "none"}

(* refresh_metadata: the answer is merged, so a partition it names no      *)
(* leader for keeps the entry it had, and so do those in early, which have *)
(* been looked up before.  A dead connection is replaced.                  *)
RefreshMetadata(early) ==
  /\ \E silent \in SUBSET Partition :
       /\ silent # {} => faults < MaxFaults
       /\ meta' = [p \in Partition |-> IF p \in silent \cup early THEN meta[p] ELSE leader[p]]
       /\ faults' = IF silent = {} THEN faults ELSE faults + 1
  /\ \E b \in Pool : link' = [link EXCEPT ![b] = "up"]

RefreshFails ==
  /\ faults < MaxFaults
  /\ faults' = faults + 1
  /\ \E b \in Pool : link' = [link EXCEPT ![b] = "none"]
  /\ UNCHANGED meta

(* Sleep and go round the loop again, or give up with NoLeader. *)
Backoff ==
  IF attempt + 1 < MaxRetries
  THEN attempt' = attempt + 1 /\ pc' = "route"
  ELSE attempt' = 0 /\ pc' = "idle"

(* flush ends, with its result or with an error. *)
Return == attempt' = 0 /\ pc' = "idle"

(* Which broker leads each partition that still has work.  They are looked *)
(* up one by one, and the first that is not known has the metadata read    *)
(* again: those looked up before it are sent to the leaders they had.  An  *)
(* entry of theirs that is wrong is invalidated by the answer.             *)
Route ==
  /\ pc = "route"
  /\ IF \A p \in Needed : meta[p] # NoBroker
     THEN UNCHANGED << meta, faults, link >>
     ELSE \E early \in SUBSET {p \in Needed : meta[p] # NoBroker} : RefreshMetadata(early)
  /\ IF \E p \in Needed : meta'[p] # NoBroker
     THEN pc' = "send" /\ UNCHANGED attempt
     ELSE Backoff
  /\ UNCHANGED << stateVars, pending, staged, due, sent, answers, err, aborted,
                  written, req, resp, late, leader, log, refused, submitted,
                  retired >>

RouteFails ==
  /\ pc = "route"
  /\ \E p \in Needed : meta[p] = NoBroker
  /\ RefreshFails
  /\ Return
  /\ UNCHANGED << stateVars, pending, staged, due, sent, answers, err, aborted,
                  written, req, resp, late, leader, log, refused, submitted,
                  retired >>

-----------------------------------------------------------------------------
(* The window.  Round r carries the r-th queued batch of every partition   *)
(* that has one.                                                           *)

Taking(b, r) == {p \in Needed : meta[p] = b /\ Len(pending[p]) >= r}

(* Rounds are written in order, and to every broker before the next one.   *)
HasRound(b, r) == r <= MaxInFlight /\ Taking(b, r) # {}
NextToSend(b) ==
  /\ HasRound(b, sent[b] + 1)
  /\ \A c \in Broker : sent[c] < sent[b] => ~HasRound(c, sent[c] + 1)
NextToCollect(b) ==
  /\ Len(answers[b]) < sent[b]
  /\ \A c \in Broker : Len(answers[c]) < Len(answers[b]) => Len(answers[c]) = sent[c]

Carries(body) == {p \in Partition : body[p] # NoBatch}
Outstanding(b) ==
  UNION { { << p, req[b][i][p] >> : p \in Carries(req[b][i]) } : i \in DOMAIN req[b] }

(* The connection leaves the pool; the broker may still hold its requests. *)
DropLink(b) ==
  /\ link' = [link EXCEPT ![b] = "none"]
  /\ late' = [late EXCEPT ![b] = @ \cup Outstanding(b)]
  /\ req' = [req EXCEPT ![b] = <<>>]
  /\ resp' = [resp EXCEPT ![b] = <<>>]

(* Cluster::send_at.  A write on a connection the peer has closed fails    *)
(* and is retried on a new one, or disappears into the socket.             *)
SendAt(b, body) ==
  \/ /\ link[b] = "up"
     /\ req' = [req EXCEPT ![b] = Append(@, body)]
     /\ UNCHANGED << link, resp, late >>
  \/ /\ link[b] # "up"
     /\ link' = [link EXCEPT ![b] = "up"]
     /\ req' = [req EXCEPT ![b] = << body >>]
     /\ resp' = [resp EXCEPT ![b] = <<>>]
     /\ UNCHANGED late
  \/ /\ link[b] = "dead"
     /\ UNCHANGED netVars

SendWindow(b) ==
  /\ pc = "send"
  /\ NextToSend(b)
  /\ LET r == sent[b] + 1
     IN SendAt(b, [p \in Partition |-> IF p \in Taking(b, r) THEN pending[p][r]
                                                           ELSE NoBatch])
  /\ sent' = [sent EXCEPT ![b] = @ + 1]
  /\ pc' = IF \E c \in Broker : HasRound(c, sent'[c] + 1) THEN "send" ELSE "collect"
  /\ UNCHANGED << stateVars, pending, staged, due, meta, attempt, answers, err,
                  aborted, written, brokerVars, submitted, retired >>

(* The reconnect fails too: whatever went out is collected before the      *)
(* error is returned.                                                      *)
SendWindowFails(b) ==
  /\ pc = "send"
  /\ NextToSend(b)
  /\ faults < MaxFaults
  /\ faults' = faults + 1
  /\ DropLink(b)
  /\ aborted' = TRUE
  /\ pc' = IF \A c \in Broker : sent[c] = 0 THEN "settle" ELSE "collect"
  /\ UNCHANGED << stateVars, pending, staged, due, meta, attempt, sent, answers,
                  err, written, leader, log, refused, submitted, retired >>

(* Mutant: the rounds behind the first error are not collected. *)
CollectedUntilError(b, answer) ==
  /\ pc = "collect"
  /\ NextToCollect(b)
  /\ answers' = [answers EXCEPT ![b] = Append(@, answer)]
  /\ pc' = IF err # "none" \/ \A c \in Broker : Len(answers'[c]) = sent[c]
           THEN "settle" ELSE "collect"
  /\ UNCHANGED << stateVars, pending, staged, due, meta, attempt, sent, aborted,
                  written, leader, log, refused, submitted, retired >>

(* Cluster::recv_many and collect_window, for one broker of one round. *)
Collected(b, answer) ==
  /\ pc = "collect"
  /\ NextToCollect(b)
  /\ answers' = [answers EXCEPT ![b] = Append(@, answer)]
  /\ pc' = IF \A c \in Broker : Len(answers'[c]) = sent[c] THEN "settle" ELSE "collect"
  /\ UNCHANGED << stateVars, pending, staged, due, meta, attempt, sent, aborted,
                  written, leader, log, refused, submitted, retired >>

Receive(b) ==
  /\ resp[b] # <<>>
  /\ Collected(b, Head(resp[b]))
  /\ resp' = [resp EXCEPT ![b] = Tail(@)]
  /\ UNCHANGED << err, link, req, late, faults >>

(* A failed read drops the connection and counts, for every partition of   *)
(* the round, as a timed-out request.                                      *)
NoAnswer(b) ==
  [p \in Partition |-> IF p \in Taking(b, Len(answers[b]) + 1)
                       THEN [code |-> "REQUEST_TIMED_OUT", off |-> 0] ELSE Absent]

ReceiveFails(b) ==
  /\ link[b] # "up" /\ resp[b] = <<>>
  /\ Collected(b, NoAnswer(b))
  /\ err' = IF err = "none" THEN "Io" ELSE err
  /\ DropLink(b)
  /\ UNCHANGED faults

ReceiveTimesOut(b) ==
  /\ link[b] = "up" /\ resp[b] = <<>>
  /\ req[b] # <<>> => faults < MaxFaults
  /\ Collected(b, NoAnswer(b))
  /\ err' = IF err = "none" THEN "Timeout" ELSE err
  /\ DropLink(b)
  /\ faults' = IF req[b] = <<>> THEN faults ELSE faults + 1

-----------------------------------------------------------------------------
(* What flush makes of a collected window.                                 *)

Routed(p) == pending[p] # <<>> /\ meta[p] # NoBroker
CodeAt(p, r) == answers[meta[p]][r][p].code

(* Mutant: a timed-out request is taken to have been written.    *)
FailedInTime(p) ==
  IF ~Routed(p) THEN {}
  ELSE {r \in 1 .. Len(answers[meta[p]]) :
          CodeAt(p, r) \notin {"NONE", "REQUEST_TIMED_OUT"}}

(* The rounds that failed for p; whatever answered after the earliest one  *)
(* is void.                                                                *)
Failed(p) ==
  IF ~Routed(p) THEN {}
  ELSE {r \in 1 .. Len(answers[meta[p]]) : CodeAt(p, r) # "NONE"}

(* Mutant: the reaction is to the last failure instead of the first. *)
LastFailed(p) == CHOOSE r \in Failed(p) : \A q \in Failed(p) : q <= r

(* The earliest of them, and what flush does about it. *)
FailedAt(p) == CHOOSE r \in Failed(p) : \A q \in Failed(p) : r <= q
Reaction(p) == disposition(CodeAt(p, FailedAt(p)))

(* The contiguous leading run of successes. *)
Carried(p) == IF ~Routed(p) THEN 0
              ELSE IF Len(pending[p]) < MaxInFlight THEN Len(pending[p])
              ELSE MaxInFlight

(* Mutant: every success counts, not only the leading ones. *)
EverySuccess(p) == Carried(p) - Cardinality(Failed(p))

(* How many of p's batches flush retires. *)
LeadingRun(p) == IF Failed(p) = {} THEN Carried(p) ELSE FailedAt(p) - 1

Broken == {p \in Partition : Failed(p) # {}}
Fatal == {p \in Broken : Reaction(p) \notin {"RefreshMetadata", "Retry"}}

(* Mutant: no leader is forgotten. *)
NoneMoved == {}

(* Partitions whose leader moved. *)
Moved == {p \in Broken : Reaction(p) = "RefreshMetadata"}

(* Mutant: a window's error outlives it. *)
ClearWindowButError ==
  /\ sent' = [b \in Broker |-> 0]
  /\ answers' = [b \in Broker |-> <<>>]
  /\ aborted' = FALSE
  /\ UNCHANGED err

(* The next window starts from nothing. *)
ClearWindow ==
  /\ sent' = [b \in Broker |-> 0]
  /\ answers' = [b \in Broker |-> <<>>]
  /\ err' = "none"
  /\ aborted' = FALSE

(* A transport error, or a window that could not be written: nothing is    *)
(* retired on a guess.                                                     *)
SettleTransport ==
  /\ pc = "settle"
  /\ err # "none" \/ aborted
  /\ IF err = "Io" /\ ~aborted THEN Backoff ELSE Return
  /\ ClearWindow
  /\ UNCHANGED << stateVars, pending, staged, due, meta, written, netVars,
                  brokerVars, submitted, retired >>

(* Mutant: the queues of the failed partitions are dropped. *)
SettleFatalDropping ==
  /\ pc = "settle"
  /\ err = "none" /\ ~aborted
  /\ Fatal # {}
  /\ pending' = [p \in Partition |-> IF p \in Fatal THEN <<>> ELSE pending[p]]
  /\ Fence
  /\ Return
  /\ ClearWindow
  /\ UNCHANGED << staged, due, meta, written, netVars, brokerVars, submitted,
                  retired >>

(* An error no earlier failure explains.  The leaders invalidated before   *)
(* the loop met it stay invalidated; nothing is retired.                   *)
SettleFatal ==
  /\ pc = "settle"
  /\ err = "none" /\ ~aborted
  /\ \E p \in Fatal :
       /\ \A q \in Fatal : FailedAt(p) <= FailedAt(q)
       /\ \E before \in SUBSET {q \in Moved : FailedAt(q) = FailedAt(p)} :
            meta' = [q \in Partition |->
                       IF q \in before \/ (q \in Moved /\ FailedAt(q) < FailedAt(p))
                       THEN NoBroker ELSE meta[q]]
  /\ Fence
  /\ Return
  /\ ClearWindow
  /\ UNCHANGED << pending, staged, due, written, netVars, brokerVars, submitted,
                  retired >>

SettleWindow ==
  /\ pc = "settle"
  /\ err = "none" /\ ~aborted
  /\ Fatal = {}
  /\ meta' = [p \in Partition |-> IF p \in Moved THEN NoBroker ELSE meta[p]]
  /\ pending' = [p \in Partition |->
                   SubSeq(pending[p], LeadingRun(p) + 1, Len(pending[p]))]
  /\ retired' = [p \in Partition |-> retired[p] + LeadingRun(p)]
  /\ written' = written \cup
       UNION { { [p |-> p, off |-> answers[meta[p]][r][p].off, range |-> pending[p][r]] :
                 r \in 1 .. LeadingRun(p) } : p \in Partition }
  /\ IF \A p \in Partition : pending'[p] = <<>> THEN Return
     ELSE IF Moved # {} THEN pc' = "refresh" /\ UNCHANGED attempt
     ELSE Backoff
  /\ ClearWindow
  /\ UNCHANGED << stateVars, staged, due, netVars, brokerVars, submitted >>

Refresh ==
  /\ pc = "refresh"
  /\ \/ RefreshMetadata({}) /\ Backoff
     \/ RefreshFails /\ Return
  /\ UNCHANGED << stateVars, pending, staged, due, sent, answers, err, aborted,
                  written, req, resp, late, leader, log, refused, submitted,
                  retired >>

-----------------------------------------------------------------------------
(* The brokers and the network (external): what src/ relies on of them.    *)

NextSequence(p) == IF log[p] = <<>> THEN 0 ELSE RangeEnd(log[p][Len(log[p])])
Remembered(p, range) ==
  {i \in 1 .. Len(log[p]) : i > Len(log[p]) - CacheSize /\ log[p][i] = range}

Refusal(code) == [code |-> code, off |-> 0, append |-> FALSE]

(* The leader appends the next sequence, recognises a recent batch and     *)
(* answers with its original offset, and rejects everything else.          *)
Verdict(b, p, range) ==
  CASE leader[p] # b -> Refusal("NOT_LEADER_OR_FOLLOWER")
    [] leader[p] = b /\ Remembered(p, range) # {} ->
         [code |-> "NONE", off |-> CHOOSE i \in Remembered(p, range) : TRUE,
          append |-> FALSE]
    [] leader[p] = b /\ Remembered(p, range) = {} /\ range.base = NextSequence(p) ->
         [code |-> "NONE", off |-> Len(log[p]) + 1, append |-> TRUE]
    [] OTHER -> Refusal("OUT_OF_ORDER_SEQUENCE_NUMBER")

(* A broker in trouble: it refuses, or appends and answers too late. *)
Trouble(b, p, range) ==
  { Refusal("REQUEST_TIMED_OUT"), Refusal("OTHER"),
    [code |-> "REQUEST_TIMED_OUT", off |-> 0, append |-> Verdict(b, p, range).append] }

Execute(b) ==
  /\ link[b] = "up"
  /\ req[b] # <<>>
  /\ LET body == Head(req[b])
         S == Carries(body)
     IN \E ill \in SUBSET S :
          /\ ill # {} => faults < MaxFaults
          /\ \E v \in [S -> UNION { {Verdict(b, p, body[p])} \cup Trouble(b, p, body[p])
                                    : p \in S }] :
               /\ \A p \in S : IF p \in ill THEN v[p] \in Trouble(b, p, body[p])
                               ELSE v[p] = Verdict(b, p, body[p])
               /\ log' = [p \in Partition |-> IF p \in S /\ v[p].append
                                              THEN Append(log[p], body[p]) ELSE log[p]]
               /\ resp' = [resp EXCEPT ![b] =
                             Append(@, [p \in Partition |->
                                         IF p \in S THEN [code |-> v[p].code, off |-> v[p].off]
                                                    ELSE Absent])]
               /\ refused' = (refused \/ \E p \in S : v[p].code = "OTHER")
          /\ faults' = IF ill = {} THEN faults ELSE faults + 1
  /\ req' = [req EXCEPT ![b] = Tail(@)]
  /\ UNCHANGED << stateVars, clientVars, link, late, leader, submitted, retired >>

(* A request on a connection the client has given up is executed after     *)
(* all; its answer goes nowhere.                                           *)
ExecuteLate(b) ==
  /\ \E m \in late[b] :
       /\ Verdict(b, m[1], m[2]).append
       /\ log' = [log EXCEPT ![m[1]] = Append(@, m[2])]
  /\ UNCHANGED << stateVars, clientVars, netVars, leader, faults, refused,
                  submitted, retired >>

(* The peer closes; answers already in the socket can still be read. *)
BreakLink(b) ==
  /\ link[b] = "up"
  /\ faults < MaxFaults
  /\ faults' = faults + 1
  /\ link' = [link EXCEPT ![b] = "dead"]
  /\ late' = [late EXCEPT ![b] = @ \cup Outstanding(b)]
  /\ req' = [req EXCEPT ![b] = <<>>]
  /\ \E k \in 0 .. Len(resp[b]) : resp' = [resp EXCEPT ![b] = SubSeq(@, 1, k)]
  /\ UNCHANGED << stateVars, clientVars, leader, log, refused, submitted, retired >>

MoveLeader(p, b) ==
  /\ b # leader[p]
  /\ faults < MaxFaults
  /\ faults' = faults + 1
  /\ leader' = [leader EXCEPT ![p] = b]
  /\ UNCHANGED << stateVars, clientVars, netVars, log, refused, submitted, retired >>

-----------------------------------------------------------------------------
(* The producer its constructor returns, and everything that may happen.   *)

Init ==
  /\ identity = [id |-> 0, epoch |-> 0]
  /\ txn = "Ready"
  /\ sequences = [p \in Partition |-> 0]
  /\ enrolled = {}
  /\ pending = [p \in Partition |-> <<>>]
  /\ staged = [p \in Partition |-> 0]
  /\ due = {}
  /\ meta = [p \in Partition |-> NoBroker]
  /\ link = [b \in Broker |-> "none"]
  /\ req = [b \in Broker |-> <<>>]
  /\ resp = [b \in Broker |-> <<>>]
  /\ pc = "idle"
  /\ attempt = 0
  /\ sent = [b \in Broker |-> 0]
  /\ answers = [b \in Broker |-> <<>>]
  /\ err = "none"
  /\ aborted = FALSE
  /\ written = {}
  /\ leader \in [Partition -> Broker]
  /\ log = [p \in Partition |-> <<>>]
  /\ late = [b \in Broker |-> {}]
  /\ faults = 0
  /\ refused = FALSE
  /\ submitted = [p \in Partition |-> <<>>]
  /\ retired = [p \in Partition |-> 0]

Caller ==
  \/ \E p \in Partition, n \in Counts : Enqueue(p, n)
  \/ \E p \in Partition : ProduceTo(p)
  \/ Tick
  \/ Flush

(* The flush future, polled until it returns. *)
FlushStep ==
  \/ Route \/ RouteFails
  \/ \E b \in Broker : SendWindow(b) \/ SendWindowFails(b)
  \/ \E b \in Broker : Receive(b) \/ ReceiveFails(b) \/ ReceiveTimesOut(b)
  \/ SettleTransport \/ SettleFatal \/ SettleWindow
  \/ Refresh

Environment ==
  \/ \E p \in Partition : LingerExpires(p)
  \/ \E b \in Broker : Execute(b) \/ ExecuteLate(b) \/ BreakLink(b)
  \/ \E p \in Partition, b \in Broker : MoveLeader(p, b)

Next == Caller \/ FlushStep \/ Environment

Spec == Init /\ [][Next]_vars

(* The caller awaits the flush it started and flushes again while batches  *)
(* are queued; a broker executes what reached it.  Faults need no fairness *)
(* and are finitely many.                                                  *)
Fairness ==
  /\ WF_vars(Flush)
  /\ WF_vars(FlushStep)
  /\ \A b \in Broker : WF_vars(Execute(b))

FairSpec == Spec /\ Fairness

-----------------------------------------------------------------------------
(* Properties.                                                             *)

(* What idempotence is for: every partition's log holds exactly the        *)
(* batches queued for it, in the order they were queued, with no gap and   *)
(* no duplicate, up to some point; and flush has only retired batches      *)
(* below that point, whatever was lost, repeated, delayed or reordered.    *)
ExactlyOnceInOrder ==
  \A p \in Partition :
    /\ retired[p] <= Len(log[p])
    /\ Len(log[p]) <= Len(submitted[p])
    /\ \A i \in 1 .. Len(log[p]) : log[p][i] = submitted[p][i]

(* The whole produce path implements the contract of ExactlyOnceLog: seen  *)
(* through its submissions, the logs and its acknowledgements, every step  *)
(* of windows, retries, reconnects and late executions is a step of that   *)
(* specification or invisible.                                             *)
Contract == INSTANCE ExactlyOnceLog
              WITH Partition <- Partition, submitted <- submitted,
                   log <- log, retired <- retired
ImplementsContract == Contract!Spec

(* q is what is left of s after its first k elements. *)
TailOf(q, s, k) == /\ Len(s) = k + Len(q)
                   /\ \A i \in 1 .. Len(q) : q[i] = s[k + i]

(* A batch that was given sequence numbers stays queued, in order, until   *)
(* flush retires it: skipping one would leave a gap no later batch gets    *)
(* past.                                                                   *)
NothingSkipped ==
  \A p \in Partition : TailOf(pending[p], submitted[p], retired[p])

(* With a window no deeper than what brokers remember, the retry rule      *)
(* never lets the producer fence itself: a sequence error is always read   *)
(* as the consequence of an earlier failure in the same window, unless a   *)
(* broker really refused.                                                  *)
NoSelfFencing == txn = "Fatal" => refused

(* The offsets flush returns are where the broker put those very batches,  *)
(* also for answers read after a reconnect or for a deduplicated resend.   *)
TrueOffsets ==
  \A w \in written : w.off \in 1 .. Len(log[w.p]) /\ log[w.p][w.off] = w.range

(* Between windows no pooled connection holds a request or an answer, so   *)
(* nothing can be read as the answer to a later request.                   *)
DrainedBetweenWindows ==
  pc \in {"idle", "route", "refresh"} =>
    \A b \in Broker : req[b] = <<>> /\ resp[b] = <<>>

(* Every queued batch is eventually written and retired, unless the        *)
(* producer is fenced: a moved leader, a lost connection, a timeout or a   *)
(* retriable answer never wedges the queue.                                *)
EventuallyRetired ==
  \A p \in Partition : pending[p] # <<>> ~> (pending[p] = <<>> \/ txn = "Fatal")
=============================================================================
