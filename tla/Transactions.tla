---------------------------- MODULE Transactions ----------------------------
(***************************************************************************)
(* Consume, transform, produce: instances that read an input partition as  *)
(* members of a group, write what they make of it with a transactional     *)
(* producer, and commit the input offsets inside the transaction           *)
(* (barnabas-client/src/producer.rs; the loop is docs/cookbook.md's).  The *)
(* transaction coordinator, the group coordinator and the partition        *)
(* leaders are external.                                                   *)
(*                                                                         *)
(* An instance is blocked while it waits for an answer: one step sends,    *)
(* executes and handles it.  A request whose call has failed may still     *)
(* arrive (late).  Attempts of coordinator_call that change nothing leave  *)
(* the state as it is; the last one is a failed call.                      *)
(***************************************************************************)
EXTENDS TransactionalProducer, PartitionLog, ErrorCodes, FiniteSets

CONSTANTS Instance,     \* each with a transactional id of its own
          BatchSize,    \* records made of one input
          MaxInput,     \* bound: inputs
          MaxBegun,     \* bound: transactions begun
          MaxMoves,     \* bound: rebalances
          MaxFaults,    \* bound: faults
          Faults,       \* the kinds of fault to look at
          AbortsUnsent  \* whether callers abort with batches still queued

ASSUME TransactionsAssumption ==
  /\ BatchSize \in Nat \ {0} /\ MaxInput \in Nat /\ MaxBegun \in Nat
  /\ MaxMoves \in Nat /\ MaxFaults \in Nat /\ AbortsUnsent \in BOOLEAN
  /\ Faults \subseteq {"lost", "crash", "timeout"}

VARIABLES
  proc,     \* each instance
  tc,       \* each transactional id, at its coordinator
  log,      \* the output partition: a sequence of batches
  next,     \* what its leader knows of each producer: epoch, next sequence
  offset,   \* the group's committed offset
  unstable, \* offsets of transactions that have not ended
  group,    \* the member that holds the input partition, and the generation
  late,     \* requests whose calls have failed, not executed so far
  doomed,   \* history: batches of transactions the caller aborted
  stale,    \* history: an offset was read while another was unstable
  crossed,  \* history: an offset was committed by a transaction that did not send it
  begun, moves, faults

serverVars == << tc, log, next, offset, unstable, crossed >>
vars == << proc, serverVars, group, late, doomed, stale, begun, moves, faults >>

NoOffset == -1
Nothing == [offset |-> NoOffset, ended |-> FALSE]
Part == {"output", "offsets"}

(* An instance that has just started. *)
Started ==
  [pc |-> "init", state |-> transactional, pending |-> << >>, position |-> 0,
   generation |-> 0, committing |-> FALSE]

Init ==
  /\ proc = [i \in Instance |-> Started]
  /\ tc = [i \in Instance |-> [epoch |-> 0, state |-> "Empty", parts |-> {}]]
  /\ log = << >>
  /\ next = [i \in Instance |-> [epoch |-> 0, sequence |-> 0]]
  /\ offset = 0
  /\ unstable = [i \in Instance |-> Nothing]
  /\ group \in [owner : Instance, generation : {1}]
  /\ late = {} /\ doomed = {} /\ stale = FALSE /\ crossed = FALSE
  /\ begun = 0 /\ moves = 0 /\ faults = 0

Fault(kind) == kind \in Faults /\ faults < MaxFaults /\ faults' = faults + 1

(* Whether a batch is committed, or certain to be. *)
Decided(b) ==
  \/ Committed(log, b)
  \/ b \in Open(log, b.producer_id) /\ tc[b.producer_id].state = "PrepareCommit"

-----------------------------------------------------------------------------
(* The brokers, external: what a request makes of their state, and the     *)
(* code it is answered with.                                               *)
Server == [tc |-> tc, log |-> log, next |-> next, offset |-> offset, unstable |-> unstable]
Answer(code, server) == [code |-> code, server |-> server]

Preparing(i) == tc[i].state \in {"PrepareCommit", "PrepareAbort"}

InitAnswer(r) ==
  LET i == r.i
      bumped == [tc[i] EXCEPT !.epoch = @ + 1]
  IN CASE Preparing(i) -> Answer("CONCURRENT_TRANSACTIONS", Server)
       [] tc[i].state = "Ongoing" ->
            Answer("CONCURRENT_TRANSACTIONS",
                   [Server EXCEPT !.tc[i] = [bumped EXCEPT !.state = "PrepareAbort"]])
       [] OTHER -> Answer("NONE", [Server EXCEPT !.tc[i] = [bumped EXCEPT !.state = "Empty"]])

(* AddPartitionsToTxn and AddOffsetsToTxn. *)
AddAnswer(r) ==
  LET i == r.i
  IN CASE r.epoch # tc[i].epoch -> Answer("INVALID_PRODUCER_EPOCH", Server)
       [] Preparing(i) -> Answer("CONCURRENT_TRANSACTIONS", Server)
       [] OTHER -> Answer("NONE", [Server EXCEPT !.tc[i].state = "Ongoing",
                                                 !.tc[i].parts = @ \cup {r.part}])

(* A write of transaction r.i's to part is taken only while part belongs   *)
(* to the transaction.                                                     *)
Enrolled(r, part) ==
  /\ r.epoch = tc[r.i].epoch /\ tc[r.i].state = "Ongoing" /\ part \in tc[r.i].parts

Data(r) ==
  [producer_id |-> r.i, transactional |-> TRUE, control |-> "none", base |-> LogEnd(log),
   count |-> BatchSize, value |-> r.batch.value, epoch |-> r.epoch,
   sequence |-> r.batch.sequence]

ProduceAnswer(r) ==
  LET known == IF r.epoch = next[r.i].epoch THEN next[r.i].sequence ELSE 0
  IN CASE r.epoch < next[r.i].epoch -> Answer("INVALID_PRODUCER_EPOCH", Server)
       [] ~Enrolled(r, "output") -> Answer("OTHER", Server)
       [] r.batch.sequence < known -> Answer("NONE", Server)
       [] r.batch.sequence > known -> Answer("OUT_OF_ORDER_SEQUENCE_NUMBER", Server)
       [] OTHER ->
            Answer("NONE",
                   [Server EXCEPT !.log = Append(@, Data(r)),
                                  !.next[r.i] = [epoch |-> r.epoch,
                                                 sequence |-> known + BatchSize]])

(* TxnOffsetCommit: the generation is the fencing token (KIP-447).  Ended  *)
(* is history: the caller has aborted the transaction it belonged to.      *)
OffsetsAnswer(r) ==
  IF ~Enrolled(r, "offsets") \/ r.generation # group.generation
  THEN Answer("OTHER", Server)
  ELSE Answer("NONE", [Server EXCEPT !.unstable[r.i] = [offset |-> r.offset, ended |-> r.ended]])

Prepared(commit) == IF commit THEN "PrepareCommit" ELSE "PrepareAbort"
Completed(commit) == IF commit THEN "CompleteCommit" ELSE "CompleteAbort"

EndAnswer(r) ==
  LET i == r.i
  IN CASE r.epoch # tc[i].epoch -> Answer("INVALID_PRODUCER_EPOCH", Server)
       [] tc[i].state = "Ongoing" ->
            Answer("NONE", [Server EXCEPT !.tc[i].state = Prepared(r.commit)])
       [] tc[i].state = Prepared(r.commit) -> Answer("CONCURRENT_TRANSACTIONS", Server)
       [] tc[i].state = Completed(r.commit) -> Answer("NONE", Server)
       [] OTHER -> Answer("OTHER", Server)

Execute(r) ==
  CASE r.api = "InitProducerId" -> InitAnswer(r)
    [] r.api = "Add" -> AddAnswer(r)
    [] r.api = "Produce" -> ProduceAnswer(r)
    [] r.api = "TxnOffsetCommit" -> OffsetsAnswer(r)
    [] r.api = "EndTxn" -> EndAnswer(r)

Becomes(s) ==
  /\ tc' = s.tc /\ log' = s.log /\ next' = s.next
  /\ offset' = s.offset /\ unstable' = s.unstable /\ UNCHANGED crossed

-----------------------------------------------------------------------------
(* A call of instance i that sends r.  It is answered; or its answer is    *)
(* lost, and it is sent again or fails; or it fails before the request has *)
(* been executed, which may happen later or never.  handled is the         *)
(* instance after a success, an answer that is not one being a refusal.    *)
Err(p) == [p EXCEPT !.pc = "err"]

(* coordinator_call, group_coordinator_call and flush on a refusal. *)
Refused(p, code) ==
  Err([p EXCEPT !.state = IF disposition(code) = "Fatal" THEN fence(@) ELSE @])

Call(i, r, handled) ==
  LET a == Execute(r)
      p == proc[i]
      Now(q) == proc' = [proc EXCEPT ![i] = q]
  IN /\ \/ /\ Becomes(a.server)
           /\ Now(CASE disposition(a.code) = "Ok" -> handled
                     [] disposition(a.code) = "Retry" -> p
                     [] OTHER -> Refused(p, a.code))
           /\ UNCHANGED << late, faults >>
        \/ Becomes(a.server) /\ Fault("lost") /\ Now(p) /\ UNCHANGED late
        \/ Becomes(a.server) /\ Fault("lost") /\ Now(Err(p)) /\ UNCHANGED late
        \/ UNCHANGED serverVars /\ Fault("lost") /\ Now(Err(p)) /\ late' = late \cup {r}
     /\ UNCHANGED << group, doomed, stale, begun, moves >>

Local(i, p) ==
  /\ proc' = [proc EXCEPT ![i] = p]
  /\ UNCHANGED << serverVars, group, moves, faults >>

(* Producer::transactional: InitProducerId, until no transaction of an     *)
(* earlier producer with this id is open.                                  *)
InitProducerId(i) ==
  /\ proc[i].pc = "init"
  /\ Call(i, [api |-> "InitProducerId", i |-> i],
          [proc[i] EXCEPT !.pc = "idle",
                          !.state = on_init_producer_id(@, tc[i].epoch + 1)])

(* Consumer::poll, where it changes the membership: an instance that is    *)
(* given the partition starts at the offset committed, as it is when read  *)
(* (fetch_offsets does not ask for a stable one); one that has lost it     *)
(* gives it up.                                                            *)
Poll(i) ==
  /\ proc[i].pc \in {"init", "idle"}
  /\ proc[i].generation # IF group.owner = i THEN group.generation ELSE 0
  /\ Local(i, IF group.owner = i
              THEN [proc[i] EXCEPT !.generation = group.generation, !.position = offset]
              ELSE [proc[i] EXCEPT !.generation = 0])
  /\ stale' = (stale \/ (group.owner = i /\ \E j \in Instance : unstable[j] # Nothing))
  /\ UNCHANGED << late, begun, doomed >>

(* begin_transaction, with the next input read. *)
BeginTransaction(i) ==
  LET p == proc[i]
  IN /\ p.pc = "idle" /\ CanBegin(p.state)
     /\ p.generation # 0 /\ p.position < MaxInput
     /\ Local(i, [p EXCEPT !.state = begin_transaction(@), !.position = @ + 1,
                           !.pc = "send"])
     /\ begun < MaxBegun /\ begun' = begun + 1
     /\ UNCHANGED << late, doomed, stale >>

(* Producer::send: enroll_all unless the partition is enrolled, then       *)
(* encode_for and the queue, then flush.                                   *)
Enqueued(p) ==
  IF CanAllocate(p.state)
  THEN [p EXCEPT !.pending = Append(@, [value |-> p.position - 1,
                                        sequence |-> p.state.sequence]),
                 !.state = allocate(@, BatchSize),
                 !.pc = "flush"]
  ELSE Err(p)

Enqueue(i) ==
  LET p == proc[i]
  IN /\ p.pc = "send"
     /\ IF needs_enrollment(p.state)
        THEN Call(i, [api |-> "Add", i |-> i, epoch |-> p.state.epoch, part |-> "output"],
                  Enqueued([p EXCEPT !.state = on_enrolled(@)]))
        ELSE Local(i, Enqueued(p)) /\ UNCHANGED << late, begun, doomed, stale >>

(* flush, a batch at a time.  ProducerFlush models it. *)
Flush(i) ==
  LET p == proc[i]
  IN /\ p.pc = "flush" /\ p.pending # << >>
     /\ Call(i, [api |-> "Produce", i |-> i, epoch |-> p.state.epoch,
                 batch |-> Head(p.pending)],
             [p EXCEPT !.pending = Tail(@),
                       !.pc = IF Len(p.pending) = 1 THEN "sent" ELSE "flush"])

(* send_offsets_to_transaction: AddOffsetsToTxn, then TxnOffsetCommit. *)
AddOffsets(i) ==
  LET p == proc[i]
  IN /\ p.pc = "sent" /\ p.state.txn = "InTransaction"
     /\ Call(i, [api |-> "Add", i |-> i, epoch |-> p.state.epoch, part |-> "offsets"],
             [p EXCEPT !.pc = "offsets"])

(* Mutant: the token is the group's, not the one the input was read under. *)
TxnOffsetCommitUnfenced(i) ==
  LET p == proc[i]
  IN /\ p.pc = "offsets"
     /\ Call(i, [api |-> "TxnOffsetCommit", i |-> i, epoch |-> p.state.epoch,
                 generation |-> group.generation, offset |-> p.position, ended |-> FALSE],
             [p EXCEPT !.pc = "covered"])

TxnOffsetCommit(i) ==
  LET p == proc[i]
  IN /\ p.pc = "offsets"
     /\ Call(i, [api |-> "TxnOffsetCommit", i |-> i, epoch |-> p.state.epoch,
                 generation |-> p.generation, offset |-> p.position, ended |-> FALSE],
             [p EXCEPT !.pc = "covered"])

(* commit_transaction, and abort_transaction, which a caller may also try  *)
(* after an error.  One that aborts reads its input again: it asks the     *)
(* group where to start.                                                   *)
Key(i, epoch, sequence) == << i, epoch, sequence >>

(* Mutant: an abort is sent as a commit. *)
EndingCommit(i, commit) ==
  [proc[i] EXCEPT !.state = end_transaction(@), !.committing = TRUE, !.pc = "end"]

Ending(i, commit) ==
  [proc[i] EXCEPT !.state = end_transaction(@), !.committing = commit, !.pc = "end"]

CommitTransaction(i) ==
  /\ proc[i].pc = "covered" /\ CanEnd(proc[i].state)
  /\ Local(i, Ending(i, TRUE))
  /\ UNCHANGED << late, begun, doomed, stale >>

AbortTransaction(i) ==
  LET p == proc[i]
  IN /\ p.pc \in {"send", "sent", "offsets", "covered", "err"} /\ CanEnd(p.state)
     /\ p.pending # << >> => AbortsUnsent
     /\ Local(i, [Ending(i, FALSE) EXCEPT !.generation = 0])
     /\ doomed' = doomed
          \cup {Key(i, p.state.epoch, b.sequence) : b \in Range(p.pending)}
          \cup {Key(i, b.epoch, b.sequence) : b \in {c \in Open(log, i) : ~Decided(c)}}
     /\ late' = {IF r.api = "TxnOffsetCommit" /\ r.i = i THEN [r EXCEPT !.ended = TRUE] ELSE r :
                   r \in late}
     /\ UNCHANGED << begun, stale >>

EndTxn(i) ==
  LET p == proc[i]
  IN /\ p.pc = "end"
     /\ Call(i, [api |-> "EndTxn", i |-> i, epoch |-> p.state.epoch, commit |-> p.committing],
             [p EXCEPT !.state = on_end_transaction(@), !.pc = "idle"])

(* The caller gives the producer up after an error, or the process dies;   *)
(* it starts again under the same transactional id.                        *)
Restart(i) ==
  /\ IF proc[i].pc = "err" THEN UNCHANGED faults ELSE Fault("crash")
  /\ proc' = [proc EXCEPT ![i] = Started]
  /\ UNCHANGED << serverVars, group, late, doomed, stale, begun, moves >>

-----------------------------------------------------------------------------
(* The rest of the cluster, external. *)
ExecuteLate ==
  /\ \E r \in late : Becomes(Execute(r).server) /\ late' = late \ {r}
  /\ UNCHANGED << proc, group, doomed, stale, begun, moves, faults >>

(* The coordinator ends a transaction part by part. *)
Marker(i) ==
  [producer_id |-> i, transactional |-> TRUE, base |-> LogEnd(log), count |-> 1, value |-> NoOffset,
   control |-> IF tc[i].state = "PrepareCommit" THEN "commit" ELSE "abort",
   epoch |-> tc[i].epoch, sequence |-> NoOffset]

WriteMarker(i, part) ==
  LET commit == tc[i].state = "PrepareCommit"
      rest == tc[i].parts \ {part}
  IN /\ Preparing(i) /\ part \in tc[i].parts
     /\ tc' = [tc EXCEPT ![i] = [@ EXCEPT !.parts = rest,
                                          !.state = IF rest = {} THEN Completed(commit) ELSE @]]
     /\ IF part = "output"
        THEN /\ log' = Append(log, Marker(i))
             /\ next' = [next EXCEPT ![i] = IF tc[i].epoch > @.epoch
                                            THEN [epoch |-> tc[i].epoch, sequence |-> 0] ELSE @]
             /\ UNCHANGED << offset, unstable, crossed >>
        ELSE /\ IF commit /\ unstable[i] # Nothing
                THEN /\ offset' = unstable[i].offset
                     /\ crossed' = (crossed \/ unstable[i].ended)
                ELSE UNCHANGED << offset, crossed >>
             /\ unstable' = [unstable EXCEPT ![i] = Nothing]
             /\ UNCHANGED << log, next >>
     /\ UNCHANGED << proc, group, late, doomed, stale, begun, moves, faults >>

(* A transaction that takes too long is aborted. *)
TransactionTimeout(i) ==
  /\ tc[i].state = "Ongoing" /\ Fault("timeout")
  /\ tc' = [tc EXCEPT ![i].state = "PrepareAbort", ![i].epoch = @ + 1]
  /\ UNCHANGED << proc, log, next, offset, unstable, crossed, group, late, doomed, stale,
                  begun, moves >>

(* The input partition is given to i, which may have it already. *)
Rebalance(i) ==
  /\ moves < MaxMoves /\ moves' = moves + 1
  /\ group' = [owner |-> i, generation |-> group.generation + 1]
  /\ UNCHANGED << proc, serverVars, late, doomed, stale, begun, faults >>

-----------------------------------------------------------------------------
Next ==
  \/ \E i \in Instance :
       \/ InitProducerId(i) \/ Poll(i) \/ BeginTransaction(i) \/ Enqueue(i) \/ Flush(i)
       \/ AddOffsets(i) \/ TxnOffsetCommit(i)
       \/ CommitTransaction(i) \/ AbortTransaction(i) \/ EndTxn(i)
       \/ Restart(i)
       \/ \E part \in Part : WriteMarker(i, part)
       \/ TransactionTimeout(i) \/ Rebalance(i)
  \/ ExecuteLate

Spec == Init /\ [][Next]_vars

-----------------------------------------------------------------------------
TypeOK ==
  /\ \A i \in Instance :
       LET p == proc[i]
       IN /\ p.pc \in {"init", "idle", "send", "flush", "sent", "offsets", "covered", "end", "err"}
          /\ p.state.txn \in TxnState
          /\ p.pc \in {"send", "flush", "sent", "offsets", "covered"} => p.state.txn = "InTransaction"
          /\ p.pc = "end" => p.state.txn = "Ending"
          /\ p.pc = "idle" => p.state.txn = "Ready"
          /\ p.position \in 0 .. MaxInput /\ p.generation \in 0 .. group.generation
          /\ tc[i].parts \subseteq Part
          /\ tc[i].state \in {"Ongoing", "PrepareCommit", "PrepareAbort"} <=> tc[i].parts # {}
          /\ p.state.epoch <= tc[i].epoch /\ next[i].epoch <= tc[i].epoch
          /\ unstable[i] \in [offset : NoOffset .. MaxInput, ended : BOOLEAN]
  /\ offset \in 0 .. MaxInput

Outputs(v) ==
  {b \in UNION {Batches(log, i) : i \in Instance} : b.value = v /\ Decided(b)}

(* The group's offset never covers an input without output: whatever       *)
(* crashes, is lost, timed out or moved, the two commit together           *)
(* (send_offsets_to_transaction, enroll_all, on_end_transaction and the    *)
(* sequences that go on across transactions).  The one way round it is an  *)
(* offset that comes late and is taken by the next transaction (crossed).  *)
NoInputLost == crossed \/ \A v \in 0 .. offset - 1 : Outputs(v) # {}

Once == \A v \in 0 .. MaxInput - 1 : Cardinality(Outputs(v)) <= 1

(* No input is written twice, but in two ways: an instance was given an    *)
(* offset while that of an open transaction was still to come              *)
(* (fetch_offsets does not ask for stable offsets), or an offset came late *)
(* and the next transaction took it (TxnOffsetCommit has no number of its  *)
(* transaction).                                                           *)
OnceUnlessMisled == stale \/ crossed \/ Once

(* Where every instance starts at a stable offset, no input is written     *)
(* twice.  producer.rs:457 (send_offsets_to_transaction): "Commit a        *)
(* consumer group's offsets as part of this transaction. This is what      *)
(* makes consume-transform-produce exactly-once: the offsets land only if  *)
(* the transaction commits".  A TxnOffsetCommit that arrives after its     *)
(* transaction was aborted lands with the next one, whose epoch it has.    *)
OnceUnlessStale == stale \/ Once

(* What belongs to a transaction the caller aborted is never committed.    *)
(* producer.rs:423: "Abort the open transaction. Its records stay in the   *)
(* log and are filtered by READ_COMMITTED consumers".                      *)
AbortedStaysAborted ==
  \A i \in Instance : \A b \in Batches(log, i) :
    Key(i, b.epoch, b.sequence) \in doomed => ~Decided(b)
=============================================================================
