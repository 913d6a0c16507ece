--------------------------- MODULE ConsumerFetch ---------------------------
(***************************************************************************)
(* A consumer that assigns its own partitions and reads them:              *)
(* barnabas-client/src/consumer.rs from assign to poll, with one fetch     *)
(* session per broker (KIP-227) and a fetch kept in flight between polls.  *)
(* The brokers are external.                                               *)
(*                                                                         *)
(* A partition's log is its length and a record its offset.  Brokers are   *)
(* numbered in the order of their addresses, which is the order in which   *)
(* poll sends requests and handles answers.                                *)
(*                                                                         *)
(* The consumer is single threaded, and blocked while it reads an answer.  *)
(* A call that must read answers first is a step that waits for them.      *)
(***************************************************************************)
EXTENDS Integers, FiniteSets, Functions

CONSTANTS Partition,
          NumBrokers,
          MaxRecords,  \* bound: records in all
          MaxEpoch,    \* where a session epoch wraps (i32::MAX in the code)
          MaxCalls,    \* bound: calls of the caller other than poll
          MaxFaults,   \* bound: faults
          MaxEvents,   \* bound: calls and faults together
          Faults       \* the kinds of fault to look at

ASSUME FetchAssumption ==
  /\ NumBrokers \in Nat \ {0} /\ MaxRecords \in Nat /\ MaxEpoch \in Nat \ {0}
  /\ MaxCalls \in Nat /\ MaxFaults \in Nat /\ MaxEvents \in Nat
  /\ MaxFaults + 1 < MaxEpoch   \* an epoch does not come round again while a request is lost
  /\ Faults \subseteq {"move", "lose", "send", "evict", "full"}

Broker == 1 .. NumBrokers
Offset == 0 .. MaxRecords
Everything == NumBrokers + 1    \* no request fails to be sent
Unresolved == -1                \* a position: EARLIEST or LATEST, not looked up

VARIABLES
  leader, len,    \* each partition's leader and its log's length
  remembered,     \* each broker's session with this client: [id, epoch, offsets]
  wire,           \* each connection: what has been sent and not yet read
  late,           \* requests of connections given up, not executed so far
  meta,           \* the client's cluster map: the leader of each partition
  positions, paused, sessions,
  outstanding,    \* per broker, the partitions asked about
  fresh,          \* outstanding is of the present generation
  prefetch, pc,
  handed,         \* history: records handed out since assign or seek
  seen,           \* history: records read since then, handed out or not
  start,          \* history: where assign or seek put the position
  former,         \* history: the brokers that led each partition before
  returned,       \* history: the partitions a former leader got back
  calls, faults

leadership == << leader, former, returned >>
brokerVars == << leadership, len, remembered >>
fetchVars == << positions, sessions, outstanding, fresh >>
history == << handed, seen, start >>
vars == << brokerVars, wire, late, meta, fetchVars, paused, prefetch, pc, history, calls,
           faults >>

Empty == [p \in {} |-> 0]
Only(f, S) == [p \in DOMAIN f \cap S |-> f[p]]
Over(f, g) == [p \in DOMAIN f \cup DOMAIN g |-> IF p \in DOMAIN f THEN f[p] ELSE g[p]]
Put(p, offset, f) == Over([q \in {p} |-> offset], f)

(* Session::reset, and a session never opened. *)
NoSession == [id |-> 0, epoch |-> 0, known |-> Empty]

(* Mutant: the epoch only grows. *)
EpochForever(e) == e + 1

(* A session's next epoch, wrapping_add(1).max(1). *)
NextEpoch(e) == IF e = MaxEpoch THEN 1 ELSE e + 1

Idle == [is |-> "idle"]
Broken == [is |-> "broken"]
Sent(req) == [is |-> "sent", req |-> req]
Answered(answer) == [is |-> "answered", answer |-> answer]

Init ==
  /\ leader \in [Partition -> Broker]
  /\ len = [p \in Partition |-> 0]
  /\ remembered = [b \in Broker |-> [id |-> 0, epoch |-> 0, offsets |-> Empty]]
  /\ wire = [b \in Broker |-> Idle]
  /\ late = [b \in Broker |-> {}]
  /\ meta = leader
  /\ positions = [p \in Partition |-> 0]
  /\ paused = {}
  /\ sessions = [b \in Broker |-> NoSession]
  /\ outstanding = [b \in {} |-> {}]
  /\ fresh = TRUE
  /\ prefetch \in BOOLEAN
  /\ pc = "idle"
  /\ handed = [p \in Partition |-> {}]
  /\ seen = handed
  /\ start = [p \in Partition |-> 0]
  /\ former = [p \in Partition |-> {}]
  /\ returned = {}
  /\ calls = 0 /\ faults = 0

Call ==
  /\ pc = "idle"
  /\ calls < MaxCalls /\ calls + faults < MaxEvents
  /\ calls' = calls + 1
Fault(kind) ==
  /\ kind \in Faults
  /\ faults < MaxFaults /\ calls + faults < MaxEvents
  /\ faults' = faults + 1

-----------------------------------------------------------------------------
(* Fetches. *)

(* Assigned and not paused. *)
fetchable == DOMAIN positions \ paused

(* fetch_request: in an open session only what moved is named. *)
Named(s, asked, pos) ==
  {p \in asked : ~(s.id # 0 /\ p \in DOMAIN s.known /\ s.known[p] = pos[p])}

Request(s, asked, pos) ==
  [id |-> s.id, epoch |-> s.epoch, offsets |-> Only(pos, Named(s, asked, pos))]

(* issue_fetch, for the positions and sessions given: one request per      *)
(* broker, in order, up to the first that cannot be sent (upto).  What was *)
(* sent is recorded either way.  map is the cluster map.                   *)
Asked(map, pos) == [b \in {map[p] : p \in DOMAIN pos \ paused} |->
                      {p \in DOMAIN pos \ paused : map[p] = b}]

(* Mutant: what was sent before a failure is not recorded. *)
IssueForgetting(map, pos, sess, upto) ==
  LET asked == Asked(map, pos)
      sent == {b \in DOMAIN asked : b < upto}
  IN /\ outstanding' = IF upto = Everything THEN asked ELSE [b \in {} |-> {}]
     /\ fresh' = TRUE
     /\ wire' = [b \in Broker |-> IF b \in sent THEN Sent(Request(sess[b], asked[b], pos))
                                  ELSE Idle]

Issue(map, pos, sess, upto) ==
  LET asked == Asked(map, pos)
      sent == {b \in DOMAIN asked : b < upto}
  IN /\ outstanding' = [b \in sent |-> asked[b]]
     /\ fresh' = TRUE
     /\ wire' = [b \in Broker |-> IF b \in sent THEN Sent(Request(sess[b], asked[b], pos))
                                  ELSE Idle]

(* Whether issue_fetch sends everything, and where it stops if not. *)
Sending(map, pos, upto) ==
  IF upto = Everything THEN UNCHANGED faults
  ELSE upto \in DOMAIN Asked(map, pos) /\ Fault("send")

(* What was sent has been answered, or its connection is broken. *)
Readable == \A b \in DOMAIN outstanding : wire[b].is \in {"answered", "broken"}

(* discard_outstanding's effect on the sessions. *)
Discarded(s) == IF DOMAIN outstanding = {} THEN s ELSE [b \in Broker |-> NoSession]

(* discard_outstanding: the answers are read and thrown away. *)
DiscardOutstanding ==
  /\ Readable
  /\ outstanding' = [b \in {} |-> {}]
  /\ wire' = [b \in Broker |-> Idle]

-----------------------------------------------------------------------------
(* The caller's calls other than poll. *)

(* Mutant: the generation is left alone. *)
OutdatedNever == UNCHANGED fresh

(* generation += 1: the fetch in flight is not the one to be asked now. *)
Outdated == fresh' = (DOMAIN outstanding = {})

(* Mutant: sessions are left as they are. *)
AllResetNever == UNCHANGED sessions

AllReset == sessions' = [b \in Broker |-> NoSession]

(* Consumer::assign.  EARLIEST and LATEST are 0 and the log's length by    *)
(* the time the call returns.  The metadata is read again first.           *)
Assign(p, offset) ==
  /\ Call
  /\ offset \in {0, len[p]}
  /\ DiscardOutstanding
  /\ meta' = leader
  /\ positions' = Put(p, offset, positions)
  /\ AllReset
  /\ fresh' = TRUE
  /\ handed' = [handed EXCEPT ![p] = {}]
  /\ seen' = [seen EXCEPT ![p] = {}]
  /\ start' = [start EXCEPT ![p] = offset]
  /\ UNCHANGED << brokerVars, late, paused, prefetch, pc, faults >>

(* Consumer::assign that fails at the lookup: the position is the sentinel *)
(* it was called with, and the sessions stay, as does the generation.      *)
AssignFails(p) ==
  /\ Call
  /\ DiscardOutstanding
  /\ meta' = leader
  /\ positions' = Put(p, Unresolved, positions)
  /\ sessions' = Discarded(sessions)
  /\ fresh' = TRUE
  /\ handed' = [handed EXCEPT ![p] = {}]
  /\ seen' = [seen EXCEPT ![p] = {}]
  /\ start' = [start EXCEPT ![p] = Unresolved]
  /\ UNCHANGED << brokerVars, late, paused, prefetch, pc, faults >>

(* Consumer::seek_to (and seek).  The offset is one the log has. *)
SeekTo(p, offset) ==
  /\ Call
  /\ offset \in 0 .. len[p]
  /\ positions' = Put(p, offset, positions)
  /\ Outdated
  /\ handed' = [handed EXCEPT ![p] = {}]
  /\ seen' = [seen EXCEPT ![p] = {}]
  /\ start' = [start EXCEPT ![p] = offset]
  /\ UNCHANGED << brokerVars, wire, late, meta, sessions, outstanding, paused, prefetch,
                  pc, faults >>

(* Consumer::remove. *)
Remove(p) ==
  /\ Call
  /\ positions' = Only(positions, Partition \ {p})
  /\ paused' = paused \ {p}
  /\ Outdated
  /\ AllReset
  /\ UNCHANGED << brokerVars, wire, late, meta, outstanding, prefetch, pc, history,
                  faults >>

(* Consumer::pause and Consumer::resume, on_fetch_set_changed. *)
Pause(p) ==
  /\ Call
  /\ paused' = paused \cup {p}
  /\ Outdated
  /\ AllReset
  /\ UNCHANGED << brokerVars, wire, late, meta, positions, outstanding, prefetch, pc,
                  history, faults >>

Resume(p) ==
  /\ Call
  /\ paused' = paused \ {p}
  /\ Outdated
  /\ AllReset
  /\ UNCHANGED << brokerVars, wire, late, meta, positions, outstanding, prefetch, pc,
                  history, faults >>

(* The calls that drain the connections before they use them: commit,      *)
(* committed, list_offset and the other lookups, which read the metadata   *)
(* again when a leader is unknown or turns out to be another.              *)
Drain ==
  /\ Call
  /\ meta' \in {meta, leader}
  /\ DOMAIN outstanding # {} \/ meta' # meta
  /\ DiscardOutstanding
  /\ sessions' = Discarded(sessions)
  /\ fresh' = TRUE
  /\ UNCHANGED << brokerVars, late, positions, paused, prefetch, pc, history, faults >>

-----------------------------------------------------------------------------
(* Consumer::poll. *)

(* The first half: check_for_expansion, which reads metadata that went     *)
(* stale again (refresh), and a fetch unless one is in flight that still   *)
(* asks the right question.  If a request cannot be sent the poll fails,   *)
(* and what was sent stays outstanding.                                    *)
Stale == DOMAIN outstanding # {} /\ ~fresh

Begin(refresh, upto) ==
  LET map == IF refresh THEN leader ELSE meta
      sess == Discarded(sessions)
  IN /\ pc = "idle" /\ fetchable # {}
     /\ refresh \/ Stale \/ DOMAIN outstanding = {}
     /\ Readable
     /\ meta' = map
     /\ sessions' = sess
     /\ Sending(map, positions, upto)
     /\ Issue(map, positions, sess, upto)
     /\ pc' = IF upto = Everything THEN "recv" ELSE "idle"
     /\ UNCHANGED << brokerVars, late, positions, paused, prefetch, history, calls >>

(* The second half: the answers, handled in order up to the first that     *)
(* fails the poll, because its connection broke or because it reports an   *)
(* error for some partition.  at is where the poll has got to: positions,  *)
(* sessions, the records to hand out, and whether it failed.               *)

(* The session after an answer. *)
SessionAfter(at, b, answer) ==
  [id |-> answer.id, epoch |-> NextEpoch(at.sessions[b].epoch),
   known |-> Over(Only(at.positions, outstanding[b]), at.sessions[b].known)]

(* The records of a partition that filter keeps. *)
Kept(range, offset) == {o \in range.from .. range.to - 1 : o >= offset}

(* The answer's data, of the partitions in S. *)
Take(at, answer, S) ==
  LET T == S \cap DOMAIN answer.data \cap DOMAIN at.positions
  IN [at EXCEPT
        !.positions = Over([p \in T |-> answer.data[p].to], @),
        !.out = Over([p \in T |-> @[p] \cup Kept(answer.data[p], at.positions[p])], @)]

(* Mutant: a session error leaves the session as it is. *)
HandleSame(at, b, before) ==
  IF wire[b].is = "broken" THEN [at EXCEPT !.failed = TRUE]
  ELSE LET answer == wire[b].answer
       IN IF answer.code # "NONE" THEN at
          ELSE [Take([at EXCEPT !.sessions[b] = SessionAfter(at, b, answer)], answer,
                     IF answer.errors = {} THEN Partition ELSE before)
                EXCEPT !.failed = (answer.errors # {})]

(* One broker's answer.  A response has its partitions in no particular    *)
(* order: those in before came before the first one with an error.         *)
Handle(at, b, before) ==
  IF wire[b].is = "broken" THEN [at EXCEPT !.failed = TRUE]
  ELSE LET answer == wire[b].answer
       IN IF answer.code # "NONE" THEN [at EXCEPT !.sessions[b] = NoSession]
          ELSE [Take([at EXCEPT !.sessions[b] = SessionAfter(at, b, answer)], answer,
                     IF answer.errors = {} THEN Partition ELSE before)
                EXCEPT !.failed = (answer.errors # {})]

HandleAll(before) ==
  LET At[b \in 0 .. NumBrokers] ==
        IF b = 0 THEN [positions |-> positions, sessions |-> sessions,
                       out |-> [p \in Partition |-> {}], failed |-> FALSE]
        ELSE LET at == At[b - 1]
             IN IF at.failed \/ b \notin DOMAIN outstanding THEN at
                ELSE Handle(at, b, before)
  IN At[NumBrokers]

(* The partitions that may have come before an error. *)
Befores ==
  SUBSET UNION {DOMAIN wire[b].answer.data :
                  b \in {c \in Broker : wire[c].is = "answered" /\ wire[c].answer.errors # {}}}

(* A poll that succeeds hands out the records and puts the next fetch in   *)
(* flight (start_prefetch, which keeps quiet about a request that cannot   *)
(* be sent).                                                               *)
End ==
  /\ pc = "recv" \/ (DOMAIN outstanding # {} /\ fresh)
  /\ Readable
  /\ pc' = "idle"
  /\ \E at \in {HandleAll(before) : before \in Befores} :
       /\ positions' = at.positions
       /\ sessions' = at.sessions
       /\ seen' = [p \in Partition |-> seen[p] \cup at.out[p]]
       /\ handed' = IF at.failed THEN handed
                    ELSE [p \in Partition |-> handed[p] \cup at.out[p]]
       /\ \/ /\ ~at.failed /\ prefetch
             /\ \E upto \in 1 .. Everything : /\ Sending(meta, at.positions, upto)
                                              /\ Issue(meta, at.positions, at.sessions, upto)
          \/ /\ at.failed \/ ~prefetch
             /\ DiscardOutstanding
             /\ fresh' = TRUE
             /\ UNCHANGED faults
  /\ UNCHANGED << brokerVars, late, meta, paused, prefetch, start, calls >>

-----------------------------------------------------------------------------
(* The brokers, external. *)

(* What reading at these offsets gives: an error for a partition led       *)
(* elsewhere and for an offset that is none, and as many records as fit,   *)
(* at least one if there are any.                                          *)
Reads(b, id, offsets) ==
  LET good == {p \in DOMAIN offsets : leader[p] = b /\ offsets[p] # Unresolved}
      avail == {p \in good : offsets[p] < len[p]}
      Upto(ends) == {p \in avail : offsets[p] < ends[p]}
  IN { [code |-> "NONE", id |-> id, errors |-> DOMAIN offsets \ good,
        data |-> [p \in Upto(ends) |-> [from |-> offsets[p], to |-> ends[p]]]] :
       ends \in {e \in [avail -> Offset] :
                   /\ \A p \in avail : e[p] \in offsets[p] .. len[p]
                   /\ Upto(e) = {} => avail = {}} }

Refused(code) == [code |-> code, id |-> 0, errors |-> {}, data |-> Empty]

(* Ids are drawn at random: a new one is none the client knows. *)
NewId(b) ==
  CHOOSE id \in 1 .. MaxFaults + 3 :
    /\ id # sessions[b].id
    /\ wire[b].is = "answered" => id # wire[b].answer.id
    /\ \A req \in late[b] : id # req.id

(* What broker b makes of a request: its session afterwards, and the       *)
(* answer.  A session there is no room for (full) gets no id.              *)
Outcomes(b, req, full) ==
  LET old == remembered[b]
      opens == req.epoch = 0
      offsets == IF opens THEN req.offsets ELSE Over(req.offsets, old.offsets)
      id == IF ~opens THEN old.id ELSE IF full THEN 0 ELSE NewId(b)
      new == IF id = 0 THEN old
             ELSE [id |-> id, epoch |-> NextEpoch(req.epoch), offsets |-> offsets]
      Outcome(session, answer) == [session |-> session, answer |-> answer]
  IN IF ~opens /\ (req.id = 0 \/ req.id # old.id)
     THEN {Outcome(old, Refused("FETCH_SESSION_ID_NOT_FOUND"))}
     ELSE IF ~opens /\ req.epoch # old.epoch
     THEN {Outcome(old, Refused("INVALID_FETCH_SESSION_EPOCH"))}
     ELSE {Outcome(new, answer) : answer \in Reads(b, id, offsets)}

Execute(b, full) ==
  /\ wire[b].is = "sent"
  /\ IF full THEN wire[b].req.epoch = 0 /\ Fault("full") ELSE UNCHANGED faults
  /\ \E o \in Outcomes(b, wire[b].req, full) :
       /\ wire' = [wire EXCEPT ![b] = Answered(o.answer)]
       /\ remembered' = [remembered EXCEPT ![b] = o.session]
  /\ UNCHANGED << leadership, len, late, meta, fetchVars, paused, prefetch, pc, history,
                  calls >>

(* A request of a connection the client gave up arrives after all. *)
ExecuteLate(b) ==
  /\ \E req \in late[b] :
       /\ late' = [late EXCEPT ![b] = @ \ {req}]
       /\ \E o \in Outcomes(b, req, FALSE) : remembered' = [remembered EXCEPT ![b] = o.session]
  /\ UNCHANGED << leadership, len, wire, meta, fetchVars, paused, prefetch, pc, history,
                  calls, faults >>

(* A connection breaks, or the answer takes too long; a request on it may  *)
(* still arrive.                                                           *)
Lose(b) ==
  /\ wire[b].is \in {"sent", "answered"}
  /\ Fault("lose")
  /\ wire' = [wire EXCEPT ![b] = Broken]
  /\ late' = IF wire[b].is = "sent" THEN [late EXCEPT ![b] = @ \cup {wire[b].req}] ELSE late
  /\ UNCHANGED << brokerVars, meta, fetchVars, paused, prefetch, pc, history, calls >>

(* The broker drops the session. *)
Evict(b) ==
  /\ remembered[b].id # 0
  /\ Fault("evict")
  /\ remembered' = [remembered EXCEPT ![b] = [id |-> 0, epoch |-> 0, offsets |-> Empty]]
  /\ UNCHANGED << leadership, len, wire, late, meta, fetchVars, paused, prefetch, pc, history,
                  calls >>

Move(p) ==
  /\ Fault("move")
  /\ \E b \in Broker \ {leader[p]} :
       /\ leader' = [leader EXCEPT ![p] = b]
       /\ former' = [former EXCEPT ![p] = @ \cup {leader[p]}]
       /\ returned' = IF b \in former[p] THEN returned \cup {p} ELSE returned
  /\ UNCHANGED << len, remembered, wire, late, meta, fetchVars, paused, prefetch, pc,
                  history, calls >>

(* A producer's record. *)
Produce(p) ==
  /\ SumFunction(len) < MaxRecords
  /\ len' = [len EXCEPT ![p] = @ + 1]
  /\ UNCHANGED << leadership, remembered, wire, late, meta, fetchVars, paused, prefetch, pc,
                  history, calls, faults >>

-----------------------------------------------------------------------------
Next ==
  \/ \E p \in Partition :
       \/ \E offset \in Offset : Assign(p, offset) \/ SeekTo(p, offset)
       \/ AssignFails(p) \/ Remove(p) \/ Pause(p) \/ Resume(p)
       \/ Move(p) \/ Produce(p)
  \/ Drain
  \/ \E refresh \in BOOLEAN, upto \in 1 .. Everything : Begin(refresh, upto)
  \/ End
  \/ \E b \in Broker : \/ \E full \in BOOLEAN : Execute(b, full)
                       \/ ExecuteLate(b) \/ Lose(b) \/ Evict(b)

Spec == Init /\ [][Next]_vars

(* A caller keeps polling, brokers answer, and the metadata goes stale     *)
(* again and again.  CanEnd is what enables End: with it, the weak         *)
(* fairness of End is written out, as ENABLED End is long to evaluate.     *)
CanEnd == (pc = "recv" \/ (DOMAIN outstanding # {} /\ fresh)) /\ Readable

Fairness ==
  /\ WF_vars(\E refresh \in BOOLEAN : Begin(refresh, Everything))
  /\ SF_vars(Begin(TRUE, Everything))
  /\ <>[]CanEnd => []<><<End>>_vars
  /\ \A b \in Broker : WF_vars(Execute(b, FALSE))

FairSpec == Spec /\ Fairness

-----------------------------------------------------------------------------
(* An answer that has not been read belongs to the fetch recorded as       *)
(* outstanding: none is stranded on its connection to be taken for the     *)
(* answer to the next request (issue_fetch, discard_outstanding).          *)
NoneStranded == \A b \in Broker : wire[b].is # "idle" => b \in DOMAIN outstanding

(* No record is skipped: everything between the offset a partition was     *)
(* assigned or put at and its position has been in an answer, whichever    *)
(* seeks, pauses, moves and lost answers came in between, and whatever the *)
(* requests left out because the broker was thought to know it             *)
(* (Session::known, generation).  The exception is a partition whose       *)
(* leadership came back to a broker that led it before: that broker's      *)
(* session still has the partition where it was, its answers to questions  *)
(* about other partitions include it again, and poll takes them.           *)
NoGap == \A p \in DOMAIN positions \ returned :
           start[p] .. positions[p] - 1 \subseteq seen[p]

(* Records are handed out of partitions that are assigned and not paused,  *)
(* and of no others: not of one that was paused or removed while a fetch   *)
(* that asks about it was in flight (pause, remove, on_fetch_set_changed). *)
PausedSilent ==
  [][\A p \in Partition : handed'[p] \ handed[p] # {} => p \in fetchable]_vars

(* What poll advances past has been handed to the caller, so a commit of   *)
(* the positions never covers a record nobody saw.  consumer.rs:464 (auto  *)
(* commit): "at least once ... what is committed is where the previous     *)
(* poll's records ended".  A poll that fails at a later partition has      *)
(* moved the positions of the earlier ones and drops their records.        *)
AtLeastOnce ==
  \A p \in DOMAIN positions : start[p] .. positions[p] - 1 \subseteq handed[p]

CaughtUp ==
  \/ \A p \in fetchable : positions[p] = len[p]
  \/ \E p \in fetchable : positions[p] = Unresolved

(* A caller that keeps polling reads every assigned partition to its end:  *)
(* sessions evicted, refused or too many to be kept, broken connections,   *)
(* requests that cannot be sent, seeks and pauses only cost a poll.  Two   *)
(* things stop it for good: a leader that has moved, and a position that   *)
(* an assign has left unresolved, with which every poll fails.             *)
CatchesUpInPlace == <>[](CaughtUp \/ \E p \in Partition : former[p] # {})

(* It does so after a leader has moved too.  metadata.rs:11: "the flow is  *)
(* always: use the cache, get NOT_LEADER_OR_FOLLOWER, invalidate, refresh, *)
(* retry".                                                                 *)
CatchesUp == <>[]CaughtUp
=============================================================================
