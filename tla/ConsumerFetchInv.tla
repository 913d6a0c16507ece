-------------------------- MODULE ConsumerFetchInv --------------------------
(***************************************************************************)
(* Why no record is skipped although requests name only what moved: the    *)
(* inductive invariant of ConsumerFetch behind NoGap and PausedSilent.     *)
(*                                                                         *)
(* What a client believes a broker's session to hold is what it holds, or  *)
(* else the broker's epoch is ahead of the client's and the next request   *)
(* is refused.  A broker gets ahead by executing what the client gave up   *)
(* (late) and by answers the client lost or dropped, so never by as much   *)
(* as a whole turn of the epochs.                                          *)
(***************************************************************************)
EXTENDS ConsumerFetch

(* Types, no narrower than the argument needs. *)
Map(f, S) == /\ f = [p \in DOMAIN f |-> f[p]]
             /\ DOMAIN f \subseteq Partition
             /\ \A p \in DOMAIN f : f[p] \in S

Place == Nat \cup {Unresolved}

IsRequest(r) ==
  /\ r = [id |-> r.id, epoch |-> r.epoch, offsets |-> r.offsets]
  /\ r.id \in Nat /\ r.epoch \in 0 .. MaxEpoch /\ Map(r.offsets, Place)

IsAnswer(a) ==
  /\ a = [code |-> a.code, id |-> a.id, errors |-> a.errors, data |-> a.data]
  /\ a.id \in Nat
  /\ Map(a.data, [from : Nat, to : Nat])

IsWire(w) ==
  \/ w.is = "idle" /\ w = Idle
  \/ w.is = "broken" /\ w = Broken
  \/ w.is = "sent" /\ w = Sent(w.req) /\ IsRequest(w.req)
  \/ w.is = "answered" /\ w = Answered(w.answer) /\ IsAnswer(w.answer)

IsSession(s) ==
  /\ s = [id |-> s.id, epoch |-> s.epoch, known |-> s.known]
  /\ s.id \in Nat /\ s.epoch \in 0 .. MaxEpoch /\ Map(s.known, Place)
  /\ s.epoch = 0 => s = NoSession

IsRemembered(s) ==
  /\ s = [id |-> s.id, epoch |-> s.epoch, offsets |-> s.offsets]
  /\ s.id \in Nat /\ s.epoch \in 0 .. MaxEpoch /\ Map(s.offsets, Place)
  /\ s.id # 0 => s.epoch # 0

FetchTypes ==
  /\ leader \in [Partition -> Broker] /\ meta \in [Partition -> Broker]
  /\ len \in [Partition -> Nat] /\ Map(positions, Place)
  /\ paused \subseteq Partition
  /\ sessions = [b \in Broker |-> sessions[b]]
  /\ remembered = [b \in Broker |-> remembered[b]]
  /\ wire = [b \in Broker |-> wire[b]]
  /\ late = [b \in Broker |-> late[b]]
  /\ \A b \in Broker : /\ IsSession(sessions[b])
                       /\ IsRemembered(remembered[b])
                       /\ IsWire(wire[b])
                       /\ \A r \in late[b] : IsRequest(r)
  /\ DOMAIN outstanding \subseteq Broker
  /\ fresh \in BOOLEAN /\ prefetch \in BOOLEAN /\ pc \in {"idle", "recv"}
  /\ handed \in [Partition -> SUBSET Nat] /\ seen \in [Partition -> SUBSET Nat]
  /\ start \in [Partition -> Place]
  /\ former \in [Partition -> SUBSET Broker] /\ returned \subseteq Partition
  /\ faults \in 0 .. MaxFaults

-----------------------------------------------------------------------------
(* What is on the wire is what is outstanding, and a fetch that still asks *)
(* the right question asks it of the positions and sessions of now.        *)
InFlight ==
  /\ \A b \in Broker : wire[b].is # "idle" <=> b \in DOMAIN outstanding
  /\ DOMAIN outstanding = {} => fresh
  /\ pc = "recv" => fresh
  /\ fresh => \A b \in DOMAIN outstanding :
                /\ outstanding[b] = {p \in fetchable : meta[p] = b}
                /\ wire[b].is = "sent" =>
                     wire[b].req = Request(sessions[b], outstanding[b], positions)

(* A broker is asked about a partition only while it was thought to lead   *)
(* it, so it leads the partition, did before, or will be found out.        *)
Led(p, b) == meta[p] = b \/ b \in former[p]

Leadership ==
  /\ \A p \in Partition : /\ (meta[p] = leader[p] \/ meta[p] \in former[p])
                          /\ leader[p] \in former[p] => p \in returned
  /\ \A b \in Broker :
       /\ \A p \in DOMAIN sessions[b].known : Led(p, b) /\ p \in fetchable
       /\ \A p \in DOMAIN remembered[b].offsets : Led(p, b)
       /\ wire[b].is = "sent" => \A p \in DOMAIN wire[b].req.offsets : Led(p, b)
       /\ \A r \in late[b] : \A p \in DOMAIN r.offsets : Led(p, b)

-----------------------------------------------------------------------------
(* Sessions. *)

(* The epoch k steps after e: the epochs that count are 1 .. MaxEpoch. *)
Ahead(e, k) == IF e + k > MaxEpoch THEN e + k - MaxEpoch ELSE e + k

Same(known, offsets, except) ==
  /\ DOMAIN known = DOMAIN offsets
  /\ \A p \in DOMAIN known \ except : known[p] = offsets[p]

(* A broker's session, if it is the one the client has the id of, is what  *)
(* the client thinks it is, or it is ahead by no more than bound allows:   *)
(* each late request may yet put it one further ahead.                     *)
InStep(session, lates, except, id, epoch, known, bound) ==
  id # 0 /\ session.id = id =>
    \E k \in 0 .. bound :
      /\ session.epoch = Ahead(epoch, k)
      /\ k + Cardinality({r \in lates : r.id = id}) <= bound
      /\ k = 0 => Same(known, session.offsets, except)

Agrees(b, id, epoch, known, bound) ==
  InStep(remembered[b], late[b], returned, id, epoch, known, bound)

(* What the client's next session will be, if it gets to read the answer. *)
NextKnown(b) == Over(Only(positions, outstanding[b]), sessions[b].known)

Good(b) == wire[b].is = "answered" /\ wire[b].answer.code = "NONE"

(* An answer that counts has the records that follow the position. *)
TrueAnswer(b) ==
  LET a == wire[b].answer
  IN /\ sessions[b].id \in {0, a.id}
     /\ Agrees(b, a.id, NextEpoch(sessions[b].epoch), NextKnown(b), faults)
     /\ \A p \in DOMAIN a.data :
          /\ p \in fetchable
          /\ p \in returned \/ (p \in outstanding[b] /\ a.data[p].from = positions[p])

Tracked(b) ==
  IF Good(b) THEN TrueAnswer(b)
  ELSE Agrees(b, sessions[b].id, sessions[b].epoch, sessions[b].known, faults + 1)

Sessions ==
  /\ \A b \in Broker : IsFiniteSet(late[b]) /\ Cardinality(late[b]) <= faults
  /\ fresh => \A b \in Broker : Tracked(b)

(* The inductive invariant. *)
FetchInv == FetchTypes /\ InFlight /\ Leadership /\ Sessions /\ NoGap
=============================================================================
