------------------------ MODULE ConsumerFetchProofs -------------------------
(***************************************************************************)
(* Proofs about ConsumerFetch: FetchInv is kept by the caller's calls, by  *)
(* both halves of poll and by every step that is not the client's, so no   *)
(* record is skipped, no answer is stranded and nothing paused is handed   *)
(* out, for any number of partitions, brokers, calls and faults.           *)
(***************************************************************************)
EXTENDS ConsumerFetchInv, FiniteSetTheorems, WellFoundedInduction, TLAPS

(* The constants, as far as the proofs need them. *)
LEMMA Bounds ==
  /\ NumBrokers \in Nat \ {0} /\ MaxEpoch \in Nat \ {0} /\ MaxFaults \in Nat
  /\ MaxFaults + 1 < MaxEpoch
BY FetchAssumption, Zenon

(* A bound and one more. *)
LEMMA OneMore ==
  \A m, n \in Nat : m <= n => m + 1 \in Nat /\ n + 1 \in Nat /\ m + 1 <= n + 1
OBVIOUS

(* A larger bound. *)
LEMMA AtMost ==
  \A k, m, n \in Nat : k <= m /\ m <= n => k <= n
OBVIOUS

-----------------------------------------------------------------------------
(* Maps. *)

(* Session::known after an answer, and a broker's session after a request: *)
(* the later map wins where it is defined.                                 *)
LEMMA OverAt ==
  ASSUME NEW f, NEW g
  PROVE  /\ DOMAIN Over(f, g) = DOMAIN f \cup DOMAIN g
         /\ \A p \in DOMAIN f : Over(f, g)[p] = f[p]
         /\ \A p \in DOMAIN g \ DOMAIN f : Over(f, g)[p] = g[p]
BY Zenon DEF Over

(* It is a map if both are. *)
LEMMA OverMap ==
  ASSUME NEW S, NEW f, NEW g, Map(f, S), Map(g, S)
  PROVE  Map(Over(f, g), S)
BY Zenon DEF Over, Map

(* A part of a map. *)
LEMMA OnlyAt ==
  ASSUME NEW f, NEW D
  PROVE  /\ DOMAIN Only(f, D) = DOMAIN f \cap D
         /\ \A p \in DOMAIN f \cap D : Only(f, D)[p] = f[p]
BY Zenon DEF Only

(* It is a map. *)
LEMMA OnlyMap ==
  ASSUME NEW S, NEW f, NEW D, Map(f, S)
  PROVE  Map(Only(f, D), S)
BY Zenon DEF Only, Map

(* A position that is set. *)
LEMMA PutMap ==
  ASSUME NEW f, Map(f, Place), NEW p \in Partition, NEW x \in Place
  PROVE  /\ Map(Put(p, x, f), Place)
         /\ DOMAIN Put(p, x, f) = DOMAIN f \cup {p}
         /\ Put(p, x, f)[p] = x
         /\ \A q \in DOMAIN f \ {p} : Put(p, x, f)[q] = f[q]
BY Zenon DEF Put, Over, Map

(* No offsets. *)
LEMMA EmptyMap == Map(Empty, Place) /\ DOMAIN Empty = {}
BY Zenon DEF Map, Empty

(* A session never opened, or reset. *)
LEMMA NoSessionType ==
  /\ IsSession(NoSession) /\ NoSession.id = 0 /\ NoSession.epoch = 0
  /\ NoSession.known = Empty
BY EmptyMap, Bounds DEF IsSession, NoSession

-----------------------------------------------------------------------------
(* Epochs. *)

(* wrapping_add(1).max(1) stays clear of 0 and within the range. *)
LEMMA NextEpochType ==
  ASSUME NEW e \in 0 .. MaxEpoch
  PROVE  NextEpoch(e) \in 1 .. MaxEpoch
BY Bounds DEF NextEpoch

(* Getting ahead by one more, from either side; and being ahead by less    *)
(* than a turn is being at another epoch.                                  *)
LEMMA AheadStep ==
  ASSUME NEW e \in 1 .. MaxEpoch, NEW k \in 0 .. MaxFaults + 1
  PROVE  /\ Ahead(e, k) \in 1 .. MaxEpoch
         /\ Ahead(e, 0) = e
         /\ Ahead(e, k) = e => k = 0
         /\ NextEpoch(Ahead(e, k)) = Ahead(e, k + 1)
         /\ Ahead(NextEpoch(e), k) = Ahead(e, k + 1)
BY Bounds DEF Ahead, NextEpoch

-----------------------------------------------------------------------------
(* Requests and what brokers make of them. *)

(* fetch_request names only partitions that are asked about. *)
LEMMA RequestType ==
  ASSUME NEW s, IsSession(s), NEW pos, Map(pos, Place), NEW asked
  PROVE  /\ IsRequest(Request(s, asked, pos))
         /\ Request(s, asked, pos).id = s.id
         /\ Request(s, asked, pos).epoch = s.epoch
         /\ Request(s, asked, pos).offsets = Only(pos, Named(s, asked, pos))
         /\ DOMAIN Request(s, asked, pos).offsets = DOMAIN pos \cap Named(s, asked, pos)
         /\ Named(s, asked, pos) \subseteq asked
<1>1. Map(Only(pos, Named(s, asked, pos)), Place)
  BY OnlyMap, Zenon
<1>2. DOMAIN Only(pos, Named(s, asked, pos)) = DOMAIN pos \cap Named(s, asked, pos)
  BY OnlyAt, Zenon
<1> QED
  BY <1>1, <1>2, Zenon DEF Request, IsRequest, IsSession, Named

(* A union has at most as many elements as its parts together. *)
LEMMA UnionBound ==
  ASSUME NEW S, NEW T, IsFiniteSet(S), IsFiniteSet(T)
  PROVE  /\ IsFiniteSet(S \cup T)
         /\ Cardinality(S \cup T) <= Cardinality(S) + Cardinality(T)
         /\ Cardinality(S) \in Nat /\ Cardinality(T) \in Nat /\ Cardinality(S \cup T) \in Nat
<1>1. /\ IsFiniteSet(S \cup T)
      /\ Cardinality(S \cup T) = Cardinality(S) + Cardinality(T) - Cardinality(S \cap T)
  BY FS_Union, Zenon
<1>2. IsFiniteSet(S \cap T)
  BY FS_Intersection, Zenon
<1>3. Cardinality(S \cap T) \in Nat
  BY <1>2, FS_CardinalityType, Zenon
<1>4. Cardinality(S) \in Nat /\ Cardinality(T) \in Nat /\ Cardinality(S \cup T) \in Nat
  BY <1>1, FS_CardinalityType, Zenon
<1> QED
  BY <1>1, <1>3, <1>4

(* Two things are at most two. *)
LEMMA PairBound ==
  ASSUME NEW x, NEW y
  PROVE  IsFiniteSet({x, y}) /\ Cardinality({x, y}) <= 2
<1>1. IsFiniteSet({x}) /\ Cardinality({x}) = 1
  BY FS_Singleton, Zenon
<1>2. IsFiniteSet({y}) /\ Cardinality({y}) = 1
  BY FS_Singleton, Zenon
<1>3. IsFiniteSet({x} \cup {y}) /\ Cardinality({x} \cup {y}) <= Cardinality({x}) + Cardinality({y})
  BY <1>1, <1>2, UnionBound, Zenon
<1>4. {x, y} = {x} \cup {y}
  BY Zenon
<1>5. Cardinality({x} \cup {y}) \in Nat
  BY <1>3, FS_CardinalityType, Zenon
<1>6. Cardinality({x} \cup {y}) <= 2
  BY <1>1, <1>2, <1>3, <1>5
<1> QED
  BY <1>3, <1>4, <1>6, Zenon

(* A new session's id is none that the client or a late request knows:     *)
(* there are ids enough.                                                   *)
LEMMA NewIdNew ==
  ASSUME NEW b \in Broker, IsFiniteSet(late[b]), Cardinality(late[b]) <= faults,
         faults \in 0 .. MaxFaults
  PROVE  /\ NewId(b) \in 1 .. MaxFaults + 3
         /\ NewId(b) # sessions[b].id
         /\ wire[b].is = "answered" => NewId(b) # wire[b].answer.id
         /\ \A req \in late[b] : NewId(b) # req.id
<1> DEFINE ids == {req.id : req \in late[b]}
           two == {sessions[b].id, wire[b].answer.id}
           known == ids \cup two
           all == 1 .. MaxFaults + 3
<1>1. IsFiniteSet(ids) /\ Cardinality(ids) <= Cardinality(late[b])
  <2> DEFINE f == [req \in late[b] |-> req.id]
  <2>1. f \in Surjection(late[b], ids)
    BY Zenon DEF Surjection
  <2> QED
    BY <2>1, FS_Surjection, Zenon
<1>2. IsFiniteSet(two) /\ Cardinality(two) <= 2
  BY PairBound, Zenon
<1> HIDE DEF ids, two
<1>3. IsFiniteSet(known) /\ Cardinality(known) <= Cardinality(ids) + Cardinality(two)
  BY <1>1, <1>2, UnionBound, Zenon
<1>4. IsFiniteSet(all) /\ Cardinality(all) = MaxFaults + 3
  <2> DEFINE last == MaxFaults + 3
  <2>1. 1 \in Int /\ last \in Int /\ ~(1 > last) /\ last - 1 + 1 = last
    BY Bounds
  <2> HIDE DEF last
  <2>2. IsFiniteSet(1 .. last) /\ Cardinality(1 .. last) = last
    BY <2>1, FS_Interval, Zenon
  <2> QED
    BY <2>2, Zenon DEF last
<1>5. Cardinality(known) < Cardinality(all)
  BY <1>1, <1>2, <1>3, <1>4, FS_CardinalityType, Bounds
<1> HIDE DEF known, all
<1>6. ~ all \subseteq known
  BY <1>3, <1>4, <1>5, FS_Subset, FS_CardinalityType
<1>7. PICK id \in all : id \notin known
  BY <1>6, Zenon
<1>8. /\ id # sessions[b].id
      /\ wire[b].is = "answered" => id # wire[b].answer.id
      /\ \A req \in late[b] : id # req.id
  BY <1>7, Zenon DEF known, ids, two
<1> QED
  BY <1>7, <1>8, Zenon DEF NewId, all

(* An answer with records has those at the offsets read, of partitions the *)
(* broker leads.                                                           *)
LEMMA ReadsFacts ==
  ASSUME NEW b, NEW id \in Nat, NEW offsets, Map(offsets, Place), NEW a \in Reads(b, id, offsets)
  PROVE  /\ IsAnswer(a) /\ a.code = "NONE" /\ a.id = id
         /\ \A p \in DOMAIN a.data : /\ p \in DOMAIN offsets /\ leader[p] = b
                                     /\ a.data[p].from = offsets[p]
<1> DEFINE good == {p \in DOMAIN offsets : leader[p] = b /\ offsets[p] # Unresolved}
           avail == {p \in good : offsets[p] < len[p]}
<1>1. PICK ends \in [avail -> Offset] :
        a = [code |-> "NONE", id |-> id, errors |-> DOMAIN offsets \ good,
             data |-> [p \in {p \in avail : offsets[p] < ends[p]} |->
                         [from |-> offsets[p], to |-> ends[p]]]]
  BY Zenon DEF Reads
<1> DEFINE U == {p \in avail : offsets[p] < ends[p]}
<1>2. /\ U \subseteq DOMAIN offsets
      /\ \A p \in U : leader[p] = b /\ offsets[p] \in Nat /\ ends[p] \in Nat
  BY DEF Map, Offset, Place
<1>3. U \subseteq Partition
  BY <1>2, Zenon DEF Map
<1>4. a.code = "NONE" /\ a.id = id /\ a.data = [p \in U |-> [from |-> offsets[p], to |-> ends[p]]]
  BY <1>1, Zenon
<1>5. a = [code |-> a.code, id |-> a.id, errors |-> a.errors, data |-> a.data]
  BY <1>1, Zenon
<1> HIDE DEF U, avail
<1>6. Map(a.data, [from : Nat, to : Nat])
  BY <1>2, <1>3, <1>4 DEF Map
<1> QED
  BY <1>2, <1>4, <1>5, <1>6 DEF IsAnswer

(* The offsets a broker reads at for a request it accepts. *)
Offered(b, req) == IF req.epoch = 0 THEN req.offsets ELSE Over(req.offsets, remembered[b].offsets)

(* Session id, epoch and offsets after a request that was accepted. *)
Renewed(b, id, req) == [id |-> id, epoch |-> NextEpoch(req.epoch), offsets |-> Offered(b, req)]

(* A request is refused and leaves the session as it is; or it opens one,  *)
(* unless there is no room; or it continues the one it names.              *)
LEMMA OutcomesFacts ==
  ASSUME NEW b \in Broker, NEW req, IsRequest(req), IsRemembered(remembered[b]),
         NEW full \in BOOLEAN, NewId(b) \in Nat \ {0}, NEW o \in Outcomes(b, req, full)
  PROVE  LET a == o.answer
         IN /\ IsAnswer(a) /\ IsRemembered(o.session)
            /\ DOMAIN o.session.offsets \subseteq DOMAIN req.offsets \cup DOMAIN remembered[b].offsets
            /\ \/ a.code # "NONE" /\ o.session = remembered[b]
               \/ /\ a.code = "NONE"
                  /\ \A p \in DOMAIN a.data : /\ p \in DOMAIN Offered(b, req) /\ leader[p] = b
                                              /\ a.data[p].from = Offered(b, req)[p]
                  /\ \/ req.epoch = 0 /\ a.id = 0 /\ o.session = remembered[b]
                     \/ req.epoch = 0 /\ a.id = NewId(b) /\ o.session = Renewed(b, a.id, req)
                     \/ /\ req.epoch # 0 /\ req.id # 0
                        /\ req.id = remembered[b].id /\ req.epoch = remembered[b].epoch
                        /\ a.id = req.id /\ o.session = Renewed(b, a.id, req)
<1> DEFINE old == remembered[b]
           opens == req.epoch = 0
           offsets == IF opens THEN req.offsets ELSE Over(req.offsets, old.offsets)
           id == IF ~opens THEN old.id ELSE IF full THEN 0 ELSE NewId(b)
           new == IF id = 0 THEN old
                  ELSE [id |-> id, epoch |-> NextEpoch(req.epoch), offsets |-> offsets]
<1>1. CASE \/ ~opens /\ (req.id = 0 \/ req.id # old.id)
           \/ ~opens /\ req.epoch # old.epoch
  <2>1. PICK code \in {"FETCH_SESSION_ID_NOT_FOUND", "INVALID_FETCH_SESSION_EPOCH"} :
          o = [session |-> old, answer |-> Refused(code)]
    BY <1>1, Zenon DEF Outcomes
  <2>2. IsAnswer(Refused(code)) /\ Refused(code).code # "NONE"
    BY <2>1, Zenon DEF IsAnswer, Refused, Map, Empty
  <2> QED
    BY <2>1, <2>2, Zenon
<1>2. CASE opens \/ (req.id # 0 /\ req.id = old.id /\ req.epoch = old.epoch)
  <2>1. PICK a \in Reads(b, id, offsets) : o = [session |-> new, answer |-> a]
    BY <1>2, Zenon DEF Outcomes
  <2>2. id \in Nat
    BY Zenon DEF IsRemembered
  <2>3. Map(offsets, Place) /\ offsets = Offered(b, req)
    <3>1. Map(req.offsets, Place) /\ Map(old.offsets, Place)
      BY Zenon DEF IsRequest, IsRemembered
    <3>2. Map(Over(req.offsets, old.offsets), Place)
      BY <3>1, OverMap, Zenon
    <3> QED
      BY <3>1, <3>2, Zenon DEF Offered
  <2>4. DOMAIN offsets \subseteq DOMAIN req.offsets \cup DOMAIN remembered[b].offsets
    <3>1. DOMAIN Over(req.offsets, old.offsets) = DOMAIN req.offsets \cup DOMAIN old.offsets
      BY Zenon DEF Over
    <3>2. CASE opens
      BY <3>2, Zenon
    <3>3. CASE ~opens
      BY <3>1, <3>3, Zenon
    <3> QED
      BY <3>2, <3>3, Zenon
  <2>5. /\ IsAnswer(a) /\ a.code = "NONE" /\ a.id = id
        /\ \A p \in DOMAIN a.data : /\ p \in DOMAIN offsets /\ leader[p] = b
                                    /\ a.data[p].from = offsets[p]
    <3>1. Map(offsets, Place) /\ a \in Reads(b, id, offsets)
      BY <2>1, <2>3, Zenon
    <3> HIDE DEF id, offsets
    <3> QED
      BY <2>2, <3>1, ReadsFacts
  <2>6. NextEpoch(req.epoch) \in 1 .. MaxEpoch
    BY NextEpochType, Zenon DEF IsRequest
  <2>7. o.session = new /\ o.answer = a
    BY <2>1, Zenon
  <2>8. IsRemembered(new) /\ DOMAIN new.offsets \subseteq DOMAIN req.offsets \cup DOMAIN remembered[b].offsets
    <3> HIDE DEF offsets, id
    <3>1. CASE id = 0
      BY <3>1, Zenon
    <3>2. CASE id # 0
      <4>1. new = [id |-> id, epoch |-> NextEpoch(req.epoch), offsets |-> offsets]
        BY <3>2, Zenon
      <4> QED
        BY <4>1, <2>2, <2>3, <2>4, <2>6, Bounds DEF IsRemembered
    <3> QED
      BY <3>1, <3>2, Zenon
  <2>9. \/ req.epoch = 0 /\ a.id = 0 /\ new = remembered[b]
        \/ req.epoch = 0 /\ a.id = NewId(b) /\ new = Renewed(b, a.id, req)
        \/ /\ req.epoch # 0 /\ req.id # 0
           /\ req.id = remembered[b].id /\ req.epoch = remembered[b].epoch
           /\ a.id = req.id /\ new = Renewed(b, a.id, req)
    <3>1. new = IF id = 0 THEN old ELSE Renewed(b, id, req)
      BY <2>3, Zenon DEF Renewed
    <3> HIDE DEF offsets, new
    <3> QED
      BY <1>2, <2>5, <3>1, Zenon
  <2> HIDE DEF new, offsets, id
  <2> QED
    BY <2>3, <2>5, <2>7, <2>8, <2>9, Zenon
<1> QED
  BY <1>1, <1>2, Zenon

-----------------------------------------------------------------------------
(* How far a broker's session is ahead of the client's. *)

(* A larger bound, or more exceptions. *)
LEMMA InStepMore ==
  ASSUME NEW s, NEW L, NEW X, NEW Y, NEW id, NEW e, NEW known, NEW m \in Nat, NEW n \in Nat,
         InStep(s, L, X, id, e, known, m), X \subseteq Y, m <= n, IsFiniteSet(L)
  PROVE  InStep(s, L, Y, id, e, known, n)
<1> DEFINE c == Cardinality({r \in L : r.id = id})
<1>1. c \in Nat
  <2>1. IsFiniteSet({r \in L : r.id = id})
    BY FS_Subset, Zenon
  <2> QED
    BY <2>1, FS_CardinalityType, Zenon
<1> HIDE DEF c
<1> SUFFICES ASSUME id # 0 /\ s.id = id
             PROVE  \E k \in 0 .. n : /\ s.epoch = Ahead(e, k) /\ k + c <= n
                                      /\ k = 0 => Same(known, s.offsets, Y)
  BY Zenon DEF InStep, c
<1>2. PICK k \in 0 .. m : /\ s.epoch = Ahead(e, k) /\ k + c <= m
                          /\ k = 0 => Same(known, s.offsets, X)
  BY Zenon DEF InStep, c
<1>3. Same(known, s.offsets, X) => Same(known, s.offsets, Y)
  BY Zenon DEF Same
<1> QED
  BY <1>1, <1>2, <1>3

(* A late request is gone. *)
LEMMA InStepFewer ==
  ASSUME NEW s, NEW L, NEW M, NEW X, NEW id, NEW e, NEW known, NEW n \in Nat,
         InStep(s, L, X, id, e, known, n), IsFiniteSet(L), M \subseteq L
  PROVE  InStep(s, M, X, id, e, known, n)
<1> DEFINE c == {r \in L : r.id = id}
           d == {r \in M : r.id = id}
<1>1. /\ IsFiniteSet(c) /\ IsFiniteSet(d) /\ Cardinality(d) <= Cardinality(c)
      /\ Cardinality(c) \in Nat /\ Cardinality(d) \in Nat
  <2>1. IsFiniteSet(c) /\ d \subseteq c
    BY FS_Subset, Zenon
  <2> HIDE DEF c, d
  <2>2. IsFiniteSet(d) /\ Cardinality(d) <= Cardinality(c)
    BY <2>1, FS_Subset, Zenon
  <2> QED
    BY <2>1, <2>2, FS_CardinalityType, Zenon
<1> HIDE DEF c, d
<1> SUFFICES ASSUME id # 0 /\ s.id = id
             PROVE  \E k \in 0 .. n : /\ s.epoch = Ahead(e, k) /\ k + Cardinality(d) <= n
                                      /\ k = 0 => Same(known, s.offsets, X)
  BY Zenon DEF InStep, d
<1>2. PICK k \in 0 .. n : /\ s.epoch = Ahead(e, k) /\ k + Cardinality(c) <= n
                          /\ k = 0 => Same(known, s.offsets, X)
  BY Zenon DEF InStep, c
<1> QED
  BY <1>1, <1>2

(* A request more is late. *)
LEMMA InStepLost ==
  ASSUME NEW s, NEW L, NEW r, NEW X, NEW id, NEW e, NEW known, NEW n \in Nat,
         InStep(s, L, X, id, e, known, n), IsFiniteSet(L)
  PROVE  InStep(s, L \cup {r}, X, id, e, known, n + 1)
<1> DEFINE c == {q \in L : q.id = id}
           d == {q \in L \cup {r} : q.id = id}
<1>1. Cardinality(d) <= Cardinality(c) + 1 /\ Cardinality(c) \in Nat /\ Cardinality(d) \in Nat
  <2>1. IsFiniteSet(c) /\ d \subseteq c \cup {r}
    BY FS_Subset, Zenon
  <2> HIDE DEF c, d
  <2>2. IsFiniteSet({r}) /\ Cardinality({r}) = 1
    BY FS_Singleton, Zenon
  <2>3. IsFiniteSet(c \cup {r}) /\ Cardinality(c \cup {r}) <= Cardinality(c) + 1
    BY <2>1, <2>2, UnionBound, Zenon
  <2>4. IsFiniteSet(d) /\ Cardinality(d) <= Cardinality(c \cup {r})
    BY <2>1, <2>3, FS_Subset, Zenon
  <2>5. /\ Cardinality(c) \in Nat /\ Cardinality(d) \in Nat
        /\ Cardinality(c \cup {r}) \in Nat
    BY <2>1, <2>3, <2>4, FS_CardinalityType, Zenon
  <2> QED
    BY <2>3, <2>4, <2>5
<1> HIDE DEF c, d
<1> SUFFICES ASSUME id # 0 /\ s.id = id
             PROVE  \E k \in 0 .. n + 1 : /\ s.epoch = Ahead(e, k) /\ k + Cardinality(d) <= n + 1
                                          /\ k = 0 => Same(known, s.offsets, X)
  BY Zenon DEF InStep, d
<1>2. PICK k \in 0 .. n : /\ s.epoch = Ahead(e, k) /\ k + Cardinality(c) <= n
                          /\ k = 0 => Same(known, s.offsets, X)
  BY Zenon DEF InStep, c
<1> QED
  BY <1>1, <1>2

(* A late request is executed: the broker gets one further ahead. *)
LEMMA InStepLate ==
  ASSUME NEW s, NEW t, NEW L, NEW r \in L, NEW X, NEW id, NEW e \in 1 .. MaxEpoch, NEW known,
         NEW n \in 0 .. MaxFaults + 1,
         InStep(s, L, X, id, e, known, n), IsFiniteSet(L),
         r.id = s.id, t.id = s.id, t.epoch = NextEpoch(s.epoch)
  PROVE  InStep(t, L \ {r}, X, id, e, known, n)
<1> DEFINE c == {q \in L : q.id = id}
           d == {q \in L \ {r} : q.id = id}
<1> SUFFICES ASSUME id # 0 /\ t.id = id
             PROVE  \E k \in 0 .. n : /\ t.epoch = Ahead(e, k) /\ k + Cardinality(d) <= n
                                      /\ k = 0 => Same(known, t.offsets, X)
  BY Zenon DEF InStep
<1>1. Cardinality(d) = Cardinality(c) - 1 /\ Cardinality(c) \in Nat /\ Cardinality(d) \in Nat
  <2>1. IsFiniteSet(c) /\ d = c \ {r} /\ r \in c
    BY FS_Subset, Zenon
  <2> HIDE DEF c, d
  <2>2. IsFiniteSet(d) /\ Cardinality(d) = Cardinality(c) - 1
    BY <2>1, FS_RemoveElement, Zenon
  <2> QED
    BY <2>1, <2>2, FS_CardinalityType, Zenon
<1>2. PICK k \in 0 .. n : s.epoch = Ahead(e, k) /\ k + Cardinality(c) <= n
  BY Zenon DEF InStep
<1> HIDE DEF c, d
<1>3. k + 1 \in 1 .. n /\ (k + 1) + Cardinality(d) <= n
  BY <1>1, <1>2, Bounds
<1>4. t.epoch = Ahead(e, k + 1)
  <2>1. k \in 0 .. MaxFaults + 1
    BY Bounds
  <2> QED
    BY <1>2, <2>1, AheadStep, Zenon
<1> QED
  BY <1>3, <1>4, Bounds

(* An answer is lost or dropped: the client stays an epoch behind. *)
LEMMA InStepDropped ==
  ASSUME NEW s, NEW L, NEW X, NEW id, NEW e \in 1 .. MaxEpoch, NEW known, NEW old,
         NEW n \in 0 .. MaxFaults,
         InStep(s, L, X, id, NextEpoch(e), known, n), IsFiniteSet(L)
  PROVE  InStep(s, L, X, id, e, old, n + 1)
<1> DEFINE c == Cardinality({r \in L : r.id = id})
<1>1. c \in Nat
  <2>1. IsFiniteSet({r \in L : r.id = id})
    BY FS_Subset, Zenon
  <2> QED
    BY <2>1, FS_CardinalityType, Zenon
<1> HIDE DEF c
<1> SUFFICES ASSUME id # 0 /\ s.id = id
             PROVE  \E k \in 0 .. n + 1 : /\ s.epoch = Ahead(e, k) /\ k + c <= n + 1
                                          /\ k = 0 => Same(old, s.offsets, X)
  BY Zenon DEF InStep, c
<1>2. PICK k \in 0 .. n : s.epoch = Ahead(NextEpoch(e), k) /\ k + c <= n
  BY Zenon DEF InStep, c
<1>3. Ahead(NextEpoch(e), k) = Ahead(e, k + 1)
  BY AheadStep, Bounds
<1> QED
  BY <1>1, <1>2, <1>3

(* A request is accepted: the broker's session was what the client thought. *)
LEMMA InStepAccepted ==
  ASSUME NEW s, NEW L, NEW X, NEW id, NEW e \in 1 .. MaxEpoch, NEW known,
         NEW n \in 0 .. MaxFaults + 1,
         InStep(s, L, X, id, e, known, n), id # 0, s.id = id, s.epoch = e
  PROVE  Same(known, s.offsets, X)
<1>1. PICK k \in 0 .. n : /\ s.epoch = Ahead(e, k)
                          /\ k = 0 => Same(known, s.offsets, X)
  BY Zenon DEF InStep
<1>2. k \in 0 .. MaxFaults + 1
  BY Bounds
<1>3. k = 0
  BY <1>1, <1>2, Bounds DEF Ahead
<1> QED
  BY <1>1, <1>3, Zenon

(* A session that is what the client thinks it is. *)
LEMMA InStepNow ==
  ASSUME NEW s, NEW L, NEW X, NEW id, NEW known, NEW n \in Nat,
         IsFiniteSet(L), Cardinality(L) <= n, s.epoch \in 1 .. MaxEpoch, Same(known, s.offsets, X)
  PROVE  InStep(s, L, X, id, s.epoch, known, n)
<1> DEFINE c == {r \in L : r.id = id}
<1>1. Cardinality(c) \in Nat /\ Cardinality(c) <= n
  <2>1. IsFiniteSet(c) /\ Cardinality(c) <= Cardinality(L)
    BY FS_Subset, Zenon
  <2> HIDE DEF c
  <2> QED
    BY <2>1, FS_CardinalityType
<1> HIDE DEF c
<1>2. s.epoch = Ahead(s.epoch, 0) /\ 0 \in 0 .. n /\ 0 + Cardinality(c) <= n
  BY <1>1, Bounds DEF Ahead
<1> QED
  BY <1>1, <1>2, Zenon DEF InStep, c

(* What a request leaves out is what the broker has already: the session   *)
(* it makes is the one the client expects.                                 *)
LEMMA RequestAgrees ==
  ASSUME NEW s, IsSession(s), NEW pos, Map(pos, Place), NEW asked, asked \subseteq DOMAIN pos, NEW X
  PROVE  LET r == Request(s, asked, pos)
             known == Over(Only(pos, asked), s.known)
         IN /\ DOMAIN known = asked \cup DOMAIN s.known
            /\ \A p \in asked : known[p] = pos[p]
            /\ s.epoch = 0 => Same(known, r.offsets, X)
            /\ \A off : s.id # 0 /\ Same(s.known, off, X) => Same(known, Over(r.offsets, off), X)
<1> DEFINE r == Request(s, asked, pos)
           known == Over(Only(pos, asked), s.known)
           named == Named(s, asked, pos)
<1>1. /\ DOMAIN Only(pos, asked) = asked
      /\ \A p \in asked : Only(pos, asked)[p] = pos[p]
  BY Zenon DEF Only
<1>2. /\ DOMAIN known = asked \cup DOMAIN s.known
      /\ \A p \in asked : known[p] = pos[p]
      /\ \A p \in DOMAIN s.known \ asked : known[p] = s.known[p]
  <2> DEFINE f == Only(pos, asked)
  <2> HIDE DEF f
  <2>1. DOMAIN f = asked /\ \A p \in asked : f[p] = pos[p]
    BY <1>1, Zenon DEF f
  <2>2. known = Over(f, s.known)
    BY Zenon DEF f
  <2> HIDE DEF known
  <2> QED
    BY <2>1, <2>2, Zenon DEF Over
<1>3. /\ named \subseteq asked /\ r.offsets = Only(pos, named)
      /\ \A p \in asked \ named : s.id # 0 /\ p \in DOMAIN s.known /\ s.known[p] = pos[p]
  BY Zenon DEF Request, Named
<1>4. DOMAIN r.offsets = named /\ \A p \in named : r.offsets[p] = pos[p]
  <2>1. DOMAIN Only(pos, named) = named /\ \A p \in named : Only(pos, named)[p] = pos[p]
    BY <1>3, Zenon DEF Only
  <2> QED
    BY <1>3, <2>1, Zenon
<1> HIDE DEF known, r, named
<1>5. ASSUME s.epoch = 0
      PROVE  Same(known, r.offsets, X)
  <2>1. s.id = 0 /\ DOMAIN s.known = {}
    BY <1>5, NoSessionType, EmptyMap, Zenon DEF IsSession
  <2>2. asked = named
    BY <1>3, <2>1, Zenon
  <2> QED
    BY <1>2, <1>4, <2>1, <2>2, Zenon DEF Same
<1>6. ASSUME NEW off, s.id # 0, Same(s.known, off, X)
      PROVE  Same(known, Over(r.offsets, off), X)
  <2> DEFINE g == Over(r.offsets, off)
  <2>1. /\ DOMAIN g = named \cup DOMAIN off
        /\ \A p \in named : g[p] = pos[p]
        /\ \A p \in DOMAIN off \ named : g[p] = off[p]
    <3> DEFINE f == r.offsets
    <3> HIDE DEF f
    <3>1. DOMAIN f = named /\ \A p \in named : f[p] = pos[p]
      BY <1>4, Zenon DEF f
    <3>2. g = Over(f, off)
      BY Zenon DEF f
    <3> HIDE DEF g
    <3> QED
      BY <3>1, <3>2, Zenon DEF Over
  <2> HIDE DEF g
  <2>2. DOMAIN off = DOMAIN s.known /\ \A p \in DOMAIN off \ X : s.known[p] = off[p]
    BY <1>6, Zenon DEF Same
  <2>3. DOMAIN g = DOMAIN known
    BY <1>2, <1>3, <2>1, <2>2, Zenon
  <2>4. ASSUME NEW p \in DOMAIN known \ X
        PROVE  known[p] = g[p]
    <3>1. CASE p \in named
      BY <1>2, <1>3, <2>1, <3>1, Zenon
    <3>2. CASE p \in asked \ named
      BY <1>2, <1>3, <2>1, <2>2, <3>2, Zenon
    <3>3. CASE p \notin asked
      BY <1>2, <1>3, <2>1, <2>2, <3>3, Zenon
    <3> QED
      BY <3>1, <3>2, <3>3, Zenon
  <2> QED
    BY <2>3, <2>4, Zenon DEF Same, g
<1> QED
  BY <1>2, <1>5, <1>6, Zenon DEF known, r

-----------------------------------------------------------------------------
(* A broker's session is kept track of, whatever happens elsewhere: if it  *)
(* stays as it is, or is another than the client asks for.                 *)
LEMMA TrackedKept ==
  ASSUME NEW c \in Broker, Tracked(c), wire'[c] = wire[c], sessions'[c] = sessions[c],
         positions' = positions, outstanding' = outstanding, paused' = paused,
         returned \subseteq returned', IsFiniteSet(late[c]), late'[c] \subseteq late[c],
         faults \in Nat, faults' \in Nat, faults <= faults',
         \/ remembered'[c] = remembered[c]
         \/ remembered'[c].id = 0
         \/ /\ remembered'[c].id # sessions[c].id
            /\ wire[c].is = "answered" => remembered'[c].id # wire[c].answer.id
  PROVE  Tracked(c)'
<1>1. ASSUME NEW id, NEW e, NEW known, NEW m \in Nat, NEW n \in Nat, m <= n,
             InStep(remembered[c], late[c], returned, id, e, known, m),
             id \in {sessions[c].id} \cup (IF wire[c].is = "answered" THEN {wire[c].answer.id} ELSE {})
      PROVE  InStep(remembered'[c], late'[c], returned', id, e, known, n)
  <2>1. InStep(remembered[c], late[c], returned', id, e, known, n)
    BY <1>1, InStepMore, Zenon
  <2>2. InStep(remembered[c], late'[c], returned', id, e, known, n)
    BY <2>1, InStepFewer, Zenon
  <2>3. CASE remembered'[c] = remembered[c]
    BY <2>2, <2>3, Zenon
  <2>4. CASE remembered'[c].id # id \/ id = 0
    BY <2>4, Zenon DEF InStep
  <2> QED
    BY <1>1, <2>3, <2>4, Zenon
<1>2. CASE Good(c)
  <2>1. Good(c)' /\ wire[c].is = "answered"
    BY <1>2, Zenon DEF Good
  <2> DEFINE a == wire[c].answer
  <2>2. /\ sessions[c].id \in {0, a.id}
        /\ InStep(remembered[c], late[c], returned, a.id, NextEpoch(sessions[c].epoch), NextKnown(c), faults)
        /\ \A p \in DOMAIN a.data :
             /\ p \in fetchable
             /\ p \in returned \/ (p \in outstanding[c] /\ a.data[p].from = positions[p])
    BY <1>2, Zenon DEF Tracked, TrueAnswer, Agrees
  <2>3. InStep(remembered'[c], late'[c], returned', a.id, NextEpoch(sessions[c].epoch), NextKnown(c), faults')
    BY <1>1, <2>1, <2>2, Zenon
  <2>4. NextKnown(c)' = NextKnown(c) /\ wire'[c].answer = a /\ fetchable' = fetchable
    BY Zenon DEF NextKnown, fetchable
  <2> QED
    BY <2>1, <2>2, <2>3, <2>4, Zenon DEF Tracked, TrueAnswer, Agrees
<1>3. CASE ~Good(c)
  <2>1. ~Good(c)'
    BY <1>3, Zenon DEF Good
  <2>2. InStep(remembered[c], late[c], returned, sessions[c].id, sessions[c].epoch, sessions[c].known, faults + 1)
    BY <1>3, Zenon DEF Tracked, Agrees
  <2>3. InStep(remembered'[c], late'[c], returned', sessions[c].id, sessions[c].epoch, sessions[c].known, faults' + 1)
    BY <1>1, <2>2
  <2> QED
    BY <2>1, <2>3, Zenon DEF Tracked, Agrees
<1> QED
  BY <1>2, <1>3, Zenon


-----------------------------------------------------------------------------
(* The caller's calls. *)

(* With nothing outstanding every connection is idle. *)
LEMMA NothingOutstanding ==
  ASSUME FetchInv, DOMAIN outstanding = {}
  PROVE  fresh /\ \A b \in Broker : wire[b].is = "idle" /\ ~Good(b)
BY Zenon DEF FetchInv, InFlight, Good

(* A session that was reset agrees with whatever the broker has. *)
LEMMA ResetTracked ==
  ASSUME NEW b, sessions'[b] = NoSession, ~Good(b)'
  PROVE  Tracked(b)'
BY NoSessionType, Zenon DEF Tracked, Agrees, InStep

(* Reading the metadata again finds the brokers that led the partitions    *)
(* among the former leaders.                                               *)
LEMMA LedKept ==
  ASSUME FetchInv, meta' \in {meta, leader}, former' = former
  PROVE  \A p \in Partition : /\ meta'[p] = leader[p] \/ meta'[p] \in former[p]
                              /\ \A b : Led(p, b) => meta'[p] = b \/ b \in former'[p]
BY Zenon DEF FetchInv, Leadership, Led

(* Partitions a broker was asked about are partitions. *)
LEMMA NamedPartitions ==
  ASSUME FetchInv, NEW b \in Broker
  PROVE  /\ DOMAIN sessions[b].known \subseteq Partition
         /\ DOMAIN remembered[b].offsets \subseteq Partition
         /\ wire[b].is = "sent" => DOMAIN wire[b].req.offsets \subseteq Partition
         /\ \A r \in late[b] : DOMAIN r.offsets \subseteq Partition
BY Zenon DEF FetchInv, FetchTypes, IsSession, IsRemembered, IsWire, IsRequest, Map

(* What brokers have been asked about stays within what they led, when     *)
(* only the client moves and what it sends anew is addressed by its map.   *)
LEMMA LeadershipKept ==
  ASSUME FetchInv, meta' \in {meta, leader}, leader' = leader, former' = former,
         returned' = returned, remembered' = remembered, late' = late,
         \A b \in Broker : /\ \A p \in DOMAIN sessions'[b].known :
                                p \in fetchable' /\ (Led(p, b) \/ meta'[p] = b)
                           /\ DOMAIN sessions'[b].known \subseteq Partition
                           /\ wire'[b].is = "sent" =>
                                \/ wire'[b] = wire[b]
                                \/ \A p \in DOMAIN wire'[b].req.offsets : meta'[p] = b
  PROVE  Leadership'
<1> DEFINE Leads(p, b) == meta'[p] = b \/ b \in former'[p]
<1>1. \A p \in Partition : /\ meta'[p] = leader'[p] \/ meta'[p] \in former'[p]
                           /\ leader'[p] \in former'[p] => p \in returned'
  BY LedKept, Zenon DEF FetchInv, Leadership
<1>2. \A p \in Partition : \A b : Led(p, b) => Leads(p, b)
  BY LedKept, Zenon
<1>3. \A b \in Broker : \A p \in DOMAIN sessions'[b].known : p \in fetchable' /\ Leads(p, b)
  BY <1>2, Zenon DEF Leads
<1>4. \A b \in Broker : \A p \in DOMAIN remembered'[b].offsets : Leads(p, b)
  <2> HIDE DEF Leads
  <2>1. \A b \in Broker : \A p \in DOMAIN remembered[b].offsets : p \in Partition /\ Led(p, b)
    BY NamedPartitions, Zenon DEF FetchInv, Leadership
  <2> QED
    BY <1>2, <2>1, Zenon
<1>5. \A b \in Broker : \A r \in late'[b] : \A p \in DOMAIN r.offsets : Leads(p, b)
  <2> HIDE DEF Leads
  <2>1. \A b \in Broker : \A r \in late[b] : \A p \in DOMAIN r.offsets : p \in Partition /\ Led(p, b)
    BY NamedPartitions, Zenon DEF FetchInv, Leadership
  <2> QED
    BY <1>2, <2>1, Zenon
<1>6. \A b \in Broker : wire'[b].is = "sent" => \A p \in DOMAIN wire'[b].req.offsets : Leads(p, b)
  <2>1. \A b \in Broker : wire[b].is = "sent" =>
          \A p \in DOMAIN wire[b].req.offsets : p \in Partition /\ Led(p, b)
    BY NamedPartitions, Zenon DEF FetchInv, Leadership
  <2> QED
    BY <1>2, <2>1, Zenon DEF Leads
<1> QED
  BY <1>1, <1>3, <1>4, <1>5, <1>6, Zenon DEF Leadership, Led, Leads

(* Consumer::assign. *)
LEMMA AssignStep ==
  ASSUME FetchInv, NEW p \in Partition, NEW offset \in Offset, Assign(p, offset)
  PROVE  FetchInv'
<1>1. /\ leader' = leader /\ former' = former /\ returned' = returned /\ remembered' = remembered
      /\ len' = len /\ late' = late /\ meta' = leader /\ paused' = paused
      /\ outstanding' = [b \in {} |-> {}] /\ wire' = [b \in Broker |-> Idle]
      /\ sessions' = [b \in Broker |-> NoSession] /\ fresh' = TRUE
      /\ positions' = Put(p, offset, positions)
      /\ prefetch' = prefetch /\ pc' = pc /\ faults' = faults
      /\ handed' = [handed EXCEPT ![p] = {}] /\ seen' = [seen EXCEPT ![p] = {}]
      /\ start' = [start EXCEPT ![p] = offset]
  BY Zenon DEF Assign, DiscardOutstanding, AllReset, brokerVars, leadership
<1>2. /\ Map(positions', Place) /\ DOMAIN positions' = DOMAIN positions \cup {p}
      /\ positions'[p] = offset /\ \A q \in DOMAIN positions \ {p} : positions'[q] = positions[q]
  <2>1. offset \in Place /\ Map(positions, Place)
    BY FetchAssumption DEF Offset, FetchInv, FetchTypes, Place
  <2>2. /\ Map(Put(p, offset, positions), Place)
        /\ DOMAIN Put(p, offset, positions) = DOMAIN positions \cup {p}
        /\ Put(p, offset, positions)[p] = offset
        /\ \A q \in DOMAIN positions \ {p} : Put(p, offset, positions)[q] = positions[q]
    BY <2>1, PutMap, ZenonT(40)
  <2> QED
    BY <1>1, <2>2, Zenon
<1>3. \A b \in Broker : /\ wire'[b] = Idle /\ wire'[b].is = "idle" /\ IsWire(wire'[b])
                        /\ sessions'[b] = NoSession /\ IsSession(sessions'[b])
                        /\ DOMAIN sessions'[b].known = {}
  BY <1>1, NoSessionType, EmptyMap, Zenon DEF Idle, IsWire
<1>4. FetchTypes'
  <2>1. \A b \in Broker : IsRemembered(remembered[b]) /\ \A r \in late[b] : IsRequest(r)
    BY Zenon DEF FetchInv, FetchTypes
  <2>2. offset \in Place
    BY FetchAssumption DEF Offset, Place
  <2>3. /\ handed' \in [Partition -> SUBSET Nat] /\ seen' \in [Partition -> SUBSET Nat]
        /\ start' \in [Partition -> Place]
    BY <1>1, <2>2, Zenon DEF FetchInv, FetchTypes
  <2> QED
    BY <1>1, <1>2, <1>3, <2>1, <2>3, Zenon DEF FetchInv, FetchTypes
<1>5. InFlight'
  BY <1>1, <1>3, Zenon DEF InFlight
<1>6. Leadership'
  BY <1>1, <1>3, LeadershipKept, Zenon
<1>7. Sessions'
  <2>1. \A b \in Broker : ~Good(b)'
    BY <1>3, Zenon DEF Good
  <2>2. \A b \in Broker : Tracked(b)'
    BY <1>3, <2>1, ResetTracked, Zenon
  <2> QED
    BY <1>1, <2>2, Zenon DEF FetchInv, Sessions
<1>8. NoGap'
  <2>1. \A q \in DOMAIN positions' \ {p} : start'[q] = start[q] /\ seen'[q] = seen[q]
    BY <1>1, <1>2, Zenon DEF FetchInv, FetchTypes, Map
  <2>2. start'[p] .. positions'[p] - 1 = {}
    BY <1>1, <1>2, FetchAssumption, SMTT(20) DEF FetchInv, FetchTypes, Offset
  <2> QED
    BY <1>1, <1>2, <2>1, <2>2, Zenon DEF FetchInv, NoGap
<1> QED
  BY <1>4, <1>5, <1>6, <1>7, <1>8, Zenon DEF FetchInv

(* Consumer::seek_to. *)
LEMMA SeekToStep ==
  ASSUME FetchInv, NEW p \in Partition, NEW offset \in Offset, SeekTo(p, offset)
  PROVE  FetchInv'
<1>1. /\ leader' = leader /\ former' = former /\ returned' = returned /\ remembered' = remembered
      /\ len' = len /\ wire' = wire /\ late' = late /\ meta' = meta /\ paused' = paused
      /\ sessions' = sessions /\ outstanding' = outstanding
      /\ fresh' = (DOMAIN outstanding = {})
      /\ positions' = Put(p, offset, positions)
      /\ prefetch' = prefetch /\ pc' = pc /\ pc = "idle" /\ faults' = faults
      /\ handed' = [handed EXCEPT ![p] = {}] /\ seen' = [seen EXCEPT ![p] = {}]
      /\ start' = [start EXCEPT ![p] = offset]
  BY Zenon DEF SeekTo, Call, Outdated, brokerVars, leadership
<1>2. /\ Map(positions', Place) /\ DOMAIN positions' = DOMAIN positions \cup {p}
      /\ positions'[p] = offset /\ \A q \in DOMAIN positions \ {p} : positions'[q] = positions[q]
  <2>1. offset \in Place /\ Map(positions, Place)
    BY FetchAssumption DEF Offset, FetchInv, FetchTypes, Place
  <2>2. /\ Map(Put(p, offset, positions), Place)
        /\ DOMAIN Put(p, offset, positions) = DOMAIN positions \cup {p}
        /\ Put(p, offset, positions)[p] = offset
        /\ \A q \in DOMAIN positions \ {p} : Put(p, offset, positions)[q] = positions[q]
    BY <2>1, PutMap, ZenonT(40)
  <2> QED
    BY <1>1, <2>2, Zenon
<1>3. fetchable \subseteq fetchable'
  BY <1>1, <1>2, Zenon DEF fetchable
<1>4. FetchTypes'
  <2>1. offset \in Place
    BY FetchAssumption DEF Offset, Place
  <2>2. /\ handed' \in [Partition -> SUBSET Nat] /\ seen' \in [Partition -> SUBSET Nat]
        /\ start' \in [Partition -> Place] /\ fresh' \in BOOLEAN
    BY <1>1, <2>1, Zenon DEF FetchInv, FetchTypes
  <2> QED
    BY <1>1, <1>2, <2>2, Zenon DEF FetchInv, FetchTypes
<1>5. InFlight'
  BY <1>1, Zenon DEF FetchInv, InFlight
<1>6. Leadership'
  <2>1. \A b \in Broker : /\ \A q \in DOMAIN sessions'[b].known : q \in fetchable' /\ Led(q, b)
                          /\ DOMAIN sessions'[b].known \subseteq Partition
    BY <1>1, <1>3, NamedPartitions, Zenon DEF FetchInv, Leadership
  <2> QED
    BY <1>1, <2>1, LeadershipKept, Zenon
<1>7. Sessions'
  <2>1. ASSUME fresh', NEW b \in Broker
        PROVE  Tracked(b)'
    <3>1. fresh /\ ~Good(b)
      BY <1>1, <2>1, NothingOutstanding, Zenon
    <3>2. Tracked(b) /\ ~Good(b)'
      BY <1>1, <3>1, Zenon DEF FetchInv, Sessions, Good
    <3> QED
      BY <1>1, <3>1, <3>2, Zenon DEF Tracked, Agrees
  <2> QED
    BY <1>1, <2>1, Zenon DEF FetchInv, Sessions
<1>8. NoGap'
  <2>1. \A q \in DOMAIN positions' \ {p} : start'[q] = start[q] /\ seen'[q] = seen[q]
    BY <1>1, <1>2, Zenon DEF FetchInv, FetchTypes, Map
  <2>2. start'[p] .. positions'[p] - 1 = {}
    BY <1>1, <1>2, FetchAssumption DEF FetchInv, FetchTypes, Offset
  <2> QED
    BY <1>1, <1>2, <2>1, <2>2, Zenon DEF FetchInv, NoGap
<1> QED
  BY <1>4, <1>5, <1>6, <1>7, <1>8, Zenon DEF FetchInv

(* Consumer::remove, pause and resume: the sessions start again, and a     *)
(* fetch in flight is out of date.                                         *)
LEMMA FetchSetStep ==
  ASSUME FetchInv, NEW p \in Partition, Remove(p) \/ Pause(p) \/ Resume(p)
  PROVE  FetchInv'
<1>1. /\ leader' = leader /\ former' = former /\ returned' = returned /\ remembered' = remembered
      /\ len' = len /\ wire' = wire /\ late' = late /\ meta' = meta
      /\ sessions' = [b \in Broker |-> NoSession] /\ outstanding' = outstanding
      /\ fresh' = (DOMAIN outstanding = {})
      /\ prefetch' = prefetch /\ pc' = pc /\ pc = "idle" /\ faults' = faults
      /\ handed' = handed /\ seen' = seen /\ start' = start
      /\ positions' \in {positions, Only(positions, Partition \ {p})}
      /\ paused' \in {paused \ {p}, paused \cup {p}}
  BY Zenon DEF Remove, Pause, Resume, Call, Outdated, AllReset, brokerVars, leadership, history
<1>2. /\ Map(positions', Place) /\ DOMAIN positions' \subseteq DOMAIN positions
      /\ \A q \in DOMAIN positions' : positions'[q] = positions[q]
      /\ paused' \subseteq Partition
  <2>1. Map(positions, Place) /\ paused \subseteq Partition
    BY Zenon DEF FetchInv, FetchTypes
  <2> DEFINE rest == Only(positions, Partition \ {p})
  <2>2. Map(rest, Place)
    BY <2>1, OnlyMap, Zenon
  <2>3. DOMAIN rest \subseteq DOMAIN positions /\ \A q \in DOMAIN rest : rest[q] = positions[q]
    BY Zenon DEF Only
  <2> HIDE DEF rest
  <2>4. positions' = positions \/ positions' = rest
    BY <1>1, Zenon DEF rest
  <2> QED
    BY <1>1, <2>1, <2>2, <2>3, <2>4, Zenon
<1>3. \A b \in Broker : /\ sessions'[b] = NoSession /\ IsSession(sessions'[b])
                        /\ DOMAIN sessions'[b].known = {}
  BY <1>1, NoSessionType, EmptyMap, Zenon
<1>4. FetchTypes'
  <2>1. \A b \in Broker : /\ IsRemembered(remembered[b]) /\ IsWire(wire[b])
                          /\ \A r \in late[b] : IsRequest(r)
    BY Zenon DEF FetchInv, FetchTypes
  <2>2. fresh' \in BOOLEAN
    BY <1>1, Zenon
  <2> QED
    BY <1>1, <1>2, <1>3, <2>1, <2>2, Zenon DEF FetchInv, FetchTypes
<1>5. InFlight'
  BY <1>1, Zenon DEF FetchInv, InFlight
<1>6. Leadership'
  BY <1>1, <1>3, LeadershipKept, Zenon
<1>7. Sessions'
  <2>1. ASSUME fresh', NEW b \in Broker
        PROVE  Tracked(b)'
    <3>1. ~Good(b)
      BY <1>1, <2>1, NothingOutstanding, Zenon
    <3>2. ~Good(b)'
      BY <1>1, <3>1, Zenon DEF Good
    <3> QED
      BY <1>3, <3>2, ResetTracked, Zenon
  <2> QED
    BY <1>1, <2>1, Zenon DEF FetchInv, Sessions
<1>8. NoGap'
  BY <1>1, <1>2, Zenon DEF FetchInv, NoGap
<1> QED
  BY <1>4, <1>5, <1>6, <1>7, <1>8, Zenon DEF FetchInv

(* discard_outstanding leaves the sessions as they are, with nothing       *)
(* outstanding, or resets them all.                                        *)
LEMMA DiscardedFacts ==
  ASSUME FetchInv, sessions' = Discarded(sessions), wire' = [b \in Broker |-> Idle]
  PROVE  /\ sessions' = [b \in Broker |-> sessions'[b]]
         /\ \A b \in Broker :
              /\ wire'[b] = Idle /\ wire'[b].is = "idle" /\ IsWire(wire'[b]) /\ ~Good(b)'
              /\ IsSession(sessions'[b])
              /\ \/ sessions'[b] = NoSession /\ DOMAIN sessions'[b].known = {}
                 \/ sessions'[b] = sessions[b] /\ fresh /\ ~Good(b)
<1>1. \A b \in Broker : wire'[b] = Idle /\ wire'[b].is = "idle" /\ IsWire(wire'[b]) /\ ~Good(b)'
  BY Zenon DEF Idle, IsWire, Good
<1>2. CASE DOMAIN outstanding = {}
  <2>1. sessions' = sessions
    BY <1>2, Zenon DEF Discarded
  <2> QED
    BY <1>1, <1>2, <2>1, NothingOutstanding, Zenon DEF FetchInv, FetchTypes
<1>3. CASE DOMAIN outstanding # {}
  <2>1. sessions' = [b \in Broker |-> NoSession]
    BY <1>3, Zenon DEF Discarded
  <2> QED
    BY <1>1, <2>1, NoSessionType, EmptyMap, Zenon
<1> QED
  BY <1>2, <1>3, Zenon

(* The calls that drain the connections, and an assign that fails after it *)
(* has.                                                                    *)
LEMMA DrainStep ==
  ASSUME FetchInv, Drain \/ \E p \in Partition : AssignFails(p)
  PROVE  FetchInv'
<1>1. /\ leader' = leader /\ former' = former /\ returned' = returned /\ remembered' = remembered
      /\ len' = len /\ late' = late /\ meta' \in {meta, leader} /\ paused' = paused
      /\ outstanding' = [b \in {} |-> {}] /\ wire' = [b \in Broker |-> Idle]
      /\ sessions' = Discarded(sessions) /\ fresh' = TRUE
      /\ prefetch' = prefetch /\ pc' = pc /\ faults' = faults
  BY Zenon DEF Drain, AssignFails, DiscardOutstanding, brokerVars, leadership, history
<1>2. /\ Map(positions', Place) /\ DOMAIN positions \subseteq DOMAIN positions'
      /\ handed' \in [Partition -> SUBSET Nat] /\ seen' \in [Partition -> SUBSET Nat]
      /\ start' \in [Partition -> Place] /\ NoGap'
  <2>1. CASE Drain
    BY <1>1, <2>1, Zenon DEF Drain, history, FetchInv, FetchTypes, NoGap
  <2>2. CASE \E p \in Partition : AssignFails(p)
    <3>1. PICK p \in Partition : AssignFails(p)
      BY <2>2, Zenon
    <3>2. /\ positions' = Put(p, Unresolved, positions)
          /\ handed' = [handed EXCEPT ![p] = {}] /\ seen' = [seen EXCEPT ![p] = {}]
          /\ start' = [start EXCEPT ![p] = Unresolved]
      BY <3>1, Zenon DEF AssignFails
    <3>3. Unresolved \in Place /\ Map(positions, Place)
      BY Zenon DEF Place, FetchInv, FetchTypes
    <3>4. /\ Map(positions', Place) /\ DOMAIN positions' = DOMAIN positions \cup {p}
          /\ positions'[p] = Unresolved
          /\ \A q \in DOMAIN positions \ {p} : positions'[q] = positions[q]
      <4>1. /\ Map(Put(p, Unresolved, positions), Place)
            /\ DOMAIN Put(p, Unresolved, positions) = DOMAIN positions \cup {p}
            /\ Put(p, Unresolved, positions)[p] = Unresolved
            /\ \A q \in DOMAIN positions \ {p} : Put(p, Unresolved, positions)[q] = positions[q]
        BY <3>3, PutMap, ZenonT(40)
      <4> QED
        BY <3>2, <4>1, Zenon
    <3>5. /\ handed' \in [Partition -> SUBSET Nat] /\ seen' \in [Partition -> SUBSET Nat]
          /\ start' \in [Partition -> Place]
      BY <3>2, <3>3, Zenon DEF FetchInv, FetchTypes
    <3>6. \A q \in DOMAIN positions' \ {p} : start'[q] = start[q] /\ seen'[q] = seen[q]
      BY <3>2, <3>4, Zenon DEF FetchInv, FetchTypes, Map
    <3>7. start'[p] .. positions'[p] - 1 = {}
      <4>1. start'[p] = Unresolved
        BY <3>2, Zenon DEF FetchInv, FetchTypes
      <4> QED
        BY <3>4, <4>1 DEF Unresolved
    <3> QED
      BY <1>1, <3>4, <3>5, <3>6, <3>7, Zenon DEF FetchInv, NoGap
  <2> QED
    BY <2>1, <2>2, Zenon
<1>3. /\ sessions' = [b \in Broker |-> sessions'[b]]
      /\ \A b \in Broker :
           /\ wire'[b] = Idle /\ wire'[b].is = "idle" /\ IsWire(wire'[b]) /\ ~Good(b)'
           /\ IsSession(sessions'[b])
           /\ \/ sessions'[b] = NoSession /\ DOMAIN sessions'[b].known = {}
              \/ sessions'[b] = sessions[b] /\ fresh /\ ~Good(b)
  BY <1>1, DiscardedFacts, Zenon
<1>4. FetchTypes'
  <2>1. \A b \in Broker : IsRemembered(remembered[b]) /\ \A r \in late[b] : IsRequest(r)
    BY Zenon DEF FetchInv, FetchTypes
  <2>2. meta' \in [Partition -> Broker]
    BY <1>1, Zenon DEF FetchInv, FetchTypes
  <2> QED
    BY <1>1, <1>2, <1>3, <2>1, <2>2, Zenon DEF FetchInv, FetchTypes
<1>5. InFlight'
  BY <1>1, <1>3, Zenon DEF InFlight
<1>6. Leadership'
  <2>1. fetchable \subseteq fetchable'
    BY <1>1, <1>2, Zenon DEF fetchable
  <2>2. \A b \in Broker : /\ \A q \in DOMAIN sessions'[b].known : q \in fetchable' /\ Led(q, b)
                          /\ DOMAIN sessions'[b].known \subseteq Partition
    BY <1>3, <2>1, NamedPartitions, Zenon DEF FetchInv, Leadership
  <2> QED
    BY <1>1, <1>3, <2>2, LeadershipKept, Zenon
<1>7. Sessions'
  <2>1. ASSUME NEW b \in Broker PROVE Tracked(b)'
    <3>1. CASE sessions'[b] = NoSession
      BY <1>3, <3>1, ResetTracked, Zenon
    <3>2. CASE sessions'[b] = sessions[b] /\ fresh /\ ~Good(b)
      <4>1. Tracked(b)
        BY <3>2, Zenon DEF FetchInv, Sessions
      <4> QED
        BY <1>1, <1>3, <3>2, <4>1, Zenon DEF Tracked, Agrees
    <3> QED
      BY <1>3, <3>1, <3>2, Zenon
  <2> QED
    BY <1>1, <2>1, Zenon DEF FetchInv, Sessions
<1> QED
  BY <1>2, <1>4, <1>5, <1>6, <1>7, Zenon DEF FetchInv

-----------------------------------------------------------------------------
(* Consumer::poll. *)

(* After issue_fetch. *)
Issued(map, pos, sess) ==
  /\ fresh' = TRUE
  /\ wire' = [b \in Broker |-> wire'[b]] /\ DOMAIN outstanding' \subseteq Broker
  /\ \A b \in Broker :
       /\ IsWire(wire'[b]) /\ wire'[b].is \in {"idle", "sent"}
       /\ wire'[b].is # "idle" <=> b \in DOMAIN outstanding'
  /\ \A b \in DOMAIN outstanding' :
       /\ outstanding'[b] = {p \in DOMAIN pos \ paused : map[p] = b}
       /\ wire'[b].req = Request(sess[b], outstanding'[b], pos)
       /\ \A p \in DOMAIN wire'[b].req.offsets : map[p] = b

(* issue_fetch: what is on the wire afterwards is what it sent, recorded   *)
(* as outstanding, and asks each broker about the partitions the map gives *)
(* to it.                                                                  *)
LEMMA IssueFacts ==
  ASSUME NEW map \in [Partition -> Broker], NEW pos, Map(pos, Place), NEW sess, NEW upto,
         \A b \in Broker : IsSession(sess[b]),
         Issue(map, pos, sess, upto)
  PROVE  Issued(map, pos, sess)
<1> DEFINE open == DOMAIN pos \ paused
           asked == Asked(map, pos)
           sent == {b \in DOMAIN asked : b < upto}
<1>1. /\ outstanding' = [b \in sent |-> asked[b]] /\ fresh' = TRUE
      /\ wire' = [b \in Broker |-> IF b \in sent THEN Sent(Request(sess[b], asked[b], pos)) ELSE Idle]
  BY Zenon DEF Issue
<1>2. /\ DOMAIN asked \subseteq Broker
      /\ \A b \in DOMAIN asked : asked[b] = {p \in open : map[p] = b}
  <2>1. open \subseteq Partition
    BY Zenon DEF Map
  <2> QED
    BY <2>1, Zenon DEF Asked
<1>3. sent \subseteq DOMAIN asked
  BY Zenon
<1> HIDE DEF asked, sent
<1>4. \A b \in sent : /\ IsRequest(Request(sess[b], asked[b], pos))
                      /\ DOMAIN Request(sess[b], asked[b], pos).offsets \subseteq asked[b]
  <2> TAKE b \in sent
  <2>1. IsSession(sess[b])
    BY <1>2, <1>3, Zenon
  <2>2. /\ IsRequest(Request(sess[b], asked[b], pos))
        /\ DOMAIN Request(sess[b], asked[b], pos).offsets = DOMAIN pos \cap Named(sess[b], asked[b], pos)
        /\ Named(sess[b], asked[b], pos) \subseteq asked[b]
    BY <2>1, RequestType, Zenon
  <2> QED
    BY <2>2, Zenon
<1>5. ASSUME NEW b \in sent
      PROVE  /\ wire'[b] = Sent(Request(sess[b], asked[b], pos)) /\ wire'[b].is = "sent"
             /\ wire'[b].req = Request(sess[b], asked[b], pos) /\ IsWire(wire'[b])
  <2>1. wire'[b] = Sent(Request(sess[b], asked[b], pos))
    BY <1>1, <1>2, <1>3, Zenon
  <2>2. wire'[b].is = "sent" /\ wire'[b].req = Request(sess[b], asked[b], pos)
    BY <2>1 DEF Sent
  <2> QED
    BY <1>4, <2>1, <2>2, Zenon DEF IsWire
<1>6. ASSUME NEW b \in Broker \ sent
      PROVE  wire'[b].is = "idle" /\ IsWire(wire'[b])
  BY <1>1, Zenon DEF Idle, IsWire
<1>7. DOMAIN outstanding' = sent /\ \A b \in sent : outstanding'[b] = asked[b]
  BY <1>1, Zenon
<1>8. ASSUME NEW b \in sent
      PROVE  /\ outstanding'[b] = {p \in open : map[p] = b}
             /\ wire'[b].req = Request(sess[b], outstanding'[b], pos)
             /\ \A p \in DOMAIN wire'[b].req.offsets : map[p] = b
  <2>1. outstanding'[b] = asked[b] /\ asked[b] = {p \in open : map[p] = b}
    BY <1>2, <1>3, <1>7, Zenon
  <2>2. wire'[b].req = Request(sess[b], asked[b], pos)
    BY <1>5, Zenon
  <2>3. DOMAIN wire'[b].req.offsets \subseteq asked[b]
    BY <1>4, <2>2, Zenon
  <2> QED
    BY <2>1, <2>2, <2>3, Zenon
<1>9. wire' = [b \in Broker |-> wire'[b]] /\ sent \subseteq Broker
  BY <1>1, <1>2, <1>3, Zenon
<1> QED
  BY <1>1, <1>5, <1>6, <1>7, <1>8, <1>9, Zenon DEF Issued

(* How many faults there have been by the end of issue_fetch. *)
LEMMA SendingFacts ==
  ASSUME NEW map, NEW pos, NEW upto, Sending(map, pos, upto), faults \in 0 .. MaxFaults
  PROVE  /\ faults' \in 0 .. MaxFaults /\ faults <= faults' /\ faults \in Nat /\ faults' \in Nat
         /\ faults + 1 \in Nat /\ faults' + 1 \in Nat /\ faults + 1 <= faults' + 1
<1>1. faults' \in 0 .. MaxFaults /\ faults <= faults' /\ faults \in Nat /\ faults' \in Nat
  BY Bounds DEF Sending, Fault
<1> QED
  BY <1>1, OneMore, Zenon

(* The first half of a poll. *)
LEMMA BeginStep ==
  ASSUME FetchInv, NEW refresh \in BOOLEAN, NEW upto \in 1 .. Everything, Begin(refresh, upto)
  PROVE  FetchInv'
<1> DEFINE map == IF refresh THEN leader ELSE meta
           sess == Discarded(sessions)
<1>1. /\ leader' = leader /\ former' = former /\ returned' = returned /\ remembered' = remembered
      /\ len' = len /\ late' = late /\ meta' = map /\ paused' = paused
      /\ sessions' = sess /\ positions' = positions
      /\ prefetch' = prefetch /\ pc' \in {"recv", "idle"}
      /\ handed' = handed /\ seen' = seen /\ start' = start /\ fetchable' = fetchable
  BY Zenon DEF Begin, brokerVars, leadership, history, fetchable
<1>2. /\ faults' \in 0 .. MaxFaults /\ faults <= faults' /\ faults \in Nat /\ faults' \in Nat
      /\ faults + 1 \in Nat /\ faults' + 1 \in Nat /\ faults + 1 <= faults' + 1
  <2>1. Sending(map, positions, upto) /\ faults \in 0 .. MaxFaults
    BY Zenon DEF Begin, FetchInv, FetchTypes
  <2> QED
    BY <2>1, SendingFacts, Zenon
<1>3. /\ map \in [Partition -> Broker] /\ map \in {meta, leader} /\ Map(positions, Place)
  BY Zenon DEF FetchInv, FetchTypes
<1>4. \A b \in Broker : \/ sess[b] = NoSession
                        \/ DOMAIN outstanding = {} /\ sess[b] = sessions[b]
  BY Zenon DEF Discarded
<1>5. sess = [b \in Broker |-> sess[b]] /\ \A b \in Broker : IsSession(sess[b])
  BY NoSessionType, Zenon DEF Discarded, FetchInv, FetchTypes
<1>6. Issue(map, positions, sess, upto)
  BY Zenon DEF Begin
<1> HIDE DEF map, sess
<1>7. Issued(map, positions, sess)
  BY <1>3, <1>5, <1>6, IssueFacts, Zenon
<1>8. FetchTypes'
  <2>1. \A b \in Broker : IsRemembered(remembered[b]) /\ \A r \in late[b] : IsRequest(r)
    BY Zenon DEF FetchInv, FetchTypes
  <2>2. sessions' = [b \in Broker |-> sessions'[b]] /\ \A b \in Broker : IsSession(sessions'[b])
    BY <1>1, <1>5, Zenon
  <2> QED
    BY <1>1, <1>2, <1>3, <1>7, <2>1, <2>2, Zenon DEF FetchInv, FetchTypes, Issued
<1>9. InFlight'
  BY <1>1, <1>7, Zenon DEF InFlight, fetchable, Issued
<1>10. Leadership'
  <2>1. \A b \in Broker : /\ \A p \in DOMAIN sessions'[b].known : p \in fetchable' /\ Led(p, b)
                          /\ DOMAIN sessions'[b].known \subseteq Partition
    <3>1. \A b \in Broker : /\ \A p \in DOMAIN sessions[b].known : p \in fetchable /\ Led(p, b)
                            /\ DOMAIN sessions[b].known \subseteq Partition
      BY NamedPartitions, Zenon DEF FetchInv, Leadership
    <3>2. DOMAIN NoSession.known = {}
      BY NoSessionType, EmptyMap, Zenon
    <3> QED
      BY <1>1, <1>4, <3>1, <3>2, Zenon
  <2>2. \A b \in Broker : wire'[b].is = "sent" => \A p \in DOMAIN wire'[b].req.offsets : meta'[p] = b
    BY <1>1, <1>7, Zenon DEF Issued
  <2> QED
    BY <1>1, <1>3, <2>1, <2>2, LeadershipKept, Zenon
<1>11. Sessions'
  <2>1. \A b \in Broker : IsFiniteSet(late'[b]) /\ Cardinality(late'[b]) <= faults'
    <3>1. \A b \in Broker : /\ IsFiniteSet(late[b]) /\ Cardinality(late[b]) <= faults
                            /\ Cardinality(late[b]) \in Nat
      BY FS_CardinalityType, Zenon DEF FetchInv, Sessions
    <3> QED
      BY <1>1, <1>2, <3>1, AtMost, Zenon
  <2>2. ASSUME NEW b \in Broker
        PROVE  Tracked(b)'
    <3>1. ~Good(b)'
      BY <1>7, Zenon DEF Good, Issued
    <3>2. CASE sess[b] = NoSession
      BY <1>1, <3>1, <3>2, ResetTracked, Zenon
    <3>3. CASE DOMAIN outstanding = {} /\ sess[b] = sessions[b]
      <4> DEFINE s == sessions[b]
      <4>1. fresh /\ ~Good(b)
        BY <3>3, NothingOutstanding, Zenon
      <4>2. InStep(remembered[b], late[b], returned, s.id, s.epoch, s.known, faults + 1) /\ IsFiniteSet(late[b])
        BY <4>1, Zenon DEF FetchInv, Sessions, Tracked, Agrees
      <4>3. InStep(remembered[b], late[b], returned, s.id, s.epoch, s.known, faults' + 1)
        BY <1>2, <4>2, InStepMore, Zenon
      <4> QED
        BY <1>1, <3>1, <3>3, <4>3, Zenon DEF Tracked, Agrees
    <3> QED
      BY <1>4, <3>2, <3>3, Zenon
  <2> QED
    BY <2>1, <2>2, Zenon DEF Sessions
<1>12. NoGap'
  BY <1>1, Zenon DEF FetchInv, NoGap
<1> QED
  BY <1>8, <1>9, <1>10, <1>11, <1>12, Zenon DEF FetchInv

-----------------------------------------------------------------------------
(* The brokers. *)

(* A request is executed: what the broker then has is what the client will *)
(* think it has when it reads the answer, and the answer's records are     *)
(* those at the positions.                                                 *)
LEMMA ExecuteStep ==
  ASSUME FetchInv, NEW b \in Broker, NEW full \in BOOLEAN, Execute(b, full)
  PROVE  FetchInv'
<1> DEFINE req == wire[b].req
<1>1. PICK o \in Outcomes(b, req, full) : /\ wire' = [wire EXCEPT ![b] = Answered(o.answer)]
                                          /\ remembered' = [remembered EXCEPT ![b] = o.session]
  BY Zenon DEF Execute
<1>2. /\ leader' = leader /\ former' = former /\ returned' = returned /\ len' = len
      /\ late' = late /\ meta' = meta /\ positions' = positions /\ sessions' = sessions
      /\ outstanding' = outstanding /\ fresh' = fresh /\ paused' = paused
      /\ prefetch' = prefetch /\ pc' = pc /\ handed' = handed /\ seen' = seen /\ start' = start
      /\ fetchable' = fetchable
  BY Zenon DEF Execute, leadership, fetchVars, history, fetchable
<1>3. /\ faults' \in 0 .. MaxFaults /\ faults <= faults' /\ faults \in 0 .. MaxFaults
      /\ faults \in Nat /\ faults' \in Nat
  BY Bounds DEF Execute, Fault, FetchInv, FetchTypes
<1>4. wire[b].is = "sent" /\ wire[b] = Sent(req) /\ IsRequest(req)
  BY Zenon DEF Execute, FetchInv, FetchTypes, IsWire
<1>5. /\ NewId(b) \in 1 .. MaxFaults + 3 /\ NewId(b) # sessions[b].id
      /\ IsFiniteSet(late[b]) /\ Cardinality(late[b]) <= faults
      /\ \A r \in late[b] : NewId(b) # r.id
  BY <1>3, NewIdNew, Zenon DEF FetchInv, Sessions
<1>6. IsRemembered(remembered[b]) /\ IsSession(sessions[b])
  BY Zenon DEF FetchInv, FetchTypes
<1> DEFINE a == o.answer
<1> HIDE DEF req
<1>7. /\ IsAnswer(a) /\ IsRemembered(o.session)
      /\ DOMAIN o.session.offsets \subseteq DOMAIN req.offsets \cup DOMAIN remembered[b].offsets
      /\ \/ a.code # "NONE" /\ o.session = remembered[b]
         \/ /\ a.code = "NONE"
            /\ \A p \in DOMAIN a.data : /\ p \in DOMAIN Offered(b, req) /\ leader[p] = b
                                        /\ a.data[p].from = Offered(b, req)[p]
            /\ \/ req.epoch = 0 /\ a.id = 0 /\ o.session = remembered[b]
               \/ req.epoch = 0 /\ a.id = NewId(b) /\ o.session = Renewed(b, a.id, req)
               \/ /\ req.epoch # 0 /\ req.id # 0
                  /\ req.id = remembered[b].id /\ req.epoch = remembered[b].epoch
                  /\ a.id = req.id /\ o.session = Renewed(b, a.id, req)
  <2>1. NewId(b) \in Nat \ {0}
    BY <1>5, Bounds
  <2> QED
    BY <1>4, <1>6, <2>1, OutcomesFacts, SMTT(20)
<1>8. /\ wire' = [c \in Broker |-> wire'[c]] /\ remembered' = [c \in Broker |-> remembered'[c]]
      /\ wire'[b] = Answered(a) /\ remembered'[b] = o.session
      /\ \A c \in Broker \ {b} : wire'[c] = wire[c] /\ remembered'[c] = remembered[c]
  BY <1>1, Zenon DEF FetchInv, FetchTypes
<1>9. wire'[b].is = "answered" /\ wire'[b].answer = a
  BY <1>8 DEF Answered
<1> HIDE DEF a
<1>10. FetchTypes'
  <2>1. IsWire(wire'[b])
    BY <1>7, <1>8, <1>9, Zenon DEF IsWire
  <2>2. \A c \in Broker : IsWire(wire'[c]) /\ IsRemembered(remembered'[c])
    BY <1>7, <1>8, <2>1, Zenon DEF FetchInv, FetchTypes
  <2>3. \A c \in Broker : IsSession(sessions[c]) /\ \A r \in late[c] : IsRequest(r)
    BY Zenon DEF FetchInv, FetchTypes
  <2> QED
    BY <1>2, <1>3, <1>8, <2>2, <2>3, Zenon DEF FetchInv, FetchTypes
<1>11. InFlight'
  <2>1. \A c \in Broker : wire'[c].is # "idle" <=> c \in DOMAIN outstanding
    BY <1>4, <1>8, <1>9, Zenon DEF FetchInv, InFlight
  <2>2. \A c \in DOMAIN outstanding : wire'[c].is = "sent" => c # b /\ wire'[c] = wire[c]
    BY <1>8, <1>9, Zenon DEF FetchInv, FetchTypes
  <2> QED
    BY <1>2, <2>1, <2>2, Zenon DEF FetchInv, InFlight
<1>12. Leadership'
  <2>1. \A p \in DOMAIN o.session.offsets : Led(p, b)
    BY <1>4, <1>7, Zenon DEF FetchInv, Leadership, req
  <2> QED
    BY <1>2, <1>7, <1>8, <1>9, <2>1, SMTT(20) DEF FetchInv, Leadership, Led
<1>13. Sessions'
  <2>1. \A c \in Broker : IsFiniteSet(late'[c]) /\ Cardinality(late'[c]) <= faults'
    <3>1. \A c \in Broker : IsFiniteSet(late[c]) /\ Cardinality(late[c]) <= faults
      BY Zenon DEF FetchInv, Sessions
    <3> QED
      BY <1>2, <1>3, <3>1, FS_CardinalityType
  <2>2. ASSUME fresh', NEW c \in Broker \ {b}
        PROVE  Tracked(c)'
    <3>1. Tracked(c) /\ IsFiniteSet(late[c])
      BY <1>2, <2>2, Zenon DEF FetchInv, Sessions
    <3>2. /\ returned \subseteq returned' /\ late'[c] \subseteq late[c]
          /\ faults \in Nat /\ faults' \in Nat /\ faults <= faults'
          /\ wire'[c] = wire[c] /\ remembered'[c] = remembered[c] /\ sessions'[c] = sessions[c]
      BY <1>2, <1>3, <1>8, <2>2, Zenon
    <3> QED
      BY <1>2, <2>2, <3>1, <3>2, TrackedKept, Zenon
  <2>3. ASSUME fresh', a.code # "NONE"
        PROVE  Tracked(b)'
    <3>1. ~Good(b) /\ ~Good(b)'
      BY <1>4, <1>9, <2>3, Zenon DEF Good
    <3>2. InStep(remembered[b], late[b], returned, sessions[b].id, sessions[b].epoch,
                 sessions[b].known, faults + 1)
      BY <1>2, <2>3, <3>1, Zenon DEF FetchInv, Sessions, Tracked, Agrees
    <3>3. faults + 1 \in Nat /\ faults' + 1 \in Nat /\ faults + 1 <= faults' + 1
      BY <1>3, OneMore, Zenon
    <3>4. InStep(remembered[b], late[b], returned, sessions[b].id, sessions[b].epoch,
                 sessions[b].known, faults' + 1)
      BY <1>5, <3>2, <3>3, InStepMore, Zenon
    <3> QED
      BY <1>2, <1>7, <1>8, <2>3, <3>1, <3>4, Zenon DEF Tracked, Agrees
  <2>4. ASSUME fresh', a.code = "NONE"
        PROVE  Tracked(b)'
    <3> DEFINE known == NextKnown(b)
    <3>1. Good(b)' /\ ~Good(b)
      BY <1>4, <1>9, <2>4, Zenon DEF Good
    <3>2. /\ b \in DOMAIN outstanding /\ outstanding[b] = {p \in fetchable : meta[p] = b}
          /\ req = Request(sessions[b], outstanding[b], positions)
      BY <1>2, <1>4, <2>4, Zenon DEF FetchInv, InFlight, req
    <3>3. Map(positions, Place) /\ outstanding[b] \subseteq DOMAIN positions
      BY <3>2, Zenon DEF FetchInv, FetchTypes, fetchable
    <3>4. /\ req.id = sessions[b].id /\ req.epoch = sessions[b].epoch
          /\ DOMAIN known = outstanding[b] \cup DOMAIN sessions[b].known
          /\ \A p \in outstanding[b] : known[p] = positions[p]
          /\ req.epoch = 0 => Same(known, req.offsets, returned)
          /\ \A off : req.id # 0 /\ Same(sessions[b].known, off, returned)
                       => Same(known, Over(req.offsets, off), returned)
      <4>1. req.id = sessions[b].id /\ req.epoch = sessions[b].epoch
        BY <3>2, Zenon DEF Request
      <4>2. known = Over(Only(positions, outstanding[b]), sessions[b].known)
        BY Zenon DEF NextKnown
      <4> DEFINE r == Request(sessions[b], outstanding[b], positions)
                 k == Over(Only(positions, outstanding[b]), sessions[b].known)
      <4>3. /\ DOMAIN k = outstanding[b] \cup DOMAIN sessions[b].known
            /\ \A p \in outstanding[b] : k[p] = positions[p]
            /\ sessions[b].epoch = 0 => Same(k, r.offsets, returned)
            /\ \A off : sessions[b].id # 0 /\ Same(sessions[b].known, off, returned)
                         => Same(k, Over(r.offsets, off), returned)
        BY <1>6, <3>3, RequestAgrees, Zenon
      <4>4. r = req /\ k = known
        BY <3>2, <4>2, Zenon
      <4> HIDE DEF known, r, k
      <4> QED
        BY <4>1, <4>3, <4>4, Zenon
    <3>5. sessions[b].epoch = 0 => sessions[b].id = 0
      BY <1>6, NoSessionType, Zenon DEF IsSession
    <3>6. sessions[b].id \in {0, a.id}
      BY <1>7, <2>4, <3>4, <3>5, Zenon
    <3>7. Same(known, Offered(b, req), returned)
      <4>1. CASE req.epoch = 0
        BY <3>4, <4>1, Zenon DEF Offered
      <4>2. CASE req.epoch # 0
        <5>1. /\ req.id # 0 /\ req.id = remembered[b].id /\ req.epoch = remembered[b].epoch
          BY <1>7, <2>4, <4>2, Zenon
        <5>2. InStep(remembered[b], late[b], returned, sessions[b].id, sessions[b].epoch,
                     sessions[b].known, faults + 1)
          BY <1>2, <2>4, <3>1, ZenonT(30) DEF FetchInv, Sessions, Tracked, Agrees
        <5>3. sessions[b].epoch \in 1 .. MaxEpoch /\ faults + 1 \in 0 .. MaxFaults + 1
          BY <1>3, <1>6, <3>4, <4>2, Bounds DEF IsSession
        <5>4. Same(sessions[b].known, remembered[b].offsets, returned)
          BY <3>4, <5>1, <5>2, <5>3, InStepAccepted, Zenon
        <5> QED
          BY <3>4, <4>2, <5>1, <5>4, Zenon DEF Offered
      <4> QED
        BY <4>1, <4>2, Zenon
    <3>8. InStep(o.session, late[b], returned, a.id, NextEpoch(sessions[b].epoch), known, faults')
      <4>1. CASE a.id = 0
        BY <4>1, Zenon DEF InStep
      <4>2. CASE a.id # 0
        <5>1. o.session = Renewed(b, a.id, req)
          BY <1>7, <2>4, <4>2, Zenon
        <5>2. /\ o.session.epoch = NextEpoch(sessions[b].epoch)
              /\ o.session.offsets = Offered(b, req)
          BY <3>4, <5>1 DEF Renewed
        <5>3. o.session.epoch \in 1 .. MaxEpoch
          BY <1>6, <5>2, NextEpochType, Zenon DEF IsSession
        <5>4. Cardinality(late[b]) <= faults' /\ faults' \in Nat
          BY <1>3, <1>5, FS_CardinalityType
        <5>5. InStep(o.session, late[b], returned, a.id, o.session.epoch, known, faults')
          <6>1. Same(known, o.session.offsets, returned)
            BY <3>7, <5>2, Zenon
          <6> HIDE DEF known
          <6> QED
            BY <1>5, <5>3, <5>4, <6>1, InStepNow, Zenon
        <5> QED
          BY <5>2, <5>5, Zenon
      <4> QED
        BY <4>1, <4>2, Zenon
    <3>9. ASSUME NEW p \in DOMAIN a.data
          PROVE  /\ p \in fetchable
                 /\ p \in returned \/ (p \in outstanding[b] /\ a.data[p].from = positions[p])
      <4>1. /\ p \in DOMAIN known /\ leader[p] = b
            /\ a.data[p].from = Offered(b, req)[p]
        BY <1>7, <2>4, <3>7, <3>9, Zenon DEF Same
      <4>2. p \in fetchable /\ Led(p, b)
        BY <3>2, <3>4, <4>1, Zenon DEF FetchInv, Leadership, Led
      <4>3. p \in Partition
        BY <4>2, Zenon DEF FetchInv, FetchTypes, Map, fetchable
      <4>4. p \in returned \/ p \in outstanding[b]
        BY <3>2, <4>1, <4>2, <4>3, Zenon DEF FetchInv, Leadership, Led
      <4>5. p \in outstanding[b] \ returned => a.data[p].from = positions[p]
        BY <3>4, <3>7, <4>1, Zenon DEF Same
      <4> QED
        BY <4>2, <4>4, <4>5, Zenon
    <3>10. known' = known
      BY <1>2, Zenon DEF NextKnown
    <3> QED
      BY <1>2, <1>8, <1>9, <3>1, <3>6, <3>8, <3>9, <3>10, Zenon DEF Tracked, TrueAnswer, Agrees
  <2> QED
    BY <2>1, <2>2, <2>3, <2>4, Zenon DEF Sessions
<1>14. NoGap'
  BY <1>2, Zenon DEF FetchInv, NoGap
<1> QED
  BY <1>10, <1>11, <1>12, <1>13, <1>14, Zenon DEF FetchInv


-----------------------------------------------------------------------------
(* The steps of the brokers, the connections and the producers. *)

(* A late request is executed: it opens a session the client does not      *)
(* have, or puts the broker's ahead of the client's.                       *)
LEMMA ExecuteLateStep ==
  ASSUME FetchInv, NEW b \in Broker, ExecuteLate(b)
  PROVE  FetchInv'
<1>1. PICK req \in late[b] :
        /\ late' = [late EXCEPT ![b] = @ \ {req}]
        /\ \E o \in Outcomes(b, req, FALSE) : remembered' = [remembered EXCEPT ![b] = o.session]
  BY Zenon DEF ExecuteLate
<1>2. PICK o \in Outcomes(b, req, FALSE) : remembered' = [remembered EXCEPT ![b] = o.session]
  BY <1>1, Zenon
<1>3. /\ leader' = leader /\ former' = former /\ returned' = returned /\ len' = len
      /\ wire' = wire /\ meta' = meta /\ positions' = positions /\ sessions' = sessions
      /\ outstanding' = outstanding /\ fresh' = fresh /\ paused' = paused
      /\ prefetch' = prefetch /\ pc' = pc /\ handed' = handed /\ seen' = seen /\ start' = start
      /\ faults' = faults /\ fetchable' = fetchable
  BY Zenon DEF ExecuteLate, leadership, fetchVars, history, fetchable
<1>4. faults \in 0 .. MaxFaults /\ faults \in Nat
  BY Bounds DEF FetchInv, FetchTypes
<1>5. /\ NewId(b) \in 1 .. MaxFaults + 3 /\ NewId(b) # sessions[b].id
      /\ wire[b].is = "answered" => NewId(b) # wire[b].answer.id
      /\ IsFiniteSet(late[b]) /\ Cardinality(late[b]) <= faults
  BY <1>4, NewIdNew, Zenon DEF FetchInv, Sessions
<1>6. IsRemembered(remembered[b]) /\ IsSession(sessions[b]) /\ IsRequest(req)
  BY Zenon DEF FetchInv, FetchTypes
<1>7. /\ IsRemembered(o.session)
      /\ DOMAIN o.session.offsets \subseteq DOMAIN req.offsets \cup DOMAIN remembered[b].offsets
      /\ \/ o.session = remembered[b]
         \/ o.session.id = NewId(b)
         \/ /\ req.id # 0 /\ req.id = remembered[b].id /\ req.epoch = remembered[b].epoch
            /\ o.session.id = req.id /\ o.session.epoch = NextEpoch(remembered[b].epoch)
  <2>1. NewId(b) \in Nat \ {0}
    BY <1>5, Bounds
  <2> DEFINE full == FALSE
  <2>0. full \in BOOLEAN /\ o \in Outcomes(b, req, full)
    BY Zenon
  <2> HIDE DEF full
  <2>2. /\ IsRemembered(o.session)
        /\ DOMAIN o.session.offsets \subseteq DOMAIN req.offsets \cup DOMAIN remembered[b].offsets
        /\ \/ o.session = remembered[b]
           \/ o.session = Renewed(b, NewId(b), req)
           \/ /\ req.id # 0 /\ req.id = remembered[b].id /\ req.epoch = remembered[b].epoch
              /\ o.session = Renewed(b, req.id, req)
    <3> DEFINE a == o.answer
    <3>1. /\ IsAnswer(a) /\ IsRemembered(o.session)
          /\ DOMAIN o.session.offsets \subseteq DOMAIN req.offsets \cup DOMAIN remembered[b].offsets
          /\ \/ a.code # "NONE" /\ o.session = remembered[b]
             \/ /\ a.code = "NONE"
                /\ \A p \in DOMAIN a.data : /\ p \in DOMAIN Offered(b, req) /\ leader[p] = b
                                            /\ a.data[p].from = Offered(b, req)[p]
                /\ \/ req.epoch = 0 /\ a.id = 0 /\ o.session = remembered[b]
                   \/ req.epoch = 0 /\ a.id = NewId(b) /\ o.session = Renewed(b, a.id, req)
                   \/ /\ req.epoch # 0 /\ req.id # 0
                      /\ req.id = remembered[b].id /\ req.epoch = remembered[b].epoch
                      /\ a.id = req.id /\ o.session = Renewed(b, a.id, req)
      BY <1>6, <2>0, <2>1, OutcomesFacts
    <3> HIDE DEF a
    <3> QED
      BY <3>1, Zenon
  <2> QED
    BY <2>2 DEF Renewed
<1>8. /\ late' = [c \in Broker |-> late'[c]] /\ remembered' = [c \in Broker |-> remembered'[c]]
      /\ late'[b] = late[b] \ {req} /\ remembered'[b] = o.session
      /\ \A c \in Broker \ {b} : late'[c] = late[c] /\ remembered'[c] = remembered[c]
  BY <1>1, <1>2, Zenon DEF FetchInv, FetchTypes
<1>9. \A c \in Broker : late'[c] \subseteq late[c]
  BY <1>8, Zenon
<1>10. FetchTypes'
  <2>1. \A c \in Broker : IsRemembered(remembered'[c])
    BY <1>7, <1>8, Zenon DEF FetchInv, FetchTypes
  <2>2. \A c \in Broker : /\ IsSession(sessions[c]) /\ IsWire(wire[c])
                          /\ \A r \in late'[c] : IsRequest(r)
    BY <1>9, Zenon DEF FetchInv, FetchTypes
  <2> QED
    BY <1>3, <1>8, <2>1, <2>2, Zenon DEF FetchInv, FetchTypes
<1>11. InFlight'
  BY <1>3, Zenon DEF FetchInv, InFlight
<1>12. Leadership'
  <2>1. \A p \in DOMAIN o.session.offsets : Led(p, b)
    BY <1>1, <1>7, Zenon DEF FetchInv, Leadership
  <2>2. \A c \in Broker : \A r \in late'[c] : \A p \in DOMAIN r.offsets : Led(p, c)
    BY <1>9, Zenon DEF FetchInv, Leadership
  <2> QED
    BY <1>3, <1>8, <2>1, <2>2, SMTT(20) DEF FetchInv, Leadership, Led
<1>13. Sessions'
  <2>1. \A c \in Broker : IsFiniteSet(late'[c]) /\ Cardinality(late'[c]) <= faults'
    <3> TAKE c \in Broker
    <3>1. IsFiniteSet(late[c]) /\ Cardinality(late[c]) <= faults
      BY Zenon DEF FetchInv, Sessions
    <3>2. IsFiniteSet(late'[c]) /\ Cardinality(late'[c]) <= Cardinality(late[c])
      BY <1>9, <3>1, FS_Subset, Zenon
    <3>3. Cardinality(late'[c]) \in Nat /\ Cardinality(late[c]) \in Nat
      BY <3>1, <3>2, FS_CardinalityType, Zenon
    <3> QED
      BY <1>3, <1>4, <3>1, <3>2, <3>3, SMTT(20)
  <2>2. ASSUME fresh', NEW c \in Broker,
               \/ remembered'[c] = remembered[c]
               \/ /\ remembered'[c].id # sessions[c].id
                  /\ wire[c].is = "answered" => remembered'[c].id # wire[c].answer.id
        PROVE  Tracked(c)'
    <3>1. Tracked(c) /\ IsFiniteSet(late[c]) /\ late'[c] \subseteq late[c]
      BY <1>3, <1>9, <2>2, Zenon DEF FetchInv, Sessions
    <3>2. faults <= faults
      BY <1>4
    <3>3. /\ returned \subseteq returned'
          /\ faults' \in Nat /\ faults <= faults'
          /\ wire'[c] = wire[c] /\ sessions'[c] = sessions[c]
      BY <1>3, <1>4, <3>2, Zenon
    <3> QED
      BY <1>3, <1>4, <2>2, <3>1, <3>3, TrackedKept, Zenon
  <2>3. ASSUME fresh', req.id = remembered[b].id, o.session.id = req.id,
               o.session.epoch = NextEpoch(remembered[b].epoch)
        PROVE  Tracked(b)'
    <3>1. ASSUME NEW id, NEW e \in 1 .. MaxEpoch, NEW known, NEW n \in 0 .. MaxFaults + 1,
                 InStep(remembered[b], late[b], returned, id, e, known, n)
          PROVE  InStep(remembered'[b], late'[b], returned', id, e, known, n)
      <4>1. InStep(o.session, late[b] \ {req}, returned, id, e, known, n)
        BY <1>5, <2>3, <3>1, InStepLate, Zenon
      <4> QED
        BY <1>3, <1>8, <4>1, Zenon
    <3>2. CASE Good(b)
      <4> DEFINE a == wire[b].answer
      <4>1. /\ sessions[b].id \in {0, a.id}
            /\ InStep(remembered[b], late[b], returned, a.id, NextEpoch(sessions[b].epoch), NextKnown(b), faults)
            /\ \A p \in DOMAIN a.data :
                 /\ p \in fetchable
                 /\ p \in returned \/ (p \in outstanding[b] /\ a.data[p].from = positions[p])
        BY <1>3, <2>3, <3>2, Zenon DEF FetchInv, Sessions, Tracked, TrueAnswer, Agrees
      <4>2. NextEpoch(sessions[b].epoch) \in 1 .. MaxEpoch /\ faults \in 0 .. MaxFaults + 1
        <5>1. sessions[b].epoch \in 0 .. MaxEpoch
          BY <1>6, Zenon DEF IsSession
        <5>2. NextEpoch(sessions[b].epoch) \in 1 .. MaxEpoch
          BY <5>1, NextEpochType, Zenon
        <5> QED
          BY <1>4, <5>2, Bounds
      <4>3. InStep(remembered'[b], late'[b], returned', a.id, NextEpoch(sessions[b].epoch), NextKnown(b), faults)
        BY <3>1, <4>1, <4>2, Zenon
      <4>4. NextKnown(b)' = NextKnown(b) /\ Good(b)' /\ wire'[b].answer = a
        BY <1>3, <3>2, Zenon DEF NextKnown, Good
      <4> QED
        BY <1>3, <4>1, <4>3, <4>4, Zenon DEF Tracked, TrueAnswer, Agrees
    <3>3. CASE ~Good(b)
      <4>1. InStep(remembered[b], late[b], returned, sessions[b].id, sessions[b].epoch,
                   sessions[b].known, faults + 1)
        BY <1>3, <2>3, <3>3, Zenon DEF FetchInv, Sessions, Tracked, Agrees
      <4>2. faults + 1 \in 0 .. MaxFaults + 1
        BY <1>4, Bounds
      <4>3. InStep(remembered'[b], late'[b], returned', sessions[b].id, sessions[b].epoch,
                   sessions[b].known, faults + 1)
        <5>1. CASE sessions[b].epoch = 0
          <6>1. sessions[b].id = 0
            BY <1>6, <5>1, NoSessionType, Zenon DEF IsSession
          <6> QED
            BY <6>1, Zenon DEF InStep
        <5>2. CASE sessions[b].epoch # 0
          <6>1. sessions[b].epoch \in 1 .. MaxEpoch
            BY <1>6, <5>2, Bounds DEF IsSession
          <6> QED
            BY <3>1, <4>1, <4>2, <6>1, Zenon
        <5> QED
          BY <5>1, <5>2, Zenon
      <4>4. ~Good(b)'
        BY <1>3, <3>3, Zenon DEF Good
      <4> QED
        BY <1>3, <4>3, <4>4, Zenon DEF Tracked, Agrees
    <3> QED
      BY <3>2, <3>3, Zenon
  <2>4. ASSUME fresh', NEW c \in Broker
        PROVE  Tracked(c)'
    <3>1. CASE c # b
      BY <1>8, <2>2, <2>4, <3>1, Zenon
    <3>2. CASE c = b /\ (o.session = remembered[b] \/ o.session.id = NewId(b))
      BY <1>5, <1>8, <2>2, <2>4, <3>2, Zenon
    <3>3. CASE /\ c = b /\ req.id = remembered[b].id
               /\ o.session.id = req.id /\ o.session.epoch = NextEpoch(remembered[b].epoch)
      BY <2>3, <2>4, <3>3, Zenon
    <3> QED
      BY <1>7, <3>1, <3>2, <3>3, Zenon
  <2> QED
    BY <2>1, <2>4, ZenonT(30) DEF Sessions
<1>14. NoGap'
  BY <1>3, Zenon DEF FetchInv, NoGap
<1> QED
  BY <1>10, <1>11, <1>12, <1>13, <1>14, Zenon DEF FetchInv

(* A connection breaks: if the request was not executed it is late, and if *)
(* it was the client stays an epoch behind.                                *)
LEMMA LoseStep ==
  ASSUME FetchInv, NEW b \in Broker, Lose(b)
  PROVE  FetchInv'
<1>1. /\ leader' = leader /\ former' = former /\ returned' = returned /\ len' = len
      /\ remembered' = remembered /\ meta' = meta /\ positions' = positions
      /\ sessions' = sessions
      /\ outstanding' = outstanding /\ fresh' = fresh /\ paused' = paused
      /\ prefetch' = prefetch /\ pc' = pc /\ handed' = handed /\ seen' = seen /\ start' = start
      /\ fetchable' = fetchable
  BY Zenon DEF Lose, brokerVars, leadership, fetchVars, history, fetchable
<1>2. /\ faults \in 0 .. MaxFaults /\ faults' = faults + 1 /\ faults' \in 0 .. MaxFaults
      /\ faults \in Nat /\ faults + 1 \in Nat /\ faults < MaxFaults
  BY Bounds DEF Lose, Fault, FetchInv, FetchTypes
<1>3. /\ wire' = [c \in Broker |-> wire'[c]] /\ wire'[b] = Broken
      /\ \A c \in Broker \ {b} : wire'[c] = wire[c]
      /\ wire'[b].is = "broken"
  BY Zenon DEF Lose, FetchInv, FetchTypes, Broken
<1>4. /\ late' = [c \in Broker |-> late'[c]]
      /\ \A c \in Broker \ {b} : late'[c] = late[c]
      /\ late'[b] = IF wire[b].is = "sent" THEN late[b] \cup {wire[b].req} ELSE late[b]
  BY Zenon DEF Lose, FetchInv, FetchTypes
<1>5. /\ wire[b].is \in {"sent", "answered"}
      /\ wire[b].is = "sent" => IsRequest(wire[b].req)
  BY Zenon DEF Lose, FetchInv, FetchTypes, IsWire
<1>6. IsSession(sessions[b]) /\ IsFiniteSet(late[b]) /\ Cardinality(late[b]) <= faults
  BY Zenon DEF FetchInv, FetchTypes, Sessions
<1>7. FetchTypes'
  <2>1. \A c \in Broker : IsWire(wire'[c])
    BY <1>3, Zenon DEF FetchInv, FetchTypes, IsWire
  <2>2. \A c \in Broker : \A r \in late'[c] : IsRequest(r)
    BY <1>4, <1>5, Zenon DEF FetchInv, FetchTypes
  <2>3. \A c \in Broker : IsSession(sessions[c]) /\ IsRemembered(remembered[c])
    BY Zenon DEF FetchInv, FetchTypes
  <2> QED
    BY <1>1, <1>2, <1>3, <1>4, <2>1, <2>2, <2>3, Zenon DEF FetchInv, FetchTypes
<1>8. InFlight'
  <2>1. \A c \in Broker : wire'[c].is # "idle" <=> c \in DOMAIN outstanding
    BY <1>3, <1>5, Zenon DEF FetchInv, InFlight
  <2>2. \A c \in DOMAIN outstanding : wire'[c].is = "sent" => c # b /\ wire'[c] = wire[c]
    BY <1>3, Zenon DEF FetchInv, FetchTypes
  <2> QED
    BY <1>1, <2>1, <2>2, Zenon DEF FetchInv, InFlight
<1>9. Leadership'
  <2>1. \A c \in Broker : \A r \in late'[c] : \A p \in DOMAIN r.offsets : Led(p, c)
    BY <1>4, <1>5 DEF FetchInv, Leadership
  <2>2. \A c \in Broker : wire'[c].is = "sent" => \A p \in DOMAIN wire'[c].req.offsets : Led(p, c)
    BY <1>3, Zenon DEF FetchInv, Leadership
  <2> QED
    BY <1>1, <2>1, <2>2, Zenon DEF FetchInv, Leadership, Led
<1>10. Sessions'
  <2>1. \A c \in Broker : IsFiniteSet(late'[c]) /\ Cardinality(late'[c]) <= faults'
    <3> TAKE c \in Broker
    <3>1. IsFiniteSet(late[c]) /\ Cardinality(late[c]) <= faults /\ Cardinality(late[c]) \in Nat
      BY FS_CardinalityType, Zenon DEF FetchInv, Sessions
    <3>2. CASE late'[c] = late[c]
      BY <1>2, <3>1, <3>2, SMTT(20)
    <3>3. CASE late'[c] = late[c] \cup {wire[b].req}
      <4>1. IsFiniteSet({wire[b].req}) /\ Cardinality({wire[b].req}) = 1
        BY FS_Singleton, Zenon
      <4>2. /\ IsFiniteSet(late'[c]) /\ Cardinality(late'[c]) <= Cardinality(late[c]) + 1
            /\ Cardinality(late'[c]) \in Nat
        BY <3>1, <3>3, <4>1, UnionBound
      <4> QED
        BY <1>2, <3>1, <4>2
    <3> QED
      BY <1>4, <3>2, <3>3, Zenon
  <2>2. ASSUME fresh', NEW c \in Broker \ {b}
        PROVE  Tracked(c)'
    <3>1. Tracked(c) /\ IsFiniteSet(late[c])
      BY <1>1, <2>2, Zenon DEF FetchInv, Sessions
    <3>2. /\ returned \subseteq returned' /\ late'[c] \subseteq late[c]
          /\ faults' \in Nat /\ faults <= faults'
          /\ wire'[c] = wire[c] /\ remembered'[c] = remembered[c] /\ sessions'[c] = sessions[c]
      BY <1>1, <1>2, <1>3, <1>4, <2>2
    <3> QED
      BY <1>1, <1>2, <2>2, <3>1, <3>2, TrackedKept, Zenon
  <2>3. ASSUME fresh'
        PROVE  Tracked(b)'
    <3> DEFINE s == sessions[b]
    <3>1. InStep(remembered[b], late'[b], returned, s.id, s.epoch, s.known, (faults + 1) + 1)
      <4>1. CASE ~Good(b)
        <5>1. InStep(remembered[b], late[b], returned, s.id, s.epoch, s.known, faults + 1)
          BY <1>1, <2>3, <4>1, Zenon DEF FetchInv, Sessions, Tracked, Agrees
        <5>2. CASE late'[b] = late[b]
          <6>1. (faults + 1) + 1 \in Nat /\ faults + 1 <= (faults + 1) + 1
            BY <1>2
          <6> QED
            BY <1>2, <1>6, <5>1, <5>2, <6>1, InStepMore, Zenon
        <5>3. CASE late'[b] = late[b] \cup {wire[b].req}
          <6>1. InStep(remembered[b], late[b] \cup {wire[b].req}, returned, s.id, s.epoch,
                       s.known, (faults + 1) + 1)
            BY <1>2, <1>6, <5>1, InStepLost, Zenon
          <6> QED
            BY <5>3, <6>1, Zenon
        <5> QED
          BY <1>4, <5>2, <5>3, Zenon
      <4>2. CASE Good(b)
        <5>1. /\ s.id \in {0, wire[b].answer.id}
              /\ InStep(remembered[b], late[b], returned, wire[b].answer.id,
                        NextEpoch(s.epoch), NextKnown(b), faults)
          BY <1>1, <2>3, <4>2, Zenon DEF FetchInv, Sessions, Tracked, TrueAnswer, Agrees
        <5>2. late'[b] = late[b]
          BY <1>4, <4>2, Zenon DEF Good
        <5>3. CASE s.id = 0
          BY <5>3, Zenon DEF InStep
        <5>4. CASE s.id # 0
          <6>1. s.epoch \in 1 .. MaxEpoch
            BY <1>6, <5>4, NoSessionType, Bounds DEF IsSession
          <6>2. InStep(remembered[b], late[b], returned, s.id, NextEpoch(s.epoch), NextKnown(b), faults)
            BY <5>1, <5>4, Zenon
          <6>3. InStep(remembered[b], late[b], returned, s.id, s.epoch, s.known, faults + 1)
            BY <1>2, <1>6, <6>1, <6>2, InStepDropped, Zenon
          <6>4. (faults + 1) + 1 \in Nat /\ faults + 1 <= (faults + 1) + 1
            BY <1>2
          <6> QED
            BY <1>2, <1>6, <5>2, <6>3, <6>4, InStepMore, Zenon
        <5> QED
          BY <5>3, <5>4, Zenon
      <4> QED
        BY <4>1, <4>2, Zenon
    <3>2. ~Good(b)'
      BY <1>3, Zenon DEF Good
    <3> QED
      BY <1>1, <1>2, <3>1, <3>2, Zenon DEF Tracked, Agrees
  <2> QED
    BY <2>1, <2>2, <2>3, Zenon DEF Sessions
<1>11. NoGap'
  BY <1>1, Zenon DEF FetchInv, NoGap
<1> QED
  BY <1>7, <1>8, <1>9, <1>10, <1>11, Zenon DEF FetchInv

(* The broker drops its session. *)
LEMMA EvictStep ==
  ASSUME FetchInv, NEW b \in Broker, Evict(b)
  PROVE  FetchInv'
<1> DEFINE none == [id |-> 0, epoch |-> 0, offsets |-> Empty]
<1>1. /\ leader' = leader /\ former' = former /\ returned' = returned /\ len' = len
      /\ wire' = wire /\ late' = late /\ meta' = meta /\ positions' = positions
      /\ sessions' = sessions
      /\ outstanding' = outstanding /\ fresh' = fresh /\ paused' = paused
      /\ prefetch' = prefetch /\ pc' = pc /\ handed' = handed /\ seen' = seen /\ start' = start
      /\ fetchable' = fetchable
  BY Zenon DEF Evict, leadership, fetchVars, history, fetchable
<1>2. /\ faults' \in 0 .. MaxFaults /\ faults <= faults' /\ faults \in Nat /\ faults' \in Nat
  BY Bounds DEF Evict, Fault, FetchInv, FetchTypes
<1>3. /\ remembered' = [c \in Broker |-> remembered'[c]] /\ remembered'[b] = none
      /\ \A c \in Broker \ {b} : remembered'[c] = remembered[c]
  BY Zenon DEF Evict, FetchInv, FetchTypes
<1>4. IsRemembered(none) /\ none.id = 0 /\ DOMAIN none.offsets = {}
  BY EmptyMap, Bounds DEF IsRemembered
<1> HIDE DEF none
<1>5. FetchTypes'
  <2>1. \A c \in Broker : IsRemembered(remembered'[c])
    BY <1>3, <1>4, Zenon DEF FetchInv, FetchTypes
  <2>2. \A c \in Broker : /\ IsSession(sessions[c]) /\ IsWire(wire[c])
                          /\ \A r \in late[c] : IsRequest(r)
    BY Zenon DEF FetchInv, FetchTypes
  <2> QED
    BY <1>1, <1>2, <1>3, <2>1, <2>2, Zenon DEF FetchInv, FetchTypes
<1>6. InFlight'
  BY <1>1, Zenon DEF FetchInv, InFlight
<1>7. Leadership'
  BY <1>1, <1>3, <1>4, Zenon DEF FetchInv, Leadership, Led
<1>8. Sessions'
  <2>1. \A c \in Broker : IsFiniteSet(late'[c]) /\ Cardinality(late'[c]) <= faults'
    <3>1. \A c \in Broker : /\ IsFiniteSet(late[c]) /\ Cardinality(late[c]) <= faults
                            /\ Cardinality(late[c]) \in Nat
      BY FS_CardinalityType, Zenon DEF FetchInv, Sessions
    <3> QED
      BY <1>1, <1>2, <3>1, AtMost, Zenon
  <2>2. ASSUME fresh', NEW c \in Broker
        PROVE  Tracked(c)'
    <3>1. Tracked(c) /\ IsFiniteSet(late[c])
      BY <1>1, <2>2, Zenon DEF FetchInv, Sessions
    <3>2. /\ returned \subseteq returned' /\ late'[c] \subseteq late[c]
          /\ wire'[c] = wire[c] /\ sessions'[c] = sessions[c]
          /\ remembered'[c] = remembered[c] \/ remembered'[c].id = 0
      BY <1>1, <1>3, <1>4, <2>2, Zenon
    <3> QED
      BY <1>1, <1>2, <3>1, <3>2, TrackedKept, Zenon
  <2> QED
    BY <2>1, <2>2, Zenon DEF Sessions
<1>9. NoGap'
  BY <1>1, Zenon DEF FetchInv, NoGap
<1> QED
  BY <1>5, <1>6, <1>7, <1>8, <1>9, Zenon DEF FetchInv

(* Another broker leads the partition; it may have before. *)
LEMMA MoveStep ==
  ASSUME FetchInv, NEW p \in Partition, Move(p)
  PROVE  FetchInv'
<1>1. PICK b \in Broker \ {leader[p]} :
       /\ leader' = [leader EXCEPT ![p] = b]
       /\ former' = [former EXCEPT ![p] = @ \cup {leader[p]}]
       /\ returned' = IF b \in former[p] THEN returned \cup {p} ELSE returned
  BY Zenon DEF Move
<1>2. /\ remembered' = remembered /\ len' = len
      /\ wire' = wire /\ late' = late /\ meta' = meta /\ positions' = positions
      /\ sessions' = sessions
      /\ outstanding' = outstanding /\ fresh' = fresh /\ paused' = paused
      /\ prefetch' = prefetch /\ pc' = pc /\ handed' = handed /\ seen' = seen /\ start' = start
      /\ fetchable' = fetchable
  BY Zenon DEF Move, fetchVars, history, fetchable
<1>3. /\ faults' \in 0 .. MaxFaults /\ faults <= faults' /\ faults \in Nat /\ faults' \in Nat
  BY Bounds DEF Move, Fault, FetchInv, FetchTypes
<1>4. /\ leader' \in [Partition -> Broker] /\ former' \in [Partition -> SUBSET Broker]
      /\ returned' \subseteq Partition /\ returned \subseteq returned'
      /\ \A q \in Partition : former[q] \subseteq former'[q]
  BY <1>1, Zenon DEF FetchInv, FetchTypes
<1>5. FetchTypes'
  <2>1. \A c \in Broker : /\ IsSession(sessions[c]) /\ IsWire(wire[c])
                          /\ IsRemembered(remembered[c])
                          /\ \A r \in late[c] : IsRequest(r)
    BY Zenon DEF FetchInv, FetchTypes
  <2> QED
    BY <1>2, <1>3, <1>4, <2>1, Zenon DEF FetchInv, FetchTypes
<1>6. InFlight'
  BY <1>2, Zenon DEF FetchInv, InFlight
<1>7. Leadership'
  <2>1. \A q \in Partition : /\ meta'[q] = leader'[q] \/ meta'[q] \in former'[q]
                             /\ leader'[q] \in former'[q] => q \in returned'
    BY <1>1, <1>2, Zenon DEF FetchInv, FetchTypes, Leadership
  <2> DEFINE Leads(q, c) == meta'[q] = c \/ c \in former'[q]
  <2>2. \A q \in Partition, c \in Broker : Led(q, c) => Leads(q, c)
    BY <1>2, <1>4, Zenon DEF Led
  <2>3. \A c \in Broker : /\ DOMAIN sessions[c].known \subseteq Partition
                          /\ DOMAIN remembered[c].offsets \subseteq Partition
                          /\ wire[c].is = "sent" => DOMAIN wire[c].req.offsets \subseteq Partition
                          /\ \A r \in late[c] : DOMAIN r.offsets \subseteq Partition
    BY Zenon DEF FetchInv, FetchTypes, IsSession, IsRemembered, IsWire, IsRequest, Map
  <2> HIDE DEF Leads
  <2>4. ASSUME NEW c \in Broker
        PROVE  /\ \A q \in DOMAIN sessions[c].known : Leads(q, c) /\ q \in fetchable
               /\ \A q \in DOMAIN remembered[c].offsets : Leads(q, c)
               /\ wire[c].is = "sent" => \A q \in DOMAIN wire[c].req.offsets : Leads(q, c)
               /\ \A r \in late[c] : \A q \in DOMAIN r.offsets : Leads(q, c)
    <3>1. /\ \A q \in DOMAIN sessions[c].known : Led(q, c) /\ q \in fetchable
          /\ \A q \in DOMAIN remembered[c].offsets : Led(q, c)
          /\ wire[c].is = "sent" => \A q \in DOMAIN wire[c].req.offsets : Led(q, c)
          /\ \A r \in late[c] : \A q \in DOMAIN r.offsets : Led(q, c)
      BY Zenon DEF FetchInv, Leadership
    <3>2. \A q \in DOMAIN sessions[c].known : Leads(q, c) /\ q \in fetchable
      BY <2>2, <2>3, <3>1, Zenon
    <3>3. \A q \in DOMAIN remembered[c].offsets : Leads(q, c)
      BY <2>2, <2>3, <3>1, Zenon
    <3>4. wire[c].is = "sent" => \A q \in DOMAIN wire[c].req.offsets : Leads(q, c)
      BY <2>2, <2>3, <3>1, Zenon
    <3>5. \A r \in late[c] : \A q \in DOMAIN r.offsets : Leads(q, c)
      BY <2>2, <2>3, <3>1, Zenon
    <3> QED
      BY <3>2, <3>3, <3>4, <3>5, Zenon
  <2>5. ASSUME NEW c \in Broker
        PROVE  /\ \A q \in DOMAIN sessions'[c].known : Led(q, c)' /\ q \in fetchable'
               /\ \A q \in DOMAIN remembered'[c].offsets : Led(q, c)'
               /\ wire'[c].is = "sent" => \A q \in DOMAIN wire'[c].req.offsets : Led(q, c)'
               /\ \A r \in late'[c] : \A q \in DOMAIN r.offsets : Led(q, c)'
    BY <1>2, <2>4, Zenon DEF Led, Leads
  <2> QED
    BY <2>1, <2>5, Zenon DEF Leadership
<1>8. Sessions'
  <2>1. \A c \in Broker : IsFiniteSet(late'[c]) /\ Cardinality(late'[c]) <= faults'
    <3>1. \A c \in Broker : /\ IsFiniteSet(late[c]) /\ Cardinality(late[c]) <= faults
                            /\ Cardinality(late[c]) \in Nat
      BY FS_CardinalityType, Zenon DEF FetchInv, Sessions
    <3> QED
      BY <1>2, <1>3, <3>1, AtMost, Zenon
  <2>2. ASSUME fresh', NEW c \in Broker
        PROVE  Tracked(c)'
    <3>1. Tracked(c) /\ IsFiniteSet(late[c])
      BY <1>2, <2>2, Zenon DEF FetchInv, Sessions
    <3>2. /\ late'[c] \subseteq late[c]
          /\ wire'[c] = wire[c] /\ sessions'[c] = sessions[c] /\ remembered'[c] = remembered[c]
      BY <1>2, Zenon
    <3> QED
      BY <1>2, <1>3, <1>4, <3>1, <3>2, TrackedKept, Zenon
  <2> QED
    BY <2>1, <2>2, Zenon DEF Sessions
<1>9. NoGap'
  BY <1>2, <1>4, Zenon DEF FetchInv, NoGap
<1> QED
  BY <1>5, <1>6, <1>7, <1>8, <1>9, Zenon DEF FetchInv

(* A record is produced. *)
LEMMA ProduceStep ==
  ASSUME FetchInv, NEW p \in Partition, Produce(p)
  PROVE  FetchInv'
<1>1. /\ leader' = leader /\ former' = former /\ returned' = returned /\ remembered' = remembered
      /\ wire' = wire /\ late' = late /\ meta' = meta /\ positions' = positions
      /\ sessions' = sessions
      /\ outstanding' = outstanding /\ fresh' = fresh /\ paused' = paused
      /\ prefetch' = prefetch /\ pc' = pc /\ handed' = handed /\ seen' = seen /\ start' = start
      /\ faults' = faults
  BY Zenon DEF Produce, leadership, fetchVars, history
<1>2. len' \in [Partition -> Nat]
  BY DEF Produce, FetchInv, FetchTypes
<1>3. FetchTypes'
  BY <1>1, <1>2, Zenon DEF FetchInv, FetchTypes
<1>4. InFlight' /\ Leadership' /\ NoGap'
  BY <1>1, Zenon DEF FetchInv, InFlight, Leadership, NoGap, Led, fetchable
<1>5. Sessions'
  BY <1>1, Zenon DEF FetchInv, Sessions, Tracked, TrueAnswer, Good, Agrees, NextKnown, fetchable
<1> QED
  BY <1>3, <1>4, <1>5, Zenon DEF FetchInv


-----------------------------------------------------------------------------
(* Consumer::poll, the second half. *)

(* A session that the client thinks of alike is tracked alike. *)
LEMMA InStepAlike ==
  ASSUME NEW s, NEW L, NEW X, NEW id, NEW e, NEW known, NEW other, NEW n,
         InStep(s, L, X, id, e, known, n),
         DOMAIN other = DOMAIN known, \A p \in DOMAIN known \ X : other[p] = known[p]
  PROVE  InStep(s, L, X, id, e, other, n)
<1>1. Same(known, s.offsets, X) => Same(other, s.offsets, X)
  BY Zenon DEF Same
<1> QED
  BY <1>1, Zenon DEF InStep

(* Induction over the natural numbers. *)
LEMMA Induction ==
  ASSUME NEW S, 0 \in S, \A n \in Nat : n \in S => n + 1 \in S
  PROVE  Nat \subseteq S
<1> SUFFICES ASSUME Nat \ S # {} PROVE FALSE
  BY Zenon
<1> DEFINE T == Nat \ S   R == OpToRel(<, Nat)
<1>1. IsWellFoundedOn(R, Nat)
  BY NatLessThanWellFounded, Zenon
<1>2. T \subseteq Nat /\ T # {}
  BY Zenon
<1> HIDE DEF T, R
<1>3. PICK x \in T : \A y \in T : ~(<< y, x >> \in R)
  BY <1>1, <1>2, WFMin, Zenon
<1>4. \A y \in T : ~(y < x)
  BY <1>2, <1>3, Zenon DEF R, OpToRel
<1>5. x # 0
  BY Zenon DEF T
<1>6. x - 1 \in Nat /\ x - 1 \notin T
  BY <1>2, <1>4, <1>5
<1> QED
  BY <1>2, <1>6 DEF T

(* How far a poll has got when the answers of brokers 1 .. n have been     *)
(* handled: positions moved only over records it has, sessions are kept    *)
(* track of, and brokers to come have not been touched.                    *)
Polled(n, at) ==
  /\ at = [positions |-> at.positions, sessions |-> at.sessions, out |-> at.out,
           failed |-> at.failed]
  /\ Map(at.positions, Place) /\ DOMAIN at.positions = DOMAIN positions
  /\ at.sessions = [b \in Broker |-> at.sessions[b]]
  /\ at.out \in [Partition -> SUBSET Nat]
  /\ \A p \in Partition : at.out[p] # {} => p \in fetchable
  /\ \A p \in DOMAIN positions \ returned :
       /\ positions[p] .. at.positions[p] - 1 \subseteq at.out[p]
       /\ meta[p] > n => at.positions[p] = positions[p]
  /\ \A b \in Broker :
       /\ IsSession(at.sessions[b])
       /\ b > n => at.sessions[b] = sessions[b]
       /\ \A p \in DOMAIN at.sessions[b].known : Led(p, b) /\ p \in fetchable
       /\ InStep(remembered[b], late[b], returned, at.sessions[b].id, at.sessions[b].epoch,
                 at.sessions[b].known, faults + 1)

(* Before the first answer is handled. *)
Start == [positions |-> positions, sessions |-> sessions, out |-> [p \in Partition |-> {}],
          failed |-> FALSE]

(* A session whose answer is not read is tracked all the same. *)
LEMMA UnreadTracked ==
  ASSUME FetchInv, fresh, NEW b \in Broker
  PROVE  InStep(remembered[b], late[b], returned, sessions[b].id, sessions[b].epoch,
                sessions[b].known, faults + 1)
<1> DEFINE s == sessions[b]
<1>1. Tracked(b) /\ IsFiniteSet(late[b]) /\ IsSession(s) /\ faults \in 0 .. MaxFaults
  BY Zenon DEF FetchInv, FetchTypes, Sessions
<1>2. CASE ~Good(b)
  BY <1>1, <1>2, Zenon DEF Tracked, Agrees
<1>3. CASE s.id = 0
  BY <1>3, Zenon DEF InStep
<1>4. CASE Good(b) /\ s.id # 0
  <2>1. InStep(remembered[b], late[b], returned, s.id, NextEpoch(s.epoch), NextKnown(b), faults)
    BY <1>1, <1>4, Zenon DEF Tracked, TrueAnswer, Agrees
  <2>2. s.epoch \in 1 .. MaxEpoch
    BY <1>1, <1>4, NoSessionType, Bounds DEF IsSession
  <2> QED
    BY <1>1, <2>1, <2>2, InStepDropped, Zenon
<1> QED
  BY <1>2, <1>3, <1>4, Zenon

(* So much holds before the first. *)
LEMMA PolledStart ==
  ASSUME FetchInv, fresh
  PROVE  Polled(0, Start)
<1>1. /\ Start.positions = positions /\ Start.sessions = sessions
      /\ Start.out = [p \in Partition |-> {}]
      /\ Start = [positions |-> Start.positions, sessions |-> Start.sessions, out |-> Start.out,
                  failed |-> Start.failed]
  BY Zenon DEF Start
<1>2. Map(positions, Place) /\ sessions = [b \in Broker |-> sessions[b]]
  BY Zenon DEF FetchInv, FetchTypes
<1>3. \A p \in DOMAIN positions : positions[p] .. positions[p] - 1 = {}
  BY <1>2 DEF Map, Place, Unresolved
<1>4. \A b \in Broker : /\ IsSession(sessions[b])
                        /\ \A p \in DOMAIN sessions[b].known : Led(p, b) /\ p \in fetchable
  BY Zenon DEF FetchInv, FetchTypes, Leadership
<1>5. \A b \in Broker : InStep(remembered[b], late[b], returned, sessions[b].id,
                               sessions[b].epoch, sessions[b].known, faults + 1)
  BY UnreadTracked, Zenon
<1>6. /\ Start.out \in [Partition -> SUBSET Nat]
      /\ \A p \in Partition : Start.out[p] = {}
  BY <1>1, Zenon
<1> HIDE DEF Start
<1> QED
  BY <1>1, <1>2, <1>3, <1>4, <1>5, <1>6, Zenon DEF Polled

(* A broker's answer is handled. *)
LEMMA PolledHandle ==
  ASSUME FetchInv, fresh, NEW b \in DOMAIN outstanding, wire[b].is \in {"answered", "broken"},
         NEW at, Polled(b - 1, at), NEW before
  PROVE  Polled(b, Handle(at, b, before))
<1>1. /\ b \in Broker /\ b \in Nat /\ NumBrokers \in Nat /\ b - 1 \in Nat
      /\ \A n \in Nat : n > b => n > b - 1
      /\ b > b - 1
  BY Bounds DEF FetchInv, FetchTypes, Broker
<1> DEFINE s == at.sessions[b]
           h == Handle(at, b, before)
<1>2. /\ at = [positions |-> at.positions, sessions |-> at.sessions, out |-> at.out,
               failed |-> at.failed]
      /\ Map(at.positions, Place) /\ DOMAIN at.positions = DOMAIN positions
      /\ at.sessions = [c \in Broker |-> at.sessions[c]]
      /\ at.out \in [Partition -> SUBSET Nat]
      /\ \A p \in Partition : at.out[p] # {} => p \in fetchable
  BY Zenon DEF Polled
<1>3. \A p \in DOMAIN positions \ returned :
       /\ positions[p] .. at.positions[p] - 1 \subseteq at.out[p]
       /\ meta[p] > b - 1 => at.positions[p] = positions[p]
       /\ meta[p] > b => at.positions[p] = positions[p]
  <2>1. \A p \in DOMAIN positions : meta[p] \in Nat
    BY <1>1 DEF FetchInv, FetchTypes, Map, Broker
  <2> QED
    BY <1>1, <2>1, Zenon DEF Polled
<1>4. \A c \in Broker :
       /\ IsSession(at.sessions[c])
       /\ c > b => at.sessions[c] = sessions[c]
       /\ \A p \in DOMAIN at.sessions[c].known : Led(p, c) /\ p \in fetchable
       /\ InStep(remembered[c], late[c], returned, at.sessions[c].id, at.sessions[c].epoch,
                 at.sessions[c].known, faults + 1)
  <2>1. \A c \in Broker : c > b => c > b - 1
    BY <1>1 DEF Broker
  <2> QED
    BY <2>1, Zenon DEF Polled
<1>5. s = sessions[b]
  BY <1>1, Zenon DEF Polled
<1>6. CASE wire[b].is = "broken"
  <2>1. h = [at EXCEPT !.failed = TRUE]
    BY <1>6, Zenon DEF Handle
  <2>2. /\ h.positions = at.positions /\ h.sessions = at.sessions /\ h.out = at.out
        /\ h = [positions |-> h.positions, sessions |-> h.sessions, out |-> h.out,
                failed |-> h.failed]
    BY <1>2, <2>1, Zenon
  <2> HIDE DEF h
  <2> QED
    BY <1>2, <1>3, <1>4, <2>2, Zenon DEF Polled, h
<1>7. CASE wire[b].is = "answered" /\ wire[b].answer.code # "NONE"
  <2>1. h = [at EXCEPT !.sessions[b] = NoSession]
    BY <1>7, Zenon DEF Handle
  <2>2. /\ h.positions = at.positions /\ h.out = at.out
        /\ h.sessions = [at.sessions EXCEPT ![b] = NoSession]
        /\ h = [positions |-> h.positions, sessions |-> h.sessions, out |-> h.out,
                failed |-> h.failed]
    BY <1>2, <2>1, Zenon
  <2> HIDE DEF h
  <2>3. /\ h.sessions = [c \in Broker |-> h.sessions[c]] /\ h.sessions[b] = NoSession
        /\ \A c \in Broker \ {b} : h.sessions[c] = at.sessions[c]
    BY <1>1, <1>2, <2>2, Zenon
  <2>4. /\ IsSession(NoSession) /\ DOMAIN NoSession.known = {} /\ ~(b > b)
        /\ InStep(remembered[b], late[b], returned, NoSession.id, NoSession.epoch,
                  NoSession.known, faults + 1)
    BY <1>1, NoSessionType, EmptyMap DEF InStep
  <2>5. \A c \in Broker :
         /\ IsSession(h.sessions[c])
         /\ c > b => h.sessions[c] = sessions[c]
         /\ \A p \in DOMAIN h.sessions[c].known : Led(p, c) /\ p \in fetchable
         /\ InStep(remembered[c], late[c], returned, h.sessions[c].id, h.sessions[c].epoch,
                   h.sessions[c].known, faults + 1)
    <3> TAKE c \in Broker
    <3>1. CASE c = b
      BY <2>3, <2>4, <3>1, Zenon
    <3>2. CASE c # b
      BY <1>4, <2>3, <3>2, Zenon
    <3> QED
      BY <3>1, <3>2, ZenonT(30)
  <2> QED
    BY <1>2, <1>3, <2>2, <2>3, <2>5, Zenon DEF Polled, h
<1>8. CASE Good(b)
  <2> DEFINE a == wire[b].answer
             after == SessionAfter(at, b, a)
             mid == [at EXCEPT !.sessions[b] = after]
             S == IF a.errors = {} THEN Partition ELSE before
             T == S \cap DOMAIN a.data \cap DOMAIN at.positions
  <2>1. h = [Take(mid, a, S) EXCEPT !.failed = (a.errors # {})]
    BY <1>8, Zenon DEF Handle, Good
  <2>2. /\ IsAnswer(a) /\ s.id \in {0, a.id}
        /\ InStep(remembered[b], late[b], returned, a.id, NextEpoch(s.epoch), NextKnown(b), faults)
        /\ \A p \in DOMAIN a.data :
             /\ p \in fetchable
             /\ p \in returned \/ (p \in outstanding[b] /\ a.data[p].from = positions[p])
    <3>1. wire[b].is = "answered" /\ IsAnswer(a)
      BY <1>1, <1>8, ZenonT(30) DEF FetchInv, FetchTypes, IsWire, Good
    <3> QED
      BY <1>1, <1>5, <1>8, <3>1, Zenon DEF FetchInv, Sessions, Tracked, TrueAnswer, Agrees
  <2>3. /\ mid.positions = at.positions /\ mid.out = at.out /\ mid.failed = at.failed
        /\ mid.sessions = [at.sessions EXCEPT ![b] = after]
        /\ mid = [positions |-> mid.positions, sessions |-> mid.sessions, out |-> mid.out,
                  failed |-> mid.failed]
    <3> HIDE DEF after
    <3> QED
      BY <1>2
  <2>4. /\ h.positions = Over([p \in T |-> a.data[p].to], at.positions)
        /\ h.out = Over([p \in T |-> at.out[p] \cup Kept(a.data[p], at.positions[p])], at.out)
        /\ h.sessions = mid.sessions
        /\ h = [positions |-> h.positions, sessions |-> h.sessions, out |-> h.out,
                failed |-> h.failed]
    <3> HIDE DEF mid, S, a
    <3> DEFINE f == Over([p \in T |-> a.data[p].to], mid.positions)
               g == Over([p \in T |-> mid.out[p] \cup Kept(a.data[p], mid.positions[p])], mid.out)
    <3>1. Take(mid, a, S) = [mid EXCEPT !.positions = f, !.out = g]
      BY <2>3, Zenon DEF Take
    <3> HIDE DEF f, g
    <3>2. h = [[mid EXCEPT !.positions = f, !.out = g] EXCEPT !.failed = (a.errors # {})]
      BY <2>1, <3>1, Zenon
    <3>3. /\ h.positions = f /\ h.out = g /\ h.sessions = mid.sessions
          /\ h = [positions |-> h.positions, sessions |-> h.sessions, out |-> h.out,
                  failed |-> h.failed]
      BY <2>3, <3>2, Zenon
    <3> QED
      BY <2>3, <3>3, Zenon DEF f, g
  <2>5. /\ T \subseteq DOMAIN positions /\ T \subseteq Partition /\ T \subseteq DOMAIN a.data
        /\ \A p \in T : a.data[p].to \in Nat /\ a.data[p].from \in Nat
    BY <1>2, <2>2, ZenonT(30) DEF IsAnswer, Map
  <2> HIDE DEF h, mid, S, T, a, after
  <2>6. /\ Map(h.positions, Place) /\ DOMAIN h.positions = DOMAIN positions
        /\ \A p \in T : h.positions[p] = a.data[p].to
        /\ \A p \in DOMAIN positions \ T : h.positions[p] = at.positions[p]
    BY <1>2, <2>4, <2>5, SMTT(20) DEF Over, Map, Place
  <2>7. /\ h.out \in [Partition -> SUBSET Nat]
        /\ \A p \in T : h.out[p] = at.out[p] \cup Kept(a.data[p], at.positions[p])
        /\ \A p \in Partition \ T : h.out[p] = at.out[p]
    <3>1. \A p \in T : Kept(a.data[p], at.positions[p]) \subseteq Nat
      BY <2>5 DEF Kept
    <3>2. h.out = [p \in Partition |-> IF p \in T THEN at.out[p] \cup Kept(a.data[p], at.positions[p])
                                       ELSE at.out[p]]
      BY <1>2, <2>4, <2>5, Zenon DEF Over
    <3> QED
      BY <1>2, <2>5, <3>1, <3>2, SMTT(20)
  <2>8. \A p \in Partition : h.out[p] # {} => p \in fetchable
    BY <1>2, <2>2, <2>5, <2>7, Zenon
  <2>9. ASSUME NEW p \in DOMAIN positions \ returned
        PROVE  /\ positions[p] .. h.positions[p] - 1 \subseteq h.out[p]
               /\ meta[p] > b => h.positions[p] = positions[p]
    <3>1. p \in Partition /\ positions[p] \in Place /\ at.positions[p] \in Place
      BY <1>2, <2>9, Zenon DEF FetchInv, FetchTypes, Map
    <3>2. CASE p \in T
      <4>1. p \in outstanding[b] /\ a.data[p].from = positions[p]
        BY <2>2, <2>5, <2>9, <3>2, Zenon
      <4>2. meta[p] = b
        BY <4>1, Zenon DEF FetchInv, InFlight
      <4>3. at.positions[p] = positions[p] /\ ~(meta[p] > b)
        BY <1>1, <1>3, <2>9, <4>2, SMTT(20)
      <4>4. Kept(a.data[p], at.positions[p]) = positions[p] .. a.data[p].to - 1
        BY <2>5, <3>1, <3>2, <4>1, <4>3, SMTT(20) DEF Kept
      <4> QED
        BY <2>6, <2>7, <3>2, <4>3, <4>4, Zenon
    <3>3. CASE p \notin T
      BY <1>3, <2>6, <2>7, <2>9, <3>1, <3>3, Zenon
    <3> QED
      BY <3>2, <3>3, Zenon
  <2>10. /\ after = [id |-> a.id, epoch |-> NextEpoch(s.epoch),
                     known |-> Over(Only(at.positions, outstanding[b]), s.known)]
         /\ after.id = a.id /\ after.epoch = NextEpoch(s.epoch)
         /\ after.known = Over(Only(at.positions, outstanding[b]), s.known)
    BY Zenon DEF after, SessionAfter
  <2>11. /\ DOMAIN after.known = outstanding[b] \cup DOMAIN s.known
         /\ \A p \in outstanding[b] : after.known[p] = at.positions[p]
         /\ \A p \in DOMAIN s.known \ outstanding[b] : after.known[p] = s.known[p]
         /\ DOMAIN NextKnown(b) = outstanding[b] \cup DOMAIN s.known
         /\ \A p \in outstanding[b] : NextKnown(b)[p] = positions[p]
         /\ \A p \in DOMAIN s.known \ outstanding[b] : NextKnown(b)[p] = s.known[p]
    <3>1. outstanding[b] \subseteq DOMAIN positions
      BY Zenon DEF FetchInv, InFlight, fetchable
    <3>2. NextKnown(b) = Over(Only(positions, outstanding[b]), s.known)
      BY <1>5, Zenon DEF NextKnown
    <3> DEFINE A == outstanding[b]   k == s.known   f == at.positions
               g == after.known   n == NextKnown(b)   f0 == positions
    <3>3. A \subseteq DOMAIN f /\ g = Over(Only(f, A), k)
      BY <1>2, <2>10, <3>1, Zenon
    <3>6. A \subseteq DOMAIN f0 /\ n = Over(Only(f0, A), k)
      BY <3>1, <3>2, Zenon
    <3> HIDE DEF A, k, f, f0, g, n
    <3>4. DOMAIN g = A \cup DOMAIN k /\ (\A p \in A : g[p] = f[p])
          /\ \A p \in DOMAIN k \ A : g[p] = k[p]
      BY <3>3, Zenon DEF Over, Only
    <3>5. DOMAIN n = A \cup DOMAIN k /\ (\A p \in A : n[p] = f0[p])
          /\ \A p \in DOMAIN k \ A : n[p] = k[p]
      BY <3>6, Zenon DEF Over, Only
    <3> QED
      BY <3>4, <3>5, Zenon DEF A, k, f, f0, g, n
  <2>12. \A p \in outstanding[b] \ returned : at.positions[p] = positions[p]
    <3>1. \A p \in outstanding[b] : p \in DOMAIN positions /\ meta[p] = b
      BY Zenon DEF FetchInv, InFlight, fetchable
    <3> QED
      BY <1>1, <1>3, <3>1, Zenon
  <2>13. IsSession(after)
    <3>1. IsSession(s) /\ a.id \in Nat
      BY <1>1, <1>4, <2>2, Zenon DEF IsAnswer
    <3>2. NextEpoch(s.epoch) \in 1 .. MaxEpoch
      BY <3>1, NextEpochType, Zenon DEF IsSession
    <3>3. Map(Over(Only(at.positions, outstanding[b]), s.known), Place)
      BY <1>2, <3>1, OnlyMap, OverMap, Zenon DEF IsSession
    <3> QED
      BY <2>10, <3>1, <3>2, <3>3, Bounds, SMTT(20) DEF IsSession
  <2>14. \A p \in DOMAIN after.known : Led(p, b) /\ p \in fetchable
    <3>1. \A p \in outstanding[b] : meta[p] = b /\ p \in fetchable
      BY Zenon DEF FetchInv, InFlight
    <3> QED
      BY <1>1, <1>4, <2>11, <3>1, Zenon DEF Led
  <2>15. InStep(remembered[b], late[b], returned, after.id, after.epoch, after.known, faults + 1)
    <3>1. \A p \in DOMAIN NextKnown(b) \ returned : after.known[p] = NextKnown(b)[p]
      BY <2>11, <2>12, Zenon
    <3> DEFINE nk == NextKnown(b)   ep == NextEpoch(s.epoch)   ak == after.known
    <3>4. /\ InStep(remembered[b], late[b], returned, a.id, ep, nk, faults)
          /\ DOMAIN ak = DOMAIN nk /\ \A p \in DOMAIN nk \ returned : ak[p] = nk[p]
      BY <2>2, <2>11, <3>1, Zenon
    <3> HIDE DEF nk, ep, ak
    <3>5. InStep(remembered[b], late[b], returned, a.id, ep, ak, faults)
      BY <3>4, InStepAlike, Zenon
    <3>2. InStep(remembered[b], late[b], returned, after.id, after.epoch, after.known, faults)
      BY <2>10, <3>5, Zenon DEF ep, ak
    <3>3. IsFiniteSet(late[b]) /\ faults \in Nat /\ faults + 1 \in Nat /\ faults <= faults + 1
      BY <1>1, Bounds, SMTT(20) DEF FetchInv, FetchTypes, Sessions
    <3> QED
      BY <3>2, <3>3, InStepMore, Zenon
  <2>16. /\ h.sessions = [c \in Broker |-> h.sessions[c]] /\ h.sessions[b] = after
         /\ \A c \in Broker \ {b} : h.sessions[c] = at.sessions[c]
    BY <1>1, <1>2, <2>3, <2>4, Zenon
  <2>17. \A c \in Broker :
         /\ IsSession(h.sessions[c])
         /\ c > b => h.sessions[c] = sessions[c]
         /\ \A p \in DOMAIN h.sessions[c].known : Led(p, c) /\ p \in fetchable
         /\ InStep(remembered[c], late[c], returned, h.sessions[c].id, h.sessions[c].epoch,
                   h.sessions[c].known, faults + 1)
    <3> TAKE c \in Broker
    <3>1. CASE c = b
      <4>1. ~(b > b)
        BY <1>1
      <4> QED
        BY <2>13, <2>14, <2>15, <2>16, <3>1, <4>1, Zenon
    <3>2. CASE c # b
      BY <1>4, <2>16, <3>2, Zenon
    <3> QED
      BY <3>1, <3>2, Zenon
  <2> QED
    BY <2>4, <2>6, <2>7, <2>8, <2>9, <2>16, <2>17, Zenon DEF Polled, h
<1> QED
  BY <1>6, <1>7, <1>8, Zenon DEF Good

(* The next broker's turn, as HandleAll goes from one to the next. *)
Turn(at, b, before) ==
  IF at.failed \/ b \notin DOMAIN outstanding THEN at ELSE Handle(at, b, before)

(* The next broker's turn keeps what has been established: its answer is   *)
(* handled, or the poll has failed, or nothing was asked of it.            *)
LEMMA PolledTurn ==
  ASSUME FetchInv, fresh, Readable, NEW b \in Broker, NEW at, Polled(b - 1, at), NEW before
  PROVE  Polled(b, Turn(at, b, before))
<1>1. CASE ~at.failed /\ b \in DOMAIN outstanding
  <2>1. wire[b].is \in {"answered", "broken"}
    BY <1>1, Zenon DEF Readable
  <2>2. Turn(at, b, before) = Handle(at, b, before)
    BY <1>1, Zenon DEF Turn
  <2> QED
    BY <1>1, <2>1, <2>2, PolledHandle, Zenon
<1>2. CASE at.failed \/ b \notin DOMAIN outstanding
  <2>1. Turn(at, b, before) = at
    BY <1>2, Zenon DEF Turn
  <2>2. b \in Nat /\ \A n \in Nat : n > b => n > b - 1
    BY Bounds DEF Broker
  <2>3. \A p \in DOMAIN positions : meta[p] \in Nat
    BY Bounds DEF FetchInv, FetchTypes, Map, Broker
  <2>4. \A c \in Broker : c \in Nat
    BY Bounds DEF Broker
  <2>5. Polled(b, at)
    BY <2>2, <2>3, <2>4, Zenon DEF Polled
  <2> QED
    BY <2>1, <2>5, Zenon
<1> QED
  BY <1>1, <1>2, Zenon

(* The turns up to the n-th. *)
Turns(g, n, before) ==
  g = [b \in 0 .. n |-> IF b = 0 THEN Start ELSE Turn(g[b - 1], b, before)]

(* HandleAll's recursion is well defined: there are such turns. *)
LEMMA TurnsExist ==
  ASSUME NEW before
  PROVE  \A n \in Nat : \E g : Turns(g, n, before)
<1> DEFINE S == {n \in Nat : \E g : Turns(g, n, before)}
<1>1. 0 \in S
  <2> DEFINE g == [b \in 0 .. 0 |-> Start]
  <2>1. Turns(g, 0, before)
    BY DEF Turns
  <2> QED
    BY <2>1, Zenon
<1>2. ASSUME NEW n \in Nat, n \in S PROVE n + 1 \in S
  <2>1. PICK g : Turns(g, n, before)
    BY <1>2, Zenon
  <2> DEFINE next == Turn(g[n], n + 1, before)
             h == [b \in 0 .. n + 1 |-> IF b = n + 1 THEN next ELSE g[b]]
  <2>2. h = [b \in 0 .. n + 1 |-> IF b = 0 THEN Start ELSE Turn(h[b - 1], b, before)]
    <3> SUFFICES ASSUME NEW b \in 0 .. n + 1
                 PROVE  h[b] = IF b = 0 THEN Start ELSE Turn(h[b - 1], b, before)
      BY Zenon
    <3>1. CASE b = n + 1
      <4>1. b # 0 /\ b - 1 = n /\ n \in 0 .. n + 1 /\ n # n + 1
        BY <1>2, <3>1
      <4>2. h[b] = next /\ h[b - 1] = g[n]
        BY <3>1, <4>1, Zenon
      <4> QED
        BY <3>1, <4>1, <4>2, Zenon
    <3>2. CASE b # n + 1 /\ b # 0
      <4>1. b \in 0 .. n /\ b - 1 \in 0 .. n + 1 /\ b - 1 # n + 1
        BY <1>2, <3>2
      <4>2. h[b] = g[b] /\ h[b - 1] = g[b - 1]
        BY <3>2, <4>1, Zenon
      <4>3. g[b] = Turn(g[b - 1], b, before)
        BY <2>1, <3>2, <4>1, Zenon DEF Turns
      <4> HIDE DEF h
      <4> QED
        BY <3>2, <4>2, <4>3, Zenon
    <3>3. CASE b # n + 1 /\ b = 0
      <4>1. b \in 0 .. n
        BY <1>2, <3>3
      <4>2. h[b] = g[b] /\ g[b] = Start
        BY <2>1, <3>3, <4>1, Zenon DEF Turns
      <4> HIDE DEF h
      <4> QED
        BY <3>3, <4>2, Zenon
    <3> QED
      BY <3>1, <3>2, <3>3, Zenon
  <2> HIDE DEF h
  <2>3. Turns(h, n + 1, before)
    BY <2>2, Zenon DEF Turns
  <2> QED
    BY <1>2, <2>3
<1> HIDE DEF S
<1>3. Nat \subseteq S
  BY <1>1, <1>2, Induction, Zenon
<1> QED
  BY <1>3, Zenon DEF S

(* After the last broker. *)
LEMMA PolledAll ==
  ASSUME FetchInv, fresh, Readable, NEW before
  PROVE  Polled(NumBrokers, HandleAll(before))
<1> DEFINE h == CHOOSE h : h = [b \in 0 .. NumBrokers |->
                                  IF b = 0 THEN Start ELSE Turn(h[b - 1], b, before)]
<1>1. HandleAll(before) = h[NumBrokers]
  BY Zenon DEF HandleAll, Turn, Start
<1>2. NumBrokers \in Nat
  BY Bounds, Zenon
<1>3. h = [b \in 0 .. NumBrokers |-> IF b = 0 THEN Start ELSE Turn(h[b - 1], b, before)]
  <2>1. \E g : g = [b \in 0 .. NumBrokers |-> IF b = 0 THEN Start ELSE Turn(g[b - 1], b, before)]
    BY <1>2, TurnsExist, Zenon DEF Turns
  <2> QED
    BY <2>1, Zenon
<1> HIDE DEF h
<1> DEFINE S == {n \in Nat : n <= NumBrokers => Polled(n, h[n])}
<1>4. 0 \in S
  <2>1. h[0] = Start
    BY <1>2, <1>3
  <2> QED
    BY <2>1, PolledStart, Zenon
<1>5. ASSUME NEW n \in Nat, n \in S PROVE n + 1 \in S
  <2> SUFFICES ASSUME n + 1 <= NumBrokers PROVE Polled(n + 1, h[n + 1])
    BY <1>5
  <2>1. n + 1 \in Broker /\ n + 1 \in 0 .. NumBrokers /\ n + 1 # 0 /\ (n + 1) - 1 = n
        /\ n <= NumBrokers
    BY <1>2, <1>5 DEF Broker
  <2>2. h[n + 1] = Turn(h[n], n + 1, before)
    BY <1>3, <2>1, Zenon
  <2>3. Polled((n + 1) - 1, h[n])
    BY <1>5, <2>1, Zenon
  <2> QED
    BY <2>1, <2>2, <2>3, PolledTurn, Zenon
<1> HIDE DEF S
<1>6. Nat \subseteq S
  BY <1>4, <1>5, Induction, Zenon
<1>7. NumBrokers \in S
  BY <1>2, <1>6, Zenon
<1> QED
  BY <1>1, <1>2, <1>7 DEF S

(* The second half of a poll. *)
LEMMA EndStep ==
  ASSUME FetchInv, End
  PROVE  /\ FetchInv'
         /\ \A p \in Partition : handed'[p] \ handed[p] # {} => p \in fetchable
<1>1. fresh /\ Readable
  BY Zenon DEF FetchInv, InFlight, End
<1>2. PICK at \in {HandleAll(before) : before \in Befores} :
        /\ positions' = at.positions /\ sessions' = at.sessions
        /\ seen' = [p \in Partition |-> seen[p] \cup at.out[p]]
        /\ handed' = IF at.failed THEN handed
                     ELSE [p \in Partition |-> handed[p] \cup at.out[p]]
        /\ \/ \E upto \in 1 .. Everything : /\ Sending(meta, at.positions, upto)
                                            /\ Issue(meta, at.positions, at.sessions, upto)
           \/ DiscardOutstanding /\ fresh' = TRUE /\ faults' = faults
  BY Zenon DEF End
<1> DEFINE pos == at.positions
           sess == at.sessions
           out == at.out
<1>3. Polled(NumBrokers, at)
  BY <1>1, <1>2, PolledAll, Zenon
<1>4. /\ positions' = pos /\ sessions' = sess
      /\ seen' = [p \in Partition |-> seen[p] \cup out[p]]
      /\ handed' = handed \/ handed' = [p \in Partition |-> handed[p] \cup out[p]]
      /\ \/ \E upto \in 1 .. Everything : /\ Sending(meta, pos, upto)
                                          /\ Issue(meta, pos, sess, upto)
         \/ DiscardOutstanding /\ fresh' = TRUE /\ faults' = faults
  BY <1>2, Zenon
<1>5. /\ leader' = leader /\ former' = former /\ returned' = returned /\ remembered' = remembered
      /\ len' = len /\ late' = late /\ meta' = meta /\ paused' = paused
      /\ prefetch' = prefetch /\ pc' = "idle" /\ start' = start
  BY Zenon DEF End, brokerVars, leadership
<1>6. /\ Map(pos, Place) /\ DOMAIN pos = DOMAIN positions
      /\ sess = [b \in Broker |-> sess[b]]
      /\ out \in [Partition -> SUBSET Nat]
      /\ \A p \in Partition : out[p] # {} => p \in fetchable
      /\ \A p \in DOMAIN positions \ returned : positions[p] .. pos[p] - 1 \subseteq out[p]
      /\ \A b \in Broker :
           /\ IsSession(sess[b])
           /\ \A p \in DOMAIN sess[b].known : Led(p, b) /\ p \in fetchable
           /\ InStep(remembered[b], late[b], returned, sess[b].id, sess[b].epoch,
                     sess[b].known, faults + 1)
  BY <1>3, Zenon DEF Polled
<1> HIDE DEF pos, sess, out
<1>7. /\ faults' \in 0 .. MaxFaults /\ faults <= faults' /\ faults \in Nat /\ faults' \in Nat
      /\ faults + 1 \in Nat /\ faults' + 1 \in Nat /\ faults + 1 <= faults' + 1
  <2>1. faults \in 0 .. MaxFaults
    BY Zenon DEF FetchInv, FetchTypes
  <2>2. CASE \E upto \in 1 .. Everything : Sending(meta, pos, upto)
    BY <2>1, <2>2, SendingFacts, Zenon
  <2>3. CASE faults' = faults
    <3>1. faults' \in 0 .. MaxFaults /\ faults <= faults' /\ faults \in Nat /\ faults' \in Nat
      BY <2>1, <2>3, Bounds
    <3> QED
      BY <3>1, OneMore, Zenon
  <2> QED
    BY <1>4, <2>2, <2>3, Zenon
<1>8. Issued(meta, pos, sess)
  <2>1. CASE \E upto \in 1 .. Everything : Issue(meta, pos, sess, upto)
    <3>1. meta \in [Partition -> Broker]
      BY Zenon DEF FetchInv, FetchTypes
    <3> QED
      BY <1>6, <2>1, <3>1, IssueFacts, Zenon
  <2>2. CASE DiscardOutstanding /\ fresh' = TRUE
    <3>1. /\ outstanding' = [b \in {} |-> {}] /\ wire' = [b \in Broker |-> Idle] /\ fresh' = TRUE
          /\ DOMAIN outstanding' = {}
      BY <2>2, Zenon DEF DiscardOutstanding
    <3>2. \A b \in Broker : /\ wire'[b] = Idle /\ wire'[b].is = "idle" /\ IsWire(wire'[b])
      BY <3>1, Zenon DEF Idle, IsWire
    <3> QED
      BY <3>1, <3>2, Zenon DEF Issued
  <2> QED
    BY <1>4, <2>1, <2>2, Zenon
<1>9. fetchable' = fetchable
  BY <1>4, <1>5, <1>6, Zenon DEF fetchable
<1>10. FetchTypes'
  <2>1. \A b \in Broker : IsRemembered(remembered[b]) /\ \A r \in late[b] : IsRequest(r)
    BY Zenon DEF FetchInv, FetchTypes
  <2>2. sessions' = [b \in Broker |-> sessions'[b]] /\ \A b \in Broker : IsSession(sessions'[b])
    BY <1>4, <1>6, Zenon
  <2>3. handed' \in [Partition -> SUBSET Nat] /\ seen' \in [Partition -> SUBSET Nat]
    BY <1>4, <1>6, ZenonT(30) DEF FetchInv, FetchTypes
  <2>4. Map(positions', Place)
    BY <1>4, <1>6, Zenon
  <2> QED
    BY <1>5, <1>7, <1>8, <2>1, <2>2, <2>3, <2>4, Zenon DEF FetchInv, FetchTypes, Issued
<1>11. InFlight'
  BY <1>4, <1>5, <1>6, <1>8, Zenon DEF InFlight, fetchable, Issued
<1>12. Leadership'
  <2>1. \A b \in Broker : /\ \A p \in DOMAIN sessions'[b].known : p \in fetchable' /\ Led(p, b)
                          /\ DOMAIN sessions'[b].known \subseteq Partition
    BY <1>4, <1>6, <1>9, Zenon DEF IsSession, Map
  <2>2. \A b \in Broker : wire'[b].is = "sent" => \A p \in DOMAIN wire'[b].req.offsets : meta'[p] = b
    BY <1>5, <1>8, Zenon DEF Issued
  <2> QED
    BY <1>5, <2>1, <2>2, LeadershipKept, Zenon
<1>13. Sessions'
  <2>1. \A b \in Broker : ~Good(b)'
    BY <1>8, Zenon DEF Good, Issued
  <2>2. \A b \in Broker : IsFiniteSet(late[b]) /\ Cardinality(late[b]) <= faults
                          /\ Cardinality(late[b]) \in Nat
    BY FS_CardinalityType, Zenon DEF FetchInv, Sessions
  <2>3. ASSUME NEW b \in Broker PROVE Tracked(b)'
    <3>1. InStep(remembered[b], late[b], returned, sessions'[b].id, sessions'[b].epoch,
                 sessions'[b].known, faults + 1)
      BY <1>4, <1>6, Zenon
    <3>2. InStep(remembered[b], late[b], returned, sessions'[b].id, sessions'[b].epoch,
                 sessions'[b].known, faults' + 1)
      BY <1>7, <2>2, <3>1, InStepMore, Zenon
    <3> QED
      BY <1>5, <2>1, <3>2, Zenon DEF Tracked, Agrees
  <2>4. \A b \in Broker : IsFiniteSet(late'[b]) /\ Cardinality(late'[b]) <= faults'
    BY <1>5, <1>7, <2>2, AtMost, Zenon
  <2> QED
    BY <2>3, <2>4, Zenon DEF Sessions
<1>14. NoGap'
  <2> SUFFICES ASSUME NEW p \in DOMAIN positions \ returned
               PROVE  start[p] .. pos[p] - 1 \subseteq seen'[p]
    BY <1>4, <1>5, <1>6, Zenon DEF NoGap
  <2>1. /\ p \in Partition /\ positions[p] \in Place /\ pos[p] \in Place /\ start[p] \in Place
        /\ start[p] .. positions[p] - 1 \subseteq seen[p]
        /\ positions[p] .. pos[p] - 1 \subseteq out[p]
    BY <1>6, Zenon DEF FetchInv, FetchTypes, Map, NoGap
  <2>2. seen'[p] = seen[p] \cup out[p]
    BY <1>4, <2>1, Zenon
  <2> QED
    BY <2>1, <2>2 DEF Place, Unresolved
<1>15. \A p \in Partition : handed'[p] \ handed[p] # {} => p \in fetchable
  BY <1>4, <1>6, Zenon
<1> QED
  BY <1>10, <1>11, <1>12, <1>13, <1>14, <1>15, Zenon DEF FetchInv

-----------------------------------------------------------------------------
(* Before the first call. *)
LEMMA InitInv == Init => FetchInv
<1> SUFFICES ASSUME Init PROVE FetchInv
  BY Zenon
<1>1. /\ meta = leader /\ leader \in [Partition -> Broker] /\ len = [p \in Partition |-> 0]
      /\ positions = [p \in Partition |-> 0] /\ paused = {} /\ fresh = TRUE /\ pc = "idle"
      /\ outstanding = [b \in {} |-> {}] /\ DOMAIN outstanding = {} /\ prefetch \in BOOLEAN
      /\ handed = [p \in Partition |-> {}] /\ seen = [p \in Partition |-> {}]
      /\ start = [p \in Partition |-> 0] /\ former = [p \in Partition |-> {}] /\ returned = {}
      /\ faults = 0
  BY Zenon DEF Init
<1>2. /\ sessions = [b \in Broker |-> NoSession] /\ wire = [b \in Broker |-> Idle]
      /\ late = [b \in Broker |-> {}]
      /\ remembered = [b \in Broker |-> [id |-> 0, epoch |-> 0, offsets |-> Empty]]
  BY Zenon DEF Init
<1>3. /\ Map(Empty, Place) /\ DOMAIN Empty = {} /\ 0 \in 0 .. MaxEpoch /\ 0 \in 0 .. MaxFaults
  BY EmptyMap, Bounds
<1>4. \A b \in Broker :
       /\ IsSession(sessions[b]) /\ sessions[b].id = 0 /\ DOMAIN sessions[b].known = {}
       /\ IsRemembered(remembered[b]) /\ DOMAIN remembered[b].offsets = {}
       /\ IsWire(wire[b]) /\ wire[b].is = "idle"
       /\ late[b] = {}
  BY <1>2, <1>3, NoSessionType, Zenon DEF IsRemembered, IsWire, Idle
<1>5. FetchTypes
  <2>1. /\ Map(positions, Place) /\ len \in [Partition -> Nat] /\ start \in [Partition -> Place]
    <3>1. 0 \in Nat /\ 0 \in Place
      BY DEF Place
    <3> QED
      BY <1>1, <3>1, Zenon DEF Map
  <2>2. /\ handed \in [Partition -> SUBSET Nat] /\ seen \in [Partition -> SUBSET Nat]
        /\ former \in [Partition -> SUBSET Broker] /\ returned \subseteq Partition
        /\ paused \subseteq Partition /\ DOMAIN outstanding \subseteq Broker
    BY <1>1, Zenon
  <2>3. /\ sessions = [b \in Broker |-> sessions[b]] /\ wire = [b \in Broker |-> wire[b]]
        /\ late = [b \in Broker |-> late[b]] /\ remembered = [b \in Broker |-> remembered[b]]
    BY <1>2, Zenon
  <2>4. /\ leader \in [Partition -> Broker] /\ meta \in [Partition -> Broker]
        /\ faults \in 0 .. MaxFaults /\ pc \in {"idle", "recv"}
    BY <1>1, <1>3, Zenon
  <2>5. fresh \in BOOLEAN /\ prefetch \in BOOLEAN
    BY <1>1, Zenon
  <2>6. \A b \in Broker : /\ IsSession(sessions[b]) /\ IsRemembered(remembered[b])
                          /\ IsWire(wire[b]) /\ \A r \in late[b] : IsRequest(r)
    BY <1>4, Zenon
  <2> QED
    BY <2>1, <2>2, <2>3, <2>4, <2>5, <2>6, Zenon DEF FetchTypes
<1>6. InFlight
  BY <1>1, <1>4, Zenon DEF InFlight
<1>7. Leadership
  BY <1>1, <1>4, Zenon DEF Leadership
<1>8. Sessions
  <2>1. \A b \in Broker : IsFiniteSet(late[b]) /\ Cardinality(late[b]) <= faults
    <3>1. IsFiniteSet({}) /\ Cardinality({}) = 0 /\ 0 <= 0
      BY FS_EmptySet
    <3> QED
      BY <1>1, <1>4, <3>1, Zenon
  <2>2. \A b \in Broker : Tracked(b)
    BY <1>4, Zenon DEF Tracked, Good, Agrees, InStep
  <2> QED
    BY <2>1, <2>2, Zenon DEF Sessions
<1>9. NoGap
  <2>1. \A p \in Partition : start[p] .. positions[p] - 1 = {}
    BY <1>1
  <2> QED
    BY <1>1, <2>1, Zenon DEF NoGap
<1> QED
  BY <1>5, <1>6, <1>7, <1>8, <1>9, Zenon DEF FetchInv

(* A stutter changes nothing. *)
LEMMA Untouched == FetchInv /\ UNCHANGED vars => FetchInv'
<1> SUFFICES ASSUME FetchInv, UNCHANGED vars PROVE FetchInv'
  BY Zenon
<1>1. /\ leader' = leader /\ former' = former /\ returned' = returned /\ len' = len
      /\ remembered' = remembered /\ wire' = wire /\ late' = late /\ meta' = meta
      /\ positions' = positions /\ sessions' = sessions /\ outstanding' = outstanding
      /\ fresh' = fresh /\ paused' = paused /\ prefetch' = prefetch /\ pc' = pc
      /\ handed' = handed /\ seen' = seen /\ start' = start /\ faults' = faults
  BY Zenon DEF vars, brokerVars, leadership, fetchVars, history
<1>2. FetchTypes'
  BY <1>1, Zenon DEF FetchInv, FetchTypes
<1>3. InFlight' /\ NoGap'
  BY <1>1, Zenon DEF FetchInv, InFlight, NoGap, fetchable
<1>4. Leadership'
  BY <1>1, Zenon DEF FetchInv, Leadership, Led, fetchable
<1>5. Sessions'
  BY <1>1, Zenon DEF FetchInv, Sessions, Tracked, Good, TrueAnswer, Agrees, NextKnown, fetchable
<1> QED
  BY <1>2, <1>3, <1>4, <1>5, Zenon DEF FetchInv

-----------------------------------------------------------------------------
(* Every step keeps the invariant. *)
LEMMA NextInv == FetchInv /\ [Next]_vars => FetchInv'
<1> SUFFICES ASSUME FetchInv, [Next]_vars PROVE FetchInv'
  BY Zenon
<1>1. ASSUME NEW p \in Partition, NEW offset \in Offset, Assign(p, offset) PROVE FetchInv'
  BY <1>1, AssignStep, Zenon
<1>2. ASSUME NEW p \in Partition, NEW offset \in Offset, SeekTo(p, offset) PROVE FetchInv'
  BY <1>2, SeekToStep, Zenon
<1>3. ASSUME NEW p \in Partition, Remove(p) \/ Pause(p) \/ Resume(p) PROVE FetchInv'
  BY <1>3, FetchSetStep, Zenon
<1>4. ASSUME NEW p \in Partition, Move(p) PROVE FetchInv'
  BY <1>4, MoveStep, Zenon
<1>5. ASSUME NEW p \in Partition, Produce(p) PROVE FetchInv'
  BY <1>5, ProduceStep, Zenon
<1>6. CASE Drain \/ \E p \in Partition : AssignFails(p)
  BY <1>6, DrainStep, Zenon
<1>7. ASSUME NEW refresh \in BOOLEAN, NEW upto \in 1 .. Everything, Begin(refresh, upto)
      PROVE  FetchInv'
  BY <1>7, BeginStep, Zenon
<1>8. CASE End
  BY <1>8, EndStep, Zenon
<1>9. ASSUME NEW b \in Broker, NEW full \in BOOLEAN, Execute(b, full) PROVE FetchInv'
  BY <1>9, ExecuteStep, Zenon
<1>10. ASSUME NEW b \in Broker, ExecuteLate(b) PROVE FetchInv'
  BY <1>10, ExecuteLateStep, Zenon
<1>11. ASSUME NEW b \in Broker, Lose(b) PROVE FetchInv'
  BY <1>11, LoseStep, Zenon
<1>12. ASSUME NEW b \in Broker, Evict(b) PROVE FetchInv'
  BY <1>12, EvictStep, Zenon
<1>13. CASE UNCHANGED vars
  BY <1>13, Untouched, Zenon
<1> QED
  BY <1>1, <1>2, <1>3, <1>4, <1>5, <1>6, <1>7, <1>8, <1>9, <1>10, <1>11, <1>12, <1>13, Zenon DEF Next

(* In every state the client's sessions (Session::known, its id and epoch) *)
(* are what the brokers have, or else the brokers' epochs are ahead by     *)
(* less than a turn, so that the next request is refused and the session   *)
(* opened again; and what is on the wire is what is outstanding.           *)
THEOREM FetchInvariant == Spec => []FetchInv
BY InitInv, NextInv, PTL DEF Spec

(* No answer is stranded on its connection to be taken for the answer to   *)
(* the next request, whichever request of issue_fetch cannot be sent and   *)
(* whatever breaks (outstanding, discard_outstanding).                     *)
THEOREM NoAnswerStranded == Spec => []NoneStranded
<1>1. FetchInv => NoneStranded
  BY Zenon DEF FetchInv, InFlight, NoneStranded
<1> QED
  BY <1>1, FetchInvariant, PTL

(* poll never moves a position past a record that was in no answer: for    *)
(* any number of partitions and brokers, and any lost answers, late        *)
(* requests, evicted sessions, moved leaders, seeks and pauses.            *)
THEOREM NoRecordSkipped == Spec => []NoGap
<1>1. FetchInv => NoGap
  BY Zenon DEF FetchInv
<1> QED
  BY <1>1, FetchInvariant, PTL

(* Only a poll hands anything out, and only of what is fetchable. *)
LEMMA OnlyPollHandsOut ==
  ASSUME FetchInv, [Next]_vars, NEW p \in Partition, handed'[p] \ handed[p] # {}
  PROVE  p \in fetchable
<1>1. handed \in [Partition -> SUBSET Nat]
  BY Zenon DEF FetchInv, FetchTypes
<1>2. CASE End
  BY <1>2, EndStep, Zenon
<1>3. ASSUME NEW q \in Partition, NEW offset \in Offset, Assign(q, offset) \/ SeekTo(q, offset)
      PROVE  FALSE
  BY <1>1, <1>3, Zenon DEF Assign, SeekTo
<1>4. ASSUME handed' = handed PROVE FALSE
  BY <1>4, Zenon
<1>5. ASSUME NEW q \in Partition, Remove(q) \/ Pause(q) \/ Resume(q) \/ Move(q) \/ Produce(q)
      PROVE  FALSE
  BY <1>4, <1>5, Zenon DEF Remove, Pause, Resume, Move, Produce, history
<1>6. ASSUME Drain \/ UNCHANGED vars PROVE FALSE
  BY <1>4, <1>6, Zenon DEF Drain, vars, history
<1>7. ASSUME NEW refresh \in BOOLEAN, NEW upto \in 1 .. Everything, Begin(refresh, upto)
      PROVE  FALSE
  BY <1>4, <1>7, Zenon DEF Begin, history
<1>8. ASSUME NEW b \in Broker,
             (\E full \in BOOLEAN : Execute(b, full)) \/ ExecuteLate(b) \/ Lose(b) \/ Evict(b)
      PROVE  FALSE
  BY <1>4, <1>8, Zenon DEF Execute, ExecuteLate, Lose, Evict, history
<1>9. ASSUME NEW q \in Partition, AssignFails(q) PROVE FALSE
  BY <1>1, <1>9, Zenon DEF AssignFails
<1> QED
  BY <1>2, <1>3, <1>5, <1>6, <1>7, <1>8, <1>9, Zenon DEF Next

(* poll hands out nothing of a partition that is paused or not assigned,   *)
(* even when the answer it reads was asked for before pause or remove.     *)
THEOREM PausedIsSilent == Spec => PausedSilent
<1>1. FetchInv /\ [Next]_vars =>
        [\A p \in Partition : handed'[p] \ handed[p] # {} => p \in fetchable]_vars
  BY OnlyPollHandsOut, Zenon
<1> QED
  BY <1>1, FetchInvariant, PTL DEF Spec, PausedSilent
=============================================================================
