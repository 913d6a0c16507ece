--------------------------- MODULE ClientsProofs ----------------------------
(***************************************************************************)
(* Proofs about Clients: what writing, answering and reading do to a       *)
(* connection, to the pool and to who claims what is in flight; that       *)
(* ClientInv is kept by every step; and so that every answer a client      *)
(* reads is that of the request it reads it for, for any number of         *)
(* brokers, operations and faults.                                         *)
(***************************************************************************)
EXTENDS ClientsInv, SequenceTheorems, TLAPS

-----------------------------------------------------------------------------
(* Connections: what writing, answering and reading do to one. *)

(* A slot is of the main pool or of the coordinators'; addresses do not    *)
(* share one.                                                              *)
LEMMA MainSlot ==
  /\ \A a \in Addr : Main(a) \in Slot
  /\ \A a, b : Main(a) = Main(b) => a = b
BY Zenon DEF Main, Slot

(* A connection after its handshake, and none, have nothing in flight. *)
LEMMA EmptyConn ==
  /\ Fresh \in Conn /\ Aligned(Fresh) /\ Fresh.in_flight = << >>
  /\ NoConn \in Conn /\ Aligned(NoConn) /\ NoConn.in_flight = << >>
BY DEF Fresh, NoConn, Conn, Aligned, InOrder, Lost

(* A request gets a correlation id and the number of its operation. *)
LEMMA NewRequestType ==
  ASSUME NEW c \in Conn, NEW op \in AnyOp, NEW arg \in Arg, calls \in Nat
  PROVE  NewRequest(c, op, arg) \in Request /\ NewRequest(c, op, arg).arg = arg
<1>1. CASE c.in_flight = << >>
  BY <1>1, Zenon DEF NewRequest, Request
<1>2. CASE c.in_flight # << >>
  <2>1. c.in_flight \in Seq(Request) /\ Len(c.in_flight) \in 1 .. Len(c.in_flight)
    BY <1>2 DEF Conn
  <2>2. c.in_flight[Len(c.in_flight)] \in Request
    BY <2>1
  <2> QED
    BY <1>2, <2>2 DEF NewRequest, Request
<1> QED
  BY <1>1, <1>2, Zenon

(* A request more is in flight, and not answered. *)
LEMMA OrderWritten ==
  ASSUME NEW R, NEW A, NEW f \in Seq(R), NEW b \in Seq(A), NEW w \in Seq(R), NEW r \in R,
         InOrder(f, b, w)
  PROVE  InOrder(Append(f, r), b, Append(w, r))
<1> DEFINE f1 == Append(f, r)
           w1 == Append(w, r)
<1>1. Len(f) \in Nat /\ Len(b) \in Nat /\ Len(w) \in Nat
  OBVIOUS
<1>2. /\ Len(f1) = Len(f) + 1 /\ Len(w1) = Len(w) + 1
      /\ f1[Len(f) + 1] = r /\ w1[Len(w) + 1] = r
      /\ \A i \in 1 .. Len(f) : f1[i] = f[i]
      /\ \A i \in 1 .. Len(w) : w1[i] = w[i]
  OBVIOUS
<1> HIDE DEF f1, w1
<1> DEFINE k == Lost(f, b, w)
<1>3. /\ k \in Nat /\ Len(f) = k + Len(b) + Len(w) /\ Lost(f1, b, w1) = k
      /\ \A i \in 1 .. Len(b) : b[i].req = f[k + i]
      /\ \A i \in 1 .. Len(w) : w[i] = f[k + Len(b) + i]
  BY <1>1, <1>2 DEF InOrder, Lost
<1> HIDE DEF k
<1>4. \A i \in 1 .. Len(b) : b[i].req = f1[k + i]
  BY <1>1, <1>2, <1>3
<1>5. \A i \in 1 .. Len(w1) : w1[i] = f1[k + Len(b) + i]
  <2> TAKE i \in 1 .. Len(w1)
  <2>1. CASE i \in 1 .. Len(w)
    BY <1>1, <1>2, <1>3, <2>1
  <2>2. CASE i = Len(w) + 1
    BY <1>1, <1>2, <1>3, <2>2
  <2> QED
    BY <1>1, <1>2, <2>1, <2>2
<1>6. k >= 0
  BY <1>3
<1> QED
  BY <1>3, <1>4, <1>5, <1>6, Zenon DEF InOrder, f1, w1

(* The oldest answer is read: matched, and its request is done with, or    *)
(* not, and its request stays.                                             *)
LEMMA OrderRead ==
  ASSUME NEW R, NEW A, NEW f \in Seq(R), NEW b \in Seq(A), NEW w \in Seq(R),
         InOrder(f, b, w), b # << >>
  PROVE  /\ InOrder(Tail(f), Tail(b), w) /\ InOrder(f, Tail(b), w)
         /\ f # << >> /\ (Len(f) = 1 => Head(b).req = Head(f))
<1> DEFINE f1 == Tail(f)
           b1 == Tail(b)
           k == Lost(f, b, w)
<1>1. Len(f) \in Nat /\ Len(b) \in Nat \ {0} /\ Len(w) \in Nat
  BY EmptySeq
<1>2. Len(f) >= 1 /\ f # << >>
  BY <1>1, EmptySeq DEF InOrder, Lost
<1>3. /\ Len(f1) = Len(f) - 1 /\ Len(b1) = Len(b) - 1
      /\ \A i \in 1 .. Len(f1) : f1[i] = f[i + 1]
      /\ \A i \in 1 .. Len(b1) : b1[i] = b[i + 1]
      /\ Head(b) = b[1] /\ Head(f) = f[1]
  <2>1. /\ Len(f1) = Len(f) - 1
        /\ \A i \in 1 .. Len(f1) : f1[i] = f[i + 1]
    BY <1>2, HeadTailProperties, Zenon
  <2>2. /\ Len(b1) = Len(b) - 1
        /\ \A i \in 1 .. Len(b1) : b1[i] = b[i + 1]
    BY HeadTailProperties, Zenon
  <2>3. Head(b) = b[1] /\ Head(f) = f[1]
    OBVIOUS
  <2> HIDE DEF f1, b1, k
  <2> QED
    BY <2>1, <2>2, <2>3, Zenon
<1> HIDE DEF f1, b1
<1>4. /\ k \in Nat /\ Len(f) = k + Len(b) + Len(w)
      /\ Lost(f1, b1, w) = k /\ Lost(f, b1, w) = k + 1
      /\ \A i \in 1 .. Len(b) : b[i].req = f[k + i]
      /\ \A i \in 1 .. Len(w) : w[i] = f[k + Len(b) + i]
  BY <1>1, <1>3 DEF InOrder, Lost
<1> HIDE DEF k
<1>5. \A i \in 1 .. Len(b1) :
        /\ b1[i].req = f[k + 1 + i]
        /\ f[k + 1 + i] = f1[k + i]
  <2> TAKE i \in 1 .. Len(b1)
  <2>1. /\ i + 1 \in 1 .. Len(b) /\ k + i \in 1 .. Len(f1)
        /\ k + (i + 1) = k + 1 + i /\ (k + i) + 1 = k + 1 + i
    BY <1>1, <1>3, <1>4
  <2>2. b[i + 1].req = f[k + (i + 1)] /\ b1[i] = b[i + 1]
    BY <1>3, <1>4, <2>1, Zenon
  <2>3. f1[k + i] = f[(k + i) + 1]
    BY <1>3, <2>1, Zenon
  <2> QED
    BY <2>1, <2>2, <2>3, Zenon
<1>6. \A i \in 1 .. Len(w) :
        /\ w[i] = f[k + 1 + Len(b1) + i]
        /\ f[k + 1 + Len(b1) + i] = f1[k + Len(b1) + i]
  <2> TAKE i \in 1 .. Len(w)
  <2>1. /\ k + 1 + Len(b1) + i = k + Len(b) + i
        /\ k + Len(b1) + i \in 1 .. Len(f1)
        /\ (k + Len(b1) + i) + 1 = k + 1 + Len(b1) + i
    BY <1>1, <1>3, <1>4
  <2>2. w[i] = f[k + Len(b) + i]
    BY <1>4, Zenon
  <2>3. f1[k + Len(b1) + i] = f[(k + Len(b1) + i) + 1]
    BY <1>3, <2>1, Zenon
  <2> QED
    BY <2>1, <2>2, <2>3, Zenon
<1>7. k >= 0 /\ k + 1 >= 0
  BY <1>4
<1>8. Len(f) = 1 => b[1].req = f[1]
  <2>1. Len(f) = 1 => k + 1 = 1 /\ 1 \in 1 .. Len(b)
    BY <1>1, <1>4
  <2> QED
    BY <1>4, <2>1, Zenon
<1>9. InOrder(f1, b1, w)
  BY <1>4, <1>5, <1>6, <1>7, Zenon DEF InOrder
<1>10. InOrder(f, b1, w)
  BY <1>4, <1>5, <1>6, <1>7, Zenon DEF InOrder
<1> QED
  BY <1>2, <1>3, <1>8, <1>9, <1>10, Zenon DEF f1, b1

(* The oldest request not answered is answered. *)
LEMMA OrderAnswered ==
  ASSUME NEW R, NEW A, NEW f \in Seq(R), NEW b \in Seq(A), NEW w \in Seq(R), NEW x \in A,
         InOrder(f, b, w), w # << >>, x.req = Head(w)
  PROVE  InOrder(f, Append(b, x), Tail(w))
<1> DEFINE b1 == Append(b, x)
           w1 == Tail(w)
<1>1. Len(f) \in Nat /\ Len(b) \in Nat /\ Len(w) \in Nat \ {0}
  BY EmptySeq
<1>2. /\ Len(w1) = Len(w) - 1
      /\ \A i \in 1 .. Len(w1) : w1[i] = w[i + 1]
      /\ Head(w) = w[1]
  BY HeadTailProperties
<1>3. /\ Len(b1) = Len(b) + 1 /\ b1[Len(b) + 1] = x
      /\ \A i \in 1 .. Len(b) : b1[i] = b[i]
  OBVIOUS
<1> HIDE DEF b1, w1
<1> DEFINE k == Lost(f, b, w)
<1>4. /\ k \in Nat /\ Len(f) = k + Len(b) + Len(w) /\ Lost(f, b1, w1) = k
      /\ \A i \in 1 .. Len(b) : b[i].req = f[k + i]
      /\ \A i \in 1 .. Len(w) : w[i] = f[k + Len(b) + i]
  BY <1>1, <1>2, <1>3 DEF InOrder, Lost
<1> HIDE DEF k
<1>5. \A i \in 1 .. Len(b1) : b1[i].req = f[k + i]
  <2> TAKE i \in 1 .. Len(b1)
  <2>1. CASE i \in 1 .. Len(b)
    BY <1>3, <1>4, <2>1, Zenon
  <2>2. CASE i = Len(b) + 1
    <3>1. 1 \in 1 .. Len(w) /\ k + Len(b) + 1 = k + (Len(b) + 1)
      BY <1>1, <1>4
    <3>2. w[1] = f[k + (Len(b) + 1)]
      BY <1>4, <3>1, Zenon
    <3> QED
      BY <1>2, <1>3, <2>2, <3>2, Zenon
  <2> QED
    BY <1>1, <1>3, <2>1, <2>2
<1>6. \A i \in 1 .. Len(w1) : w1[i] = f[k + Len(b1) + i]
  <2> TAKE i \in 1 .. Len(w1)
  <2>1. w1[i] = w[i + 1] /\ i + 1 \in 1 .. Len(w) /\ i \in Nat
    BY <1>1, <1>2
  <2>2. w[i + 1] = f[k + Len(b) + (i + 1)]
    BY <1>4, <2>1, Zenon
  <2>3. k + Len(b) + (i + 1) = k + Len(b1) + i
    BY <1>1, <1>3, <1>4, <2>1
  <2> QED
    BY <2>1, <2>2, <2>3, Zenon
<1>7. k >= 0
  BY <1>4
<1> QED
  BY <1>4, <1>5, <1>6, <1>7, Zenon DEF InOrder, b1, w1

(* What the fields of a connection are. *)
LEMMA ConnFields ==
  ASSUME NEW c \in Conn
  PROVE  /\ c.in_flight \in Seq(Request) /\ c.wire \in Seq(Request) /\ c.back \in Seq(Answer)
         /\ c.open \in BOOLEAN
         /\ c = [open |-> c.open, in_flight |-> c.in_flight, wire |-> c.wire, back |-> c.back]
BY Zenon DEF Conn

(* A request written goes behind those in flight. *)
LEMMA WriteConn ==
  ASSUME NEW c \in Conn, Aligned(c), NEW r \in Request
  PROVE  /\ request(c, r) \in Conn /\ Aligned(request(c, r))
         /\ request(c, r).in_flight # << >>
         /\ c.in_flight = << >> => request(c, r).in_flight = << r >>
<1> DEFINE d == request(c, r)
           f == Append(c.in_flight, r)
           w == Append(c.wire, r)
<1>1. f \in Seq(Request) /\ w \in Seq(Request) /\ f # << >> /\ (c.in_flight = << >> => f = << r >>)
  <2>1. c.in_flight \in Seq(Request) /\ c.wire \in Seq(Request)
    BY ConnFields, Zenon
  <2>2. f \in Seq(Request) /\ w \in Seq(Request) /\ Len(f) = Len(c.in_flight) + 1
    BY <2>1
  <2>3. f # << >>
    BY <2>1, <2>2
  <2>4. ASSUME c.in_flight = << >> PROVE f = << r >>
    BY <2>4
  <2> QED
    BY <2>2, <2>3, <2>4, Zenon
<1>2. InOrder(f, c.back, w)
  BY ConnFields, OrderWritten, Zenon DEF Aligned
<1> HIDE DEF f, w
<1>3. d.in_flight = f /\ d.wire = w /\ d.back = c.back
  BY Zenon DEF request, f, w, Conn
<1>4. d \in Conn
  BY <1>1, Zenon DEF request, f, w, Conn
<1> HIDE DEF d
<1> QED
  BY <1>1, <1>2, <1>3, <1>4, Zenon DEF Aligned, d

(* An answer read, matched or not, leaves the rest in order; the only      *)
(* request in flight is the one it answers, and whose id it carries.       *)
LEMMA ReadConn ==
  ASSUME NEW c \in Conn, Aligned(c), c.back # << >>
  PROVE  /\ next_response(c) \in Conn /\ Aligned(next_response(c))
         /\ next_response(c).in_flight = Tail(c.in_flight)
         /\ Unmatched(c) \in Conn /\ Aligned(Unmatched(c))
         /\ Unmatched(c).in_flight = c.in_flight
         /\ c.in_flight # << >>
         /\ \A r : c.in_flight = << r >> => Head(c.back).req = r /\ Correlated(c)
<1> DEFINE d == next_response(c)
           e == Unmatched(c)
           f == Tail(c.in_flight)
           b == Tail(c.back)
<1>1. /\ InOrder(f, b, c.wire) /\ InOrder(c.in_flight, b, c.wire) /\ c.in_flight # << >>
      /\ Len(c.in_flight) = 1 => Head(c.back).req = Head(c.in_flight)
  BY ConnFields, OrderRead DEF Aligned
<1>2. f \in Seq(Request) /\ b \in Seq(Answer)
  BY <1>1, ConnFields, HeadTailProperties, Zenon
<1>3. ASSUME NEW r, c.in_flight = << r >> PROVE Head(c.back).req = r /\ Correlated(c)
  <2>1. Len(<< r >>) = 1 /\ Head(<< r >>) = r
    OBVIOUS
  <2> QED
    BY <1>1, <1>3, <2>1, Zenon DEF Correlated
<1> HIDE DEF f, b
<1>4. d.in_flight = f /\ d.wire = c.wire /\ d.back = b
  BY Zenon DEF next_response, f, b, Conn
<1>5. e.in_flight = c.in_flight /\ e.wire = c.wire /\ e.back = b
  BY Zenon DEF Unmatched, b, Conn
<1>6. d \in Conn
  BY <1>2, Zenon DEF next_response, f, b, Conn
<1>7. e \in Conn
  BY <1>2, Zenon DEF Unmatched, b, Conn
<1> HIDE DEF d, e
<1> QED
  BY <1>1, <1>3, <1>4, <1>5, <1>6, <1>7, Zenon DEF Aligned, d, e, f

(* The broker answers the oldest request it has not answered. *)
LEMMA AnswerConn ==
  ASSUME NEW c \in Conn, Aligned(c), c.wire # << >>, NEW x \in Answer, x.req = Head(c.wire)
  PROVE  LET d == [c EXCEPT !.wire = Tail(@), !.back = Append(@, x)]
         IN d \in Conn /\ Aligned(d) /\ d.in_flight = c.in_flight
<1> DEFINE d == [c EXCEPT !.wire = Tail(@), !.back = Append(@, x)]
           w == Tail(c.wire)
           b == Append(c.back, x)
<1>1. InOrder(c.in_flight, b, w)
  BY ConnFields, OrderAnswered, Zenon DEF Aligned
<1>2. w \in Seq(Request) /\ b \in Seq(Answer)
  BY ConnFields, HeadTailProperties
<1> HIDE DEF w, b
<1>3. d.in_flight = c.in_flight /\ d.wire = w /\ d.back = b
  BY Zenon DEF w, b, Conn
<1>4. d \in Conn
  BY <1>2, Zenon DEF w, b, Conn
<1> HIDE DEF d
<1> QED
  BY <1>1, <1>3, <1>4, Zenon DEF Aligned, d

-----------------------------------------------------------------------------
(* The pool. *)

(* One connection is replaced. *)
LEMMA PoolSet ==
  ASSUME Pool, NEW t \in Slot, NEW c \in Conn, Aligned(c), conns' = [conns EXCEPT ![t] = c]
  PROVE  /\ Pool' /\ conns'[t] = c
         /\ \A s \in Slot : s # t => conns'[s] = conns[s]
BY Zenon DEF Pool

(* Connections are taken out. *)
LEMMA PoolRemove ==
  ASSUME Pool, NEW S, conns' = [s \in Slot |-> IF s \in S THEN NoConn ELSE conns[s]]
  PROVE  /\ Pool'
         /\ \A s \in Slot : conns'[s] = IF s \in S THEN NoConn ELSE conns[s]
BY EmptyConn, Zenon DEF Pool

(* What may still be carried out was written on some connection. *)
LEMMA LateTyped ==
  ASSUME Pool, late \subseteq [at : Addr, req : Request], NEW S \in SUBSET Slot,
         late' = late \cup UNION {Unread(s) : s \in S}
  PROVE  late' \subseteq [at : Addr, req : Request]
<1>1. ASSUME NEW s \in Slot PROVE Unread(s) \subseteq [at : Addr, req : Request]
  <2>1. conns[s] \in Conn /\ s[2] \in Addr
    BY Zenon DEF Pool, Slot
  <2>2. \A j \in DOMAIN conns[s].wire : conns[s].wire[j] \in Request
    BY <2>1, ConnFields
  <2> QED
    BY <2>1, <2>2 DEF Unread
<1> QED
  BY <1>1, Zenon

(* A step that leaves the connections and who uses them alone. *)
LEMMA Quiet ==
  ASSUME ClientInv, Types', UNCHANGED << conns, call, abandoned, todo, outstanding, sent, owner >>
  PROVE  ClientInv'
<1>1. Pool'
  BY Zenon DEF ClientInv, Pool
<1>2. Calling'
  BY Zenon DEF ClientInv, Calling, Bootstrapping, BeingConnected, Waiting, Collecting, JustSent, Sent,
         Holds, Doing
<1>3. Recorded'
  BY Zenon DEF ClientInv, Recorded, Holds, Doing
<1>4. Accounted'
  BY Zenon DEF ClientInv, Accounted, Claimed, JustSent, Doing
<1> QED
  BY <1>1, <1>2, <1>3, <1>4, Zenon DEF ClientInv

(* Between two calls, what is in flight is the recorded prefetch, and a    *)
(* part of the next one while it is being sent.                            *)
LEMMA BetweenCalls ==
  ASSUME ClientInv, call.phase = "none"
  PROVE  \A s \in Slot \ abandoned :
           \/ conns[s].in_flight = << >>
           \/ \E a \in Addr : s = Main(a) /\ (a \in DOMAIN outstanding \/ a \in DOMAIN sent)
BY Zenon DEF ClientInv, Accounted, Claimed, JustSent

(* A Fetch written on a connection where nothing is recorded is the only   *)
(* one there, unless something was left on it.                             *)
LEMMA WriteSendInv ==
  ASSUME ClientInv, Doing("send"), outstanding = Nothing, call.phase \in {"none", "connect"},
         NEW a \in Addr \ DOMAIN sent, NEW attempt, NEW c \in Conn, Aligned(c),
         \/ c = conns[Main(a)]
         \/ c.in_flight = << >>,
         Write("send", Main(a), c, "Fetch", a, attempt),
         UNCHANGED << calls, brokerVars, late, abandoned, todo, outstanding, sent, owner, admin >>
  PROVE  ClientInv'
<1> DEFINE r == NewRequest(c, "Fetch", a)
           d == request(c, r)
           s == Main(a)
<1>1. /\ Types /\ Pool /\ Calling /\ Recorded /\ Accounted
      /\ s \in Slot /\ DOMAIN outstanding = {}
  BY MainSlot, Zenon DEF ClientInv, Nothing
<1>2. r \in Request /\ r.arg = a
  <2>1. a \in Arg /\ calls \in Nat
    BY <1>1, Zenon DEF Types, Arg
  <2>2. "Fetch" \in AnyOp
    BY Zenon DEF AnyOp, Op
  <2> QED
    BY <2>1, <2>2, NewRequestType, Zenon
<1>3. d \in Conn /\ Aligned(d) /\ d.in_flight # << >> /\ (c.in_flight = << >> => d.in_flight = << r >>)
  BY <1>2, WriteConn, Zenon
<1>4. conns' = [conns EXCEPT ![s] = d] /\ call' = Answered(r)
  BY Zenon DEF Write
<1> HIDE DEF r, d
<1>5. Pool' /\ conns'[s] = d /\ \A t \in Slot : t # s => conns'[t] = conns[t]
  BY <1>1, <1>3, <1>4, PoolSet, Zenon
<1>6. call'.phase = "done" /\ call'.result = "Ok" /\ call'.answer = r
  BY <1>4, Zenon DEF Answered
<1>7. Types'
  BY <1>1, Zenon DEF Types, brokerVars
<1>8. s \in abandoned \/ c.in_flight = << >>
  <2>1. CASE c = conns[s]
    <3>1. ~Claimed(s)
      BY <1>1, MainSlot, Zenon DEF Claimed, JustSent
    <3> QED
      BY <1>1, <2>1, <3>1, Zenon DEF Accounted
  <2> QED
    BY <2>1, Zenon
<1>9. conns'[s].in_flight # << >> /\ (s \in abandoned' \/ conns'[s].in_flight = << r >>)
  BY <1>3, <1>5, <1>8, Zenon
<1>10. Calling'
  <2>1. JustSent' /\ Sent'
    BY <1>2, <1>6, <1>9, Zenon DEF JustSent, Sent, Holds, Doing
  <2>2. owner = "consumer" => todo # << >> /\ Head(todo)[1] \in CallNames
    BY Zenon DEF Doing, CallNames
  <2> QED
    BY <1>1, <1>6, <2>1, <2>2, Zenon DEF Calling
<1>11. Recorded'
  <2>1. \A b \in DOMAIN sent : b \in Addr /\ Main(b) \in Slot /\ Main(b) # s
    BY <1>1, MainSlot, Zenon DEF Recorded
  <2> QED
    BY <1>1, <1>5, <2>1, Zenon DEF Recorded, Holds, Doing
<1>12. Accounted'
  <2> SUFFICES ASSUME NEW t \in Slot \ abandoned
               PROVE  conns'[t].in_flight = << >> \/ Claimed(t)'
    BY Zenon DEF Accounted
  <2>1. CASE t = s
    BY <1>2, <1>6, <2>1, Zenon DEF Claimed, JustSent, Doing
  <2>2. CASE t # s /\ conns[t].in_flight # << >>
    <3>1. Claimed(t)
      BY <1>1, <2>2, Zenon DEF Accounted
    <3>2. \E b \in Addr : t = Main(b) /\ b \in DOMAIN sent
      BY <1>1, <3>1, Zenon DEF Claimed, JustSent
    <3> QED
      BY <3>2, Zenon DEF Claimed
  <2> QED
    BY <1>5, <2>1, <2>2, Zenon
<1> QED
  BY <1>5, <1>7, <1>10, <1>11, <1>12, Zenon DEF ClientInv

-----------------------------------------------------------------------------
(* Calls begin and return. *)

(* A call begins (call_at, call_coordinator): it connects, is refused or   *)
(* waits, alone on its connection.                                         *)
LEMMA StartCallInv ==
  ASSUME ClientInv, NotCalling, ~Doing("send"),
         owner = "consumer" => todo # << >> /\ Head(todo)[1] \in CallNames,
         NEW s \in Slot, NEW op \in AnyOp, NEW arg \in Arg, Start("call", s, op, arg),
         UNCHANGED << calls, brokerVars, todo, outstanding, sent, owner >>,
         admin' \in AdminState
  PROVE  ClientInv'
<1>1. /\ Types /\ Pool /\ Calling /\ Recorded /\ Accounted /\ call.phase = "none"
      /\ conns[s] \in Conn /\ Aligned(conns[s])
  BY Zenon DEF ClientInv, NotCalling, Pool
<1>2. late' = late /\ abandoned' = abandoned
  BY Zenon DEF Start
<1>3. Types'
  BY <1>1, <1>2, Zenon DEF Types, brokerVars
<1>4. sent = Nothing /\ DOMAIN sent = {}
  BY <1>1, Zenon DEF Recorded, Nothing
<1>5. CASE conns' = conns /\ call' = Connecting("call", s, op, arg, 0) /\ conns[s] = NoConn
  <2>1. /\ call'.phase = "connect" /\ call'.kind = "call" /\ call'.slot = s /\ call'.op = op
        /\ call'.arg = arg /\ call'.attempt = 0
    BY <1>5, Zenon DEF Connecting
  <2>2. Pool'
    BY <1>1, <1>5, Zenon DEF Pool
  <2>3. BeingConnected' /\ ~JustSent'
    BY <1>5, <2>1, Zenon DEF BeingConnected, JustSent, Doing, Connecting
  <2>4. Calling'
    BY <1>1, <2>1, <2>3, Zenon DEF Calling
  <2>5. Recorded'
    BY <1>1, <1>2, <1>5, Zenon DEF Recorded, Holds, Doing
  <2>6. Accounted'
    BY <1>1, <1>2, <1>5, Zenon DEF Accounted, Claimed, JustSent
  <2> QED
    BY <1>3, <2>2, <2>4, <2>5, <2>6, Zenon DEF ClientInv
<1>6. CASE conns' = conns /\ call' = Busy(s, op)
  <2>1. call'.phase = "done"
    BY <1>6, Zenon DEF Busy
  <2>2. Pool'
    BY <1>1, <1>6, Zenon DEF Pool
  <2>3. Calling'
    BY <1>1, <2>1, Zenon DEF Calling, JustSent, Doing
  <2>4. Recorded'
    BY <1>1, <1>2, <1>6, Zenon DEF Recorded, Holds, Doing
  <2>5. Accounted'
    BY <1>1, <1>2, <1>6, Zenon DEF Accounted, Claimed, JustSent
  <2> QED
    BY <1>3, <2>2, <2>3, <2>4, <2>5, Zenon DEF ClientInv
<1>7. CASE in_flight(s) = 0 /\ Write("call", s, conns[s], op, arg, 0)
  <2> DEFINE r == NewRequest(conns[s], op, arg)
             c == request(conns[s], r)
  <2>1. r \in Request
    BY <1>1, NewRequestType, Zenon DEF Types
  <2>2. conns[s].in_flight = << >>
    BY <1>1, <1>7, ConnFields, EmptySeq, Zenon DEF in_flight
  <2>3. c \in Conn /\ Aligned(c) /\ c.in_flight = << r >>
    BY <1>1, <2>1, <2>2, WriteConn, Zenon
  <2>4. /\ conns' = [conns EXCEPT ![s] = c]
        /\ call' = [phase |-> "wait", slot |-> s, op |-> op, arg |-> arg,
                    attempt |-> 0, asked |-> r]
    BY <1>7, Zenon DEF Write
  <2> HIDE DEF r, c
  <2>5. Pool' /\ conns'[s] = c /\ \A t \in Slot : t # s => conns'[t] = conns[t]
    BY <1>1, <2>3, <2>4, PoolSet, Zenon
  <2>6. /\ call'.phase = "wait" /\ call'.slot = s /\ call'.op = op /\ call'.arg = arg
        /\ call'.attempt = 0 /\ call'.asked = r
    BY <2>4, Zenon
  <2>7. \A a \in DOMAIN outstanding : a \in Addr /\ Main(a) \in Slot /\ Main(a) # s
    BY <1>1, <2>2, MainSlot, Zenon DEF Recorded, Holds
  <2>8. Calling'
    <3>1. Waiting'
      BY <2>3, <2>5, <2>6, <2>7 DEF Waiting, Doing
    <3> QED
      BY <1>1, <2>6, <3>1, Zenon DEF Calling, JustSent
  <2>9. Recorded'
    BY <1>1, <1>2, <1>4, <2>5, <2>7, Zenon DEF Recorded, Holds, Doing
  <2>10. Accounted'
    <3> SUFFICES ASSUME NEW t \in Slot \ abandoned, t # s
                 PROVE  conns'[t].in_flight = << >> \/ Claimed(t)'
      BY <1>2, <2>6, Zenon DEF Accounted, Claimed
    <3> QED
      BY <1>1, <1>4, <2>5, BetweenCalls, Zenon DEF Claimed
  <2> QED
    BY <1>3, <2>5, <2>8, <2>9, <2>10, Zenon DEF ClientInv
<1> QED
  BY <1>5, <1>6, <1>7, Zenon DEF Start, MayUse

(* A call to any broker begins (call_any): on a pooled connection, or, if  *)
(* there is none, with the bootstrap addresses.                            *)
LEMMA StartAnyInv ==
  ASSUME ClientInv, NotCalling, ~Doing("send"),
         owner = "consumer" => todo # << >> /\ Head(todo)[1] \in CallNames,
         NEW op \in AnyOp, NEW arg \in Arg, StartAny(op, arg),
         UNCHANGED << calls, brokerVars, todo, outstanding, sent, owner, admin >>
  PROVE  ClientInv'
<1>1. /\ Types /\ Pool /\ Calling /\ Recorded /\ Accounted /\ call.phase = "none"
  BY Zenon DEF ClientInv, NotCalling
<1>2. CASE \E a \in Pooled : Start("call", Main(a), op, arg)
  <2>1. PICK a \in Addr : Start("call", Main(a), op, arg)
    BY <1>2, Zenon DEF Pooled
  <2> QED
    BY <1>1, <2>1, MainSlot, StartCallInv, Zenon DEF Types
<1>3. CASE /\ Pooled = {}
           /\ call' = [phase |-> "bootstrap", at |-> 1, op |-> op, arg |-> arg]
           /\ UNCHANGED << conns, late, abandoned, faults >>
  <2>1. /\ call'.phase = "bootstrap" /\ call'.at = 1 /\ call'.op = op /\ call'.arg = arg
        /\ call' = [phase |-> "bootstrap", at |-> call'.at, op |-> call'.op, arg |-> call'.arg]
    BY <1>3, Zenon
  <2>2. 1 \in 1 .. Len(Bootstrap)
    BY ClusterAssumption, EmptySeq
  <2>3. Types' /\ Pool'
    BY <1>1, <1>3, Zenon DEF Types, Pool, brokerVars
  <2>4. Calling'
    <3>1. Bootstrapping'
      BY <1>3, <2>1, <2>2, Zenon DEF Bootstrapping, Pooled, Doing
    <3> QED
      BY <1>1, <2>1, <3>1, Zenon DEF Calling, JustSent
  <2>5. Recorded'
    BY <1>1, <1>3, Zenon DEF Recorded, Holds, Doing
  <2>6. Accounted'
    BY <1>1, <1>3, Zenon DEF Accounted, Claimed, JustSent
  <2> QED
    BY <2>3, <2>4, <2>5, <2>6, Zenon DEF ClientInv
<1> QED
  BY <1>2, <1>3, Zenon DEF StartAny

(* The recorded prefetch is about to be read (recv_many). *)
LEMMA StartCollectInv ==
  ASSUME ClientInv, NotCalling, todo # << >>, Head(todo)[1] \in {"discard", "receive"},
         StartCollect(outstanding), outstanding' = Nothing,
         UNCHANGED << calls, brokerVars, todo, sent, owner, admin >>
  PROVE  ClientInv'
<1>1. /\ Types /\ Pool /\ Calling /\ Recorded /\ Accounted /\ call.phase = "none"
  BY Zenon DEF ClientInv, NotCalling
<1>2. conns' = conns /\ late' = late /\ abandoned' = abandoned
  BY Zenon DEF StartCollect
<1>3. Types' /\ Pool'
  BY <1>1, <1>2, Zenon DEF Types, Pool, brokerVars
<1>4. ~Doing("send") /\ ~Doing("send")' /\ sent = Nothing /\ DOMAIN Nothing = {}
  BY <1>1, Zenon DEF Doing, Recorded, Nothing
<1>5. Recorded'
  BY <1>1, <1>4, Zenon DEF Recorded
<1>6. CASE DOMAIN outstanding = {} /\ call' = Answered("nothing")
  <2>1. call'.phase = "done"
    BY <1>6, Zenon DEF Answered
  <2>2. Calling'
    BY <1>1, <1>4, <2>1, Zenon DEF Calling, JustSent, CallNames
  <2>3. Accounted'
    BY <1>1, <1>2, <1>4, <1>6, BetweenCalls, Zenon DEF Accounted
  <2> QED
    BY <1>3, <1>5, <2>2, <2>3, Zenon DEF ClientInv
<1>7. CASE call' = [phase |-> "collect", from |-> DOMAIN outstanding,
                    expect |-> outstanding, failed |-> FALSE]
  <2>1. /\ call'.phase = "collect" /\ call'.from = DOMAIN outstanding
        /\ call'.expect = outstanding /\ call'.failed = FALSE
    BY <1>7, Zenon
  <2>2. call' = [phase |-> "collect", from |-> call'.from, expect |-> call'.expect,
                 failed |-> call'.failed]
    BY <1>7, <2>1, Zenon
  <2>3. Collecting'
    BY <1>1, <1>2, <1>4, <2>1, <2>2, Zenon DEF Collecting, Recorded, Holds
  <2>4. Calling'
    BY <1>1, <2>1, <2>3, Zenon DEF Calling, JustSent, CallNames
  <2>5. Accounted'
    BY <1>1, <1>2, <1>4, <2>1, BetweenCalls, Zenon DEF Accounted, Claimed
  <2> QED
    BY <1>3, <1>5, <2>4, <2>5, Zenon DEF ClientInv
<1> QED
  BY <1>6, <1>7, Zenon DEF StartCollect

(* A Fetch is sent (send_at): on the connection there is, or after one     *)
(* more has been opened.                                                   *)
LEMMA SendInv ==
  ASSUME ClientInv, NotCalling, Doing("send"), outstanding = Nothing,
         NEW a \in Addr \ DOMAIN sent, Start("send", Main(a), "Fetch", a),
         UNCHANGED << calls, brokerVars, todo, outstanding, sent, owner, admin >>
  PROVE  ClientInv'
<1> DEFINE s == Main(a)
<1>1. /\ Types /\ Pool /\ Calling /\ Recorded /\ Accounted /\ call.phase = "none"
      /\ s \in Slot /\ DOMAIN outstanding = {} /\ conns[s] \in Conn /\ Aligned(conns[s])
  BY MainSlot, Zenon DEF ClientInv, NotCalling, Pool, Nothing
<1>2. \A b \in DOMAIN sent : b \in Addr /\ Main(b) \in Slot /\ Main(b) # s
  BY <1>1, MainSlot, Zenon DEF Recorded
<1>3. owner = "consumer" /\ todo # << >> /\ Head(todo)[1] \in CallNames
  BY <1>1, Zenon DEF Doing, CallNames, Calling, Types
<1>4. CASE Write("send", s, conns[s], "Fetch", a, 0) /\ UNCHANGED << late, abandoned >>
  BY <1>1, <1>4, WriteSendInv, Zenon
<1>5. ASSUME NEW n \in Nat, call' = Connecting("send", s, "Fetch", a, n),
             \/ conns[s] = NoConn /\ UNCHANGED << conns, late, abandoned >>
             \/ Removed({s})
      PROVE  ClientInv'
  <2>1. /\ call'.phase = "connect" /\ call'.kind = "send" /\ call'.slot = s
        /\ call'.op = "Fetch" /\ call'.arg = a /\ call'.attempt = n
    BY <1>5, Zenon DEF Connecting
  <2>2. /\ Pool' /\ conns'[s] = NoConn /\ \A t \in Slot : t # s => conns'[t] = conns[t]
        /\ late' \subseteq [at : Addr, req : Request]
        /\ \A t \in Slot : t # s => (t \in abandoned' <=> t \in abandoned)
    <3>1. CASE conns[s] = NoConn /\ UNCHANGED << conns, late, abandoned >>
      BY <1>1, <3>1, Zenon DEF Pool, Types
    <3>2. CASE Removed({s})
      <4>1. Pool' /\ \A t \in Slot : conns'[t] = IF t \in {s} THEN NoConn ELSE conns[t]
        BY <1>1, <3>2, PoolRemove, Zenon DEF Removed
      <4>2. late' \subseteq [at : Addr, req : Request]
        <5>1. late' = late \cup UNION {Unread(t) : t \in {s}} /\ {s} \in SUBSET Slot
          BY <1>1, <3>2, Zenon DEF Removed
        <5> QED
          BY <1>1, <5>1, LateTyped, Zenon DEF Types
      <4> QED
        BY <1>1, <3>2, <4>1, <4>2, Zenon DEF Removed
    <3> QED
      BY <1>5, <3>1, <3>2, Zenon
  <2>3. Types'
    BY <1>1, <2>2, Zenon DEF Types, brokerVars
  <2>4. BeingConnected'
    <3>1. call' = Connecting(call'.kind, call'.slot, call'.op, call'.arg, call'.attempt)
      BY <1>5, <2>1, Zenon
    <3> QED
      BY <1>1, <2>1, <2>2, <3>1, Zenon DEF BeingConnected, Doing, Arg, AnyOp, Op
  <2>5. Calling'
    BY <1>1, <1>3, <2>1, <2>4, Zenon DEF Calling, JustSent
  <2>6. Recorded'
    BY <1>1, <1>2, <2>2, Zenon DEF Recorded, Holds, Doing
  <2>7. Accounted'
    <3> SUFFICES ASSUME NEW t \in Slot \ abandoned'
                 PROVE  conns'[t].in_flight = << >> \/ Claimed(t)'
      BY Zenon DEF Accounted
    <3>1. CASE t = s
      BY <2>2, <3>1, EmptyConn, Zenon
    <3>2. CASE t # s
      BY <1>1, <2>2, <3>2, BetweenCalls, Zenon DEF Claimed
    <3> QED
      BY <3>1, <3>2, Zenon
  <2> QED
    BY <2>2, <2>3, <2>5, <2>6, <2>7, Zenon DEF ClientInv
<1> QED
  BY <1>4, <1>5, Zenon DEF Start, MayUse

-----------------------------------------------------------------------------
(* Calls end. *)

(* A call of the admin client has returned. *)
LEMMA AdminReturnsInv ==
  ASSUME ClientInv, owner = "admin", call' = NoCall,
         UNCHANGED << conns, late, abandoned, brokerVars, calls, todo, outstanding, sent, owner >>,
         call.phase = "done",
         admin' \in AdminState
  PROVE  ClientInv'
<1>1. /\ Types /\ Pool /\ Calling /\ Recorded /\ Accounted
  BY Zenon DEF ClientInv
<1>2. call'.phase = "none" /\ todo = << >> /\ ~JustSent
  BY <1>1, Zenon DEF NoCall, Calling, JustSent, Doing
<1>3. Types' /\ Pool'
  BY <1>1, Zenon DEF Types, Pool, brokerVars
<1>4. Calling'
  BY <1>1, <1>2, Zenon DEF Calling, JustSent
<1>5. Recorded'
  BY <1>1, Zenon DEF Recorded, Holds, Doing
<1>6. Accounted'
  BY <1>1, <1>2, Zenon DEF Accounted, Claimed
<1> QED
  BY <1>3, <1>4, <1>5, <1>6, Zenon DEF ClientInv

(* A call of the consumer has returned; a Fetch that was sent is recorded, *)
(* at the latest when the operation fails.                                 *)
LEMMA ConsumerReturnsInv ==
  ASSUME ClientInv, owner = "consumer", CallReturns, UNCHANGED << owner, admin >>
  PROVE  ClientInv'
<1>1. /\ Types /\ Pool /\ Calling /\ Recorded /\ Accounted
      /\ call' = NoCall /\ call.phase = "done" /\ todo # << >>
      /\ UNCHANGED << conns, late, abandoned, brokerVars, calls >>
  BY Zenon DEF ClientInv, CallReturns, Returned, discarded, received, refreshed, found,
         member_answered, offsets_answered, listed, fetch_sent
<1>2. call'.phase = "none"
  BY <1>1, Zenon DEF NoCall
<1>3. Types' /\ Pool'
  BY <1>1, Zenon DEF Types, Pool, brokerVars
<1>4. Calling'
  BY <1>1, <1>2, Zenon DEF Calling, JustSent
<1>5. \/ Fails /\ ~JustSent
      \/ outstanding' = outstanding /\ sent' = sent /\ ~Doing("send")
      \/ /\ JustSent /\ fetch_sent
  BY <1>1, Zenon DEF CallReturns, Returned, discarded, received, refreshed, found,
         member_answered, offsets_answered, listed, fetch_sent, JustSent, Doing, GoesOn, Retries
<1>6. DOMAIN Nothing = {}
  BY Zenon DEF Nothing
<1>7. CASE Fails /\ ~JustSent
  <2>1. CASE sent = Nothing
    <3>1. outstanding' = outstanding /\ sent' = Nothing
      BY <1>7, <2>1, Zenon DEF Fails
    <3>2. Recorded'
      BY <1>1, <1>6, <3>1, Zenon DEF Recorded, Holds
    <3>3. Accounted'
      BY <1>1, <1>6, <1>7, <2>1, <3>1, Zenon DEF Accounted, Claimed
    <3> QED
      BY <1>3, <1>4, <3>2, <3>3, Zenon DEF ClientInv
  <2>2. CASE sent # Nothing
    <3>1. outstanding' = sent /\ sent' = Nothing /\ outstanding = Nothing
      BY <1>1, <1>7, <2>2, Zenon DEF Fails, Recorded
    <3>2. Recorded'
      BY <1>1, <1>6, <3>1, Zenon DEF Recorded, Holds
    <3>3. Accounted'
      BY <1>1, <1>6, <1>7, <3>1, Zenon DEF Accounted, Claimed
    <3> QED
      BY <1>3, <1>4, <3>2, <3>3, Zenon DEF ClientInv
  <2> QED
    BY <2>1, <2>2, Zenon
<1>8. CASE outstanding' = outstanding /\ sent' = sent /\ ~Doing("send")
  <2>1. sent = Nothing /\ ~JustSent
    BY <1>1, <1>8, Zenon DEF Recorded, JustSent
  <2>2. Recorded'
    BY <1>1, <1>8, <2>1, Zenon DEF Recorded, Holds
  <2>3. Accounted'
    BY <1>1, <1>8, <2>1, Zenon DEF Accounted, Claimed
  <2> QED
    BY <1>3, <1>4, <2>2, <2>3, Zenon DEF ClientInv
<1>9. CASE JustSent /\ fetch_sent
  <2> DEFINE x == call.answer
             all == [a \in DOMAIN sent \cup {x.arg} |-> IF a \in DOMAIN sent THEN sent[a] ELSE x]
  <2>1. /\ x.arg \in Addr \ DOMAIN sent /\ Holds(x.arg, x) /\ outstanding = Nothing
    BY <1>1, <1>9, Zenon DEF Calling, Sent
  <2>2. \/ outstanding' = all /\ sent' = Nothing
        \/ outstanding' = Nothing /\ sent' = all /\ todo' = todo
    BY <1>9, <2>1, Zenon DEF fetch_sent, JustSent
  <2>3. DOMAIN all = DOMAIN sent \cup {x.arg} /\ DOMAIN all \subseteq Addr
    BY <1>1, <2>1, Zenon DEF Recorded
  <2>4. \A a \in DOMAIN all : Holds(a, all[a])
    BY <1>1, <2>1, Zenon DEF Recorded
  <2> HIDE DEF all
  <2>5. \A a \in DOMAIN all : /\ conns'[Main(a)].in_flight # << >>
                              /\ Main(a) \in abandoned' \/ conns'[Main(a)].in_flight = << all[a] >>
    BY <1>1, <2>4, Zenon DEF Holds
  <2>6. Doing("send")
    BY <1>9, Zenon DEF JustSent
  <2>7. Recorded'
    <3>1. CASE outstanding' = all /\ sent' = Nothing
      BY <1>6, <2>3, <2>5, <3>1, Zenon DEF Recorded, Holds
    <3>2. CASE outstanding' = Nothing /\ sent' = all /\ todo' = todo
      BY <1>6, <2>3, <2>5, <2>6, <3>2, Zenon DEF Recorded, Holds, Doing
    <3> QED
      BY <2>2, <3>1, <3>2, Zenon
  <2>8. Accounted'
    <3> SUFFICES ASSUME NEW t \in Slot \ abandoned, conns[t].in_flight # << >>
                 PROVE  Claimed(t)'
      BY <1>1, Zenon DEF Accounted
    <3>1. Claimed(t)
      BY <1>1, Zenon DEF Accounted
    <3>2. PICK a \in Addr : t = Main(a) /\ a \in DOMAIN all
      BY <1>1, <1>6, <2>1, <2>3, <3>1, Zenon DEF Claimed
    <3> QED
      BY <2>2, <3>2, Zenon DEF Claimed
  <2> QED
    BY <1>3, <1>4, <2>7, <2>8, Zenon DEF ClientInv
<1> QED
  BY <1>5, <1>7, <1>8, <1>9, Zenon

-----------------------------------------------------------------------------
(* Calls in progress. *)

(* A call gives up before it has a connection. *)
LEMMA GivesUpInv ==
  ASSUME ClientInv, call.phase \in {"bootstrap", "connect"}, NEW result, result # "Ok",
         call' = Failed(result),
         UNCHANGED << conns, late, abandoned, brokerVars, calls, todo, outstanding, sent, owner, admin >>
  PROVE  ClientInv'
<1>1. Types /\ Pool /\ Calling /\ Recorded /\ Accounted
  BY Zenon DEF ClientInv
<1>2. call'.phase = "done" /\ ~JustSent' /\ ~JustSent
  BY Zenon DEF Failed, JustSent
<1>3. Types' /\ Pool'
  BY <1>1, Zenon DEF Types, Pool, brokerVars
<1>4. Calling'
  BY <1>1, <1>2, Zenon DEF Calling
<1>5. Recorded'
  BY <1>1, Zenon DEF Recorded, Holds, Doing
<1>6. Accounted'
  BY <1>1, <1>2, Zenon DEF Accounted, Claimed
<1> QED
  BY <1>3, <1>4, <1>5, <1>6, Zenon DEF ClientInv

(* The request of a call is written on a new connection, and waited for. *)
LEMMA WriteFreshInv ==
  ASSUME ClientInv, call.phase \in {"bootstrap", "connect"}, ~Doing("send"),
         NEW s \in Slot, conns[s] = NoConn,
         NEW op \in AnyOp, NEW arg \in Arg, NEW attempt \in Nat,
         Write("call", s, Fresh, op, arg, attempt),
         UNCHANGED << late, abandoned, brokerVars, calls, todo, outstanding, sent, owner, admin >>
  PROVE  ClientInv'
<1> DEFINE r == NewRequest(Fresh, op, arg)
           c == request(Fresh, r)
<1>1. Types /\ Pool /\ Calling /\ Recorded /\ Accounted
  BY Zenon DEF ClientInv
<1>2. r \in Request
  BY <1>1, EmptyConn, NewRequestType, Zenon DEF Types
<1>3. c \in Conn /\ Aligned(c) /\ c.in_flight = << r >>
  BY <1>2, EmptyConn, WriteConn, Zenon
<1>4. /\ conns' = [conns EXCEPT ![s] = c]
      /\ call' = [phase |-> "wait", slot |-> s, op |-> op, arg |-> arg,
                  attempt |-> attempt, asked |-> r]
  BY Zenon DEF Write
<1> HIDE DEF r, c
<1>5. Pool' /\ conns'[s] = c /\ \A t \in Slot : t # s => conns'[t] = conns[t]
  BY <1>1, <1>3, <1>4, PoolSet, Zenon
<1>6. /\ call'.phase = "wait" /\ call'.slot = s /\ call'.op = op /\ call'.arg = arg
      /\ call'.attempt = attempt /\ call'.asked = r
  BY <1>4, Zenon
<1>7. Types'
  BY <1>1, Zenon DEF Types, brokerVars
<1>8. sent = Nothing /\ DOMAIN sent = {}
  BY <1>1, Zenon DEF Recorded, Nothing
<1>9. \A a \in DOMAIN outstanding : a \in Addr /\ Main(a) \in Slot /\ Main(a) # s
  BY <1>1, EmptyConn, MainSlot, Zenon DEF Recorded, Holds
<1>10. Calling'
  <2>1. Waiting'
    BY <1>3, <1>5, <1>6, <1>9, Zenon DEF Waiting, Doing
  <2> QED
    BY <1>1, <1>6, <2>1, Zenon DEF Calling, JustSent
<1>11. Recorded'
  BY <1>1, <1>8, <1>5, <1>9, Zenon DEF Recorded, Holds, Doing
<1>12. Accounted'
  <2> SUFFICES ASSUME NEW t \in Slot \ abandoned, t # s, conns[t].in_flight # << >>
               PROVE  Claimed(t)'
    BY <1>5, <1>6, Zenon DEF Accounted, Claimed
  <2>1. \E a \in Addr : t = Main(a) /\ a \in DOMAIN outstanding
    BY <1>1, <1>8, Zenon DEF Accounted, Claimed, JustSent
  <2> QED
    BY <2>1, Zenon DEF Claimed
<1> QED
  BY <1>5, <1>7, <1>10, <1>11, <1>12, Zenon DEF ClientInv

(* any_broker_addr. *)
LEMMA BootstrapInv ==
  ASSUME ClientInv, BootstrapConnects \/ BootstrapFails,
         UNCHANGED << consumerVars, admin, owner >>
  PROVE  ClientInv'
<1>1. /\ Types /\ Pool /\ Calling /\ Recorded /\ Accounted
      /\ call.phase = "bootstrap" /\ Bootstrapping
      /\ UNCHANGED << late, abandoned, brokerVars, calls, todo, outstanding, sent >>
  BY Zenon DEF ClientInv, Calling, BootstrapConnects, BootstrapFails, consumerVars
<1>2. CASE BootstrapConnects
  <2> DEFINE b == Bootstrap[call.at]
  <2>1. b \in Addr
    BY <1>1, ClusterAssumption DEF Bootstrapping
  <2>2. Main(b) \in Slot /\ conns[Main(b)] = NoConn
    BY <1>1, <2>1, MainSlot, Zenon DEF Bootstrapping
  <2>3. Write("call", Main(b), Fresh, call.op, call.arg, 0)
    BY <1>2, Zenon DEF BootstrapConnects
  <2> HIDE DEF b
  <2> QED
    BY <1>1, <2>2, <2>3, WriteFreshInv, Zenon DEF Bootstrapping
<1>3. CASE BootstrapFails /\ call' = Failed("Connect")
  BY <1>1, <1>3, GivesUpInv, Zenon DEF BootstrapFails
<1>4. CASE BootstrapFails /\ call' # Failed("Connect")
  <2>1. call.at < Len(Bootstrap) /\ call' = [call EXCEPT !.at = @ + 1] /\ conns' = conns
    BY <1>4, Zenon DEF BootstrapFails
  <2>2. /\ call'.phase = "bootstrap" /\ call'.at = call.at + 1 /\ call'.op = call.op
        /\ call'.arg = call.arg
        /\ call' = [phase |-> "bootstrap", at |-> call'.at, op |-> call'.op, arg |-> call'.arg]
    BY <1>1, <2>1, Zenon DEF Bootstrapping
  <2>3. call'.at \in 1 .. Len(Bootstrap)
    BY <1>1, <2>1, <2>2, ClusterAssumption DEF Bootstrapping
  <2>4. Types' /\ Pool'
    BY <1>1, <2>1, Zenon DEF Types, Pool, brokerVars
  <2>5. Calling'
    <3>1. Bootstrapping'
      BY <1>1, <2>1, <2>2, <2>3, Zenon DEF Bootstrapping, Doing
    <3> QED
      BY <1>1, <2>2, <3>1, Zenon DEF Calling, JustSent
  <2>6. Recorded'
    BY <1>1, <2>1, Zenon DEF Recorded, Holds, Doing
  <2>7. Accounted'
    BY <1>1, <2>1, <2>2, Zenon DEF Accounted, Claimed, JustSent
  <2> QED
    BY <2>4, <2>5, <2>6, <2>7, Zenon DEF ClientInv
<1> QED
  BY <1>2, <1>3, <1>4, Zenon

(* broker_at: a call, or a send, is given a new connection. *)
LEMMA ConnectInv ==
  ASSUME ClientInv, Connects \/ ConnectFails, UNCHANGED << consumerVars, admin, owner >>
  PROVE  ClientInv'
<1>1. /\ Types /\ Pool /\ Calling /\ Recorded /\ Accounted
      /\ call.phase = "connect" /\ BeingConnected
      /\ UNCHANGED << late, abandoned, brokerVars, calls, todo, outstanding, sent >>
  BY Zenon DEF ClientInv, Calling, Connects, ConnectFails, consumerVars
<1>2. CASE Write(call.kind, call.slot, Fresh, call.op, call.arg, call.attempt)
  <2>1. CASE call.kind = "call"
    <3>1. ~Doing("send")
      BY <1>1, <2>1, Zenon DEF BeingConnected
    <3>2. Write("call", call.slot, Fresh, call.op, call.arg, call.attempt)
      BY <1>2, <2>1, Zenon
    <3> QED
      BY <1>1, <3>1, <3>2, WriteFreshInv, Zenon DEF BeingConnected
  <2>2. CASE call.kind = "send" /\ call.op = "Fetch"
    <3>1. /\ call.arg \in Addr \ DOMAIN sent /\ Doing("send") /\ outstanding = Nothing
          /\ call.slot = Main(call.arg)
      BY <1>1, <2>2, Zenon DEF BeingConnected
    <3>2. Write("send", Main(call.arg), Fresh, "Fetch", call.arg, call.attempt)
      BY <1>2, <2>2, <3>1, Zenon
    <3> QED
      BY <1>1, <3>1, <3>2, EmptyConn, WriteSendInv, Zenon
  <2> QED
    BY <1>1, <2>1, <2>2, Zenon DEF BeingConnected
<1>3. CASE call' = [call EXCEPT !.attempt = 1] /\ conns' = conns
  <2>1. /\ call'.phase = "connect" /\ call'.kind = call.kind /\ call'.slot = call.slot
        /\ call'.op = call.op /\ call'.arg = call.arg /\ call'.attempt = 1
        /\ call' = Connecting(call'.kind, call'.slot, call'.op, call'.arg, call'.attempt)
    BY <1>1, <1>3, Zenon DEF BeingConnected, Connecting
  <2>2. Types' /\ Pool'
    BY <1>1, <1>3, Zenon DEF Types, Pool, brokerVars
  <2>3. Calling'
    <3>1. BeingConnected'
      BY <1>1, <1>3, <2>1 DEF BeingConnected, Doing
    <3> QED
      BY <1>1, <2>1, <3>1, Zenon DEF Calling, JustSent
  <2>4. Recorded'
    BY <1>1, <1>3, Zenon DEF Recorded, Holds, Doing
  <2>5. Accounted'
    BY <1>1, <1>3, <2>1, Zenon DEF Accounted, Claimed, JustSent
  <2> QED
    BY <2>2, <2>3, <2>4, <2>5, Zenon DEF ClientInv
<1>4. ASSUME NEW result \in {"Io", "Connect"}, call' = Failed(result), conns' = conns
      PROVE  ClientInv'
  BY <1>1, <1>4, GivesUpInv, Zenon
<1> QED
  BY <1>2, <1>3, <1>4, Zenon DEF Connects, ConnectFails

(* A call is over, or connects anew, and leaves nothing on its connection  *)
(* that is not known to be there.                                          *)
LEMMA CallLeavesInv ==
  ASSUME ClientInv, call.phase = "wait", NEW s \in Slot, s = call.slot,
         Pool', s \in abandoned' \/ conns'[s].in_flight = << >>,
         \A t \in Slot : t # s => conns'[t] = conns[t] /\ (t \in abandoned' <=> t \in abandoned),
         late' \subseteq [at : Addr, req : Request],
         \/ call'.phase = "done"
         \/ /\ call' = Connecting("call", s, call.op, call.arg, 1)
            /\ conns'[s] = NoConn,
         UNCHANGED << brokerVars, calls, todo, outstanding, sent, owner, admin >>
  PROVE  ClientInv'
<1>1. Types /\ Pool /\ Calling /\ Recorded /\ Accounted /\ Waiting
  BY Zenon DEF ClientInv, Calling
<1>2. ~Doing("send") /\ ~Doing("send")' /\ sent = Nothing /\ DOMAIN sent = {} /\ ~JustSent'
  BY <1>1, Zenon DEF Waiting, Recorded, Nothing, Doing, JustSent
<1>3. \A a \in DOMAIN outstanding : a \in Addr /\ Main(a) \in Slot /\ Main(a) # s
  BY <1>1, MainSlot, Zenon DEF Waiting, Recorded
<1>4. Types'
  BY <1>1, Zenon DEF Types, brokerVars
<1>5. Recorded'
  BY <1>1, <1>2, <1>3, Zenon DEF Recorded, Holds
<1>6. Accounted'
  <2> SUFFICES ASSUME NEW t \in Slot \ abandoned', t # s, conns[t].in_flight # << >>
               PROVE  Claimed(t)'
    BY Zenon DEF Accounted
  <2>1. \E a \in Addr : t = Main(a) /\ a \in DOMAIN outstanding
    BY <1>1, <1>2, Zenon DEF Accounted, Claimed, JustSent
  <2> QED
    BY <2>1, Zenon DEF Claimed
<1>7. Calling'
  <2>1. CASE call'.phase = "done"
    BY <1>1, <1>2, <2>1, Zenon DEF Calling
  <2>2. CASE call' = Connecting("call", s, call.op, call.arg, 1) /\ conns'[s] = NoConn
    <3>1. /\ call'.phase = "connect" /\ call'.kind = "call" /\ call'.slot = s
          /\ call'.op = call.op /\ call'.arg = call.arg /\ call'.attempt = 1
      BY <2>2, Zenon DEF Connecting
    <3>2. call' = Connecting(call'.kind, call'.slot, call'.op, call'.arg, call'.attempt)
      BY <2>2, <3>1, Zenon
    <3>3. BeingConnected'
      <4>1. call'.attempt \in Nat
        BY <3>1
      <4> QED
        BY <1>1, <1>2, <2>2, <3>1, <3>2, <4>1, Zenon DEF BeingConnected, Waiting
    <3> QED
      BY <1>1, <1>2, <3>1, <3>3, Zenon DEF Calling
  <2> QED
    BY <2>1, <2>2, Zenon
<1> QED
  BY <1>4, <1>5, <1>6, <1>7, Zenon DEF ClientInv

(* Connections taken out of the pool leave the others as they were. *)
LEMMA RemovedPool ==
  ASSUME Types, Pool, NEW t \in Slot, Removed({t})
  PROVE  /\ Pool' /\ conns'[t] = NoConn /\ conns'[t].in_flight = << >>
         /\ \A u \in Slot : u # t => conns'[u] = conns[u] /\ (u \in abandoned' <=> u \in abandoned)
         /\ late' \subseteq [at : Addr, req : Request]
<1>1. Pool' /\ \A u \in Slot : conns'[u] = IF u \in {t} THEN NoConn ELSE conns[u]
  BY PoolRemove, Zenon DEF Removed
<1>2. late' = late \cup UNION {Unread(u) : u \in {t}} /\ {t} \in SUBSET Slot
  BY Zenon DEF Removed
<1>3. late' \subseteq [at : Addr, req : Request]
  BY <1>2, LateTyped, Zenon DEF Types
<1> QED
  BY <1>1, <1>3, EmptyConn, Zenon DEF Removed

(* An answer is read: matched, or not, and then its request is known to be *)
(* left.                                                                   *)
LEMMA RecvPool ==
  ASSUME Pool, NEW s \in Slot, NEW ok \in BOOLEAN, recv(s, ok)
  PROVE  /\ Pool'
         /\ \A r : conns[s].in_flight = << r >> => s \in abandoned' \/ conns'[s].in_flight = << >>
         /\ s \in abandoned => s \in abandoned'
         /\ \A t \in Slot : t # s => conns'[t] = conns[t] /\ (t \in abandoned' <=> t \in abandoned)
<1> DEFINE c == conns[s]
<1>1. c \in Conn /\ Aligned(c) /\ c.back # << >>
  BY Zenon DEF Pool, recv
<1>2. /\ next_response(c) \in Conn /\ Aligned(next_response(c))
      /\ next_response(c).in_flight = Tail(c.in_flight)
      /\ Unmatched(c) \in Conn /\ Aligned(Unmatched(c))
  BY <1>1, ReadConn, Zenon
<1>3. CASE conns' = [conns EXCEPT ![s] = next_response(c)] /\ abandoned' = abandoned
  <2>1. /\ Pool' /\ conns'[s] = next_response(c)
        /\ \A t \in Slot : t # s => conns'[t] = conns[t]
    BY <1>2, <1>3, PoolSet, Zenon
  <2>2. \A r : c.in_flight = << r >> => Tail(c.in_flight) = << >>
    OBVIOUS
  <2> QED
    BY <1>2, <1>3, <2>1, <2>2, Zenon
<1>4. CASE conns' = [conns EXCEPT ![s] = Unmatched(c)] /\ abandoned' = abandoned \cup {s}
  <2>1. Pool' /\ \A t \in Slot : t # s => conns'[t] = conns[t]
    BY <1>2, <1>4, PoolSet, Zenon
  <2> QED
    BY <1>4, <2>1, Zenon
<1> QED
  BY <1>3, <1>4, Zenon DEF recv

(* The answer of a call is read, its connection breaks, or it takes too    *)
(* long.                                                                   *)
LEMMA WaitInv ==
  ASSUME ClientInv, Receives \/ Breaks \/ TimesOut, UNCHANGED << consumerVars, admin, owner >>
  PROVE  ClientInv'
<1> DEFINE s == call.slot
<1>1. /\ Types /\ Pool /\ call.phase = "wait" /\ Waiting /\ s \in Slot
      /\ conns[s] \in Conn /\ Aligned(conns[s]) /\ conns[s].in_flight = << call.asked >>
      /\ UNCHANGED << brokerVars, calls, todo, outstanding, sent >>
  BY Zenon DEF ClientInv, Calling, Waiting, Pool, Receives, Breaks, TimesOut, consumerVars
<1>2. CASE Receives
  <2>1. PICK ok \in BOOLEAN :
          /\ recv(s, ok)
          /\ call' = IF ok THEN Answered(Head(conns[s].back)) ELSE Failed("Codec")
    BY <1>2, Zenon DEF Receives
  <2>2. call'.phase = "done" /\ late' = late
    BY <1>2, <2>1, Zenon DEF Receives, Answered, Failed
  <2>3. /\ Pool' /\ (s \in abandoned' \/ conns'[s].in_flight = << >>)
        /\ \A t \in Slot : t # s => conns'[t] = conns[t] /\ (t \in abandoned' <=> t \in abandoned)
    BY <1>1, <2>1, RecvPool, Zenon
  <2> QED
    BY <1>1, <2>2, <2>3, CallLeavesInv, Zenon DEF Types
<1>3. CASE Breaks
  <2>1. Removed({s})
    BY <1>3, Zenon DEF Breaks
  <2>2. \/ call' = Connecting("call", s, call.op, call.arg, 1)
        \/ call'.phase = "done"
    BY <1>3, Zenon DEF Breaks, Failed
  <2> QED
    BY <1>1, <2>1, <2>2, RemovedPool, CallLeavesInv, Zenon
<1>4. CASE TimesOut
  <2>1. Removed({s})
    BY <1>4, Zenon DEF TimesOut
  <2>2. call'.phase = "done"
    BY <1>4, Zenon DEF TimesOut, Failed
  <2> QED
    BY <1>1, <2>1, <2>2, RemovedPool, CallLeavesInv, Zenon
<1> QED
  BY <1>2, <1>3, <1>4, Zenon

(* One of the answers of a collection has been dealt with. *)
LEMMA CollectedInv ==
  ASSUME ClientInv, call.phase = "collect", NEW a \in call.from, NEW failed, Collected(a, failed),
         Pool', Main(a) \in abandoned' \/ conns'[Main(a)].in_flight = << >>,
         \A t \in Slot : t # Main(a) => conns'[t] = conns[t] /\ (t \in abandoned' <=> t \in abandoned),
         late' \subseteq [at : Addr, req : Request],
         UNCHANGED << brokerVars, calls, todo, outstanding, sent, owner, admin >>
  PROVE  ClientInv'
<1>1. /\ Types /\ Pool /\ Calling /\ Recorded /\ Accounted /\ Collecting
  BY Zenon DEF ClientInv, Calling
<1>2. /\ ~Doing("send") /\ ~Doing("send")' /\ ~JustSent /\ ~JustSent'
      /\ sent = Nothing /\ outstanding = Nothing /\ DOMAIN Nothing = {}
  BY <1>1, Zenon DEF Collecting, Recorded, Nothing, Doing, JustSent
<1>3. Types'
  BY <1>1, Zenon DEF Types, brokerVars
<1>4. Recorded'
  BY <1>2, Zenon DEF Recorded
<1>5. \A b \in call.from : b \in Addr /\ Main(b) \in Slot /\ (Main(b) = Main(a) => b = a)
  BY <1>1, MainSlot, Zenon DEF Collecting
<1>6. CASE call.from \ {a} # {}
  <2> DEFINE rest == call.from \ {a}
             bad == call.failed \/ failed
  <2>1. call' = [call EXCEPT !.from = rest, !.failed = bad]
    BY <1>6, Zenon DEF Collected
  <2>2. /\ call'.phase = "collect" /\ call'.from = rest /\ call'.expect = call.expect
        /\ call' = [phase |-> "collect", from |-> call'.from, expect |-> call'.expect,
                    failed |-> call'.failed]
    BY <1>1, <2>1, Zenon DEF Collecting
  <2>3. Collecting'
    BY <1>1, <1>2, <1>5, <2>2, Zenon DEF Collecting, Holds
  <2>4. Calling'
    BY <1>1, <1>2, <2>2, <2>3, Zenon DEF Calling
  <2>5. Accounted'
    <3> SUFFICES ASSUME NEW t \in Slot \ abandoned', t # Main(a), conns[t].in_flight # << >>
                 PROVE  Claimed(t)'
      BY Zenon DEF Accounted
    <3>1. \E b \in Addr : t = Main(b) /\ b \in call.from
      BY <1>1, <1>2, Zenon DEF Accounted, Claimed
    <3> QED
      BY <2>2, <3>1, Zenon DEF Claimed
  <2> QED
    BY <1>3, <1>4, <2>4, <2>5, Zenon DEF ClientInv
<1>7. CASE call.from \ {a} = {}
  <2>1. call'.phase = "done"
    BY <1>7, Zenon DEF Collected, Failed, Answered
  <2>2. Calling'
    BY <1>1, <1>2, <2>1, Zenon DEF Calling
  <2>3. Accounted'
    <3> SUFFICES ASSUME NEW t \in Slot \ abandoned', t # Main(a), conns[t].in_flight # << >>
                 PROVE  FALSE
      BY Zenon DEF Accounted
    <3>1. \E b \in Addr : t = Main(b) /\ b \in call.from
      BY <1>1, <1>2, Zenon DEF Accounted, Claimed
    <3> QED
      BY <1>7, <3>1, Zenon
  <2> QED
    BY <1>3, <1>4, <2>2, <2>3, Zenon DEF ClientInv
<1> QED
  BY <1>6, <1>7, Zenon

(* recv_many reads an answer, or gives a connection up. *)
LEMMA CollectsInv ==
  ASSUME ClientInv, NEW a \in Addr, Collects(a), UNCHANGED << consumerVars, admin, owner >>
  PROVE  ClientInv'
<1> DEFINE s == Main(a)
           c == conns[s]
<1>1. /\ Types /\ Pool /\ call.phase = "collect" /\ a \in call.from /\ Collecting
      /\ s \in Slot /\ c \in Conn /\ Aligned(c) /\ Holds(a, call.expect[a])
      /\ UNCHANGED << brokerVars, calls, todo, outstanding, sent >>
  BY MainSlot, Zenon DEF ClientInv, Calling, Collecting, Pool, Collects, consumerVars
<1>2. c # NoConn
  BY <1>1, EmptyConn, Zenon DEF Holds
<1>3. CASE \E ok \in BOOLEAN : recv(s, ok) /\ Collected(a, ~ok) /\ UNCHANGED late
  <2>1. PICK ok \in BOOLEAN : recv(s, ok) /\ Collected(a, ~ok) /\ UNCHANGED late
    BY <1>3, Zenon
  <2>2. /\ Pool' /\ (s \in abandoned' \/ conns'[s].in_flight = << >>)
        /\ \A t \in Slot : t # s => conns'[t] = conns[t] /\ (t \in abandoned' <=> t \in abandoned)
    BY <1>1, <2>1, RecvPool, Zenon DEF Holds
  <2> QED
    BY <1>1, <2>1, <2>2, CollectedInv, Zenon DEF Types
<1>4. CASE Removed({s}) /\ Collected(a, TRUE)
  BY <1>1, <1>4, RemovedPool, CollectedInv, Zenon
<1> QED
  BY <1>2, <1>3, <1>4, Zenon DEF Collects


-----------------------------------------------------------------------------
(* The caller, the brokers and the rest of the world. *)

(* An operation's future is dropped: what is left on a connection is known *)
(* to be there.                                                            *)
LEMMA AbandonInv ==
  ASSUME ClientInv, ~JustSent, NEW U, \A a \in DOMAIN sent : Main(a) \in U, Abandon(U),
         todo' = << >>, sent' = Nothing,
         UNCHANGED << brokerVars, calls, outstanding, owner >>,
         admin' \in AdminState
  PROVE  ClientInv'
<1> DEFINE taken == IF call.phase = "collect" THEN {Main(a) : a \in DOMAIN call.expect} ELSE {}
           left == IF call.phase = "wait" THEN {call.slot} ELSE {}
<1>1. /\ Types /\ Pool /\ Calling /\ Recorded /\ Accounted /\ DOMAIN Nothing = {}
  BY Zenon DEF ClientInv, Nothing
<1>2. /\ conns' = [s \in Slot |-> IF s \in taken THEN NoConn ELSE conns[s]]
      /\ late' = late \cup UNION {Unread(s) : s \in taken}
      /\ abandoned' = (abandoned \cup left \cup U) \ taken
      /\ call' = NoCall
  BY Zenon DEF Abandon
<1>3. taken \in SUBSET Slot
  BY <1>1, MainSlot DEF Calling, Collecting
<1>4. DOMAIN outstanding # {} => taken = {}
  BY <1>1, Zenon DEF Calling, Collecting
<1>5. call.phase = "collect" => \A a \in call.from : Main(a) \in taken
  BY <1>1, Zenon DEF Calling, Collecting
<1>6. call.phase = "wait" => call.slot \in left
  BY Zenon
<1> HIDE DEF taken, left
<1>7. Pool' /\ \A s \in Slot : conns'[s] = IF s \in taken THEN NoConn ELSE conns[s]
  BY <1>1, <1>2, PoolRemove, Zenon
<1>8. Types'
  BY <1>1, <1>2, <1>3, LateTyped, Zenon DEF Types, brokerVars
<1>9. call'.phase = "none"
  BY <1>2, Zenon DEF NoCall
<1>10. Calling'
  BY <1>1, <1>9, Zenon DEF Calling, JustSent
<1>11. Recorded'
  <2>1. ASSUME NEW a \in DOMAIN outstanding PROVE Holds(a, outstanding[a])'
    BY <1>1, <1>2, <1>4, <1>7, MainSlot, Zenon DEF Recorded, Holds
  <2> QED
    BY <1>1, <2>1, Zenon DEF Recorded
<1>12. Accounted'
  <2> SUFFICES ASSUME NEW t \in Slot \ abandoned', t \notin taken, conns[t].in_flight # << >>
               PROVE  Claimed(t)'
    BY <1>7, EmptyConn, Zenon DEF Accounted
  <2>1. t \notin abandoned /\ t \notin left /\ t \notin U
    BY <1>2, Zenon
  <2>2. Claimed(t)
    BY <1>1, <2>1, Zenon DEF Accounted
  <2>3. \E a \in Addr : t = Main(a) /\ a \in DOMAIN outstanding
    BY <1>5, <1>6, <2>1, <2>2, Zenon DEF Claimed
  <2> QED
    BY <2>3, Zenon DEF Claimed
<1> QED
  BY <1>7, <1>8, <1>10, <1>11, <1>12, Zenon DEF ClientInv

(* A step that leaves what is in flight alone. *)
LEMMA InFlightKept ==
  ASSUME ClientInv, Types', Pool',
         \A t \in Slot : /\ conns'[t].in_flight = conns[t].in_flight
                         /\ conns[t] = NoConn => conns'[t] = NoConn,
         UNCHANGED << call, abandoned, todo, outstanding, sent, owner >>
  PROVE  ClientInv'
<1>1. Calling /\ Recorded /\ Accounted
  BY Zenon DEF ClientInv
<1>2. \A a \in Addr : \A r : Holds(a, r) => Holds(a, r)'
  BY MainSlot, Zenon DEF Holds
<1>3. Recorded'
  BY <1>1, <1>2, Zenon DEF Recorded, Doing
<1>4. Calling'
  <2>1. Bootstrapping => Bootstrapping'
    BY MainSlot, Zenon DEF Bootstrapping, Doing
  <2>2. BeingConnected => BeingConnected'
    BY Zenon DEF BeingConnected, Doing
  <2>3. Waiting => Waiting'
    BY Zenon DEF Waiting, Doing
  <2>4. Collecting => Collecting'
    BY <1>2, Zenon DEF Collecting, Doing
  <2>5. Sent => Sent'
    BY <1>2, Zenon DEF Sent
  <2> QED
    BY <1>1, <2>1, <2>2, <2>3, <2>4, <2>5, Zenon DEF Calling, JustSent, Doing
<1>5. Accounted'
  BY <1>1, Zenon DEF Accounted, Claimed, JustSent, Doing
<1> QED
  BY <1>3, <1>4, <1>5, Zenon DEF ClientInv

(* What a broker answers, and what it makes of the topic. *)
LEMMA AnswerTyped ==
  ASSUME Types, NEW a \in Addr, NEW r \in Request
  PROVE  /\ NewCount(a, r) \in Arg
         /\ Code(a, r) \in AnyCode /\ Trouble(r.op) \in AnyCode
         /\ \A code \in AnyCode : AnswerTo(a, r, code) \in Answer /\ AnswerTo(a, r, code).req = r
<1>1. r.arg \in Arg /\ count \in Arg /\ 0 \in Arg /\ leader \in Addr
      /\ view[a].controller \in MaybeAddr /\ view[a].count \in Arg
  BY Zenon DEF Types, Request, Arg
<1>2. NewCount(a, r) \in Arg
  BY <1>1, Zenon DEF NewCount
<1>3. Code(a, r) \in AnyCode
  BY Zenon DEF Code, AnyCode
<1>4. Trouble(r.op) \in AnyCode
  BY Zenon DEF Trouble, AnyCode
<1>5. ASSUME NEW code \in AnyCode
      PROVE  AnswerTo(a, r, code) \in Answer /\ AnswerTo(a, r, code).req = r
  BY <1>1, Zenon DEF AnswerTo, Answer
<1> QED
  BY <1>2, <1>3, <1>4, <1>5, Zenon

(* A broker answers the oldest request on a connection. *)
LEMMA AnswersInv ==
  ASSUME ClientInv, NEW s \in Slot, Answers(s), UNCHANGED << consumerVars, admin, owner >>
  PROVE  ClientInv'
<1> DEFINE c == conns[s]
           r == Head(c.wire)
<1>1. /\ Types /\ Pool /\ c \in Conn /\ Aligned(c) /\ c # NoConn /\ c.wire # << >> /\ s[2] \in Addr
      /\ UNCHANGED << call, late, abandoned, controller, leader, view, calls, todo, outstanding, sent >>
  BY Zenon DEF ClientInv, Pool, Answers, Slot, consumerVars
<1>2. r \in Request
  BY <1>1, ConnFields, HeadTailProperties, Zenon
<1>3. PICK code \in AnyCode :
        conns' = [conns EXCEPT ![s].wire = Tail(@), ![s].back = Append(@, AnswerTo(s[2], r, code))]
  BY <1>1, <1>2, AnswerTyped, ZenonT(30) DEF Answers
<1>4. count' \in Arg
  BY <1>1, <1>2, AnswerTyped DEF Answers, CarriesOut, Arg
<1> DEFINE x == AnswerTo(s[2], r, code)
           d == [c EXCEPT !.wire = Tail(@), !.back = Append(@, x)]
<1>5. x \in Answer /\ x.req = r
  BY <1>1, <1>2, AnswerTyped
<1>6. d \in Conn /\ Aligned(d) /\ d.in_flight = c.in_flight
  <2> HIDE DEF x
  <2> QED
    BY <1>1, <1>5, AnswerConn, Zenon
<1>7. conns' = [conns EXCEPT ![s] = d]
  <2> HIDE DEF x
  <2>1. conns' = [conns EXCEPT ![s].wire = Tail(@), ![s].back = Append(@, x)]
    BY <1>3, Zenon DEF x
  <2> QED
    BY <1>1, <2>1, Zenon DEF Pool
<1> HIDE DEF d
<1>8. Pool' /\ conns'[s] = d /\ \A t \in Slot : t # s => conns'[t] = conns[t]
  BY <1>1, <1>6, <1>7, PoolSet, Zenon
<1>9. Types'
  BY <1>1, <1>4, Zenon DEF Types
<1> QED
  BY <1>1, <1>6, <1>8, <1>9, InFlightKept, Zenon

(* A request of a connection that is gone is carried out, or not. *)
LEMMA AnswersLateInv ==
  ASSUME ClientInv, NEW l \in late, AnswersLate(l), UNCHANGED << consumerVars, admin, owner >>
  PROVE  ClientInv'
<1>1. /\ Types /\ l.at \in Addr /\ l.req \in Request
      /\ UNCHANGED << conns, call, abandoned, controller, leader, view, calls, todo, outstanding, sent >>
      /\ late' \subseteq late
  BY Zenon DEF ClientInv, Types, AnswersLate, consumerVars
<1>2. count' \in Arg
  BY <1>1, AnswerTyped DEF AnswersLate, CarriesOut, Arg, Types
<1>3. Types'
  BY <1>1, <1>2, Zenon DEF Types
<1> QED
  BY <1>1, <1>3, Quiet, Zenon

(* The world changes behind the client's back. *)
LEMMA EnvironmentInv ==
  ASSUME ClientInv, Environment, UNCHANGED owner
  PROVE  ClientInv'
<1>1. Types
  BY Zenon DEF ClientInv
<1>2. ASSUME Ages, UNCHANGED adminVars PROVE ClientInv'
  <2>1. Types'
    BY <1>1, <1>2, Zenon DEF Types, Ages, poolVars, brokerVars, adminVars
  <2> QED
    BY <1>2, <2>1, Quiet, Zenon DEF Ages, poolVars
<1>3. ASSUME NEW a \in Addr, FallsSilent(a), UNCHANGED << consumerVars, adminVars >> PROVE ClientInv'
  <2>1. Types'
    BY <1>1, <1>3, Zenon DEF Types, FallsSilent, poolVars, adminVars
  <2> QED
    BY <1>3, <2>1, Quiet, Zenon DEF FallsSilent, poolVars, consumerVars
<1>4. ASSUME Elects, UNCHANGED << consumerVars, admin >> PROVE ClientInv'
  <2>1. controller' \in MaybeAddr
    BY <1>4, Zenon DEF Elects, MaybeAddr
  <2>2. view' \in [Addr -> [controller : MaybeAddr, count : Arg]]
    BY <1>1, <1>4 DEF Types, Elects, MaybeAddr
  <2>3. Types'
    BY <1>1, <1>4, <2>1, <2>2, Zenon DEF Types, Elects, poolVars
  <2> QED
    BY <1>4, <2>3, Quiet, Zenon DEF Elects, poolVars, consumerVars
<1>5. ASSUME MovesLeader, UNCHANGED << consumerVars, admin >> PROVE ClientInv'
  <2>1. Types'
    BY <1>1, <1>5, Zenon DEF Types, MovesLeader, poolVars
  <2> QED
    BY <1>5, <2>1, Quiet, Zenon DEF MovesLeader, poolVars, consumerVars
<1>6. ASSUME NEW a \in Addr, Learns(a), UNCHANGED << consumerVars, admin >> PROVE ClientInv'
  <2>1. Types'
    BY <1>1, <1>6, Zenon DEF Types, Learns, poolVars
  <2> QED
    BY <1>6, <2>1, Quiet, Zenon DEF Learns, poolVars, consumerVars
<1> QED
  BY <1>2, <1>3, <1>4, <1>5, <1>6, Zenon DEF Environment

(* An operation's future is dropped while it waits. *)
LEMMA DroppedInv ==
  ASSUME ClientInv, Dropped, UNCHANGED owner
  PROVE  ClientInv'
<1>1. Types /\ Calling /\ Recorded
  BY Zenon DEF ClientInv
<1>2. ~JustSent
  BY Zenon DEF Dropped, Awaiting, Cancels, AdminCancels, JustSent
<1>3. CASE owner = "consumer" /\ Cancels /\ UNCHANGED adminVars
  BY <1>1, <1>2, <1>3, AbandonInv, Zenon DEF Types, Cancels, adminVars
<1>4. CASE owner = "admin" /\ AdminCancels /\ UNCHANGED consumerVars
  <2>1. todo = << >> /\ sent = Nothing /\ DOMAIN Nothing = {}
    BY <1>1, <1>4, Zenon DEF Calling, Recorded, Doing, Nothing
  <2>2. admin' \in AdminState
    BY <1>1, <1>4, Zenon DEF AdminCancels, Ends, Types, AdminState
  <2> QED
    BY <1>2, <1>4, <2>1, <2>2, AbandonInv, Zenon DEF AdminCancels, consumerVars
<1> QED
  BY <1>3, <1>4, Zenon DEF Dropped

-----------------------------------------------------------------------------
(* The operations' own steps. *)

(* What is left of an operation changes between two calls. *)
LEMMA TodoInv ==
  ASSUME ClientInv, owner = "consumer", call.phase = "none", ~Doing("send"),
         calls' \in Nat,
         UNCHANGED << conns, call, late, abandoned, brokerVars, outstanding, sent, owner, admin >>
  PROVE  ClientInv'
<1>1. /\ Types /\ Pool /\ Calling /\ Recorded /\ Accounted
  BY Zenon DEF ClientInv
<1>2. sent = Nothing /\ DOMAIN Nothing = {} /\ ~JustSent /\ ~JustSent'
  BY <1>1, Zenon DEF Recorded, Nothing, JustSent
<1>3. Types' /\ Pool'
  BY <1>1, Zenon DEF Types, Pool, brokerVars
<1>4. Calling'
  BY <1>1, <1>2, Zenon DEF Calling
<1>5. Recorded'
  BY <1>1, <1>2, Zenon DEF Recorded, Holds
<1>6. Accounted'
  BY <1>1, <1>2, Zenon DEF Accounted, Claimed
<1> QED
  BY <1>3, <1>4, <1>5, <1>6, Zenon DEF ClientInv

(* The names of calls do not unfold. *)
LEMMA CallsDoNotUnfold ==
  ASSUME NEW f, f[1] \in CallNames
  PROVE  Unfolded(f) = {}
BY Zenon DEF Unfolded, CallNames

(* A step of a consumer's operation. *)
LEMMA ConsumerStepInv ==
  ASSUME ClientInv, owner = "consumer", ConsumerStep, UNCHANGED << adminVars, owner >>
  PROVE  ClientInv'
<1>1. Types /\ Calling /\ Recorded /\ UNCHANGED admin /\ calls \in Nat
  BY Zenon DEF ClientInv, Types, adminVars
<1>2. CASE Unfolds
  <2>1. todo # << >> /\ Unfolded(Head(todo)) # {} /\ Head(todo)[1] \notin CallNames
    BY <1>2, CallsDoNotUnfold, Zenon DEF Unfolds
  <2>2. call.phase = "none" /\ ~Doing("send")
    BY <1>1, <2>1, Zenon DEF Calling, Doing, CallNames
  <2> QED
    BY <1>1, <1>2, <2>2, TodoInv, Zenon DEF Unfolds, poolVars
<1>3. CASE discard_outstanding
  BY <1>1, <1>3, StartCollectInv, Zenon DEF discard_outstanding, Due
<1>4. CASE receive
  BY <1>1, <1>4, StartCollectInv, Zenon DEF receive, Due
<1>5. CASE refresh_metadata
  <2>1. NotCalling /\ ~Doing("send") /\ todo # << >> /\ Head(todo)[1] \in CallNames
    BY <1>5, Zenon DEF refresh_metadata, Due, Doing, CallNames
  <2>2. "Metadata" \in AnyOp /\ 1 \in Arg
    BY Zenon DEF AnyOp, Op, Arg
  <2> QED
    BY <1>1, <1>5, <2>1, <2>2, StartAnyInv, Zenon DEF refresh_metadata, consumerVars
<1>6. CASE find_coordinator
  <2>1. NotCalling /\ ~Doing("send") /\ todo # << >> /\ Head(todo)[1] \in CallNames
    BY <1>6, Zenon DEF find_coordinator, Due, Doing, CallNames
  <2>2. "FindCoordinator" \in AnyOp /\ 0 \in Arg
    BY Zenon DEF AnyOp, Op, Arg
  <2> QED
    BY <1>1, <1>6, <2>1, <2>2, StartAnyInv, Zenon DEF find_coordinator, consumerVars
<1>7. CASE call_coordinator
  <2>1. NotCalling /\ ~Doing("send") /\ todo # << >> /\ Head(todo)[1] \in CallNames
    BY <1>7, Zenon DEF call_coordinator, Due, Doing, CallNames
  <2>2. "Group" \in AnyOp /\ 0 \in Arg /\ << "coordinator", coordinator >> \in Slot
    BY <1>7, Zenon DEF AnyOp, Op, Arg, Slot, call_coordinator
  <2> QED
    BY <1>1, <1>7, <2>1, <2>2, StartCallInv, Zenon DEF call_coordinator, consumerVars, Types
<1>8. CASE call_offsets
  <2>1. NotCalling /\ ~Doing("send") /\ todo # << >> /\ Head(todo)[1] \in CallNames
    BY <1>8, Zenon DEF call_offsets, Due, Doing, CallNames
  <2>2. "Offsets" \in AnyOp /\ 0 \in Arg /\ << "coordinator", coordinator >> \in Slot
    BY <1>8, Zenon DEF AnyOp, Op, Arg, Slot, call_offsets
  <2> QED
    BY <1>1, <1>8, <2>1, <2>2, StartCallInv, Zenon DEF call_offsets, consumerVars, Types
<1>9. CASE call_leader
  <2>1. NotCalling /\ ~Doing("send") /\ todo # << >> /\ Head(todo)[1] \in CallNames
    BY <1>9, Zenon DEF call_leader, Due, Doing, CallNames
  <2>2. "ListOffsets" \in AnyOp /\ 0 \in Arg
    BY Zenon DEF AnyOp, Op, Arg
  <2>3. PICK a \in Addr : Start("call", Main(a), "ListOffsets", 0)
    BY <1>9, Zenon DEF call_leader
  <2> QED
    BY <1>1, <1>9, <2>1, <2>2, <2>3, MainSlot, StartCallInv, Zenon DEF call_leader, consumerVars, Types
<1>10. CASE send_fetch
  <2> DEFINE a == CHOOSE b \in Addr : Unsent(b)
  <2>1. a \in Addr /\ Unsent(a)
    BY <1>10, Zenon DEF send_fetch
  <2>2. Start("send", Main(a), "Fetch", a)
    BY <1>10, Zenon DEF send_fetch
  <2> HIDE DEF a
  <2>3. a \in Addr \ DOMAIN sent
    BY <2>1, Zenon DEF Unsent
  <2> QED
    BY <1>1, <1>10, <2>2, <2>3, SendInv, Zenon DEF send_fetch, Due, Doing, consumerVars
<1>11. CASE changes_group
  <2>1. call.phase = "none" /\ ~Doing("send")
    BY <1>11, Zenon DEF changes_group, Due, NotCalling, Doing
  <2> QED
    BY <1>1, <1>11, <2>1, TodoInv, Zenon DEF changes_group, poolVars
<1>12. CASE CallReturns
  BY <1>1, <1>12, ConsumerReturnsInv, Zenon
<1> QED
  BY <1>2, <1>3, <1>4, <1>5, <1>6, <1>7, <1>8, <1>9, <1>10, <1>11, <1>12, Zenon DEF ConsumerStep

(* A step of an admin client's operation. *)
LEMMA AdminStepInv ==
  ASSUME ClientInv, owner = "admin", AdminStep, UNCHANGED << consumerVars, owner >>
  PROVE  ClientInv'
<1>1. /\ Types /\ Calling /\ admin \in AdminState /\ UNCHANGED << todo, outstanding, sent >>
      /\ ~Doing("send") /\ owner # "consumer"
  BY Zenon DEF ClientInv, Types, Calling, Doing, consumerVars
<1>2. "Metadata" \in AnyOp /\ "DescribeConfigs" \in AnyOp /\ "DeleteRecords" \in AnyOp
      /\ 0 \in Arg /\ 1 \in Arg /\ admin.op \in AnyOp /\ admin.arg \in Arg /\ admin.attempt \in Nat
  BY <1>1, Zenon DEF AnyOp, Op, Arg, AdminState
<1>3. CASE controller_addr
  BY <1>1, <1>2, <1>3, StartAnyInv, Zenon DEF controller_addr, AdminDue, adminVars
<1>4. CASE await_visible
  BY <1>1, <1>2, <1>4, StartAnyInv, Zenon DEF await_visible, AdminDue, adminVars
<1>5. CASE describe_cluster
  BY <1>1, <1>2, <1>5, StartAnyInv, Zenon DEF describe_cluster, AdminDue, adminVars
<1>6. CASE describe_topic_config
  BY <1>1, <1>2, <1>6, StartAnyInv, Zenon DEF describe_topic_config, AdminDue, adminVars
<1>7. CASE leader_addr
  BY <1>1, <1>2, <1>7, StartAnyInv, Zenon DEF leader_addr, AdminDue, adminVars
<1>8. CASE call_controller
  <2>1. admin' \in AdminState
    BY <1>1, <1>8, Zenon DEF call_controller, AdminState
  <2>2. Main(md.controller) \in Slot
    BY <1>8, MainSlot, Zenon DEF call_controller
  <2> QED
    BY <1>1, <1>2, <1>8, <2>1, <2>2, StartCallInv, Zenon DEF call_controller, AdminDue
<1>9. CASE delete_records
  <2>1. admin' \in AdminState
    BY <1>1, <1>9, Zenon DEF delete_records, AdminState
  <2>2. Main(md.leader) \in Slot
    BY <1>9, MainSlot, Zenon DEF delete_records
  <2> QED
    BY <1>1, <1>2, <1>9, <2>1, <2>2, StartCallInv, Zenon DEF delete_records, AdminDue
<1>10. CASE AdminCallReturns
  <2>1. call.phase = "done"
    BY <1>10, Zenon DEF AdminCallReturns, AdminReturned, controller_looked_up, controller_answered,
                 visible, described, configured, leader_looked_up, records_deleted
  <2>2. admin' \in AdminState
    <3>1. ASSUME NEW result, Ends(result) PROVE admin' \in AdminState
      BY <1>1, <3>1, Zenon DEF Ends, AdminState
    <3>2. ASSUME NEW step \in {"controller", "visible", "config"}, Again(step) \/ To(step)
          PROVE  admin' \in AdminState
      <4> DEFINE again == [admin EXCEPT !.step = step, !.attempt = @ + 1]
                 to == [admin EXCEPT !.step = step, !.attempt = 0]
      <4>1. again \in AdminState
        <5> DEFINE n == admin.attempt + 1
        <5>1. n \in Nat
          BY <1>2
        <5> HIDE DEF n
        <5>2. [admin EXCEPT !.step = step, !.attempt = n] \in AdminState
          BY <1>1, <5>1, Zenon DEF AdminState
        <5> QED
          BY <5>2, Zenon DEF n
      <4>2. to \in AdminState
        BY <1>1, Zenon DEF AdminState
      <4>3. admin' = again \/ admin' = to
        BY <3>2, Zenon DEF Again, To
      <4> HIDE DEF again, to
      <4> QED
        BY <4>1, <4>2, <4>3, Zenon
    <3>3. CASE controller_looked_up
      BY <1>1, <3>1, <3>2, <3>3, Zenon DEF controller_looked_up
    <3>4. CASE controller_answered
      BY <1>1, <3>1, <3>2, <3>4, Zenon DEF controller_answered
    <3>5. CASE visible
      BY <1>1, <3>1, <3>2, <3>5, Zenon DEF visible
    <3>6. CASE described
      BY <3>1, <3>6, Zenon DEF described
    <3>7. CASE configured
      BY <3>1, <3>2, <3>7, Zenon DEF configured
    <3>8. CASE leader_looked_up
      BY <1>1, <3>1, <3>8, Zenon DEF leader_looked_up
    <3>9. CASE records_deleted
      BY <3>1, <3>9, Zenon DEF records_deleted
    <3> QED
      BY <1>10, <3>3, <3>4, <3>5, <3>6, <3>7, <3>8, <3>9, Zenon DEF AdminCallReturns
  <2> QED
    BY <1>1, <1>10, <2>1, <2>2, AdminReturnsInv, Zenon DEF AdminCallReturns
<1> QED
  BY <1>3, <1>4, <1>5, <1>6, <1>7, <1>8, <1>9, <1>10, Zenon DEF AdminStep

(* An operation begins. *)
LEMMA BeginsInv ==
  ASSUME ClientInv, ConsumerBegins \/ AdminBegin, UNCHANGED owner
  PROVE  ClientInv'
<1>1. Types /\ Calling /\ calls \in Nat
  BY Zenon DEF ClientInv, Types
<1>2. CASE ConsumerBegins
  <2>1. call.phase = "none" /\ ~Doing("send")
    BY <1>1, <1>2, Zenon DEF ConsumerBegins, Begin, Calling, Doing
  <2>2. calls' \in Nat
    BY <1>1, <1>2 DEF ConsumerBegins, Begin
  <2> QED
    BY <1>2, <2>1, <2>2, TodoInv, Zenon DEF ConsumerBegins, Begin, adminVars
<1>3. CASE AdminBegin
  <2>1. PICK op \in ControllerOps \cup {"describe_cluster", "describe_topic_config", "delete_records"},
             arg \in Nat : AdminBegins(op, arg)
    BY <1>3, ClusterAssumption DEF AdminBegin, ControllerOps
  <2>2. FirstStep(op) \in {"controller", "describe", "config", "leader"} /\ op \in AnyOp /\ arg \in Arg
    BY Zenon DEF FirstStep, AnyOp, Op, Arg
  <2>3. admin' \in AdminState /\ calls' \in Nat
    BY <1>1, <2>1, <2>2 DEF AdminBegins, AdminState
  <2>4. Types'
    BY <1>1, <2>1, <2>3, Zenon DEF AdminBegins, Types, brokerVars
  <2> QED
    BY <1>3, <2>1, <2>4, Quiet, Zenon DEF AdminBegin, AdminBegins, consumerVars
<1> QED
  BY <1>2, <1>3, Zenon

-----------------------------------------------------------------------------
(* The theorems. *)

(* A new client has nothing in flight. *)
LEMMA InitInv == Init => ClientInv
<1> SUFFICES ASSUME Init PROVE ClientInv
  BY Zenon
<1>1. Bootstrap[1] \in Addr /\ Bootstrap[Len(Bootstrap)] \in Addr
  <2>1. Bootstrap \in Seq(Addr) /\ Len(Bootstrap) \in Nat \ {0}
    BY ClusterAssumption, EmptySeq, Zenon
  <2> QED
    BY <2>1
<1>2. Types
  <2>1. admin \in AdminState
    BY Zenon DEF Init, AdminInit, Idle, AdminState, AnyOp, Arg
  <2>2. count \in Arg /\ controller \in MaybeAddr
    BY <1>1 DEF Init, ClusterInit, Arg, MaybeAddr
  <2> QED
    BY <1>1, <2>1, <2>2, Zenon DEF Init, ClusterInit, Types
<1>3. Pool /\ \A s \in Slot : conns[s].in_flight = << >>
  BY EmptyConn, Zenon DEF Init, ClusterInit, Pool
<1>4. call.phase = "none" /\ todo = << >> /\ outstanding = Nothing /\ sent = Nothing /\ DOMAIN Nothing = {}
  BY Zenon DEF Init, ClusterInit, ConsumerInit, NoCall, Nothing
<1> QED
  BY <1>2, <1>3, <1>4, Zenon DEF ClientInv, Calling, Recorded, Accounted, JustSent

(* Every step keeps the invariant. *)
LEMMA NextInv == ClientInv /\ [Next]_vars => ClientInv'
<1> SUFFICES ASSUME ClientInv, [Next]_vars PROVE ClientInv'
  BY Zenon
<1>1. CASE Next
  <2>1. UNCHANGED owner
    BY <1>1, Zenon DEF Next
  <2>2. CASE owner = "consumer" /\ ConsumerStep /\ UNCHANGED adminVars
    BY <2>1, <2>2, ConsumerStepInv, Zenon
  <2>3. CASE owner = "admin" /\ AdminStep /\ UNCHANGED consumerVars
    BY <2>1, <2>3, AdminStepInv, Zenon
  <2>4. CASE ClientStep /\ UNCHANGED << consumerVars, adminVars >>
    <3>1. UNCHANGED << consumerVars, admin, owner >>
      BY <2>1, <2>4, Zenon DEF adminVars
    <3> QED
      BY <2>4, <3>1, BootstrapInv, ConnectInv, WaitInv, CollectsInv, Zenon DEF ClientStep
  <2>5. CASE ConsumerBegins \/ AdminBegin
    BY <2>1, <2>5, BeginsInv, Zenon
  <2>6. CASE Dropped
    BY <2>1, <2>6, DroppedInv, Zenon
  <2>7. CASE Brokers
    <3>1. UNCHANGED << consumerVars, admin, owner >>
      BY <2>1, <2>7, Zenon DEF Brokers, adminVars
    <3> QED
      BY <2>7, <3>1, AnswersInv, AnswersLateInv, Zenon DEF Brokers, BrokerStep
  <2>8. CASE Environment
    BY <2>1, <2>8, EnvironmentInv, Zenon
  <2> QED
    BY <1>1, <2>2, <2>3, <2>4, <2>5, <2>6, <2>7, <2>8, Zenon DEF Next, Step
<1>2. CASE UNCHANGED vars
  <2>1. Types'
    BY <1>2, Zenon DEF vars, brokerVars, adminVars, ClientInv, Types
  <2> QED
    BY <1>2, <2>1, Quiet, Zenon DEF vars, consumerVars
<1> QED
  BY <1>1, <1>2, Zenon

(* Every request in flight is claimed by the call that waits for it, the   *)
(* recorded prefetch, the sends not yet recorded or the collection in      *)
(* progress, unless a dropped operation or an answer that could not be     *)
(* read left one on the connection; and what is to be read and what is to  *)
(* be answered are, in order, the last of what is in flight.               *)
THEOREM ClientInvariant == Spec => []ClientInv
BY InitInv, NextInv, PTL DEF Spec

(* What is claimed and in order is read by the one who asked. *)
LEMMA InvOwnAnswer == ClientInv => OwnAnswer
<1> SUFFICES ASSUME ClientInv PROVE OwnAnswer
  BY Zenon
<1>1. Pool /\ Calling
  BY Zenon DEF ClientInv
<1>2. ASSUME call.phase = "wait", conns[call.slot].back # << >>
      PROVE  Head(conns[call.slot].back).req = call.asked /\ Correlated(conns[call.slot])
  <2> DEFINE c == conns[call.slot]
  <2>1. c \in Conn /\ Aligned(c) /\ c.in_flight = << call.asked >>
    BY <1>1, <1>2, Zenon DEF Calling, Waiting, Pool
  <2> QED
    BY <1>2, <2>1, ReadConn, Zenon
<1>3. ASSUME call.phase = "collect", NEW a \in call.from
      PROVE  /\ conns[Main(a)] # NoConn
             /\ Main(a) \notin abandoned /\ conns[Main(a)].back # << >> =>
                  Head(conns[Main(a)].back).req = call.expect[a] /\ Correlated(conns[Main(a)])
  <2> DEFINE c == conns[Main(a)]
  <2>1. /\ c \in Conn /\ Aligned(c) /\ c.in_flight # << >>
        /\ Main(a) \in abandoned \/ c.in_flight = << call.expect[a] >>
    BY <1>1, <1>3, MainSlot, Zenon DEF Calling, Collecting, Pool, Holds
  <2>2. c # NoConn
    BY <2>1, EmptyConn, Zenon
  <2> QED
    BY <2>1, <2>2, ReadConn, Zenon
<1> QED
  BY <1>2, <1>3, Zenon DEF OwnAnswer

(* No answer is taken for another: whatever was refused, timed out, retried *)
(* or dropped before, a call reads the answer to its own request, and a    *)
(* collected prefetch is the one recorded unless a dropped operation or an *)
(* unreadable answer left a request on that connection                     *)
(* (call_at_with_timeout, recv_many).                                      *)
THEOREM AnswersOwned == Spec => []OwnAnswer
BY ClientInvariant, InvOwnAnswer, PTL
=============================================================================
