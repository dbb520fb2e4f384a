------------------------- MODULE StConnector_proofs -------------------------
(***************************************************************************)
(* Proofs about StConnector.  OneChain counts; what is inductive is which  *)
(* chain there is (ChainInv): an operation of the socket or its handler,   *)
(* timer 0, timer 10, or a thread in on_recv_error, each excluding the     *)
(* others.  It needs nothing of the flags.  What the flags are then        *)
(* depends on that phase and on what the last close found the link doing   *)
(* (FlagInv), unless it met a handler.  A step is proved by naming the     *)
(* phase it leads to (the ...Reach lemmas).                                *)
(***************************************************************************)
EXTENDS StConnector, SequenceTheorems, FiniteSetTheorems, TLAPS

-----------------------------------------------------------------------------
(* The socket: what is under way on it. *)

Links    == {"closed", "open", "linked", "ended"}
Handlers == [op : {"connect", "read"}, ec : {"ok", "refused", "failed", "aborted"}]
Sockets  == [link : Links, connects : 0..1, reads : 0..1, queue : Seq(Handlers)]

\* Nothing; a read or its handler; a connect or its handler.
Rest(s) == s.reads = 0 /\ s.connects = 0 /\ s.queue = <<>>
Queue1(s, op) == \E h \in Handlers : h.op = op /\ s.queue = <<h>>
Reads(s) ==
    /\ s.connects = 0
    /\ (s.reads = 1 /\ s.queue = <<>>) \/ (s.reads = 0 /\ Queue1(s, "read"))
Connects(s) ==
    /\ s.reads = 0
    /\ (s.connects = 1 /\ s.queue = <<>>) \/ (s.connects = 0 /\ Queue1(s, "connect"))

\* The three exclude each other.
LEMMA Exclusive ==
    ASSUME NEW s
    PROVE  /\ Reads(s) => ~Rest(s) /\ ~Connects(s)
           /\ Connects(s) => ~Rest(s) /\ ~Reads(s)
<1>1. ASSUME NEW h PROVE <<h>> # <<>>
  OBVIOUS
<1>2. ASSUME NEW h \in Handlers, NEW k \in Handlers, h.op = "read", k.op = "connect" PROVE <<h>> # <<k>>
  BY <1>2
<1>3. Queue1(s, "read") => s.queue # <<>> /\ ~Queue1(s, "connect")
  BY <1>1, <1>2, Zenon DEF Queue1
<1>4. Queue1(s, "connect") => s.queue # <<>>
  BY <1>1, Zenon DEF Queue1
<1> QED
  BY <1>3, <1>4 DEF Reads, Connects, Rest

\* What a call makes of a socket, field by field.
Begun(s, l, c) == [s EXCEPT !.link = l, !.connects = c]
Closed(s, q) == [s EXCEPT !.link = "closed", !.connects = 0, !.reads = 0, !.queue = q]

\* The type and the fields of both.
LEMMA Fields ==
    ASSUME NEW s \in Sockets, NEW l \in Links, NEW c \in 0..1
    PROVE  /\ LET r == Begun(s, l, c) IN
              r \in Sockets /\ r.link = l /\ r.connects = c /\ r.reads = s.reads /\ r.queue = s.queue
           /\ \A q \in Seq(Handlers) :
              LET r == Closed(s, q) IN r \in Sockets /\ r.connects = 0 /\ r.reads = 0 /\ r.queue = q
<1>1. ASSUME NEW k \in Links, NEW n \in 0..1
      PROVE  LET r == [s EXCEPT !.link = k, !.connects = n] IN
             r \in Sockets /\ r.link = k /\ r.connects = n /\ r.reads = s.reads /\ r.queue = s.queue
  <2> DEFINE s1 == [s EXCEPT !.link = k]
             s2 == [s1 EXCEPT !.connects = n]
  <2>1. s1 \in Sockets /\ s1.link = k /\ s1.connects = s.connects /\ s1.reads = s.reads /\ s1.queue = s.queue
    BY DEF Sockets
  <2>2. s2 = [s EXCEPT !.link = k, !.connects = n]
    OBVIOUS
  <2> HIDE DEF s1
  <2>3. s2 \in Sockets /\ s2.link = k /\ s2.connects = n /\ s2.reads = s.reads /\ s2.queue = s.queue
    BY <2>1 DEF Sockets
  <2> QED
    BY <2>2, <2>3, Zenon
<1>2. ASSUME NEW q \in Seq(Handlers)
      PROVE  LET r == Closed(s, q) IN r \in Sockets /\ r.connects = 0 /\ r.reads = 0 /\ r.queue = q
  <2> DEFINE s2 == [s EXCEPT !.link = "closed", !.connects = 0]
             s3 == [s2 EXCEPT !.reads = 0]
             s4 == [s3 EXCEPT !.queue = q]
  <2>1. s4 = Closed(s, q)
    BY DEF Closed
  <2>2. "closed" \in Links /\ 0 \in 0..1
    BY DEF Links
  <2>3. s2 \in Sockets /\ s2.connects = 0
    BY <1>1, <2>2
  <2> HIDE DEF s2
  <2>4. s3 \in Sockets /\ s3.connects = 0 /\ s3.reads = 0
    BY <2>3 DEF Sockets
  <2> HIDE DEF s3
  <2>5. s4 \in Sockets /\ s4.connects = 0 /\ s4.reads = 0 /\ s4.queue = q
    BY <2>4 DEF Sockets
  <2> QED
    BY <2>1, <2>5, Zenon
<1> QED
  BY <1>1, <1>2, Zenon DEF Begun

\* A handler queued on a socket that is at rest.
LEMMA QueuedAlone ==
    ASSUME NEW s \in Sockets, s.queue = <<>>, NEW op \in {"connect", "read"},
           NEW ec \in {"ok", "refused", "failed", "aborted"}
    PROVE  LET r == Queued(s, op, ec) IN
           /\ r \in Sockets /\ r.reads = s.reads /\ r.connects = s.connects /\ r.link = s.link
           /\ Queue1(r, op)
<1> DEFINE h == [op |-> op, ec |-> ec]
           r == Queued(s, op, ec)
<1>1. h \in Handlers /\ h.op = op
  BY DEF Handlers
<1>2. Append(s.queue, h) = <<h>>
  BY <1>1
<1>3. r = [s EXCEPT !.queue = <<h>>]
  BY <1>2, Zenon DEF Queued
<1> HIDE DEF h
<1>4. <<h>> \in Seq(Handlers)
  BY <1>1
<1>5. /\ r \in Sockets /\ r.reads = s.reads /\ r.connects = s.connects /\ r.link = s.link
      /\ r.queue = <<h>>
  BY <1>3, <1>4 DEF Sockets
<1> QED
  BY <1>1, <1>5, Zenon DEF Queue1

\* async_connect and async_read on a socket that is at rest.
LEMMA Starts ==
    ASSUME NEW s \in Sockets, Rest(s), NEW up
    PROVE  /\ async_connect(s) \in Sockets /\ Connects(async_connect(s))
           /\ async_read(s) \in Sockets /\ Reads(async_read(s))
           /\ do_start(s, up) \in Sockets
           /\ IF up THEN Reads(do_start(s, up)) ELSE Connects(do_start(s, up))
<1>1. async_connect(s) \in Sockets /\ Connects(async_connect(s))
  <2>1. CASE s.link \in {"linked", "ended"}
    <3>1. async_connect(s) = Queued(s, "connect", "failed")
      BY <2>1 DEF async_connect
    <3> QED
      BY <3>1, QueuedAlone DEF Rest, Connects
  <2>2. CASE s.link \notin {"linked", "ended"}
    <3>1. async_connect(s) = Begun(s, "open", 1)
      BY <2>2 DEF async_connect, Begun, Rest
    <3>2. "open" \in Links /\ 1 \in 0..1 /\ s.reads \in 0..1 /\ s.queue \in Seq(Handlers)
      BY DEF Links, Sockets
    <3>3. /\ async_connect(s) \in Sockets /\ async_connect(s).connects = 1
          /\ async_connect(s).reads = s.reads /\ async_connect(s).queue = s.queue
      BY <3>1, <3>2, Fields
    <3> QED
      BY <3>3 DEF Rest, Connects
  <2> QED
    BY <2>1, <2>2
<1>2. async_read(s) \in Sockets /\ Reads(async_read(s))
  <2>1. CASE s.link = "linked"
    <3>1. async_read(s) = [s EXCEPT !.reads = 1]
      BY <2>1 DEF async_read, Rest, Sockets
    <3> QED
      BY <3>1 DEF Rest, Reads, Sockets
  <2>2. CASE s.link # "linked"
    <3>1. async_read(s) = Queued(s, "read", "failed")
      BY <2>2 DEF async_read
    <3> QED
      BY <3>1, QueuedAlone DEF Rest, Reads
  <2> QED
    BY <2>1, <2>2
<1> QED
  BY <1>1, <1>2, Zenon DEF do_start

\* close aborts what is under way: its handler takes its place.
LEMMA CloseAborts ==
    ASSUME NEW s \in Sockets, Rest(s) \/ Reads(s) \/ Connects(s)
    PROVE  LET r == close_socket(s) IN
           /\ r \in Sockets
           /\ Rest(s) => Rest(r)
           /\ Reads(s) => Reads(r)
           /\ Connects(s) => Connects(r)
<1> DEFINE r == close_socket(s)
           q == s.queue \o Repeat(s.connects, "connect") \o Repeat(s.reads, "read")
           h(op) == [op |-> op, ec |-> "aborted"]
<1> SUFFICES /\ r \in Sockets
             /\ Rest(s) => Rest(r)
             /\ Reads(s) => Reads(r)
             /\ Connects(s) => Connects(r)
  OBVIOUS
<1>1. \A op : Repeat(0, op) = <<>>
  BY DEF Repeat
<1>2. \A op : Repeat(1, op) = <<h(op)>>
  BY DEF Repeat
<1>3. \A op \in {"connect", "read"} : h(op) \in Handlers /\ h(op).op = op
  BY DEF Handlers
<1>4. ASSUME q \in Seq(Handlers)
      PROVE  r \in Sockets /\ r.connects = 0 /\ r.reads = 0 /\ r.queue = q
  <2>1. r = Closed(s, q)
    BY DEF close_socket, Closed
  <2>2. "closed" \in Links /\ 0 \in 0..1
    BY DEF Links
  <2> HIDE DEF q, r
  <2> QED
    BY <1>4, <2>1, <2>2, Fields, Zenon
<1>5. s.queue \in Seq(Handlers) /\ s.reads \in 0..1 /\ s.connects \in 0..1
  BY DEF Sockets
<1>6. CASE s.connects = 0 /\ s.reads = 0
  <2>1. q = s.queue
    BY <1>1, <1>5, <1>6
  <2> HIDE DEF q, r
  <2>2. r \in Sockets /\ r.queue = s.queue /\ r.connects = 0 /\ r.reads = 0
    BY <1>4, <1>5, <2>1
  <2>3. Queue1(s, "read") => Queue1(r, "read")
    BY <2>2, Zenon DEF Queue1
  <2>4. Queue1(s, "connect") => Queue1(r, "connect")
    BY <2>2, Zenon DEF Queue1
  <2> QED
    BY <1>6, <2>2, <2>3, <2>4 DEF Rest, Reads, Connects
<1>7. ASSUME NEW op \in {"connect", "read"}, q = <<h(op)>>
      PROVE  r \in Sockets /\ r.connects = 0 /\ r.reads = 0 /\ Queue1(r, op)
  <2>1. h(op) \in Handlers /\ h(op).op = op
    BY <1>3, <1>7
  <2> HIDE DEF q, h, r
  <2>2. q \in Seq(Handlers)
    BY <1>7, <2>1
  <2>3. r \in Sockets /\ r.queue = <<h(op)>> /\ r.connects = 0 /\ r.reads = 0
    BY <1>4, <1>7, <2>2
  <2> QED
    BY <2>1, <2>3, Zenon DEF Queue1
<1>8. \A x : <<>> \o <<x>> \o <<>> = <<x>> /\ <<>> \o <<>> \o <<x>> = <<x>>
  OBVIOUS
<1>9. CASE s.connects = 1 /\ s.queue = <<>> /\ s.reads = 0
  <2>1. q = <<>> \o <<h("connect")>> \o <<>>
    BY <1>1, <1>2, <1>9, Zenon
  <2>2. q = <<h("connect")>>
    BY <1>8, <2>1, Zenon
  <2> HIDE DEF q, h, r
  <2>3. r \in Sockets /\ r.connects = 0 /\ r.reads = 0 /\ Queue1(r, "connect")
    BY <1>7, <2>2
  <2> QED
    BY <1>9, <2>3 DEF Connects, Reads, Rest
<1>10. CASE s.reads = 1 /\ s.queue = <<>> /\ s.connects = 0
  <2>1. q = <<>> \o <<>> \o <<h("read")>>
    BY <1>1, <1>2, <1>10, Zenon
  <2>2. q = <<h("read")>>
    BY <1>8, <2>1, Zenon
  <2> HIDE DEF q, h, r
  <2>3. r \in Sockets /\ r.connects = 0 /\ r.reads = 0 /\ Queue1(r, "read")
    BY <1>7, <2>2
  <2> QED
    BY <1>10, <2>3 DEF Connects, Reads, Rest
<1> QED
  BY <1>6, <1>9, <1>10 DEF Rest, Reads, Connects

\* A connect that was aborted, and its handler.
Aborted(s) == s.reads = 0 /\ s.connects = 0 /\ s.queue = <<[op |-> "connect", ec |-> "aborted"]>>

\* close of a socket that is connecting, or was.
LEMMA CloseAbortsConnect ==
    ASSUME NEW s \in Sockets, Connects(s), s.connects = 1 \/ Aborted(s)
    PROVE  Aborted(close_socket(s))
<1> DEFINE h == [op |-> "connect", ec |-> "aborted"]
           q == s.queue \o Repeat(s.connects, "connect") \o Repeat(s.reads, "read")
<1>1. \A op : Repeat(0, op) = <<>>
  BY DEF Repeat
<1>2. Repeat(1, "connect") = <<h>>
  BY DEF Repeat
<1>3. <<>> \o <<h>> \o <<>> = <<h>> /\ <<h>> \o <<>> \o <<>> = <<h>>
  OBVIOUS
<1>4. q = <<h>>
  <2>1. CASE s.connects = 1
    <3>1. s.queue = <<>> /\ s.reads = 0
      BY <2>1 DEF Connects
    <3> QED
      BY <1>1, <1>2, <1>3, <2>1, <3>1, Zenon
  <2>2. CASE Aborted(s)
    BY <1>1, <1>3, <2>2, Zenon DEF Aborted
  <2> QED
    BY <2>1, <2>2
<1>5. h \in Handlers
  BY DEF Handlers
<1>6. close_socket(s) = Closed(s, q)
  BY DEF close_socket, Closed
<1> HIDE DEF h, q
<1>7. q \in Seq(Handlers)
  BY <1>4, <1>5
<1>8. close_socket(s).connects = 0 /\ close_socket(s).reads = 0 /\ close_socket(s).queue = q
  <2>1. "closed" \in Links /\ 0 \in 0..1
    BY DEF Links
  <2>2. Closed(s, q).connects = 0 /\ Closed(s, q).reads = 0 /\ Closed(s, q).queue = q
    BY <1>7, <2>1, Fields
  <2> QED
    BY <1>6, <2>2, Zenon
<1> QED
  BY <1>4, <1>8, Zenon DEF Aborted, h

\* It is no more than that.
LEMMA AbortedConnects ==
    ASSUME NEW s, Aborted(s)
    PROVE  Connects(s) /\ ~Rest(s) /\ ~Reads(s) /\ Head(s.queue).ec = "aborted"
<1> DEFINE h == [op |-> "connect", ec |-> "aborted"]
<1>1. h \in Handlers /\ h.op = "connect" /\ h.ec = "aborted"
  BY DEF Handlers
<1>2. s.queue = <<h>> /\ s.reads = 0 /\ s.connects = 0
  BY DEF Aborted
<1> HIDE DEF h
<1>3. Connects(s)
  BY <1>1, <1>2, Zenon DEF Connects, Queue1
<1>4. Head(<<h>>) = h
  OBVIOUS
<1> QED
  BY <1>1, <1>2, <1>3, <1>4, Exclusive, Zenon

-----------------------------------------------------------------------------
(* The timers. *)

Timers == TimerInfos(0..TICKS)
TimerCans == [Ids -> Timers]

\* No wait and no handler of the timer; one of the two.
Off(tc, id) == ~tc[id].waiting /\ tc[id].queued = 0
On(tc, id) == \/ tc[id].waiting /\ tc[id].queued = 0
              \/ ~tc[id].waiting /\ tc[id].queued = 1

\* set_timer touches one timer.
LEMMA SetTimer ==
    ASSUME NEW tc \in TimerCans, NEW id \in Ids, NEW data \in 0..TICKS
    PROVE  LET r == set_timer(tc, id, data) IN
           /\ r \in TimerCans /\ \A x \in Ids : x # id => r[x] = tc[x]
           /\ r[id].waiting /\ r[id].queued = tc[id].queued
  BY DEF set_timer, start_timer, update_timer_info, TimerCans, Timers, TimerInfos

\* stop_all_timer ends every wait.
LEMMA StopTimers ==
    ASSUME NEW tc \in TimerCans
    PROVE  LET r == stop_all_timer(tc) IN
           /\ r \in TimerCans
           /\ \A x \in Ids : ~r[x].waiting /\ r[x].queued = tc[x].queued
  BY DEF stop_all_timer, stop_timer, TimerCans, Timers, TimerInfos

\* A handler is taken.
LEMMA TakeTimer ==
    ASSUME NEW tc \in TimerCans, NEW id \in Ids, tc[id].queued > 0
    PROVE  LET r == Taken(tc, id) IN
           /\ r \in TimerCans /\ \A x \in Ids : x # id => r[x] = tc[x]
           /\ r[id].waiting = tc[id].waiting /\ r[id].queued = tc[id].queued - 1
           /\ r[id].user_data = tc[id].user_data
  BY DEF Taken, TimerCans, Timers, TimerInfos

\* A wait expires.
LEMMA ExpireTimer ==
    ASSUME NEW tc \in TimerCans, NEW id \in Ids
    PROVE  LET r == Expired(tc, id) IN
           /\ r \in TimerCans /\ \A x \in Ids : x # id => r[x] = tc[x]
           /\ ~r[id].waiting /\ r[id].queued = tc[id].queued + 1
<1> DEFINE new == [tc[id] EXCEPT !.waiting = FALSE, !.queued = @ + 1]
<1>1. tc[id] \in Timers
  BY DEF TimerCans
<1>2. new \in Timers /\ ~new.waiting /\ new.queued = tc[id].queued + 1
  <2> DEFINE k == [tc[id] EXCEPT !.waiting = FALSE]
  <2>1. FALSE \in BOOLEAN
    OBVIOUS
  <2>2. k \in Timers /\ ~k.waiting /\ k.queued = tc[id].queued
    BY <1>1, <2>1 DEF Timers, TimerInfos
  <2>3. new = [k EXCEPT !.queued = @ + 1]
    BY <1>1 DEF Timers, TimerInfos
  <2>4. k.queued + 1 \in Nat
    BY <1>1, <2>2 DEF Timers, TimerInfos
  <2> HIDE DEF k
  <2> QED
    BY <2>2, <2>3, <2>4 DEF Timers, TimerInfos
<1>3. Expired(tc, id) = [tc EXCEPT ![id] = new]
  BY <1>1 DEF Expired, TimerCans
<1> HIDE DEF new
<1> QED
  BY <1>2, <1>3 DEF TimerCans

\* start_timer and update_timer_info, of timer 11.
LEMMA CountDown ==
    ASSUME NEW tc \in TimerCans, NEW data \in 0..TICKS
    PROVE  /\ LET r == update_timer_info(tc, 11, data) IN r \in TimerCans /\ \A x \in Ids : x # 11 => r[x] = tc[x]
           /\ LET r == start_timer(tc, 11) IN r \in TimerCans /\ \A x \in Ids : x # 11 => r[x] = tc[x]
<1>1. 11 \in Ids
  BY DEF Ids
<1> QED
  BY <1>1 DEF update_timer_info, start_timer, TimerCans, Timers, TimerInfos

-----------------------------------------------------------------------------
(* The link is driven by one chain of handlers. *)

Ends(a, t) == a[t] \in {"broken", "restart"}
NoEnd(a) == \A t \in IoThreads : ~Ends(a, t)

\* What drives the link excludes all that could: an operation of the socket or
\* its handler, timer 0, timer 10, and a thread in on_recv_error.
ChainOf(s, tc, a) ==
    /\ Rest(s) \/ Reads(s) \/ Connects(s)
    /\ Off(tc, 0) \/ On(tc, 0)
    /\ Off(tc, 10) \/ On(tc, 10)
    /\ \A t, u \in IoThreads : Ends(a, t) /\ Ends(a, u) => t = u
    /\ ~Rest(s) => Off(tc, 0) /\ Off(tc, 10) /\ NoEnd(a)
    /\ ~Off(tc, 0) => Off(tc, 10) /\ NoEnd(a)
    /\ ~Off(tc, 10) => NoEnd(a)
ChainInv == ChainOf(io, timer_can, at)

Findings == {"nothing", "reads", "connects", "waits", "handles"}

\* TypeOK, in other words.
TypeInv ==
    /\ connected \in BOOLEAN /\ reconnecting \in BOOLEAN /\ started \in BOOLEAN
    /\ close_state \in 0..2
    /\ io \in Sockets
    /\ timer_can \in TimerCans
    /\ at \in [Threads -> Places] /\ arg \in [Threads -> BOOLEAN]
    /\ asked \in {"nothing", "reconnect", "close"} /\ during \in Findings /\ outrun \in BOOLEAN

\* They say the same.
LEMMA TypeWords == TypeOK <=> TypeInv
<1>1. {connected, reconnecting, started} \subseteq BOOLEAN
        <=> connected \in BOOLEAN /\ reconnecting \in BOOLEAN /\ started \in BOOLEAN
  BY Zenon
<1> QED
  BY <1>1, Zenon DEF TypeOK, TypeInv, Sockets, Links, Handlers, TimerCans, Timers, Findings

\* The one chain, counted.
LEMMA ChainCount == TypeInv /\ ChainInv => OneChain
<1> SUFFICES ASSUME TypeInv, ChainInv PROVE Chains <= 1
  BY DEF OneChain
<1> DEFINE W == {id \in {0, 10} : timer_can[id].waiting}
           E == {t \in IoThreads : at[t] \in {"broken", "restart"}}
           n0 == timer_can[0].queued
           n1 == timer_can[10].queued
<1>1. /\ io.reads \in 0..1 /\ io.connects \in 0..1 /\ Len(io.queue) \in Nat
      /\ Rest(io) => io.reads + io.connects + Len(io.queue) = 0
      /\ ~Rest(io) => io.reads + io.connects + Len(io.queue) = 1
  <2>1. io \in Sockets /\ io.queue \in Seq(Handlers) /\ io.reads \in 0..1 /\ io.connects \in 0..1
    BY DEF TypeInv, Sockets
  <2>2. Rest(io) => io.reads + io.connects + Len(io.queue) = 0
    BY DEF Rest
  <2>3. Queue1(io, "read") \/ Queue1(io, "connect") => Len(io.queue) = 1
    <3>1. \A h : Len(<<h>>) = 1
      OBVIOUS
    <3> QED
      BY <3>1, Zenon DEF Queue1
  <2>4. Reads(io) \/ Connects(io) => io.reads + io.connects + Len(io.queue) = 1
    <3>1. io.queue = <<>> => Len(io.queue) = 0
      OBVIOUS
    <3>2. Reads(io) => \/ io.reads = 1 /\ io.connects = 0 /\ Len(io.queue) = 0
                       \/ io.reads = 0 /\ io.connects = 0 /\ Len(io.queue) = 1
      BY <2>3, <3>1, Zenon DEF Reads
    <3>3. Connects(io) => \/ io.reads = 0 /\ io.connects = 1 /\ Len(io.queue) = 0
                          \/ io.reads = 0 /\ io.connects = 0 /\ Len(io.queue) = 1
      BY <2>3, <3>1, Zenon DEF Connects
    <3> DEFINE a == io.reads
               b == io.connects
               c == Len(io.queue)
    <3>4. (a = 1 /\ b = 0 /\ c = 0) \/ (a = 0 /\ b = 1 /\ c = 0) \/ (a = 0 /\ b = 0 /\ c = 1) => a + b + c = 1
      <4> HIDE DEF a, b, c
      <4> QED
        OBVIOUS
    <3> QED
      BY <3>2, <3>3, <3>4, Zenon
  <2> QED
    BY <2>1, <2>2, <2>4 DEF ChainInv, ChainOf
<1>2. n0 \in Nat /\ n1 \in Nat
  BY DEF TypeInv, TimerCans, Timers, TimerInfos, Ids
<1>3. Cardinality({}) = 0 /\ \A x : Cardinality({x}) = 1
  BY FS_EmptySet, FS_Singleton
<1>4. IF NoEnd(at) THEN Cardinality(E) = 0 ELSE Cardinality(E) = 1
  <2>1. CASE NoEnd(at)
    <3>1. E = {}
      BY <2>1 DEF NoEnd, Ends
    <3> QED
      BY <1>3, <2>1, <3>1
  <2>2. CASE ~NoEnd(at)
    <3>1. PICK t \in IoThreads : Ends(at, t)
      BY <2>2 DEF NoEnd
    <3>2. E = {t}
      BY <3>1 DEF ChainInv, ChainOf, Ends
    <3> QED
      BY <1>3, <2>2, <3>2
  <2> QED
    BY <2>1, <2>2
<1>5. /\ ~timer_can[0].waiting /\ ~timer_can[10].waiting => Cardinality(W) = 0
      /\ timer_can[0].waiting /\ ~timer_can[10].waiting => Cardinality(W) = 1
      /\ ~timer_can[0].waiting /\ timer_can[10].waiting => Cardinality(W) = 1
  <2>1. ~timer_can[0].waiting /\ ~timer_can[10].waiting => W = {}
    OBVIOUS
  <2>2. timer_can[0].waiting /\ ~timer_can[10].waiting => W = {0}
    OBVIOUS
  <2>3. ~timer_can[0].waiting /\ timer_can[10].waiting => W = {10}
    OBVIOUS
  <2> HIDE DEF W
  <2> QED
    BY <1>3, <2>1, <2>2, <2>3
<1>6. Chains = io.reads + io.connects + Len(io.queue) + n0 + n1 + Cardinality(W) + Cardinality(E)
  BY DEF Chains
<1> HIDE DEF W, E
<1>7. /\ Off(timer_can, 0) => ~timer_can[0].waiting /\ n0 = 0
      /\ Off(timer_can, 10) => ~timer_can[10].waiting /\ n1 = 0
      /\ On(timer_can, 0) => (timer_can[0].waiting /\ n0 = 0) \/ (~timer_can[0].waiting /\ n0 = 1)
      /\ On(timer_can, 10) => (timer_can[10].waiting /\ n1 = 0) \/ (~timer_can[10].waiting /\ n1 = 1)
  BY Zenon DEF Off, On
<1> HIDE DEF n0, n1
<1>8. CASE ~Rest(io)
  BY <1>1, <1>2, <1>4, <1>5, <1>6, <1>7, <1>8 DEF ChainInv, ChainOf
<1>9. CASE Rest(io) /\ ~Off(timer_can, 0)
  BY <1>1, <1>2, <1>4, <1>5, <1>6, <1>7, <1>9 DEF ChainInv, ChainOf
<1>10. CASE Rest(io) /\ Off(timer_can, 0) /\ ~Off(timer_can, 10)
  BY <1>1, <1>2, <1>4, <1>5, <1>6, <1>7, <1>10 DEF ChainInv, ChainOf
<1>11. CASE Rest(io) /\ Off(timer_can, 0) /\ Off(timer_can, 10)
  BY <1>1, <1>2, <1>4, <1>5, <1>6, <1>7, <1>11 DEF ChainInv, ChainOf
<1> QED
  BY <1>8, <1>9, <1>10, <1>11

-----------------------------------------------------------------------------
(* The phases of a link: which chain it has. *)

Reading(s, tc, a)    == Reads(s)    /\ Off(tc, 0) /\ Off(tc, 10) /\ NoEnd(a)
Connecting(s, tc, a) == Connects(s) /\ Off(tc, 0) /\ Off(tc, 10) /\ NoEnd(a)
Pausing(s, tc, a)    == Rest(s)     /\ On(tc, 0)  /\ Off(tc, 10) /\ NoEnd(a)
Retrying(s, tc, a)   == Rest(s)     /\ Off(tc, 0) /\ On(tc, 10)  /\ NoEnd(a)
Resting(s, tc, a)    == Rest(s)     /\ Off(tc, 0) /\ Off(tc, 10) /\ NoEnd(a)
Ending(s, tc, a, t)  == Rest(s)     /\ Off(tc, 0) /\ Off(tc, 10) /\ \A u \in IoThreads : Ends(a, u) <=> u = t

\* A timer is not both off and on.
LEMMA OffOn ==
    ASSUME NEW tc, NEW id
    PROVE  On(tc, id) => ~Off(tc, id)
  BY DEF On, Off

\* A link is in one of the phases ...
LEMMA SomePhase ==
    ASSUME NEW s, NEW tc, NEW a, ChainOf(s, tc, a)
    PROVE  \/ Reading(s, tc, a) \/ Connecting(s, tc, a) \/ Pausing(s, tc, a) \/ Retrying(s, tc, a)
           \/ Resting(s, tc, a) \/ \E t \in IoThreads : Ending(s, tc, a, t)
<1>1. CASE NoEnd(a)
  BY <1>1, Exclusive, OffOn DEF ChainOf, Reading, Connecting, Pausing, Retrying, Resting
<1>2. CASE ~NoEnd(a)
  <2>1. PICK t \in IoThreads : Ends(a, t)
    BY <1>2 DEF NoEnd
  <2>2. \A u \in IoThreads : Ends(a, u) <=> u = t
    BY <2>1, Zenon DEF ChainOf
  <2>3. Rest(s) /\ Off(tc, 0) /\ Off(tc, 10)
    BY <1>2 DEF ChainOf
  <2> QED
    BY <2>2, <2>3, Zenon DEF Ending
<1> QED
  BY <1>1, <1>2

\* ... and every phase is a chain.
LEMMA PhaseIsChain ==
    ASSUME NEW s, NEW tc, NEW a,
           \/ Reading(s, tc, a) \/ Connecting(s, tc, a) \/ Pausing(s, tc, a) \/ Retrying(s, tc, a)
           \/ Resting(s, tc, a) \/ \E t \in IoThreads : Ending(s, tc, a, t)
    PROVE  ChainOf(s, tc, a)
<1>1. CASE Reading(s, tc, a) \/ Connecting(s, tc, a)
  BY <1>1, Exclusive, Zenon DEF ChainOf, Reading, Connecting, NoEnd
<1>2. CASE Pausing(s, tc, a) \/ Retrying(s, tc, a) \/ Resting(s, tc, a)
  BY <1>2, OffOn, Zenon DEF ChainOf, Pausing, Retrying, Resting, NoEnd
<1>3. ASSUME NEW t \in IoThreads, Ending(s, tc, a, t) PROVE ChainOf(s, tc, a)
  BY <1>3, Zenon DEF ChainOf, Ending
<1> QED
  BY <1>1, <1>2, <1>3

\* The first handler in the queue is the only one.
LEMMA TakesOne ==
    ASSUME TypeInv, ChainInv, NEW t, NEW op, Takes(t, op)
    PROVE  /\ rest \in Sockets /\ Rest(rest)
           /\ op = "read" => Reading(io, timer_can, at)
           /\ op = "connect" => Connecting(io, timer_can, at)
           /\ Head(io.queue) \in Handlers
<1>1. io \in Sockets /\ io.queue # <<>> /\ Head(io.queue).op = op
  BY DEF TypeInv, Takes
<1>2. ~Rest(io)
  BY <1>1 DEF Rest
<1>3. PICK k \in {"read", "connect"} : Queue1(io, k) /\ io.reads = 0 /\ io.connects = 0
                                      /\ (k = "read" => Reads(io)) /\ (k = "connect" => Connects(io))
  BY <1>1, <1>2 DEF ChainInv, ChainOf, Reads, Connects
<1>4. PICK h \in Handlers : h.op = k /\ io.queue = <<h>>
  BY <1>3, Zenon DEF Queue1
<1>5. Head(<<h>>) = h /\ Tail(<<h>>) = <<>> /\ <<>> \in Seq(Handlers)
  OBVIOUS
<1>6. op = k /\ Head(io.queue) \in Handlers
  BY <1>1, <1>4, <1>5, Zenon
<1>7. rest = [io EXCEPT !.queue = <<>>]
  BY <1>4, <1>5, Zenon DEF rest
<1>8. rest \in Sockets /\ Rest(rest)
  BY <1>1, <1>3, <1>5, <1>7 DEF Sockets, Rest
<1> QED
  BY <1>2, <1>3, <1>6, <1>8 DEF ChainInv, ChainOf, Reading, Connecting

-----------------------------------------------------------------------------
(* The flags, phase by phase, unless the last close met a handler. *)

Out(a) == a[app] \notin {"closing", "shutdown"}
In(a, place) == \E t \in IoThreads : a[t] = place

\* A connected link is not about to be connected.
UpOf(s, tc, up) == up => ~Connects(s) /\ Off(tc, 10)

\* Nobody closed the link but the server, or it was read when it was closed: it
\* is up only while it is read; while it is being connected close_state is 0 and
\* it is not closed for good; closed for good, on_recv_error finds reconnecting false.
DrivenOf(s, tc, a, up, again, state, ask) ==
    /\ Connects(s) \/ ~Off(tc, 10) \/ In(a, "restart") => ~up /\ state = 0 /\ ask # "close"
    /\ ~Off(tc, 0) => up /\ state = 0 /\ ask # "close"
    /\ In(a, "broken") => ~up /\ state = 1 /\ (ask = "close" => ~again)
    /\ Resting(s, tc, a) => ~up
    /\ Reads(s) => (up => state = 0 /\ ask # "close") /\ (ask = "close" => ~again /\ state # 0)

\* It was closed for good while it was being connected: the aborted handler is
\* still to come, or nothing is.
GivenUpOf(s, tc, a, up, again) ==
    ~up /\ ~again /\ (Aborted(s) \/ Rest(s)) /\ Off(tc, 0) /\ Off(tc, 10) /\ NoEnd(a)

\* It was closed while nothing but a timer waited.
WaitedOf(s, tc, a, up) == ~up /\ Rest(s) /\ Off(tc, 10) /\ NoEnd(a)

\* The application is between the two halves of its close, and no handler ran:
\* only the countdown of an earlier close can have closed the socket.
HalfwayOf(s, tc, a, up, again, state, ask) ==
    /\ ~up /\ (ask = "close" => ~again)
    /\ state = 1 => s.reads = 0 /\ s.connects = 0 /\ ~tc[0].waiting /\ ~tc[10].waiting
    /\ a[app] = "shutdown" => state = 0 /\ ~Connects(s) /\ Off(tc, 10)

FlagOf(s, tc, a, up, again, state, ask, found) ==
    /\ ~Out(a) => HalfwayOf(s, tc, a, up, again, state, ask)
    /\ Out(a) /\ found \in {"nothing", "reads"} => DrivenOf(s, tc, a, up, again, state, ask)
    /\ Out(a) /\ found = "connects" /\ ask = "close" => GivenUpOf(s, tc, a, up, again)
    /\ Out(a) /\ found = "waits" => WaitedOf(s, tc, a, up)

UpInv   == UpOf(io, timer_can, connected)
FlagInv == \/ during = "handles"
           \/ FlagOf(io, timer_can, at, connected, reconnecting, close_state, asked, during)

\* The invariants of the next state.
LEMMA Primed ==
    /\ ChainInv' <=> ChainOf(io', timer_can', at')
    /\ UpInv' <=> UpOf(io', timer_can', connected')
    /\ FlagInv' <=> \/ during' = "handles"
                    \/ FlagOf(io', timer_can', at', connected', reconnecting', close_state', asked', during')
  BY DEF ChainInv, ChainOf, UpInv, UpOf, FlagInv, FlagOf, DrivenOf, GivenUpOf, WaitedOf, HalfwayOf, Aborted,
         Rest, Reads, Connects, Queue1, Off, On, NoEnd, Ends, In, Out, Resting

\* What DrivenOf asks, phase by phase.
LEMMA DrivenPhases ==
    ASSUME NEW s, NEW tc, NEW a, NEW up, NEW again, NEW state, NEW ask
    PROVE  /\ /\ Reading(s, tc, a)
              /\ up => state = 0 /\ ask # "close"
              /\ ask = "close" => ~again /\ state # 0
              => DrivenOf(s, tc, a, up, again, state, ask)
           /\ /\ Connecting(s, tc, a) \/ Retrying(s, tc, a)
              /\ ~up /\ state = 0 /\ ask # "close"
              => DrivenOf(s, tc, a, up, again, state, ask)
           /\ /\ Pausing(s, tc, a)
              /\ up /\ state = 0 /\ ask # "close"
              => DrivenOf(s, tc, a, up, again, state, ask)
           /\ /\ Resting(s, tc, a)
              /\ ~up
              => DrivenOf(s, tc, a, up, again, state, ask)
           /\ \A t \in IoThreads :
              /\ Ending(s, tc, a, t)
              /\ ~up
              /\ a[t] = "broken" => state = 1 /\ (ask = "close" => ~again)
              /\ a[t] = "restart" => state = 0 /\ ask # "close"
              => DrivenOf(s, tc, a, up, again, state, ask)
<1>1. NoEnd(a) => ~In(a, "broken") /\ ~In(a, "restart")
  BY DEF NoEnd, Ends, In
<1>3. Reading(s, tc, a) \/ Connecting(s, tc, a) => ~Rest(s)
  BY Exclusive, Zenon DEF Reading, Connecting
<1>4. Rest(s) => ~Reads(s) /\ ~Connects(s)
  BY Exclusive, Zenon
<1>5. ASSUME NEW t \in IoThreads, Ending(s, tc, a, t)
      PROVE  /\ In(a, "broken") => a[t] = "broken"
             /\ In(a, "restart") => a[t] = "restart"
             /\ ~NoEnd(a)
  BY <1>5 DEF Ending, In, Ends, NoEnd
<1>6. \A t \in IoThreads : Ending(s, tc, a, t) => ~NoEnd(a) /\ Rest(s) /\ Off(tc, 0) /\ Off(tc, 10)
  BY <1>5, Zenon DEF Ending
<1> QED
  BY <1>1, <1>3, <1>4, <1>5, <1>6, OffOn, Exclusive, Zenon
     DEF DrivenOf, Reading, Connecting, Pausing, Retrying, Resting

\* What UpOf asks, phase by phase.
LEMMA UpPhases ==
    ASSUME NEW s, NEW tc, NEW a, NEW up
    PROVE  /\ Reading(s, tc, a) \/ Pausing(s, tc, a) \/ Resting(s, tc, a) => UpOf(s, tc, up)
           /\ \A t \in IoThreads : Ending(s, tc, a, t) => UpOf(s, tc, up)
           /\ ~up => UpOf(s, tc, up)
<1>1. Rest(s) \/ Reads(s) => ~Connects(s)
  BY Exclusive, Zenon
<1> QED
  BY <1>1, Zenon DEF UpOf, Reading, Pausing, Resting, Ending

\* A handler that finds the application at rest, and a link that was not closed
\* while it waited or, for good, while it was being connected: DrivenOf is all.
LEMMA Met0 ==
    ASSUME NEW s, NEW tc, NEW a, NEW up, NEW again, NEW state, NEW ask, NEW found,
           Out(a),
           found \in {"nothing", "reads"} => DrivenOf(s, tc, a, up, again, state, ask),
           found = "connects" => ask # "close",
           found # "waits"
    PROVE  FlagOf(s, tc, a, up, again, state, ask, found)
  BY Zenon DEF FlagOf

-----------------------------------------------------------------------------
(* Every step keeps the invariants. *)

\* The types of all but the socket and the timers.
OthersOK ==
    /\ connected \in BOOLEAN /\ reconnecting \in BOOLEAN /\ started \in BOOLEAN
    /\ close_state \in 0..2
    /\ at \in [Threads -> Places] /\ arg \in [Threads -> BOOLEAN]
    /\ asked \in {"nothing", "reconnect", "close"} /\ during \in Findings /\ outrun \in BOOLEAN

\* They are kept by every step.
LEMMA OthersStep == OthersOK /\ [Next]_vars => OthersOK'
<1> SUFFICES ASSUME OthersOK, [Next]_vars PROVE OthersOK'
  OBVIOUS
<1>0. /\ at \in [Threads -> Places] /\ arg \in [Threads -> BOOLEAN]
      /\ TRUE \in BOOLEAN /\ FALSE \in BOOLEAN /\ 0 \in 0..2 /\ 1 \in 0..2 /\ 2 \in 0..2
  BY DEF OthersOK
<1>1. ASSUME NEW t, NEW p \in Places, Goto(t, p) PROVE at' \in [Threads -> Places]
  BY <1>0, <1>1 DEF Goto
<1>2. {"idle", "broken", "restart", "started", "closing", "shutdown", "lingering", "again", "rearm"} \subseteq Places
  BY DEF Places
<1>a. {"nothing", "reads", "connects", "waits", "handles"} \subseteq Findings /\ during \in Findings /\ Doing \in Findings
  BY DEF Findings, OthersOK, Doing
<1>3. ASSUME NEW event, Met(event) PROVE during' \in Findings
  BY <1>3, <1>a, Zenon DEF Met
<1>b. ASSUME Found PROVE during' \in Findings /\ asked' = asked /\ outrun' = outrun
  BY <1>a, <1>b, Zenon DEF Found
<1>4. ASSUME NEW reconnect \in BOOLEAN, Asked(reconnect)
      PROVE  asked' \in {"nothing", "reconnect", "close"} /\ during' \in Findings /\ outrun' = outrun
  <2>1. asked' \in {"nothing", "reconnect", "close"}
    BY <1>4 DEF Asked
  <2> QED
    BY <1>4, <1>a, <2>1, Zenon DEF Asked
<1>5. ASSUME NEW t \in IoThreads, IoStep(t) PROVE OthersOK'
  <2>1. CASE connect_handler_ok(t) \/ connect_handler_error(t) \/ on_timer_start(t)
    <3>1. during' \in Findings
      BY <1>3, <2>1, Zenon DEF connect_handler_ok, connect_handler_error, on_timer_start
    <3> QED
      BY <1>0, <2>1, <3>1, Zenon DEF connect_handler_ok, connect_handler_error, on_timer_start, OthersOK, flags
  <2>2. CASE recv_handler(t)
    <3>1. during' \in Findings
      BY <1>3, <1>a, <2>2, Zenon DEF recv_handler
    <3>2. asked' \in {"nothing", "reconnect", "close"}
      <4>1. "close" \in {"nothing", "reconnect", "close"} /\ asked \in {"nothing", "reconnect", "close"}
        BY DEF OthersOK
      <4> QED
        BY <2>2, <4>1, Zenon DEF recv_handler
    <3>3. connected' \in BOOLEAN /\ reconnecting' \in BOOLEAN /\ started' \in BOOLEAN /\ close_state' \in 0..2
      BY <1>0, <2>2, Zenon DEF recv_handler, OthersOK, flags
    <3> QED
      BY <2>2, <3>1, <3>2, <3>3, Zenon DEF recv_handler, OthersOK
  <2>3. CASE on_recv_error(t)
    <3>1. at' \in [Threads -> Places]
      BY <1>1, <1>2, <2>3, Zenon DEF on_recv_error
    <3>2. during' \in Findings
      BY <1>3, <2>3, Zenon DEF on_recv_error
    <3>3. connected' \in BOOLEAN /\ reconnecting' \in BOOLEAN /\ started' \in BOOLEAN /\ close_state' \in 0..2
      BY <1>0, <2>3, Zenon DEF on_recv_error, OthersOK, flags, clean_up
    <3> QED
      BY <2>3, <3>1, <3>2, <3>3, Zenon DEF on_recv_error, OthersOK
  <2>4. CASE link_broken(t)
    <3>1. (IF reconnecting THEN "restart" ELSE "idle") \in Places
      BY <1>2
    <3>2. at' \in [Threads -> Places]
      BY <1>1, <2>4, <3>1, Zenon DEF link_broken
    <3>3. during' \in Findings
      BY <1>3, <2>4, Zenon DEF link_broken
    <3> QED
      BY <1>0, <2>4, <3>2, <3>3, Zenon DEF link_broken, OthersOK
  <2>5. CASE start(t)
    <3>1. at' \in [Threads -> Places]
      BY <1>1, <1>2, <2>5, Zenon DEF start
    <3>2. during' \in Findings
      BY <1>3, <2>5, Zenon DEF start
    <3> QED
      BY <2>5, <3>1, <3>2, Zenon DEF start, OthersOK, flags
  <2>6. CASE on_timer_11(t)
    <3>1. at' \in [Threads -> Places]
      BY <1>0, <1>1, <1>2, <2>6, Zenon DEF on_timer_11
    <3> QED
      BY <1>0, <2>6, <3>1, Zenon DEF on_timer_11, OthersOK, flags, ghost
  <2>7. CASE timer_again(t)
    <3>1. (IF timer_can[11].status = "ok" THEN "rearm" ELSE "idle") \in Places
      BY <1>2
    <3>2. at' \in [Threads -> Places]
      BY <1>1, <2>7, <3>1, Zenon DEF timer_again
    <3> QED
      BY <2>7, <3>2, Zenon DEF timer_again, OthersOK, flags, ghost
  <2>8. CASE timer_rearm(t)
    <3>1. at' \in [Threads -> Places]
      BY <1>1, <1>2, <2>8, Zenon DEF timer_rearm
    <3> QED
      BY <2>8, <3>1, Zenon DEF timer_rearm, OthersOK, flags, ghost
  <2>9. CASE start_returns_true(t)
    <3>1. at' \in [Threads -> Places]
      BY <1>1, <1>2, <2>9, Zenon DEF start_returns_true
    <3>2. outrun' \in BOOLEAN
      BY <2>9 DEF start_returns_true, OthersOK
    <3> QED
      BY <1>0, <2>9, <3>1, <3>2, Zenon DEF start_returns_true, OthersOK
  <2> QED
    BY <1>5, <2>1, <2>2, <2>3, <2>4, <2>5, <2>6, <2>7, <2>8, <2>9, Zenon DEF IoStep
<1>6. ASSUME NEW id \in Ids, timer_expires(id) PROVE OthersOK'
  BY <1>6, Zenon DEF timer_expires, OthersOK, flags, ghost
<1>7. CASE AppStep
  <2>1. at' \in [Threads -> Places]
    BY <1>1, <1>2, <1>7, Zenon DEF AppStep, force_closed, graceful_shutdown, graceful_closed
  <2>2. during' \in Findings /\ asked' = asked /\ outrun' = outrun
    <3>1. CASE force_closed \/ graceful_shutdown
      BY <1>b, <3>1, Zenon DEF force_closed, graceful_shutdown
    <3>2. CASE graceful_closed
      BY <1>a, <3>2, Zenon DEF graceful_closed, ghost
    <3> QED
      BY <1>7, <3>1, <3>2, Zenon DEF AppStep
  <2>3. started' \in BOOLEAN /\ close_state' \in 0..2
    BY <1>0, <1>7, Zenon DEF AppStep, force_closed, graceful_shutdown, graceful_closed, clean_up, OthersOK
  <2> QED
    BY <1>7, <2>1, <2>2, <2>3, Zenon DEF AppStep, force_closed, graceful_shutdown, graceful_closed, OthersOK
<1>8. ASSUME NEW reconnect \in BOOLEAN, force_close(reconnect) PROVE OthersOK'
  <2>1. at' \in [Threads -> Places]
    BY <1>1, <1>2, <1>8, Zenon DEF force_close
  <2> QED
    BY <1>0, <1>4, <1>8, <2>1, Zenon DEF force_close, OthersOK
<1>9. ASSUME NEW reconnect \in BOOLEAN, NEW sync \in BOOLEAN, graceful_close(reconnect, sync) PROVE OthersOK'
  <2>1. at' \in [Threads -> Places]
    BY <1>1, <1>2, <1>9, Zenon DEF graceful_close
  <2>2. arg' \in [Threads -> BOOLEAN]
    BY <1>0, <1>9 DEF graceful_close
  <2> QED
    BY <1>0, <1>4, <1>9, <2>1, <2>2, Zenon DEF graceful_close, OthersOK
<1>10. CASE restart
  <2>1. asked' \in {"nothing", "reconnect", "close"}
    BY <1>10 DEF restart
  <2> QED
    BY <1>0, <1>10, <1>a, <2>1, Zenon DEF restart, OthersOK
<1>11. CASE connect_completes \/ msg_arrives \/ peer_closes
  BY <1>11, Zenon DEF connect_completes, msg_arrives, peer_closes, OthersOK, flags, ghost
<1>12. CASE UNCHANGED vars
  BY <1>12, Zenon DEF vars, flags, OthersOK, ghost
<1>13. CASE Next
  BY <1>13, <1>5, <1>6, <1>7, <1>8, <1>9, <1>10, <1>11, Zenon DEF Next
<1> QED
  BY <1>12, <1>13

\* What a step owes: the socket and the timers, one chain, and the flags.
FlagsReached ==
    \/ during' = "handles"
    \/ FlagOf(io', timer_can', at', connected', reconnecting', close_state', asked', during')
Reached ==
    /\ io' \in Sockets /\ timer_can' \in TimerCans
    /\ ChainOf(io', timer_can', at')
    /\ UpOf(io', timer_can', connected')
    /\ FlagsReached

Inv == TypeInv /\ ChainInv /\ UpInv /\ FlagInv

\* A step that leaves the link in the phase it is in.
LEMMA SamePhase ==
    ASSUME NEW s, NEW tc, NEW a, NEW r, NEW td, NEW b, ChainOf(s, tc, a),
           Rest(s) => Rest(r), Reads(s) => Reads(r), Connects(s) => Connects(r),
           \A id \in {0, 10} : Off(tc, id) => Off(td, id),
           \A id \in {0, 10} : On(tc, id) => On(td, id) \/ Off(td, id),
           \A t \in IoThreads : Ends(a, t) <=> Ends(b, t)
    PROVE  ChainOf(r, td, b)
<1>1. NoEnd(a) => NoEnd(b)
  BY Zenon DEF NoEnd
<1>2. /\ Off(tc, 0) => Off(td, 0)
      /\ Off(tc, 10) => Off(td, 10)
      /\ On(tc, 0) => On(td, 0) \/ Off(td, 0)
      /\ On(tc, 10) => On(td, 10) \/ Off(td, 10)
  OBVIOUS
<1>3. \A t, u \in IoThreads : Ends(b, t) /\ Ends(b, u) => t = u
  BY Zenon DEF ChainOf
<1> QED
  BY <1>1, <1>2, <1>3, Zenon DEF ChainOf

\* A step of the io threads, the server or the network that leaves the link in
\* its phase and touches no flag.
LEMMA SameFlags ==
    ASSUME Inv, io' \in Sockets, timer_can' \in TimerCans,
           Rest(io) => Rest(io'), Reads(io) => Reads(io'), Connects(io) => Connects(io'),
           io.reads = 0 => io'.reads = 0, io.connects = 0 => io'.connects = 0, Aborted(io) => Aborted(io'),
           \A id \in {0, 10} : Off(timer_can, id) => Off(timer_can', id),
           \A id \in {0, 10} : On(timer_can, id) => On(timer_can', id),
           \A id \in {0, 10} : ~timer_can[id].waiting => ~timer_can'[id].waiting,
           \A t \in IoThreads, p \in {"broken", "restart"} : at[t] = p <=> at'[t] = p,
           Out(at) => Out(at'), Out(at') => Out(at), at'[app] = "shutdown" => at[app] = "shutdown",
           connected' = connected, reconnecting' = reconnecting, close_state' = close_state,
           asked' = asked, during' = during
    PROVE  Reached
<1>1. \A t \in IoThreads : Ends(at, t) <=> Ends(at', t)
  BY DEF Ends
<1>2. ChainOf(io', timer_can', at')
  BY <1>1, SamePhase DEF Inv, ChainInv
<1>3. /\ Connects(io') => Connects(io)
      /\ Reads(io') => Reads(io)
      /\ Rest(io') => Rest(io)
  BY Exclusive, Zenon DEF Inv, ChainInv, ChainOf
<1>4. /\ Off(timer_can, 0) <=> Off(timer_can', 0)
      /\ Off(timer_can, 10) <=> Off(timer_can', 10)
  BY OffOn DEF Inv, ChainInv, ChainOf
<1>5. NoEnd(at') <=> NoEnd(at)
  BY <1>1, Zenon DEF NoEnd
<1>6. UpOf(io', timer_can', connected')
  BY <1>3, <1>4, Zenon DEF Inv, UpInv, UpOf
<1>7. ASSUME DrivenOf(io, timer_can, at, connected, reconnecting, close_state, asked)
      PROVE  DrivenOf(io', timer_can', at', connected', reconnecting', close_state', asked')
  <2>1. (In(at', "restart") => In(at, "restart")) /\ (In(at', "broken") => In(at, "broken"))
    BY DEF In
  <2>2. Resting(io', timer_can', at') => Resting(io, timer_can, at)
    BY <1>3, <1>4, <1>5, Zenon DEF Resting
  <2> QED
    BY <1>3, <1>4, <1>7, <2>1, <2>2, Zenon DEF DrivenOf
<1>8. /\ GivenUpOf(io, timer_can, at, connected, reconnecting)
         => GivenUpOf(io', timer_can', at', connected', reconnecting')
      /\ WaitedOf(io, timer_can, at, connected) => WaitedOf(io', timer_can', at', connected')
  BY <1>4, <1>5, Zenon DEF GivenUpOf, WaitedOf
<1>9. ASSUME HalfwayOf(io, timer_can, at, connected, reconnecting, close_state, asked)
      PROVE  HalfwayOf(io', timer_can', at', connected', reconnecting', close_state', asked')
  BY <1>3, <1>4, <1>9, Zenon DEF HalfwayOf
<1>10. FlagsReached
  BY <1>7, <1>8, <1>9, Zenon DEF FlagsReached, FlagOf, Inv, FlagInv
<1> QED
  BY <1>2, <1>6, <1>10, Zenon DEF Reached

\* What the invariants say of the present state, in a form the steps use.
LEMMA Here ==
    ASSUME Inv
    PROVE  /\ io \in Sockets /\ timer_can \in TimerCans /\ at \in [Threads -> Places]
           /\ ChainOf(io, timer_can, at) /\ (Rest(io) \/ Reads(io) \/ Connects(io))
           /\ UpOf(io, timer_can, connected)
           /\ during # "handles" =>
                FlagOf(io, timer_can, at, connected, reconnecting, close_state, asked, during)
           /\ app \in Threads /\ app \notin IoThreads /\ \A t \in IoThreads : t \in Threads /\ t # app
           /\ 0 \in Ids /\ 10 \in Ids /\ 11 \in Ids /\ 0 \in 0..TICKS /\ TICKS \in 0..TICKS
<1>1. 0 \in 0..TICKS /\ TICKS \in 0..TICKS /\ app \notin IoThreads
  BY ConnectorAssumption
<1>2. app \in Threads /\ \A t \in IoThreads : t \in Threads /\ t # app
  BY <1>1 DEF Threads
<1>3. 0 \in Ids /\ 10 \in Ids /\ 11 \in Ids
  BY DEF Ids
<1> QED
  BY <1>1, <1>2, <1>3, Zenon DEF Inv, TypeInv, ChainInv, UpInv, FlagInv, ChainOf

\* A handler met no close, or the flags do not matter.
LEMMA HandlerMeets ==
    ASSUME NEW event, Met(event)
    PROVE  during' = "handles" \/ (~event /\ Out(at) /\ during' = during)
  BY Zenon DEF Met, Out

\* Which close left the link what it is.
LEMMA Flags ==
    ASSUME Inv, during # "handles", Out(at)
    PROVE  /\ during \in {"nothing", "reads"} =>
                DrivenOf(io, timer_can, at, connected, reconnecting, close_state, asked)
           /\ during = "connects" /\ asked = "close" => GivenUpOf(io, timer_can, at, connected, reconnecting)
           /\ during = "waits" => WaitedOf(io, timer_can, at, connected)
           /\ during \in {"nothing", "reads", "connects", "waits"}
<1>1. during \in Findings
  BY DEF Inv, TypeInv
<1> QED
  BY <1>1, Here DEF FlagOf, Findings

\* The flags after a handler that drives the link on.
LEMMA HandlerFlags ==
    ASSUME Inv, NEW event, Met(event), Out(at) => Out(at'),
           during # "handles" /\ Out(at) /\ ~event =>
             /\ during \in {"nothing", "reads"} =>
                  DrivenOf(io', timer_can', at', connected', reconnecting', close_state', asked')
             /\ during = "connects" => asked' # "close"
             /\ during # "waits"
    PROVE  FlagsReached
<1>1. CASE during' = "handles"
  BY <1>1, Zenon DEF FlagsReached
<1>2. CASE during' # "handles"
  <2>1. ~event /\ Out(at) /\ during' = during
    BY <1>2, HandlerMeets, Zenon
  <2>2. FlagOf(io', timer_can', at', connected', reconnecting', close_state', asked', during')
    BY <1>2, <2>1, Met0, Zenon
  <2> QED
    BY <2>2, Zenon DEF FlagsReached
<1> QED
  BY <1>1, <1>2

\* connect_handler without an error: the link is read.
LEMMA ConnectedReach ==
    ASSUME Inv, NEW t \in IoThreads, connect_handler_ok(t)
    PROVE  Reached
<1>1. rest \in Sockets /\ Rest(rest) /\ Connecting(io, timer_can, at)
  BY TakesOne, Zenon DEF connect_handler_ok, Inv
<1>2. /\ io' = do_start(rest, TRUE) /\ timer_can' = timer_can /\ at' = at
      /\ connected' /\ close_state' = close_state /\ asked' = asked /\ Met(FALSE)
  BY Zenon DEF connect_handler_ok
<1>3. io' \in Sockets /\ Reads(io')
  BY <1>1, <1>2, Starts
<1>4. Reading(io', timer_can', at')
  BY <1>1, <1>2, <1>3, Zenon DEF Connecting, Reading
<1>5. ASSUME during # "handles", Out(at)
      PROVE  /\ during \in {"nothing", "reads"} =>
                  DrivenOf(io', timer_can', at', connected', reconnecting', close_state', asked')
             /\ during = "connects" => asked' # "close"
             /\ during # "waits"
  <2>1. ~Rest(io) /\ Connects(io) /\ ~Aborted(io)
    <3>1. ~Rest(io) /\ Connects(io)
      BY <1>1, Exclusive, Zenon DEF Connecting
    <3>2. Head(io.queue).ec # "aborted"
      BY DEF connect_handler_ok
    <3> QED
      BY <3>1, <3>2, AbortedConnects, Zenon
  <2>2. during \in {"nothing", "reads"} => close_state = 0 /\ asked # "close"
    BY <1>5, <2>1, Flags, Zenon DEF DrivenOf
  <2>3. during # "waits" /\ (during = "connects" => asked # "close")
    BY <1>5, <2>1, Flags, Zenon DEF GivenUpOf, WaitedOf
  <2> QED
    BY <1>2, <1>4, <2>2, <2>3, DrivenPhases, Zenon
<1>6. FlagsReached
  <2>1. Out(at) => Out(at')
    BY <1>2, Zenon
  <2> QED
    BY <1>2, <1>5, <2>1, HandlerFlags, Zenon
<1>7. ChainOf(io', timer_can', at') /\ UpOf(io', timer_can', connected') /\ timer_can' \in TimerCans
  BY <1>2, <1>4, PhaseIsChain, UpPhases, Here, Zenon
<1> QED
  BY <1>3, <1>6, <1>7, Zenon DEF Reached

\* connect_handler with an error: timer 10 is set, or the link was given up.
LEMMA RefusedReach ==
    ASSUME Inv, NEW t \in IoThreads, connect_handler_error(t)
    PROVE  Reached
<1>0. timer_can \in TimerCans /\ 10 \in Ids /\ 0 \in Ids /\ 0 \in 0..TICKS /\ UpOf(io, timer_can, connected)
  BY Here, Zenon
<1>1. rest \in Sockets /\ Rest(rest) /\ Connecting(io, timer_can, at)
  BY TakesOne, Zenon DEF connect_handler_error, Inv
<1>2. /\ at' = at /\ connected' = connected /\ close_state' = close_state /\ reconnecting' = reconnecting
      /\ asked' = asked /\ Met(FALSE)
  BY Zenon DEF connect_handler_error, flags
<1>3. io' \in Sockets /\ Rest(io')
  BY <1>1, CloseAborts DEF connect_handler_error
<1>4. ~connected
  BY <1>0, <1>1, Zenon DEF UpOf, Connecting
<1>5. ~Rest(io) /\ Connects(io)
  BY <1>1, Exclusive, Zenon DEF Connecting
<1>6. ASSUME during # "handles", Out(at)
      PROVE  /\ during \in {"nothing", "reads"} => close_state = 0 /\ asked # "close"
             /\ during # "waits"
             /\ during = "connects" /\ asked = "close" => ~reconnecting /\ Head(io.queue).ec = "aborted"
  <2>1. during \in {"nothing", "reads"} => close_state = 0 /\ asked # "close"
    BY <1>5, <1>6, Flags, Zenon DEF DrivenOf
  <2>2. during # "waits"
    BY <1>5, <1>6, Flags, Zenon DEF WaitedOf
  <2>3. during = "connects" /\ asked = "close" => ~reconnecting /\ Head(io.queue).ec = "aborted"
    BY <1>5, <1>6, Flags, AbortedConnects, Zenon DEF GivenUpOf
  <2> QED
    BY <2>1, <2>2, <2>3
<1>7. CASE timer_can' = timer_can
  <2>1. Resting(io', timer_can', at')
    BY <1>1, <1>2, <1>3, <1>7, Zenon DEF Connecting, Resting
  <2>2. CASE during' # "handles"
    <3>1. Out(at) /\ during' = during /\ during # "handles"
      BY <1>2, <2>2, HandlerMeets, Zenon
    <3>2. DrivenOf(io', timer_can', at', connected', reconnecting', close_state', asked')
      BY <1>2, <1>4, <2>1, DrivenPhases, Zenon
    <3>3. during' = "connects" /\ asked' = "close" =>
            GivenUpOf(io', timer_can', at', connected', reconnecting')
      BY <1>2, <1>4, <1>6, <2>1, <3>1, Zenon DEF GivenUpOf, Resting
    <3>4. FlagOf(io', timer_can', at', connected', reconnecting', close_state', asked', during')
      BY <1>2, <1>6, <3>1, <3>2, <3>3, Zenon DEF FlagOf
    <3> QED
      BY <1>0, <1>2, <1>3, <1>4, <1>7, <2>1, <3>4, PhaseIsChain, UpPhases, Zenon DEF Reached, FlagsReached
  <2>3. CASE during' = "handles"
    BY <1>0, <1>2, <1>3, <1>4, <1>7, <2>1, <2>3, PhaseIsChain, UpPhases, Zenon DEF Reached, FlagsReached
  <2> QED
    BY <2>2, <2>3
<1>8. CASE timer_can' = set_timer(timer_can, 10, 0) /\ (Head(io.queue).ec # "aborted" \/ reconnecting)
  <2>1. /\ timer_can' \in TimerCans /\ timer_can'[0] = timer_can[0]
        /\ timer_can'[10].waiting /\ timer_can'[10].queued = timer_can[10].queued
    BY <1>0, <1>8, SetTimer
  <2>2. Off(timer_can', 0) /\ On(timer_can', 10)
    BY <1>1, <2>1, Zenon DEF Off, On, Connecting
  <2>3. Retrying(io', timer_can', at')
    BY <1>1, <1>2, <1>3, <2>2, Zenon DEF Connecting, Retrying
  <2>4. ASSUME during # "handles", Out(at)
        PROVE  /\ during \in {"nothing", "reads"} =>
                    DrivenOf(io', timer_can', at', connected', reconnecting', close_state', asked')
               /\ during = "connects" => asked' # "close"
               /\ during # "waits"
    BY <1>2, <1>4, <1>6, <1>8, <2>3, <2>4, DrivenPhases, Zenon
  <2>5. FlagsReached
    <3>1. Out(at) => Out(at')
      BY <1>2, Zenon
    <3> QED
      BY <1>2, <2>4, <3>1, HandlerFlags, Zenon
  <2> QED
    BY <1>2, <1>3, <1>4, <2>1, <2>3, <2>5, PhaseIsChain, UpPhases, Zenon DEF Reached
<1> QED
  BY <1>7, <1>8, Zenon DEF connect_handler_error

\* What dispatch_msg leaves: a read, a connect or timer 0.
LEMMA DispatchedPhase ==
    ASSUME Inv, rest \in Sockets, Rest(rest), Reading(io, timer_can, at), NEW d \in Dispatched
    PROVE  /\ d[1] \in Sockets /\ d[2] \in TimerCans
           /\ \/ d[2] = timer_can /\ IF connected THEN Reads(d[1]) ELSE Connects(d[1])
              \/ Rest(d[1]) /\ On(d[2], 0) /\ Off(d[2], 10)
<1>0. timer_can \in TimerCans /\ 10 \in Ids /\ 0 \in Ids /\ 0 \in 0..TICKS
  BY Here, Zenon
<1>1. CASE d = <<do_start(rest, connected), timer_can>>
  <2>1. /\ do_start(rest, connected) \in Sockets
        /\ IF connected THEN Reads(do_start(rest, connected)) ELSE Connects(do_start(rest, connected))
    BY Starts, Zenon
  <2>2. d[1] = do_start(rest, connected) /\ d[2] = timer_can
    BY <1>1
  <2> QED
    BY <1>0, <2>1, <2>2, Zenon
<1>2. CASE d = <<rest, set_timer(timer_can, 0, 0)>>
  <2>1. LET r == set_timer(timer_can, 0, 0) IN
        r \in TimerCans /\ r[10] = timer_can[10] /\ r[0].waiting /\ r[0].queued = timer_can[0].queued
    BY <1>0, SetTimer
  <2>2. d[1] = rest /\ d[2] = set_timer(timer_can, 0, 0)
    BY <1>2
  <2>3. On(d[2], 0) /\ Off(d[2], 10)
    BY <2>1, <2>2, Zenon DEF Off, On, Reading
  <2> QED
    BY <2>1, <2>2, <2>3, Zenon
<1> QED
  BY <1>1, <1>2, Zenon DEF Dispatched

\* recv_handler with a message: the chain goes on, or on_unpack_error ends it.
LEMMA ReceivedReach ==
    ASSUME Inv, NEW t \in IoThreads, recv_handler(t)
    PROVE  Reached
<1>0. 10 \in Ids /\ 0 \in Ids
  BY Here, Zenon
<1>1. rest \in Sockets /\ Rest(rest) /\ Reading(io, timer_can, at)
  BY TakesOne, Zenon DEF recv_handler, Inv
<1>2. at' = at
  BY Zenon DEF recv_handler
<1>3. ~Rest(io) /\ Reads(io) /\ ~Connects(io) /\ ~Aborted(io)
  BY <1>1, Exclusive, AbortedConnects, Zenon DEF Reading
<1>4. ASSUME NEW d \in Dispatched, io' = d[1], timer_can' = d[2], Met(~connected), UNCHANGED <<flags, asked>>
      PROVE  Reached
  <2>1. connected' = connected /\ close_state' = close_state /\ reconnecting' = reconnecting /\ asked' = asked
    BY <1>4, Zenon DEF flags
  <2>2. /\ io' \in Sockets /\ timer_can' \in TimerCans
        /\ \/ timer_can' = timer_can /\ IF connected THEN Reads(io') ELSE Connects(io')
           \/ Rest(io') /\ On(timer_can', 0) /\ Off(timer_can', 10)
    BY <1>1, <1>4, DispatchedPhase, Zenon
  <2>3. \/ connected /\ Reading(io', timer_can', at')
        \/ ~connected /\ Connecting(io', timer_can', at')
        \/ Pausing(io', timer_can', at')
    BY <1>1, <1>2, <2>2, Zenon DEF Connecting, Reading, Pausing
  <2>4. ASSUME during # "handles", Out(at), ~(~connected)
        PROVE  /\ during \in {"nothing", "reads"} =>
                    DrivenOf(io', timer_can', at', connected', reconnecting', close_state', asked')
               /\ during = "connects" => asked' # "close"
               /\ during # "waits"
    <3>1. during \in {"nothing", "reads"} => close_state = 0 /\ asked # "close"
      BY <1>3, <2>4, Flags, Zenon DEF DrivenOf
    <3>2. during # "waits" /\ (during = "connects" => asked # "close")
      BY <1>3, <2>4, Flags, Zenon DEF GivenUpOf, WaitedOf
    <3> QED
      BY <2>1, <2>3, <2>4, <3>1, <3>2, DrivenPhases, Zenon
  <2>5. FlagsReached
    <3>1. Out(at) => Out(at')
      BY <1>2, Zenon
    <3> QED
      BY <1>4, <2>4, <3>1, HandlerFlags, Zenon
  <2> QED
    BY <2>1, <2>2, <2>3, <2>5, PhaseIsChain, UpPhases, Zenon DEF Reached
<1>5. ASSUME NEW d \in Dispatched, io' = close_socket(d[1]), timer_can' = stop_all_timer(d[2]),
             connected' = FALSE, reconnecting' = FALSE, close_state' = 1,
             during' = IF ~connected \/ at[app] \in {"closing", "shutdown"} THEN "handles" ELSE "reads"
      PROVE  Reached
  <2>1. /\ d[1] \in Sockets /\ d[2] \in TimerCans
        /\ \/ d[2] = timer_can /\ IF connected THEN Reads(d[1]) ELSE Connects(d[1])
           \/ Rest(d[1]) /\ On(d[2], 0) /\ Off(d[2], 10)
    BY <1>1, DispatchedPhase, Zenon
  <2>2. /\ io' \in Sockets /\ (Rest(d[1]) => Rest(io')) /\ (Reads(d[1]) => Reads(io'))
        /\ (Connects(d[1]) => Connects(io'))
    BY <1>5, <2>1, CloseAborts
  <2>3. /\ timer_can' \in TimerCans
        /\ \A x \in {0, 10} : ~timer_can'[x].waiting /\ timer_can'[x].queued = d[2][x].queued
    BY <1>0, <1>5, <2>1, StopTimers
  <2>4. ASSUME NEW x \in {0, 10}, d[2] = timer_can \/ (On(d[2], 0) /\ Off(d[2], 10) /\ d[2][0].queued = 0)
        PROVE  Off(timer_can', x)
    BY <1>1, <2>3, <2>4 DEF Off, On, Reading
  <2>5. d[2] = timer_can \/ (On(d[2], 0) /\ Off(d[2], 10) /\ d[2][0].queued = 0)
    <3>1. d[2] = timer_can \/ d[2] = set_timer(timer_can, 0, 0)
      BY DEF Dispatched
    <3>2. d[2] = set_timer(timer_can, 0, 0) => d[2][0].queued = timer_can[0].queued /\ d[2][10] = timer_can[10] /\ d[2][0].waiting
      BY <1>0, SetTimer, Here
    <3>3. timer_can[0].queued = 0 /\ Off(timer_can, 10)
      BY <1>1, Zenon DEF Reading, Off
    <3> QED
      BY <3>1, <3>2, <3>3, Zenon DEF On, Off
  <2>6. Off(timer_can', 0) /\ Off(timer_can', 10)
    BY <2>4, <2>5, Zenon
  <2>7. \/ connected /\ Reading(io', timer_can', at')
        \/ ~connected /\ Connecting(io', timer_can', at')
        \/ Resting(io', timer_can', at')
    BY <1>1, <1>2, <2>1, <2>2, <2>6, Zenon DEF Connecting, Reading, Resting
  <2>8. during' # "handles" => connected /\ Out(at) /\ during' = "reads"
    BY <1>5, Zenon DEF Out
  <2>9. connected => DrivenOf(io', timer_can', at', connected', reconnecting', close_state', asked')
    <3>1. close_state' # 0
      BY <1>5
    <3> QED
      BY <1>5, <2>7, <3>1, DrivenPhases, Zenon
  <2>10. FlagsReached
    <3>1. "reads" # "connects" /\ "reads" # "waits"
      OBVIOUS
    <3> QED
      BY <1>2, <2>8, <2>9, <3>1, Met0, Zenon DEF FlagsReached
  <2> QED
    BY <1>5, <2>2, <2>3, <2>7, <2>10, PhaseIsChain, UpPhases, Zenon DEF Reached
<1> QED
  BY <1>4, <1>5, Zenon DEF recv_handler

\* Timer 0 dispatches and timer 10 connects: the chain goes on.
LEMMA TimerReach ==
    ASSUME Inv, NEW t \in IoThreads, on_timer_start(t)
    PROVE  Reached
<1>0. /\ io \in Sockets /\ timer_can \in TimerCans
      /\ ChainOf(io, timer_can, at) /\ UpOf(io, timer_can, connected)
      /\ 0 \in Ids /\ 10 \in Ids
  BY Here, Zenon
<1>1. PICK id \in {0, 10} : /\ timer_can[id].queued > 0 /\ timer_can' = Taken(timer_can, id)
                            /\ Met(id = 0 /\ ~connected)
  BY Zenon DEF on_timer_start
<1>2. /\ at' = at /\ connected' = connected /\ close_state' = close_state /\ reconnecting' = reconnecting
      /\ asked' = asked /\ io' = do_start(io, connected)
  BY Zenon DEF on_timer_start, flags
<1>3. ~Off(timer_can, id)
  BY <1>1 DEF Off
<1>4. Rest(io) /\ NoEnd(at) /\ On(timer_can, id) /\ \A x \in {0, 10} : x # id => Off(timer_can, x)
  BY <1>0, <1>3 DEF ChainOf
<1>5. timer_can' \in TimerCans /\ \A x \in {0, 10} : Off(timer_can', x)
  BY <1>0, <1>1, <1>4, TakeTimer DEF On, Off
<1>6. io' \in Sockets /\ IF connected THEN Reads(io') ELSE Connects(io')
  BY <1>0, <1>2, <1>4, Starts
<1>7. IF connected THEN Reading(io', timer_can', at') ELSE Connecting(io', timer_can', at')
  BY <1>2, <1>4, <1>5, <1>6 DEF Connecting, Reading
<1>8. ASSUME during # "handles", Out(at), ~(id = 0 /\ ~connected)
      PROVE  /\ during \in {"nothing", "reads"} =>
                  DrivenOf(io', timer_can', at', connected', reconnecting', close_state', asked')
             /\ during = "connects" => asked' # "close"
             /\ during # "waits"
  <2>1. id = 0 \/ id = 10
    OBVIOUS
  <2>2. during \in {"nothing", "reads"} => close_state = 0 /\ asked # "close"
    BY <1>3, <1>8, <2>1, Flags, Zenon DEF DrivenOf
  <2>3. during = "connects" => asked # "close"
    BY <1>3, <1>8, <2>1, Flags, Zenon DEF GivenUpOf
  <2>4. during # "waits"
    <3>1. during = "waits" => ~connected /\ Off(timer_can, 10)
      BY <1>8, Flags, Zenon DEF WaitedOf
    <3> QED
      BY <1>3, <1>8, <2>1, <3>1, Zenon
  <2> QED
    BY <1>2, <1>7, <2>2, <2>3, <2>4, DrivenPhases, Zenon
<1>9. FlagsReached
  <2>1. Out(at) => Out(at')
    BY <1>2, Zenon
  <2> QED
    BY <1>1, <1>8, <2>1, HandlerFlags, Zenon
<1> QED
  BY <1>2, <1>5, <1>6, <1>7, <1>9, PhaseIsChain, UpPhases, Zenon DEF Reached

\* What Goto makes of at.
LEMMA Moved ==
    ASSUME at \in [Threads -> Places], NEW t \in Threads, NEW p, Goto(t, p)
    PROVE  at'[t] = p /\ \A u \in Threads : u # t => at'[u] = at[u]
  BY DEF Goto

\* An io thread moves in on_recv_error; no other is there.
LEMMA MovedEnd ==
    ASSUME Inv, NEW t \in IoThreads, NEW p, Goto(t, p)
    PROVE  /\ at'[t] = p /\ \A u \in Threads : u # t => at'[u] = at[u]
           /\ Out(at) <=> Out(at')
           /\ Ends(at, t) \/ NoEnd(at) =>
                /\ p \in {"idle", "started"} => NoEnd(at')
                /\ p \in {"broken", "restart"} => \A u \in IoThreads : Ends(at', u) <=> u = t
<1>0. /\ at \in [Threads -> Places] /\ ChainOf(io, timer_can, at)
      /\ app \in Threads /\ t \in Threads /\ t # app /\ \A u \in IoThreads : u \in Threads
  BY Here, Zenon
<1>1. at'[t] = p /\ \A u \in Threads : u # t => at'[u] = at[u]
  BY <1>0, Moved, Zenon
<1>2. Out(at) <=> Out(at')
  BY <1>0, <1>1, Zenon DEF Out
<1>3. ASSUME Ends(at, t) \/ NoEnd(at)
      PROVE  /\ p \in {"idle", "started"} => NoEnd(at')
             /\ p \in {"broken", "restart"} => \A u \in IoThreads : Ends(at', u) <=> u = t
  BY <1>0, <1>1, <1>3 DEF Ends, NoEnd, ChainOf
<1> QED
  BY <1>1, <1>2, <1>3, Zenon

\* on_recv_error: force_close, if the link is not closed yet.
LEMMA BrokenReach ==
    ASSUME Inv, NEW t \in IoThreads, on_recv_error(t)
    PROVE  Reached
<1>0. timer_can \in TimerCans /\ 0 \in Ids /\ 10 \in Ids /\ t \in Threads
  BY Here, Zenon
<1>1. rest \in Sockets /\ Rest(rest) /\ Reading(io, timer_can, at)
  BY TakesOne, Zenon DEF on_recv_error, Inv
<1>2. Goto(t, "broken") /\ Met(FALSE) /\ asked' = asked
  BY Zenon DEF on_recv_error
<1>3. at'[t] = "broken" /\ (Out(at) <=> Out(at')) /\ \A u \in IoThreads : Ends(at', u) <=> u = t
  BY <1>1, <1>2, MovedEnd DEF Reading
<1>4. ~Rest(io) /\ Reads(io) /\ ~Connects(io) /\ ~Aborted(io)
  BY <1>1, Exclusive, AbortedConnects, Zenon DEF Reading
<1>5. ASSUME during # "handles", Out(at)
      PROVE  /\ during \in {"nothing", "reads"} =>
                  /\ connected => close_state = 0
                  /\ asked = "close" => ~reconnecting /\ close_state # 0
             /\ during = "connects" => asked # "close"
             /\ during # "waits"
  <2>1. during \in {"nothing", "reads"} =>
          (connected => close_state = 0) /\ (asked = "close" => ~reconnecting /\ close_state # 0)
    BY <1>4, <1>5, Flags, Zenon DEF DrivenOf
  <2>2. during # "waits" /\ (during = "connects" => asked # "close")
    BY <1>4, <1>5, Flags, Zenon DEF GivenUpOf, WaitedOf
  <2> QED
    BY <2>1, <2>2
<1>6. ASSUME io' \in Sockets, Rest(io'), timer_can' \in TimerCans, Off(timer_can', 0), Off(timer_can', 10),
             close_state' = 1,
             during # "handles" /\ Out(at) /\ during \in {"nothing", "reads"} =>
                 ~connected' /\ (asked = "close" => ~reconnecting')
      PROVE  Reached
  <2>1. Ending(io', timer_can', at', t)
    BY <1>3, <1>6, Zenon DEF Ending
  <2>2. at'[t] # "restart"
    BY <1>3
  <2>3. ASSUME during # "handles", Out(at)
        PROVE  /\ during \in {"nothing", "reads"} =>
                    DrivenOf(io', timer_can', at', connected', reconnecting', close_state', asked')
               /\ during = "connects" => asked' # "close"
               /\ during # "waits"
    BY <1>2, <1>5, <1>6, <2>1, <2>2, <2>3, DrivenPhases, Zenon
  <2>4. FlagsReached
    BY <1>2, <1>3, <2>3, HandlerFlags, Zenon
  <2> QED
    BY <1>6, <2>1, <2>4, PhaseIsChain, UpPhases, Zenon DEF Reached
<1>7. CASE close_state # 1 /\ reconnecting' = (close_state = 0 \/ reconnecting) /\ ~connected' /\ clean_up(rest)
  <2>1. io' = close_socket(rest) /\ timer_can' = stop_all_timer(timer_can) /\ close_state' = 1
    BY <1>7, Zenon DEF clean_up
  <2>2. io' \in Sockets /\ Rest(io')
    BY <1>1, <2>1, CloseAborts
  <2>3. timer_can' \in TimerCans /\ \A x \in Ids : ~timer_can'[x].waiting /\ timer_can'[x].queued = timer_can[x].queued
    BY <1>0, <2>1, StopTimers
  <2>4. Off(timer_can', 0) /\ Off(timer_can', 10)
    BY <1>0, <1>1, <2>3, Zenon DEF Off, Reading
  <2>5. during # "handles" /\ Out(at) /\ during \in {"nothing", "reads"} =>
            ~connected' /\ (asked = "close" => ~reconnecting')
    BY <1>5, <1>7, Zenon
  <2> QED
    BY <1>6, <2>1, <2>2, <2>3, <2>4, <2>5, Zenon
<1>8. CASE close_state = 1 /\ io' = rest /\ UNCHANGED <<flags, timer_can>>
  <2>1. connected' = connected /\ reconnecting' = reconnecting /\ close_state' = 1 /\ timer_can' = timer_can
    BY <1>8, Zenon DEF flags
  <2>2. Off(timer_can', 0) /\ Off(timer_can', 10)
    BY <1>1, <2>1, Zenon DEF Reading
  <2>3. during # "handles" /\ Out(at) /\ during \in {"nothing", "reads"} =>
            ~connected' /\ (asked = "close" => ~reconnecting')
    <3>1. close_state # 0
      BY <1>8
    <3> QED
      BY <1>5, <2>1, <3>1, Zenon
  <2> QED
    BY <1>0, <1>1, <1>6, <1>8, <2>1, <2>2, <2>3, Zenon
<1> QED
  BY <1>7, <1>8, Zenon DEF on_recv_error

\* The rest of on_recv_error: the test of reconnecting, and start.
LEMMA RestartReach ==
    ASSUME Inv, NEW t \in IoThreads, link_broken(t) \/ start(t)
    PROVE  Reached
<1>0. /\ io \in Sockets /\ timer_can \in TimerCans
      /\ ChainOf(io, timer_can, at) /\ UpOf(io, timer_can, connected)
  BY Here, Zenon
<1>1. /\ connected' = connected /\ reconnecting' = reconnecting /\ timer_can' = timer_can
      /\ asked' = asked /\ Met(FALSE)
  BY Zenon DEF link_broken, start, flags
<1>2. Ends(at, t)
  BY DEF link_broken, start, Ends
<1>3. Rest(io) /\ Off(timer_can, 0) /\ Off(timer_can, 10) /\ ~NoEnd(at)
  BY <1>0, <1>2, Zenon DEF ChainOf, NoEnd
<1>4. ASSUME during # "handles", Out(at)
      PROVE  /\ during = "connects" => asked' # "close"
             /\ during # "waits"
  BY <1>1, <1>3, <1>4, Flags, Zenon DEF GivenUpOf, WaitedOf
<1>5. ASSUME Out(at) => Out(at'), io' \in Sockets,
             \/ Reading(io', timer_can', at') \/ Resting(io', timer_can', at')
             \/ \E u \in IoThreads : Ending(io', timer_can', at', u)
             \/ ~connected /\ Connecting(io', timer_can', at'),
             during # "handles" /\ Out(at) /\ during \in {"nothing", "reads"} =>
                DrivenOf(io', timer_can', at', connected', reconnecting', close_state', asked')
      PROVE  Reached
  <2>1. FlagsReached
    BY <1>1, <1>4, <1>5, HandlerFlags, Zenon
  <2> QED
    BY <1>0, <1>1, <1>5, <2>1, PhaseIsChain, UpPhases, Zenon DEF Reached
<1>6. CASE link_broken(t)
  <2>1. In(at, "broken") /\ close_state' = 0 /\ io' = io
    BY <1>6, Zenon DEF link_broken, In
  <2>2. Goto(t, IF reconnecting THEN "restart" ELSE "idle")
    BY <1>6, Zenon DEF link_broken
  <2>3. ASSUME during # "handles", Out(at), during \in {"nothing", "reads"}
        PROVE  ~connected /\ (asked = "close" => ~reconnecting)
    BY <2>1, <2>3, Flags, Zenon DEF DrivenOf
  <2>4. CASE reconnecting
    <3>0. Goto(t, "restart")
      BY <2>2, <2>4
    <3>1. at'[t] = "restart" /\ (Out(at) <=> Out(at')) /\ \A u \in IoThreads : Ends(at', u) <=> u = t
      BY <1>2, <3>0, MovedEnd
    <3>2. Ending(io', timer_can', at', t) /\ at'[t] # "broken"
      BY <1>1, <1>3, <2>1, <3>1 DEF Ending
    <3>3. during # "handles" /\ Out(at) /\ during \in {"nothing", "reads"} =>
             DrivenOf(io', timer_can', at', connected', reconnecting', close_state', asked')
      BY <1>1, <2>1, <2>3, <2>4, <3>2, DrivenPhases, Zenon
    <3> QED
      BY <1>0, <1>5, <2>1, <3>1, <3>2, <3>3, Zenon
  <2>5. CASE ~reconnecting
    <3>0. Goto(t, "idle")
      BY <2>2, <2>5
    <3>1. (Out(at) <=> Out(at')) /\ NoEnd(at')
      BY <1>2, <3>0, MovedEnd
    <3>2. Resting(io', timer_can', at')
      BY <1>1, <1>3, <2>1, <3>1, Zenon DEF Resting
    <3>3. during # "handles" /\ Out(at) /\ during \in {"nothing", "reads"} =>
             DrivenOf(io', timer_can', at', connected', reconnecting', close_state', asked')
      BY <1>1, <2>3, <3>2, DrivenPhases, Zenon
    <3> QED
      BY <1>0, <1>5, <2>1, <3>1, <3>2, <3>3, Zenon
  <2> QED
    BY <2>4, <2>5
<1>7. CASE start(t)
  <2>1. In(at, "restart") /\ close_state' = close_state
    BY <1>7, Zenon DEF start, In, flags
  <2>2. PICK p \in {"idle", "started"} : Goto(t, p)
    BY <1>7, Zenon DEF start
  <2>3. (Out(at) <=> Out(at')) /\ NoEnd(at')
    BY <1>2, <2>2, MovedEnd
  <2>4. ASSUME during # "handles", Out(at), during \in {"nothing", "reads"}
        PROVE  ~connected /\ close_state = 0 /\ asked # "close"
    BY <2>1, <2>4, Flags, Zenon DEF DrivenOf
  <2>5. CASE io' = io
    <3>1. Resting(io', timer_can', at')
      BY <1>1, <1>3, <2>3, <2>5, Zenon DEF Resting
    <3>2. during # "handles" /\ Out(at) /\ during \in {"nothing", "reads"} =>
             DrivenOf(io', timer_can', at', connected', reconnecting', close_state', asked')
      BY <1>1, <2>4, <3>1, DrivenPhases, Zenon
    <3> QED
      BY <1>0, <1>5, <2>3, <2>5, <3>1, <3>2, Zenon
  <2>6. CASE io' = do_start(io, connected)
    <3>1. io' \in Sockets /\ IF connected THEN Reads(io') ELSE Connects(io')
      BY <1>0, <1>3, <2>6, Starts
    <3>2. IF connected THEN Reading(io', timer_can', at') ELSE Connecting(io', timer_can', at')
      BY <1>1, <1>3, <2>3, <3>1, Zenon DEF Connecting, Reading
    <3>3. during # "handles" /\ Out(at) /\ during \in {"nothing", "reads"} =>
             DrivenOf(io', timer_can', at', connected', reconnecting', close_state', asked')
      BY <1>1, <2>1, <2>4, <3>2, DrivenPhases, Zenon
    <3> QED
      BY <1>5, <2>3, <3>1, <3>2, <3>3, Zenon
  <2> QED
    BY <1>7, <2>5, <2>6, Zenon DEF start
<1> QED
  BY <1>6, <1>7

\* A step that leaves the link in its phase connects nothing.
LEMMA SameUp ==
    ASSUME Inv, Rest(io) => Rest(io'), Reads(io) => Reads(io'), connected' => connected,
           Off(timer_can, 10) => Off(timer_can', 10)
    PROVE  UpOf(io', timer_can', connected')
<1>1. Connects(io') => Connects(io)
  BY Here, Exclusive, Zenon
<1> QED
  BY <1>1, Here, Zenon DEF UpOf

\* A graceful close has waited long enough: its socket is closed.
LEMMA CountDownEnds ==
    ASSUME Inv, during # "handles", Out(at), Out(at'), NoEnd(at) => NoEnd(at'),
           close_state = 2, close_state' = 1, io' = close_socket(io),
           \A id \in {0, 10} : Off(timer_can, id) => Off(timer_can', id),
           connected' => connected, reconnecting' = reconnecting, asked' = asked, during' = during
    PROVE  FlagOf(io', timer_can', at', connected', reconnecting', close_state', asked', during')
<1>0. io \in Sockets /\ ChainOf(io, timer_can, at) /\ (Rest(io) \/ Reads(io) \/ Connects(io))
  BY Here, Zenon
<1>1. close_state # 0 /\ close_state # 1 /\ close_state' # 0
  OBVIOUS
<1>2. (Rest(io) => Rest(io')) /\ (Reads(io) => Reads(io')) /\ (Aborted(io) => Aborted(io'))
  <2>1. (Rest(io) => Rest(io')) /\ (Reads(io) => Reads(io'))
    BY <1>0, CloseAborts
  <2> QED
    BY <1>0, <2>1, AbortedConnects, CloseAbortsConnect, Zenon
<1>3. (Off(timer_can, 0) => Off(timer_can', 0)) /\ (Off(timer_can, 10) => Off(timer_can', 10))
  OBVIOUS
<1>4. CASE during \in {"nothing", "reads"}
  <2>1. DrivenOf(io, timer_can, at, connected, reconnecting, close_state, asked)
    BY <1>4, Flags
  <2>2. Off(timer_can, 0) /\ Off(timer_can, 10) /\ ~Connects(io) /\ ~In(at, "broken") /\ ~In(at, "restart")
    BY <1>1, <2>1, Zenon DEF DrivenOf
  <2>3. NoEnd(at)
    BY <2>2 DEF NoEnd, Ends, In
  <2>4. during' # "connects" /\ during' # "waits"
    BY <1>4
  <2>5. CASE Reads(io)
    <3>1. Reading(io', timer_can', at')
      BY <1>2, <1>3, <2>2, <2>3, <2>5, Zenon DEF Reading
    <3>2. ~connected' /\ (asked = "close" => ~reconnecting)
      BY <1>1, <2>1, <2>5, Zenon DEF DrivenOf
    <3>3. DrivenOf(io', timer_can', at', connected', reconnecting', close_state', asked')
      BY <1>1, <3>1, <3>2, DrivenPhases, Zenon
    <3> QED
      BY <2>4, <3>3, Met0, Zenon
  <2>6. CASE Rest(io)
    <3>1. Resting(io', timer_can', at') /\ Resting(io, timer_can, at)
      BY <1>2, <1>3, <2>2, <2>3, <2>6, Zenon DEF Resting
    <3>2. ~connected'
      BY <2>1, <3>1, Zenon DEF DrivenOf
    <3>3. DrivenOf(io', timer_can', at', connected', reconnecting', close_state', asked')
      BY <3>1, <3>2, DrivenPhases, Zenon
    <3> QED
      BY <2>4, <3>3, Met0, Zenon
  <2> QED
    BY <1>0, <2>2, <2>5, <2>6
<1>5. CASE during = "connects"
  <2>1. asked = "close" => GivenUpOf(io, timer_can, at, connected, reconnecting)
    BY <1>5, Flags
  <2>2. asked = "close" => GivenUpOf(io', timer_can', at', connected', reconnecting')
    BY <1>2, <1>3, <2>1, Zenon DEF GivenUpOf
  <2>3. during' \notin {"nothing", "reads"} /\ during' # "waits"
    BY <1>5
  <2> QED
    BY <2>2, <2>3, Zenon DEF FlagOf
<1>6. CASE during = "waits"
  <2>1. WaitedOf(io, timer_can, at, connected)
    BY <1>6, Flags
  <2>2. WaitedOf(io', timer_can', at', connected')
    BY <1>2, <1>3, <2>1, Zenon DEF WaitedOf
  <2>3. during' \notin {"nothing", "reads"} /\ during' # "connects"
    BY <1>6
  <2> QED
    BY <2>2, <2>3, Zenon DEF FlagOf
<1> QED
  BY <1>4, <1>5, <1>6, Flags

\* The countdown, the timers and the network: the link stays in its phase,
\* unless the countdown ends.
LEMMA TimersReach ==
    ASSUME Inv, NEW t \in IoThreads,
           on_timer_11(t) \/ timer_again(t) \/ timer_rearm(t) \/ start_returns_true(t)
    PROVE  Reached
<1>0. /\ io \in Sockets /\ timer_can \in TimerCans /\ at \in [Threads -> Places]
      /\ ChainOf(io, timer_can, at) /\ (Rest(io) \/ Reads(io) \/ Connects(io))
      /\ during # "handles" =>
           FlagOf(io, timer_can, at, connected, reconnecting, close_state, asked, during)
      /\ app \in Threads /\ t \in Threads /\ t # app /\ \A u \in IoThreads : u \in Threads
      /\ 0 \in Ids /\ 10 \in Ids /\ 11 \in Ids
  BY Here, Zenon
<1>1. ASSUME NEW p, Goto(t, p), p \notin {"broken", "restart"}, at[t] \notin {"broken", "restart"}
      PROVE  /\ \A u \in IoThreads, q \in {"broken", "restart"} : at[u] = q <=> at'[u] = q
             /\ Out(at) => Out(at')
             /\ Out(at') => Out(at)
             /\ at'[app] = "shutdown" => at[app] = "shutdown"
  <2>1. at'[t] = p /\ \A u \in Threads : u # t => at'[u] = at[u]
    BY <1>0, <1>1, Moved, Zenon
  <2>2. \A u \in IoThreads, q \in {"broken", "restart"} : at[u] = q <=> at'[u] = q
    BY <1>0, <1>1, <2>1
  <2> QED
    BY <1>0, <2>1, <2>2, Zenon DEF Out
<1>2. ASSUME timer_can'[0] = timer_can[0], timer_can'[10] = timer_can[10]
      PROVE  /\ \A id \in {0, 10} : Off(timer_can, id) => Off(timer_can', id)
             /\ \A id \in {0, 10} : On(timer_can, id) => On(timer_can', id)
             /\ \A id \in {0, 10} : ~timer_can[id].waiting => ~timer_can'[id].waiting
  BY <1>2 DEF Off, On
<1>3. CASE on_timer_11(t) /\ close_state # 2
  <2>1. /\ timer_can[11].queued > 0 /\ timer_can' = Taken(timer_can, 11)
        /\ io' = io /\ at' = at /\ connected' = connected /\ reconnecting' = reconnecting
        /\ close_state' = close_state /\ asked' = asked /\ during' = during
    BY <1>3, Zenon DEF on_timer_11, flags, ghost
  <2>2. timer_can' \in TimerCans /\ timer_can'[0] = timer_can[0] /\ timer_can'[10] = timer_can[10]
    BY <1>0, <2>1, TakeTimer
  <2> QED
    BY <1>0, <1>2, <2>1, <2>2, SameFlags, Zenon
<1>4. CASE on_timer_11(t) /\ close_state = 2 /\ timer_can[11].user_data > 1
  <2>0. ~(timer_can[11].user_data <= 1) /\ ~(close_state # 2)
    BY <1>0, <1>4 DEF TimerCans, Timers, TimerInfos
  <2>1. /\ timer_can[11].queued > 0 /\ at[t] = "idle" /\ Goto(t, "again")
        /\ io' = io /\ connected' = connected /\ reconnecting' = reconnecting
        /\ close_state' = close_state /\ asked' = asked /\ during' = during
    BY <1>4, <2>0, Zenon DEF on_timer_11, flags, ghost
  <2>2. timer_can' = update_timer_info(Taken(timer_can, 11), 11, timer_can[11].user_data - 1)
    BY <1>4, <2>0, Zenon DEF on_timer_11
  <2>3. timer_can[11].user_data - 1 \in 0..TICKS
    BY <1>0, <1>4, ConnectorAssumption DEF TimerCans, Timers, TimerInfos
  <2>4. /\ Taken(timer_can, 11) \in TimerCans /\ Taken(timer_can, 11)[0] = timer_can[0]
        /\ Taken(timer_can, 11)[10] = timer_can[10]
    BY <1>0, <2>1, TakeTimer
  <2>5. timer_can' \in TimerCans /\ timer_can'[0] = timer_can[0] /\ timer_can'[10] = timer_can[10]
    <3> DEFINE tc == Taken(timer_can, 11)
               d == timer_can[11].user_data - 1
    <3> HIDE DEF tc, d
    <3>1. /\ update_timer_info(tc, 11, d) \in TimerCans
          /\ update_timer_info(tc, 11, d)[0] = tc[0] /\ update_timer_info(tc, 11, d)[10] = tc[10]
      <4>1. tc \in TimerCans /\ d \in 0..TICKS
        BY <2>3, <2>4 DEF tc, d
      <4>2. /\ update_timer_info(tc, 11, d) \in TimerCans
            /\ \A x \in Ids : x # 11 => update_timer_info(tc, 11, d)[x] = tc[x]
        BY <4>1, CountDown, Zenon
      <4>3. 0 # 11 /\ 10 # 11
        OBVIOUS
      <4> QED
        BY <1>0, <4>2, <4>3, Zenon
    <3> QED
      BY <2>2, <2>4, <3>1, Zenon DEF tc, d
  <2>6. "again" \notin {"broken", "restart"} /\ at[t] \notin {"broken", "restart"}
    BY <2>1
  <2> QED
    BY <1>0, <1>1, <1>2, <2>1, <2>5, <2>6, SameFlags
<1>5. CASE on_timer_11(t) /\ close_state = 2 /\ timer_can[11].user_data <= 1
  <2>1. timer_can[11].queued > 0 /\ timer_can[11].user_data \in Nat
    BY <1>0, <1>5 DEF on_timer_11, TimerCans, Timers, TimerInfos
  <2>2. ~(timer_can[11].user_data > 1) /\ close_state = 2
    BY <1>5, <2>1
  <2>3. /\ ~connected' /\ close_state' = 1 /\ timer_can' = stop_all_timer(Taken(timer_can, 11))
        /\ io' = close_socket(io) /\ at' = at /\ reconnecting' = reconnecting
        /\ asked' = asked /\ during' = during
    <3>1. ~(close_state # 2)
      BY <2>2
    <3> QED
      BY <1>5, <2>2, <3>1, Zenon DEF on_timer_11, ghost
  <2>4. io' \in Sockets /\ (Rest(io) => Rest(io')) /\ (Reads(io) => Reads(io')) /\ (Connects(io) => Connects(io'))
    BY <1>0, <2>3, CloseAborts
  <2>5. /\ Taken(timer_can, 11) \in TimerCans /\ Taken(timer_can, 11)[0] = timer_can[0]
        /\ Taken(timer_can, 11)[10] = timer_can[10]
    BY <1>0, <2>1, TakeTimer
  <2>6. /\ timer_can' \in TimerCans
        /\ \A x \in {0, 10} : ~timer_can'[x].waiting /\ timer_can'[x].queued = timer_can[x].queued
    BY <1>0, <2>3, <2>5, StopTimers
  <2>7. /\ \A id \in {0, 10} : Off(timer_can, id) => Off(timer_can', id)
        /\ \A id \in {0, 10} : On(timer_can, id) => On(timer_can', id) \/ Off(timer_can', id)
    BY <2>6 DEF On, Off
  <2>8. ChainOf(io', timer_can', at')
    <3>1. \A u \in IoThreads : Ends(at, u) <=> Ends(at', u)
      BY <2>3, Zenon
    <3> QED
      BY <1>0, <2>4, <2>7, <3>1, SamePhase
  <2>9. ASSUME during # "handles"
        PROVE  FlagOf(io', timer_can', at', connected', reconnecting', close_state', asked', during')
    <3>1. CASE ~Out(at)
      <4>1. HalfwayOf(io, timer_can, at, connected, reconnecting, close_state, asked)
        BY <1>0, <2>9, <3>1, Zenon DEF FlagOf
      <4>2. at[app] # "shutdown" /\ (asked = "close" => ~reconnecting)
        BY <2>2, <4>1 DEF HalfwayOf
      <4>3. io'.reads = 0 /\ io'.connects = 0
        BY <1>0, <2>3 DEF close_socket, Sockets
      <4>4. ~timer_can'[0].waiting /\ ~timer_can'[10].waiting
        BY <2>6
      <4> QED
        BY <2>3, <3>1, <4>2, <4>3, <4>4, Zenon DEF FlagOf, HalfwayOf
    <3>2. CASE Out(at)
      <4>1. Out(at') /\ (NoEnd(at) => NoEnd(at'))
        BY <2>3, <3>2, Zenon
      <4> QED
        BY <2>2, <2>3, <2>7, <2>9, <3>2, <4>1, CountDownEnds
    <3> QED
      BY <3>1, <3>2
  <2>10. UpOf(io', timer_can', connected')
    BY <2>3, UpPhases, Zenon
  <2> QED
    BY <2>3, <2>4, <2>6, <2>8, <2>9, <2>10, Zenon DEF Reached, FlagsReached
<1>6. CASE timer_again(t)
  <2>1. /\ at[t] = "again" /\ Goto(t, IF timer_can[11].status = "ok" THEN "rearm" ELSE "idle")
        /\ io' = io /\ timer_can' = timer_can /\ connected' = connected /\ reconnecting' = reconnecting
        /\ close_state' = close_state /\ asked' = asked /\ during' = during
    BY <1>6, Zenon DEF timer_again, flags, ghost
  <2>2. /\ at[t] \notin {"broken", "restart"}
        /\ (IF timer_can[11].status = "ok" THEN "rearm" ELSE "idle") \notin {"broken", "restart"}
    BY <2>1
  <2> QED
    BY <1>0, <1>1, <1>2, <2>1, <2>2, SameFlags, Zenon
<1>7. CASE timer_rearm(t)
  <2>1. /\ at[t] = "rearm" /\ Goto(t, "idle") /\ timer_can' = start_timer(timer_can, 11)
        /\ io' = io /\ connected' = connected /\ reconnecting' = reconnecting
        /\ close_state' = close_state /\ asked' = asked /\ during' = during
    BY <1>7, Zenon DEF timer_rearm, flags, ghost
  <2>2. at[t] \notin {"broken", "restart"} /\ "idle" \notin {"broken", "restart"}
    BY <2>1
  <2>3. 0 \in 0..TICKS
    BY Here
  <2>4. timer_can' \in TimerCans /\ timer_can'[0] = timer_can[0] /\ timer_can'[10] = timer_can[10]
    BY <1>0, <2>1, <2>3, CountDown
  <2> QED
    BY <1>0, <1>1, <1>2, <2>1, <2>2, <2>4, SameFlags, Zenon
<1>9. CASE start_returns_true(t)
  <2>1. /\ at[t] = "started" /\ Goto(t, "idle") /\ timer_can' = timer_can
        /\ io' = io /\ connected' = connected /\ reconnecting' = reconnecting
        /\ close_state' = close_state /\ asked' = asked /\ during' = during
    BY <1>9, Zenon DEF start_returns_true
  <2>2. at[t] \notin {"broken", "restart"} /\ "idle" \notin {"broken", "restart"}
    BY <2>1
  <2> QED
    BY <1>0, <1>1, <1>2, <2>1, <2>2, SameFlags, Zenon
<1>8. close_state = 2 => timer_can[11].user_data > 1 \/ timer_can[11].user_data <= 1
  BY <1>0 DEF TimerCans, Timers, TimerInfos
<1> QED
  BY <1>3, <1>4, <1>5, <1>6, <1>7, <1>8, <1>9

\* Timers expire, and the server and the network do something.
LEMMA WorldReach ==
    ASSUME Inv, \/ \E id \in Ids : timer_expires(id)
                \/ connect_completes \/ msg_arrives \/ peer_closes \/ UNCHANGED vars
    PROVE  Reached
<1>0. /\ io \in Sockets /\ timer_can \in TimerCans
      /\ ChainOf(io, timer_can, at) /\ (Rest(io) \/ Reads(io) \/ Connects(io))
      /\ 0 \in Ids /\ 10 \in Ids /\ 11 \in Ids
  BY Here, Zenon
<1>1. ASSUME NEW id \in Ids, timer_expires(id) PROVE Reached
  <2>1. /\ timer_can[id].waiting /\ timer_can' = Expired(timer_can, id)
        /\ io' = io /\ at' = at /\ connected' = connected /\ reconnecting' = reconnecting
        /\ close_state' = close_state /\ asked' = asked /\ during' = during
    BY <1>1, Zenon DEF timer_expires, flags, ghost
  <2>2. /\ timer_can' \in TimerCans /\ \A x \in Ids : x # id => timer_can'[x] = timer_can[x]
        /\ ~timer_can'[id].waiting /\ timer_can'[id].queued = timer_can[id].queued + 1
    BY <1>0, <2>1, ExpireTimer
  <2>2a. \A x \in {0, 10} : x \in Ids /\ (x = id \/ timer_can'[x] = timer_can[x])
    BY <1>0, <2>2
  <2>2b. timer_can[id].queued = 0 => timer_can'[id].queued = 1
    BY <2>2
  <2>3. \A x \in {0, 10} : Off(timer_can, x) => Off(timer_can', x)
    BY <2>1, <2>2a, Zenon DEF Off
  <2>4. \A x \in {0, 10} : On(timer_can, x) => On(timer_can', x)
    BY <2>1, <2>2, <2>2a, <2>2b, Zenon DEF On
  <2>5. \A x \in {0, 10} : ~timer_can[x].waiting => ~timer_can'[x].waiting
    BY <2>1, <2>2a, Zenon
  <2> QED
    BY <1>0, <2>1, <2>2, <2>3, <2>4, <2>5, SameFlags, Zenon
<1>2. ASSUME io' \in Sockets, Rest(io) => Rest(io'), Reads(io) => Reads(io'), Connects(io) => Connects(io'),
             io.reads = 0 => io'.reads = 0, io.connects = 0 => io'.connects = 0, Aborted(io) => Aborted(io'),
             timer_can' = timer_can, at' = at, connected' = connected, reconnecting' = reconnecting,
             close_state' = close_state, asked' = asked, during' = during
      PROVE  Reached
  BY <1>0, <1>2, SameFlags, Zenon
<1>3. CASE connect_completes
  <2>1. /\ io.connects > 0
        /\ timer_can' = timer_can /\ at' = at /\ connected' = connected /\ reconnecting' = reconnecting
        /\ close_state' = close_state /\ asked' = asked /\ during' = during
    BY <1>3, Zenon DEF connect_completes, flags, ghost
  <2>2. io.connects = 1 /\ io.queue = <<>> /\ io.reads = 0 /\ Connects(io)
    BY <1>0, <2>1 DEF Rest, Reads, Connects
  <2>3. ASSUME NEW s \in Sockets, s.connects = 0, s.reads = 0, s.queue = <<>>,
               NEW ec \in {"ok", "refused", "failed", "aborted"}, io' = Queued(s, "connect", ec)
        PROVE  io' \in Sockets /\ Connects(io') /\ io'.connects = 0 /\ io'.reads = 0
    BY <2>3, QueuedAlone DEF Connects
  <2> DEFINE s0 == [io EXCEPT !.connects = 0]
             s1 == [s0 EXCEPT !.link = "linked"]
  <2>4. s0 \in Sockets /\ s0.connects = 0 /\ s0.reads = 0 /\ s0.queue = <<>>
    BY <1>0, <2>2 DEF Sockets
  <2>5. s1 \in Sockets /\ s1.connects = 0 /\ s1.reads = 0 /\ s1.queue = <<>>
    <3> HIDE DEF s0
    <3> QED
      BY <2>4 DEF Sockets, Links
  <2>6. \/ io' = Queued(s1, "connect", "ok")
        \/ \E ec \in {"refused", "failed"} : io' = Queued(s0, "connect", ec)
    BY <1>3, Zenon DEF connect_completes
  <2> HIDE DEF s0, s1
  <2>7. io' \in Sockets /\ Connects(io') /\ io'.connects = 0 /\ io'.reads = 0
    BY <2>3, <2>4, <2>5, <2>6
  <2>8. ~Aborted(io)
    BY <2>2 DEF Aborted
  <2> QED
    BY <1>2, <2>1, <2>2, <2>7, <2>8, Exclusive, Zenon
<1>4. CASE msg_arrives \/ peer_closes
  <2>1. /\ io.reads > 0
        /\ timer_can' = timer_can /\ at' = at /\ connected' = connected /\ reconnecting' = reconnecting
        /\ close_state' = close_state /\ asked' = asked /\ during' = during
    BY <1>4, Zenon DEF msg_arrives, peer_closes, flags, ghost
  <2>2. io.reads = 1 /\ io.queue = <<>> /\ io.connects = 0 /\ Reads(io)
    BY <1>0, <2>1 DEF Rest, Reads, Connects
  <2> DEFINE s0 == [io EXCEPT !.reads = @ - 1]
             s1 == [s0 EXCEPT !.link = "ended"]
  <2>3. s0 \in Sockets /\ s0.connects = 0 /\ s0.reads = 0 /\ s0.queue = <<>>
    BY <1>0, <2>2 DEF Sockets
  <2>4. s1 \in Sockets /\ s1.connects = 0 /\ s1.reads = 0 /\ s1.queue = <<>>
    <3> HIDE DEF s0
    <3> QED
      BY <2>3 DEF Sockets, Links
  <2>5. io' = Queued(s0, "read", "ok") \/ io' = Queued(s1, "read", "failed")
    BY <1>4, Zenon DEF msg_arrives, peer_closes
  <2> HIDE DEF s0, s1
  <2>6. io' \in Sockets /\ Reads(io') /\ io'.connects = 0 /\ io'.reads = 0
    BY <2>3, <2>4, <2>5, QueuedAlone DEF Reads
  <2>7. ~Aborted(io)
    BY <2>2 DEF Aborted
  <2> QED
    BY <1>2, <2>1, <2>2, <2>6, <2>7, Exclusive, Zenon
<1>5. CASE UNCHANGED vars
  BY <1>0, <1>2, <1>5, Zenon DEF vars, flags, ghost
<1> QED
  BY <1>1, <1>3, <1>4, <1>5

\* clean_up keeps the phase, except that it ends the waits of the timers.
LEMMA CleanUp ==
    ASSUME Inv, clean_up(io)
    PROVE  /\ io' = close_socket(io) /\ close_state' = 1
           /\ io' \in Sockets /\ (Rest(io) => Rest(io')) /\ (Reads(io) => Reads(io')) /\ (Connects(io) => Connects(io'))
           /\ Connects(io) /\ io.connects = 1 => Aborted(io')
           /\ timer_can' \in TimerCans
           /\ \A id \in {0, 10} : Off(timer_can, id) => Off(timer_can', id)
           /\ \A id \in {0, 10} : On(timer_can, id) => On(timer_can', id) \/ Off(timer_can', id)
           /\ \A id \in {0, 10} : timer_can[id].queued = 0 => Off(timer_can', id)
<1>0. /\ io \in Sockets /\ timer_can \in TimerCans /\ (Rest(io) \/ Reads(io) \/ Connects(io))
      /\ 0 \in Ids /\ 10 \in Ids
  BY Here, Zenon
<1>1. io' = close_socket(io) /\ timer_can' = stop_all_timer(timer_can) /\ close_state' = 1
  BY Zenon DEF clean_up
<1>2. io' \in Sockets /\ (Rest(io) => Rest(io')) /\ (Reads(io) => Reads(io')) /\ (Connects(io) => Connects(io'))
  BY <1>0, <1>1, CloseAborts
<1>3. /\ timer_can' \in TimerCans
      /\ \A x \in {0, 10} : ~timer_can'[x].waiting /\ timer_can'[x].queued = timer_can[x].queued
  BY <1>0, <1>1, StopTimers
<1>4. /\ \A id \in {0, 10} : Off(timer_can, id) => Off(timer_can', id)
      /\ \A id \in {0, 10} : On(timer_can, id) => On(timer_can', id) \/ Off(timer_can', id)
      /\ \A id \in {0, 10} : timer_can[id].queued = 0 => Off(timer_can', id)
  BY <1>3 DEF On, Off
<1>5. Connects(io) /\ io.connects = 1 => Aborted(io')
  BY <1>0, <1>1, CloseAbortsConnect, Zenon
<1> QED
  BY <1>1, <1>2, <1>3, <1>4, <1>5, Zenon

\* What the second half of the application's close finds, if it met no handler.
LEMMA FoundPhases ==
    ASSUME Inv, Found, ~Out(at), during' # "handles"
    PROVE  /\ HalfwayOf(io, timer_can, at, connected, reconnecting, close_state, asked)
           /\ NoEnd(at)
           /\ \/ during' = "reads" /\ Reading(io, timer_can, at)
              \/ during' = "connects" /\ Connecting(io, timer_can, at) /\ io.connects = 1
              \/ during' = "waits" /\ Rest(io) /\ timer_can[0].queued = 0 /\ timer_can[10].queued = 0
<1>0. /\ io \in Sockets /\ timer_can \in TimerCans /\ ChainOf(io, timer_can, at)
      /\ 0 \in Ids /\ 10 \in Ids
  BY Here, Zenon
<1>1. during # "handles" /\ during' = Doing
  BY Zenon DEF Found
<1>2. HalfwayOf(io, timer_can, at, connected, reconnecting, close_state, asked)
  BY <1>1, Here, Zenon DEF FlagOf
<1>3. ~Handling
  BY <1>1 DEF Doing
<1>4. /\ io.queue = <<>> /\ NoEnd(at) /\ timer_can[0].queued = 0 /\ timer_can[10].queued = 0
      /\ io.reads \in 0..1 /\ io.connects \in 0..1
  BY <1>0, <1>3 DEF Handling, NoEnd, Ends, TimerCans, Timers, TimerInfos, Sockets
<1>5. CASE io.reads > 0
  <2>1. Reading(io, timer_can, at)
    BY <1>0, <1>4, <1>5 DEF ChainOf, Rest, Connects, Reading
  <2>2. Doing = "reads"
    BY <1>3, <1>5 DEF Doing
  <2> QED
    BY <1>1, <1>2, <1>4, <2>1, <2>2
<1>6. CASE ~(io.reads > 0) /\ io.connects > 0
  <2>1. Connecting(io, timer_can, at) /\ io.connects = 1
    BY <1>0, <1>4, <1>6 DEF ChainOf, Rest, Reads, Connecting
  <2>2. Doing = "connects"
    BY <1>3, <1>4, <1>6 DEF Doing
  <2> QED
    BY <1>1, <1>2, <1>4, <2>1, <2>2
<1>7. CASE ~(io.reads > 0) /\ ~(io.connects > 0)
  <2>1. Rest(io)
    BY <1>4, <1>7 DEF Rest
  <2>2. Doing = "waits"
    BY <1>3, <1>7 DEF Doing
  <2> QED
    BY <1>1, <1>2, <1>4, <2>1, <2>2
<1> QED
  BY <1>5, <1>6, <1>7

\* The first half of a close of the application.
LEMMA AskedReach ==
    ASSUME Inv,
           \/ \E reconnect \in BOOLEAN : force_close(reconnect)
           \/ \E reconnect \in BOOLEAN, sync \in BOOLEAN : graceful_close(reconnect, sync)
    PROVE  Reached
<1>0. /\ io \in Sockets /\ timer_can \in TimerCans /\ at \in [Threads -> Places]
      /\ ChainOf(io, timer_can, at) /\ UpOf(io, timer_can, connected)
      /\ app \in Threads /\ \A u \in IoThreads : u \in Threads /\ u # app
  BY Here, Zenon
<1>1. ASSUME NEW reconnect \in BOOLEAN, NEW p \in {"closing", "shutdown"},
             Goto(app, p), Asked(reconnect), reconnecting' = reconnect, connected' = FALSE,
             close_state # 1, p = "shutdown" => close_state = 0 /\ connected,
             close_state' = close_state, io' = io, timer_can' = timer_can
      PROVE  Reached
  <2>1. at'[app] = p /\ \A u \in IoThreads : at'[u] = at[u]
    BY <1>0, <1>1, Moved, Zenon
  <2>2. ChainOf(io', timer_can', at')
    <3>1. \A u \in IoThreads : Ends(at, u) <=> Ends(at', u)
      BY <2>1, Zenon DEF Ends
    <3> QED
      BY <1>0, <1>1, <3>1, SamePhase, Zenon
  <2>3. asked' = "close" => ~reconnecting'
    BY <1>1 DEF Asked
  <2>4. p = "shutdown" => ~Connects(io) /\ Off(timer_can, 10)
    BY <1>0, <1>1, Zenon DEF UpOf
  <2>5. ~Out(at')
    BY <2>1 DEF Out
  <2>6. FlagOf(io', timer_can', at', connected', reconnecting', close_state', asked', during')
    BY <1>1, <2>1, <2>3, <2>4, <2>5, Zenon DEF FlagOf, HalfwayOf
  <2> QED
    BY <1>0, <1>1, <2>2, <2>6, UpPhases, Zenon DEF Reached, FlagsReached
<1>2. ASSUME NEW reconnect \in BOOLEAN, force_close(reconnect) PROVE Reached
  BY <1>1, <1>2 DEF force_close
<1>3. ASSUME NEW reconnect \in BOOLEAN, NEW sync \in BOOLEAN, graceful_close(reconnect, sync) PROVE Reached
  <2>1. close_state # 1 /\ close_state = 0 /\ connected
    BY <1>3 DEF graceful_close
  <2>2. /\ Goto(app, "shutdown") /\ Asked(reconnect) /\ reconnecting' = reconnect /\ connected' = FALSE
        /\ close_state' = close_state /\ io' = io /\ timer_can' = timer_can
    BY <1>3, Zenon DEF graceful_close
  <2>3. "shutdown" \in {"closing", "shutdown"}
    OBVIOUS
  <2> QED
    BY <1>1, <2>1, <2>2, <2>3, Zenon
<1> QED
  BY <1>2, <1>3

\* The second half of it.
LEMMA ClosedReach ==
    ASSUME Inv, force_closed \/ graceful_shutdown
    PROVE  Reached
<1>0. /\ io \in Sockets /\ timer_can \in TimerCans /\ at \in [Threads -> Places]
      /\ ChainOf(io, timer_can, at)
      /\ app \in Threads /\ \A u \in IoThreads : u \in Threads /\ u # app
      /\ 0 \in Ids /\ 10 \in Ids /\ 11 \in Ids /\ TICKS \in 0..TICKS
  BY Here, Zenon
<1>1. /\ ~Out(at) /\ Found /\ connected' = connected /\ reconnecting' = reconnecting /\ asked' = asked
      /\ \E p \in {"idle", "lingering"} : Goto(app, p)
  BY DEF force_closed, graceful_shutdown, Out, Found
<1>2. /\ at'[app] \in {"idle", "lingering"} /\ \A u \in IoThreads : at'[u] = at[u]
  BY <1>0, <1>1, Moved, Zenon
<1>3. /\ \A u \in IoThreads : Ends(at, u) <=> Ends(at', u)
      /\ NoEnd(at) => NoEnd(at')
      /\ Out(at')
  BY <1>2 DEF Ends, NoEnd, Out
\* The link was left alone, or cleaned up.
<1>4. ASSUME io' \in Sockets, Rest(io) => Rest(io'), Reads(io) => Reads(io'), Connects(io) => Connects(io'),
             timer_can' \in TimerCans, close_state' # 0,
             \A id \in {0, 10} : Off(timer_can, id) => Off(timer_can', id),
             \A id \in {0, 10} : On(timer_can, id) => On(timer_can', id) \/ Off(timer_can', id),
             \/ /\ Connects(io) /\ io.connects = 1 => Aborted(io')
                /\ \A id \in {0, 10} : timer_can[id].queued = 0 => Off(timer_can', id)
             \/ close_state = 1 \/ at[app] = "shutdown"
      PROVE  Reached
  <2>1. ChainOf(io', timer_can', at')
    BY <1>0, <1>3, <1>4, SamePhase
  <2>2. UpOf(io', timer_can', connected')
    BY <1>1, <1>4, SameUp
  <2>3. ASSUME during' # "handles"
        PROVE  FlagOf(io', timer_can', at', connected', reconnecting', close_state', asked', during')
    <3>1. /\ ~connected /\ (asked = "close" => ~reconnecting) /\ NoEnd(at')
          /\ close_state = 1 => io.connects = 0 /\ ~timer_can[0].waiting /\ ~timer_can[10].waiting
          /\ at[app] = "shutdown" => ~Connects(io) /\ Off(timer_can, 10)
      BY <1>1, <1>3, <2>3, FoundPhases, Zenon DEF HalfwayOf
    <3>2. CASE during' = "reads" /\ Reading(io, timer_can, at)
      <4>1. Reading(io', timer_can', at')
        BY <1>4, <3>1, <3>2 DEF Reading
      <4>2. DrivenOf(io', timer_can', at', connected', reconnecting', close_state', asked')
        BY <1>1, <1>4, <3>1, <4>1, DrivenPhases, Zenon
      <4>3. during' # "connects" /\ during' # "waits"
        BY <3>2
      <4> QED
        BY <1>3, <4>2, <4>3, Met0, Zenon
    <3>3. CASE during' = "connects" /\ Connecting(io, timer_can, at) /\ io.connects = 1
      <4>1. Connects(io) /\ Off(timer_can', 0) /\ Off(timer_can', 10)
        BY <1>4, <3>3 DEF Connecting
      <4>2. Aborted(io')
        BY <1>4, <3>1, <3>3, <4>1
      <4>3. asked' = "close" => GivenUpOf(io', timer_can', at', connected', reconnecting')
        BY <1>1, <3>1, <4>1, <4>2, Zenon DEF GivenUpOf
      <4>4. during' \notin {"nothing", "reads"} /\ during' # "waits"
        BY <3>3
      <4> QED
        BY <1>3, <4>3, <4>4, Zenon DEF FlagOf
    <3>4. CASE during' = "waits" /\ Rest(io) /\ timer_can[0].queued = 0 /\ timer_can[10].queued = 0
      <4>1. Off(timer_can', 10)
        <5>1. CASE \A id \in {0, 10} : timer_can[id].queued = 0 => Off(timer_can', id)
          BY <3>4, <5>1
        <5>2. CASE close_state = 1 \/ at[app] = "shutdown"
          <6>1. Off(timer_can, 10)
            BY <3>1, <3>4, <5>2 DEF Off
          <6> QED
            BY <1>4, <6>1
        <5> QED
          BY <1>4, <5>1, <5>2
      <4>2. WaitedOf(io', timer_can', at', connected')
        BY <1>1, <1>4, <3>1, <3>4, <4>1, Zenon DEF WaitedOf
      <4>3. during' \notin {"nothing", "reads"} /\ during' # "connects"
        BY <3>4
      <4> QED
        BY <1>3, <4>2, <4>3, Zenon DEF FlagOf
    <3> QED
      BY <1>1, <2>3, <3>2, <3>3, <3>4, FoundPhases, Zenon
  <2> QED
    BY <1>4, <2>1, <2>2, <2>3, Zenon DEF Reached, FlagsReached
<1>5. ASSUME clean_up(io) PROVE Reached
  <2>1. close_state' # 0
    BY <1>5 DEF clean_up
  <2> QED
    BY <1>4, <1>5, <2>1, CleanUp, Zenon
<1>6. ASSUME io' = io, close_state' # 0, close_state = 1 \/ at[app] = "shutdown",
             timer_can' \in TimerCans, timer_can'[0] = timer_can[0], timer_can'[10] = timer_can[10]
      PROVE  Reached
  <2>1. /\ \A id \in {0, 10} : Off(timer_can, id) => Off(timer_can', id)
        /\ \A id \in {0, 10} : On(timer_can, id) => On(timer_can', id) \/ Off(timer_can', id)
    BY <1>6 DEF Off, On
  <2> QED
    BY <1>0, <1>4, <1>6, <2>1, Zenon
<1>7. CASE force_closed
  <2>1. CASE close_state = 1 /\ UNCHANGED <<close_state, timer_can, started, io>>
    <3>1. close_state' # 0 /\ timer_can' = timer_can /\ io' = io
      BY <2>1
    <3> QED
      BY <1>0, <1>6, <2>1, <3>1, Zenon
  <2> QED
    BY <1>5, <1>7, <2>1, Zenon DEF force_closed
<1>8. CASE graceful_shutdown
  <2>1. at[app] = "shutdown"
    BY <1>8, Zenon DEF graceful_shutdown
  <2>2. CASE close_state # 0 /\ UNCHANGED <<close_state, timer_can, started, io>>
    <3>1. close_state' # 0 /\ timer_can' = timer_can /\ io' = io
      BY <2>2
    <3> QED
      BY <1>0, <1>6, <2>1, <3>1, Zenon
  <2>3. CASE close_state' = 2 /\ io' = io /\ timer_can' = timer_can
    <3>1. close_state' # 0
      BY <2>3
    <3> QED
      BY <1>0, <1>6, <2>1, <2>3, <3>1, Zenon
  <2>4. CASE close_state' = 2 /\ io' = io /\ timer_can' = set_timer(timer_can, 11, TICKS)
    <3>1. /\ set_timer(timer_can, 11, TICKS) \in TimerCans
          /\ \A x \in Ids : x # 11 => set_timer(timer_can, 11, TICKS)[x] = timer_can[x]
      BY <1>0, SetTimer, Zenon
    <3>2. 0 # 11 /\ 10 # 11
      OBVIOUS
    <3>3. timer_can' \in TimerCans /\ timer_can'[0] = timer_can[0] /\ timer_can'[10] = timer_can[10]
      BY <1>0, <2>4, <3>1, <3>2, Zenon
    <3>4. close_state' # 0
      BY <2>4
    <3> QED
      BY <1>6, <2>1, <2>4, <3>3, <3>4, Zenon
  <2> QED
    BY <1>5, <1>8, <2>2, <2>3, <2>4, Zenon DEF graceful_shutdown
<1> QED
  BY <1>7, <1>8

\* The application waits for the end of a link it closed gracefully.
LEMMA LingeredReach ==
    ASSUME Inv, graceful_closed
    PROVE  Reached
<1>0. /\ io \in Sockets /\ timer_can \in TimerCans /\ at \in [Threads -> Places]
      /\ ChainOf(io, timer_can, at)
      /\ app \in Threads /\ \A u \in IoThreads : u \in Threads /\ u # app
  BY Here, Zenon
<1>1. /\ at[app] = "lingering" /\ Goto(app, "idle") /\ connected' = connected /\ reconnecting' = reconnecting
      /\ asked' = asked
  BY Zenon DEF graceful_closed, ghost
<1>2. at'[app] = "idle" /\ \A u \in IoThreads : at'[u] = at[u]
  BY <1>0, <1>1, Moved, Zenon
<1>3. /\ \A u \in IoThreads : Ends(at, u) <=> Ends(at', u)
      /\ NoEnd(at) => NoEnd(at')
  BY <1>2, Zenon DEF Ends, NoEnd
<1>4. Out(at) /\ Out(at') /\ at'[app] # "shutdown"
  BY <1>1, <1>2 DEF Out
<1>5. CASE UNCHANGED <<close_state, timer_can, started, io, ghost>>
  BY <1>0, <1>1, <1>2, <1>4, <1>5, SameFlags, Zenon DEF ghost
<1>6. CASE clean_up(io) /\ during' = IF close_state # 2 \/ Handling THEN "handles" ELSE during
  <2>1. ChainOf(io', timer_can', at') /\ UpOf(io', timer_can', connected')
    BY <1>0, <1>1, <1>3, <1>6, CleanUp, SamePhase, SameUp
  <2>2. ASSUME during' # "handles"
        PROVE  FlagOf(io', timer_can', at', connected', reconnecting', close_state', asked', during')
    <3>1. close_state = 2 /\ during' = during /\ during # "handles"
      BY <1>6, <2>2, Zenon
    <3> QED
      BY <1>1, <1>3, <1>4, <1>6, <3>1, CleanUp, CountDownEnds, Zenon
  <2> QED
    BY <1>6, <2>1, <2>2, CleanUp, Zenon DEF Reached, FlagsReached
<1> QED
  BY <1>5, <1>6, Zenon DEF graceful_closed

\* The pump is started again.
LEMMA PumpReach ==
    ASSUME Inv, restart
    PROVE  Reached
<1>0. io \in Sockets /\ timer_can \in TimerCans /\ 0 \in Ids /\ 10 \in Ids /\ app \in Threads /\ \A u \in IoThreads : u \in Threads
  BY Here, Zenon
<1>1. Quiet /\ io' = async_connect(io) /\ timer_can' = timer_can /\ at' = at
  BY Zenon DEF restart
<1>2. ~connected' /\ close_state' = 0 /\ asked' = "nothing" /\ during' = "nothing"
  BY Zenon DEF restart
<1>3. Rest(io) /\ Off(timer_can, 0) /\ Off(timer_can, 10)
  BY <1>0, <1>1 DEF Quiet, Rest, Off, Busy, TimerCans, Timers, TimerInfos
<1>4. NoEnd(at) /\ Out(at)
  BY <1>0, <1>1 DEF Quiet, NoEnd, Ends, Out
<1>5. io' \in Sockets /\ Connects(io')
  BY <1>0, <1>1, <1>3, Starts
<1>6. Connecting(io', timer_can', at')
  BY <1>1, <1>3, <1>4, <1>5, Zenon DEF Connecting
<1>7. asked' # "close" /\ during' # "waits"
  BY <1>2
<1>8. FlagOf(io', timer_can', at', connected', reconnecting', close_state', asked', during')
  BY <1>1, <1>2, <1>4, <1>6, <1>7, DrivenPhases, Met0, Zenon
<1> QED
  BY <1>0, <1>1, <1>2, <1>5, <1>6, <1>8, PhaseIsChain, UpPhases, Zenon DEF Reached, FlagsReached

\* The invariants hold at first ...
LEMMA InvInit == Init => Inv
<1> SUFFICES ASSUME Init PROVE Inv
  OBVIOUS
<1>0. 0 \in Ids /\ 10 \in Ids /\ 0 \in 0..TICKS
  BY ConnectorAssumption DEF Ids
<1>1. io = [link |-> "open", connects |-> 1, reads |-> 0, queue |-> <<>>]
  BY DEF Init
<1>2. io \in Sockets /\ Connects(io)
  BY <1>1 DEF Sockets, Links, Connects
<1>3. timer_can \in TimerCans /\ Off(timer_can, 0) /\ Off(timer_can, 10)
  BY <1>0 DEF Init, NoTimer, TimerCans, Timers, TimerInfos, Off
<1>4. at \in [Threads -> Places] /\ arg \in [Threads -> BOOLEAN] /\ \A t \in Threads : at[t] = "idle"
  BY DEF Init, Places
<1>5. NoEnd(at) /\ Out(at)
  BY <1>4 DEF NoEnd, Ends, Out, Threads
<1>6. Connecting(io, timer_can, at)
  BY <1>2, <1>3, <1>5, Zenon DEF Connecting
<1>7. /\ connected = FALSE /\ reconnecting = TRUE /\ started = TRUE /\ close_state = 0
      /\ asked = "nothing" /\ during = "nothing" /\ outrun = FALSE
  BY DEF Init
<1>8. TypeInv
  <2>1. /\ connected \in BOOLEAN /\ reconnecting \in BOOLEAN /\ started \in BOOLEAN /\ outrun \in BOOLEAN
    BY <1>7
  <2>2. close_state \in 0..2 /\ asked \in {"nothing", "reconnect", "close"} /\ during \in Findings
    BY <1>7 DEF Findings
  <2> QED
    BY <1>2, <1>3, <1>4, <2>1, <2>2, Zenon DEF TypeInv
<1>9. FlagInv
  <2>1. asked # "close" /\ during # "waits"
    BY <1>7
  <2> QED
    BY <1>5, <1>6, <1>7, <2>1, DrivenPhases, Met0, Zenon DEF FlagInv
<1> QED
  BY <1>6, <1>7, <1>8, <1>9, PhaseIsChain, UpPhases, Zenon DEF Inv, ChainInv, UpInv

\* ... and every step keeps them.
LEMMA InvStep == Inv /\ [Next]_vars => Inv'
<1> SUFFICES ASSUME Inv, [Next]_vars PROVE Inv'
  OBVIOUS
<1>1. ASSUME NEW t \in IoThreads, IoStep(t) PROVE Reached
  BY <1>1, ConnectedReach, RefusedReach, ReceivedReach, TimerReach, BrokenReach, RestartReach, TimersReach, Zenon
     DEF IoStep
<1>2. ASSUME Next PROVE Reached
  BY <1>1, <1>2, WorldReach, AskedReach, ClosedReach, LingeredReach, PumpReach, Zenon DEF Next, AppStep
<1>3. Reached
  <2>1. ASSUME UNCHANGED vars PROVE Reached
    BY <2>1, WorldReach, Zenon
  <2> QED
    BY <1>2, <2>1
<1>4. OthersOK
  BY Zenon DEF OthersOK, Inv, TypeInv
<1>5. OthersOK'
  BY <1>4, OthersStep
<1>6. TypeInv'
  BY <1>3, <1>5, Zenon DEF Reached, OthersOK, TypeInv, Sockets, Links, Handlers, TimerCans, Timers, Ids
<1>7. ChainInv' /\ UpInv' /\ FlagInv'
  BY <1>3, Primed, Zenon DEF Reached, FlagsReached
<1> QED
  BY <1>6, <1>7 DEF Inv

\* The invariants hold always: the conjunction is inductive.
LEMMA Invariant == Spec => []Inv
  BY InvInit, InvStep, PTL DEF Spec

-----------------------------------------------------------------------------
(***************************************************************************)
(* Flags, socket, timers and threads keep their types; in particular the   *)
(* socket never has two reads or two connects under way.                   *)
(***************************************************************************)
THEOREM TypeCorrect == Spec => []TypeOK
<1>1. Inv => TypeOK
  BY TypeWords DEF Inv
<1> QED
  BY <1>1, Invariant, PTL

(***************************************************************************)
(* One chain of handlers drives the link (OneChain), for any number of io  *)
(* threads, links lost, refusals, messages and calls of the application:   *)
(* neither async_read nor async_connect is ever called while another read, *)
(* connect, timer 0 or 10 or an on_recv_error is under way.                *)
(***************************************************************************)
THEOREM OneChainHolds == Spec => []OneChain
<1>1. Inv => OneChain
  BY ChainCount DEF Inv
<1> QED
  BY <1>1, Invariant, PTL

(***************************************************************************)
(* A link that is connected can send (LinkIsUsable): close_state was reset *)
(* on every way on which connect_handler is reached, unless the link was   *)
(* closed while it was being connected or the close met a handler.         *)
(***************************************************************************)
THEOREM LinkIsUsableHolds == Spec => []LinkIsUsable
<1>1. Inv => LinkIsUsable
  <2> SUFFICES ASSUME Inv, connected, during \notin {"connects", "handles"} PROVE close_state = 0
    BY DEF LinkIsUsable
  <2>1. FlagOf(io, timer_can, at, connected, reconnecting, close_state, asked, during) /\ ChainOf(io, timer_can, at)
    BY Here
  <2>2. Out(at)
    BY <2>1, Zenon DEF FlagOf, HalfwayOf
  <2>3. during # "waits"
    BY <2>1, <2>2, Zenon DEF FlagOf, WaitedOf
  <2>4. DrivenOf(io, timer_can, at, connected, reconnecting, close_state, asked)
    BY <2>2, <2>3, Flags
  <2>5. CASE ~NoEnd(at)
    <3>1. In(at, "broken") \/ In(at, "restart")
      BY <2>5 DEF NoEnd, Ends, In
    <3> QED
      BY <2>4, <3>1, Zenon DEF DrivenOf
  <2>6. CASE NoEnd(at)
    BY <2>1, <2>4, <2>6, Zenon DEF DrivenOf, ChainOf, Resting
  <2> QED
    BY <2>5, <2>6
<1> QED
  BY <1>1, Invariant, PTL

(***************************************************************************)
(* A link closed for good stays closed (ClosedStaysClosed), whether the    *)
(* close found it reading, connecting or waiting for a timer, and when     *)
(* on_unpack_error closed it: whatever the aborted handlers and the timers *)
(* do afterwards, it is not connected, no connect is under way and timer   *)
(* 10 is off, unless the close met a handler.                              *)
(***************************************************************************)
THEOREM ClosedStaysClosedHolds == Spec => []ClosedStaysClosed
<1>1. Inv => ClosedStaysClosed
  <2> SUFFICES ASSUME Inv, asked = "close", at[app] # "closing", during # "handles"
               PROVE  ~connected /\ io.connects = 0 /\ ~Busy(timer_can, 10)
    BY DEF ClosedStaysClosed
  <2>1. /\ FlagOf(io, timer_can, at, connected, reconnecting, close_state, asked, during)
        /\ ChainOf(io, timer_can, at)
        /\ timer_can \in TimerCans /\ 10 \in Ids
    BY Here, Zenon
  <2>2. Rest(io) \/ Reads(io) \/ Aborted(io) => io.connects = 0
    BY Zenon DEF Rest, Reads, Aborted
  <2>3. Off(timer_can, 10) => ~Busy(timer_can, 10)
    BY <2>1 DEF Off, Busy, TimerCans, Timers, TimerInfos
  <2>4. CASE ~Out(at)
    <3>1. at[app] = "shutdown"
      BY <2>4 DEF Out
    <3>2. ~connected /\ ~Connects(io) /\ Off(timer_can, 10)
      BY <2>1, <2>4, <3>1, Zenon DEF FlagOf, HalfwayOf
    <3>3. Rest(io) \/ Reads(io)
      BY <2>1, <3>2, Zenon DEF ChainOf
    <3> QED
      BY <2>2, <2>3, <3>2, <3>3
  <2>5. CASE Out(at) /\ during \in {"nothing", "reads"}
    <3>1. DrivenOf(io, timer_can, at, connected, reconnecting, close_state, asked)
      BY <2>5, Flags
    <3>2. (Rest(io) \/ Reads(io)) /\ Off(timer_can, 0) /\ Off(timer_can, 10) /\ ~In(at, "restart")
      BY <2>1, <3>1, Zenon DEF DrivenOf, ChainOf
    <3>3. ~connected
      <4>1. CASE Reads(io) \/ In(at, "broken")
        BY <3>1, <4>1, Zenon DEF DrivenOf
      <4>2. CASE Rest(io) /\ ~In(at, "broken")
        <5>1. NoEnd(at)
          BY <3>2, <4>2 DEF NoEnd, Ends, In
        <5> QED
          BY <3>1, <3>2, <4>2, <5>1, Zenon DEF DrivenOf, Resting
      <4> QED
        BY <3>2, <4>1, <4>2
    <3> QED
      BY <2>2, <2>3, <3>2, <3>3
  <2>6. CASE Out(at) /\ during = "connects"
    BY <2>1, <2>2, <2>3, <2>6, Zenon DEF FlagOf, GivenUpOf
  <2>7. CASE Out(at) /\ during = "waits"
    BY <2>1, <2>2, <2>3, <2>7, Zenon DEF FlagOf, WaitedOf
  <2> QED
    BY <2>4, <2>5, <2>6, <2>7, Flags
<1> QED
  BY <1>1, Invariant, PTL

=============================================================================
