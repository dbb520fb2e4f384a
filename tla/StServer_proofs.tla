-------------------------- MODULE StServer_proofs --------------------------
(***************************************************************************)
(* What holds of a server of st_asio_wrapper and its service pump for any  *)
(* number of sockets, of io threads and of service threads, and for every  *)
(* bound.                                                                  *)
(***************************************************************************)
EXTENDS StServer, TLAPS, FiniteSetTheorems

-----------------------------------------------------------------------------
(* The containers. *)

\* No item twice.
Inj(s) == \A i, j \in DOMAIN s : s[i] = s[j] => i = j

\* The items of a concatenation.
LEMMA Joined ==
    ASSUME NEW S, NEW a \in Seq(S), NEW b \in Seq(S)
    PROVE  /\ a \o b \in Seq(S) /\ Len(a \o b) = Len(a) + Len(b)
           /\ \A k \in 1..(Len(a) + Len(b)) : (a \o b)[k] = IF k <= Len(a) THEN a[k] ELSE b[k - Len(a)]
  OBVIOUS

\* reuse_object takes one object out of temp_object_can.
LEMMA TakenOut ==
    ASSUME NEW S, NEW s \in Seq(S), NEW i \in DOMAIN s
    PROVE  /\ RemoveAt(s, i) \in Seq(S)
           /\ Inj(s) => /\ Inj(RemoveAt(s, i))
                        /\ Range(RemoveAt(s, i)) \subseteq Range(s) \ {s[i]}
<1> DEFINE r == RemoveAt(s, i)
<1> DEFINE a == SubSeq(s, 1, i - 1)
           b == SubSeq(s, i + 1, Len(s))
<1>0. DOMAIN s = 1..Len(s) /\ Len(s) \in Nat /\ i \in 1..Len(s)
  OBVIOUS
<1>a. a \in Seq(S) /\ Len(a) = i - 1 /\ \A k \in 1..(i - 1) : a[k] = s[k]
  BY <1>0
<1>b. b \in Seq(S) /\ Len(b) = Len(s) - i /\ \A k \in 1..(Len(s) - i) : b[k] = s[k + i]
  BY <1>0
<1>r. r = a \o b
  BY DEF RemoveAt
<1> HIDE DEF a, b, r
<1>1. /\ r \in Seq(S) /\ Len(r) = Len(s) - 1
      /\ \A k \in 1..Len(r) : r[k] = IF k < i THEN s[k] ELSE s[k + 1]
  <2>1. /\ r \in Seq(S) /\ Len(r) = Len(a) + Len(b)
        /\ \A k \in 1..(Len(a) + Len(b)) : r[k] = IF k <= Len(a) THEN a[k] ELSE b[k - Len(a)]
    <3>1. a \in Seq(S) /\ b \in Seq(S)
      BY <1>a, <1>b
    <3> QED
      BY <3>1, <1>r, Joined, Zenon
  <2>2. ASSUME NEW k \in 1..(Len(s) - 1) PROVE r[k] = IF k < i THEN s[k] ELSE s[k + 1]
    <3>1. CASE k < i
      BY <3>1, <2>1, <1>0, <1>a, <1>b
    <3>2. CASE k >= i
      <4>1. k - (i - 1) \in 1..(Len(s) - i) /\ k \in 1..(Len(a) + Len(b)) /\ ~(k <= Len(a)) /\ k - Len(a) = k - (i - 1)
        BY <3>2, <1>0, <1>a, <1>b
      <4>2. r[k] = b[k - (i - 1)]
        BY <4>1, <2>1, Zenon
      <4>3. b[k - (i - 1)] = s[(k - (i - 1)) + i]
        BY <4>1, <1>b, Zenon
      <4>4. (k - (i - 1)) + i = k + 1
        BY <1>0
      <4> QED
        BY <4>2, <4>3, <4>4, <3>2, <1>0
    <3> QED
      BY <3>1, <3>2, <1>0
  <2> QED
    BY <2>1, <2>2, <1>0, <1>a, <1>b
<1> HIDE DEF r
<1>2. DOMAIN r = 1..Len(r) /\ DOMAIN s = 1..Len(s) /\ Len(s) \in Nat /\ Len(r) \in Nat /\ i \in Nat
  BY <1>1
<1>3. ASSUME Inj(s) PROVE Inj(r)
  BY <1>3, <1>1, <1>2 DEF Inj
<1>4. ASSUME Inj(s) PROVE Range(r) \subseteq Range(s) \ {s[i]}
  <2> SUFFICES ASSUME NEW k \in 1..Len(r) PROVE r[k] \in Range(s) /\ r[k] # s[i]
    BY <1>2 DEF Range
  <2>1. PICK j \in 1..Len(s) : r[k] = s[j] /\ j # i
    BY <1>1, <1>2
  <2> QED
    BY <2>1, <1>2, <1>4 DEF Range, Inj
<1> QED
  BY <1>1, <1>3, <1>4 DEF r

\* del_object appends what it took out of object_can.
LEMMA PushedBack ==
    ASSUME NEW S, NEW s \in Seq(S), NEW o \in S
    PROVE  /\ Append(s, o) \in Seq(S)
           /\ Inj(s) /\ o \notin Range(s) => Inj(Append(s, o))
           /\ Range(Append(s, o)) = Range(s) \cup {o}
<1> DEFINE r == Append(s, o)
<1>1. /\ r \in Seq(S) /\ Len(r) = Len(s) + 1 /\ r[Len(s) + 1] = o
      /\ \A k \in 1..Len(s) : r[k] = s[k]
  OBVIOUS
<1> HIDE DEF r
<1>2. DOMAIN r = 1..(Len(s) + 1) /\ DOMAIN s = 1..Len(s) /\ Len(s) \in Nat
  BY <1>1
<1>3. ASSUME o \notin Range(s) PROVE \A k \in 1..Len(s) : s[k] # o
  BY <1>2, <1>3 DEF Range
<1>4. ASSUME Inj(s), o \notin Range(s) PROVE Inj(r)
  BY <1>1, <1>2, <1>3, <1>4 DEF Inj
<1>5. Range(r) = Range(s) \cup {o}
  BY <1>1, <1>2 DEF Range
<1> QED
  BY <1>1, <1>4, <1>5 DEF r

\* clear_all_closed_object splices a list of its own.
LEMMA SplicedIn ==
    ASSUME NEW S, NEW s \in Seq(S), NEW T \in SUBSET S, IsFiniteSet(T), NEW list \in SetToSeqs(T)
    PROVE  /\ s \o list \in Seq(S)
           /\ Inj(s) /\ (\A o \in T : o \notin Range(s)) => Inj(s \o list)
           /\ Range(s \o list) \subseteq Range(s) \cup T
<1>0. PICK n \in Nat : n = Cardinality(T)
  BY FS_CardinalityType
<1>1. list \in [1..n -> T] /\ \A i, j \in 1..n : list[i] = list[j] => i = j
  BY <1>0 DEF SetToSeqs
<1>2. list \in Seq(S) /\ Len(list) = n
  BY <1>1
<1> DEFINE r == s \o list
<1>3. /\ r \in Seq(S) /\ Len(r) = Len(s) + n
      /\ \A k \in 1..Len(r) : r[k] = IF k <= Len(s) THEN s[k] ELSE list[k - Len(s)]
  BY <1>2
<1> HIDE DEF r
<1>4. DOMAIN r = 1..(Len(s) + n) /\ DOMAIN s = 1..Len(s) /\ Len(s) \in Nat
  BY <1>3
<1>5. \A k \in 1..Len(s) : s[k] \in Range(s)
  BY <1>4 DEF Range
<1>6. ASSUME Inj(s), \A o \in T : o \notin Range(s) PROVE Inj(r)
  <2> SUFFICES ASSUME NEW i \in 1..Len(r), NEW j \in 1..Len(r), r[i] = r[j] PROVE i = j
    BY <1>3, <1>4 DEF Inj
  <2>1. CASE i <= Len(s) /\ j <= Len(s)
    BY <2>1, <1>3, <1>4, <1>6 DEF Inj
  <2>2. CASE i > Len(s) /\ j > Len(s)
    BY <2>2, <1>1, <1>3, <1>4
  <2>3. CASE i <= Len(s) /\ j > Len(s)
    BY <2>3, <1>1, <1>3, <1>4, <1>5, <1>6
  <2>4. CASE i > Len(s) /\ j <= Len(s)
    BY <2>4, <1>1, <1>3, <1>4, <1>5, <1>6
  <2> QED
    BY <2>1, <2>2, <2>3, <2>4, <1>4
<1>7. Range(r) \subseteq Range(s) \cup T
  <2> SUFFICES ASSUME NEW k \in 1..Len(r) PROVE r[k] \in Range(s) \cup T
    BY <1>3, <1>4 DEF Range
  <2> QED
    BY <1>1, <1>3, <1>4, <1>5
<1> QED
  BY <1>3, <1>6, <1>7 DEF r

\* free_object keeps some of the objects.
LEMMA SomeKept ==
    ASSUME NEW S, NEW s \in Seq(S), NEW keep \in SUBSET DOMAIN s, NEW r \in Kept(s, keep)
    PROVE  r \in Seq(S) /\ (Inj(s) => Inj(r)) /\ Range(r) \subseteq Range(s)
<1>1. IsFiniteSet(keep)
  <2>1. DOMAIN s = 1..Len(s) /\ Len(s) \in Nat
    OBVIOUS
  <2>2. IsFiniteSet(1..Len(s))
    BY <2>1, FS_Interval
  <2> QED
    BY <2>1, <2>2, FS_Subset
<1>2. PICK n \in Nat : n = Cardinality(keep)
  BY <1>1, FS_CardinalityType
<1>3. PICK g \in [1..n -> keep] : /\ \A j, k \in DOMAIN g : j < k => g[j] < g[k]
                                  /\ r = [k \in DOMAIN g |-> s[g[k]]]
  BY <1>2, Zenon DEF Kept
<1>4. DOMAIN g = 1..n /\ DOMAIN r = 1..n /\ \A k \in 1..n : g[k] \in DOMAIN s /\ r[k] = s[g[k]]
  BY <1>3
<1>5. r \in Seq(S)
  BY <1>3, <1>4
<1>6. ASSUME Inj(s) PROVE Inj(r)
  <2> SUFFICES ASSUME NEW i \in 1..n, NEW j \in 1..n, r[i] = r[j] PROVE i = j
    BY <1>4 DEF Inj
  <2>1. g[i] = g[j]
    BY <1>4, <1>6 DEF Inj
  <2>2. g[i] \in Int
    BY <1>4
  <2>3. ~(i < j) /\ ~(j < i)
    BY <2>1, <2>2, <1>3, <1>4
  <2> QED
    BY <2>3
<1>7. Range(r) \subseteq Range(s)
  BY <1>4 DEF Range
<1> QED
  BY <1>5, <1>6, <1>7

-----------------------------------------------------------------------------
(* The sockets. *)

\* A field of a socket is assigned.
LEMMA OneField ==
    ASSUME NEW s \in Sockets
    PROVE  /\ \A v \in BOOLEAN : /\ [s EXCEPT !.started = v] \in Sockets
                                 /\ [s EXCEPT !.open = v] \in Sockets
                                 /\ [s EXCEPT !.dispatching = v] \in Sockets
                                 /\ [s EXCEPT !.redo = v] \in Sockets
                                 /\ [s EXCEPT !.linger = v] \in Sockets
           /\ \A v \in 0..2 : [s EXCEPT !.close = v] \in Sockets
           /\ \A v \in Nat : [s EXCEPT !.recv = v] \in Sockets /\ [s EXCEPT !.posted = v] \in Sockets
           /\ \A v \in ReadPhases : [s EXCEPT !.read = v] \in Sockets
           /\ \A v \in {"none", "io", "queued"} : [s EXCEPT !.write = v] \in Sockets
           /\ \A v \in {"none", "armed", "queued"} : [s EXCEPT !.timer = v] \in Sockets
<1>1. ASSUME NEW v \in BOOLEAN PROVE /\ [s EXCEPT !.started = v] \in Sockets
                                 /\ [s EXCEPT !.open = v] \in Sockets
                                 /\ [s EXCEPT !.dispatching = v] \in Sockets
                                 /\ [s EXCEPT !.redo = v] \in Sockets
                                 /\ [s EXCEPT !.linger = v] \in Sockets
  BY DEF Sockets
<1>2. ASSUME NEW v \in 0..2 PROVE [s EXCEPT !.close = v] \in Sockets
  BY DEF Sockets
<1>3. ASSUME NEW v \in Nat PROVE [s EXCEPT !.recv = v] \in Sockets /\ [s EXCEPT !.posted = v] \in Sockets
  BY DEF Sockets
<1>4. ASSUME NEW v \in ReadPhases PROVE [s EXCEPT !.read = v] \in Sockets
  BY DEF Sockets
<1>5. ASSUME NEW v \in {"none", "io", "queued"} PROVE [s EXCEPT !.write = v] \in Sockets
  BY DEF Sockets
<1>6. ASSUME NEW v \in {"none", "armed", "queued"} PROVE [s EXCEPT !.timer = v] \in Sockets
  BY DEF Sockets
<1> QED
  BY <1>1, <1>2, <1>3, <1>4, <1>5, <1>6, Zenon

\* clean_up leaves a socket.
LEMMA CleanedUp ==
    ASSUME NEW s \in Sockets
    PROVE  clean_up(s) \in Sockets
<1> DEFINE s1 == [s EXCEPT !.close = 1]
           s2 == [s1 EXCEPT !.started = FALSE]
           s3 == [s2 EXCEPT !.open = FALSE]
           s4 == [s3 EXCEPT !.dispatching = FALSE]
           s5 == [s4 EXCEPT !.read = IF s.read = "io" THEN "err" ELSE s.read]
           s6 == [s5 EXCEPT !.write = IF s.write = "io" THEN "queued" ELSE s.write]
           s7 == [s6 EXCEPT !.timer = IF s.timer = "armed" THEN "none" ELSE s.timer]
           s8 == [s7 EXCEPT !.redo = FALSE]
           s9 == [s8 EXCEPT !.linger = FALSE]
<1>1. clean_up(s) = s9
  BY DEF clean_up, Sockets
<1>2. (IF s.read = "io" THEN "err" ELSE s.read) \in ReadPhases
  BY DEF Sockets, ReadPhases
<1>3. (IF s.write = "io" THEN "queued" ELSE s.write) \in {"none", "io", "queued"}
  BY DEF Sockets
<1>4. (IF s.timer = "armed" THEN "none" ELSE s.timer) \in {"none", "armed", "queued"}
  BY DEF Sockets
<1>5. FALSE \in BOOLEAN /\ 1 \in 0..2
  OBVIOUS
<1>6. s9 \in Sockets
  <2> HIDE DEF s1, s2, s3, s4, s5, s6, s7, s8, s9
  <2>1. s1 \in Sockets
    BY <1>5, OneField, Zenon DEF s1
  <2>2. s2 \in Sockets
    BY <2>1, <1>5, OneField, Zenon DEF s2
  <2>3. s3 \in Sockets
    BY <2>2, <1>5, OneField, Zenon DEF s3
  <2>4. s4 \in Sockets
    BY <2>3, <1>5, OneField, Zenon DEF s4
  <2>5. s5 \in Sockets
    BY <2>4, <1>2, OneField, Zenon DEF s5
  <2>6. s6 \in Sockets
    BY <2>5, <1>3, OneField, Zenon DEF s6
  <2>7. s7 \in Sockets
    BY <2>6, <1>4, OneField, Zenon DEF s7
  <2>8. s8 \in Sockets
    BY <2>7, <1>5, OneField, Zenon DEF s8
  <2> QED
    BY <2>8, <1>5, OneField, Zenon DEF s9
<1> QED
  BY <1>1, <1>6

\* What the calls of a socket leave is a socket.
LEMMA SocketCalls ==
    ASSUME NEW s \in Sockets
    PROVE  /\ force_close(s) \in Sockets
           /\ \A sync \in BOOLEAN : graceful_close(s, sync) \in Sockets
           /\ do_recv_msg(s) \in Sockets /\ do_send_msg(s) \in Sockets
           /\ do_dispatch_msg(s) \in Sockets
<1>1. force_close(s) \in Sockets
  BY CleanedUp DEF force_close
<1>2. ASSUME NEW sync \in BOOLEAN PROVE graceful_close(s, sync) \in Sockets
  <2> DEFINE s1 == [s EXCEPT !.close = 2]
             s2 == [s1 EXCEPT !.linger = ~sync]
  <2>1. s2 = [s EXCEPT !.close = 2, !.linger = ~sync]
    BY DEF Sockets
  <2> HIDE DEF s1, s2
  <2>2. s1 \in Sockets
    <3>1. 2 \in 0..2
      OBVIOUS
    <3> QED
      BY <3>1, OneField, Zenon DEF s1
  <2>3. s2 \in Sockets
    <3>1. (~sync) \in BOOLEAN
      OBVIOUS
    <3> QED
      BY <2>2, <3>1, OneField, Zenon DEF s2
  <2> QED
    BY <2>1, <2>3, CleanedUp, Zenon DEF graceful_close
<1>3. do_recv_msg(s) \in Sockets
  BY DEF do_recv_msg, Sockets, ReadPhases
<1>4. do_send_msg(s) \in Sockets
  BY DEF do_send_msg, Sockets
<1>5. do_dispatch_msg(s) \in Sockets
  <2> DEFINE s1 == [s EXCEPT !.dispatching = TRUE]
             s2 == [s1 EXCEPT !.posted = s.posted + 1]
             s3 == [s2 EXCEPT !.recv = s.recv - 1]
             new == [s EXCEPT !.dispatching = TRUE, !.posted = @ + 1, !.recv = @ - 1]
  <2>1. CASE s.recv = 0
    BY <2>1 DEF do_dispatch_msg, Sockets
  <2>2. CASE s.recv # 0
    <3>1. s3 = new
      BY DEF Sockets
    <3>2. s.posted + 1 \in Nat /\ s.recv - 1 \in Nat /\ 0 \in Nat /\ TRUE \in BOOLEAN
      BY <2>2 DEF Sockets
    <3> HIDE DEF s1, s2, s3, new
    <3>3. s1 \in Sockets
      BY <3>2, OneField, Zenon DEF s1
    <3>4. s2 \in Sockets
      BY <3>2, <3>3, OneField, Zenon DEF s2
    <3>5. s3 \in Sockets
      BY <3>2, <3>4, OneField, Zenon DEF s3
    <3> DEFINE r == [s EXCEPT !.recv = 0]
    <3>r. r \in Sockets
      BY <3>2, OneField, Zenon
    <3>6. do_send_msg(r) \in Sockets
      <4> HIDE DEF r
      <4> QED
        BY <3>r DEF do_send_msg, Sockets
    <3> HIDE DEF r
    <3>7. do_dispatch_msg(s) \in {s, do_send_msg(r), new}
      BY <2>2 DEF do_dispatch_msg, Sockets, new, r
    <3> QED
      BY <3>1, <3>5, <3>6, <3>7
  <2> QED
    BY <2>1, <2>2
<1> QED
  BY <1>1, <1>2, <1>3, <1>4, <1>5, Zenon

\* reset() and the constructor leave a socket.
LEMMA ResetSocket ==
    ASSUME NEW s \in Sockets
    PROVE  NewSocket \in Sockets /\ reset(s) \in Sockets
<1> DEFINE s1 == [NewSocket EXCEPT !.posted = s.posted]
           s2 == [s1 EXCEPT !.read = s.read]
           s3 == [s2 EXCEPT !.write = s.write]
           s4 == [s3 EXCEPT !.timer = s.timer]
           s5 == [s4 EXCEPT !.redo = s.redo]
           s6 == [s5 EXCEPT !.linger = s.linger]
<1>1. NewSocket \in Sockets
  BY DEF NewSocket, Sockets, ReadPhases
<1>2. reset(s) = s6
  BY DEF reset
<1>3. /\ s.posted \in Nat /\ s.read \in ReadPhases /\ s.write \in {"none", "io", "queued"}
      /\ s.timer \in {"none", "armed", "queued"} /\ s.redo \in BOOLEAN /\ s.linger \in BOOLEAN
  BY DEF Sockets
<1> HIDE DEF s1, s2, s3, s4, s5, s6
<1>4. s1 \in Sockets
  BY <1>1, <1>3, OneField, Zenon DEF s1
<1>5. s2 \in Sockets
  BY <1>4, <1>3, OneField, Zenon DEF s2
<1>6. s3 \in Sockets
  BY <1>5, <1>3, OneField, Zenon DEF s3
<1>7. s4 \in Sockets
  BY <1>6, <1>3, OneField, Zenon DEF s4
<1>8. s5 \in Sockets
  BY <1>7, <1>3, OneField, Zenon DEF s5
<1>9. s6 \in Sockets
  BY <1>8, <1>3, OneField, Zenon DEF s6
<1> QED
  BY <1>1, <1>2, <1>9

\* Whatever dispatch_msg does with a message leaves a socket.
LEMMA DispatchedSocket ==
    ASSUME NEW s \in Sockets, NEW r \in dispatch_msg(s)
    PROVE  r \in Sockets
<1>1. CASE r = do_recv_msg(do_send_msg(s))
  BY <1>1, SocketCalls
<1>2. CASE r = do_recv_msg(do_dispatch_msg([s EXCEPT !.recv = @ + 1]))
  <2>1. [s EXCEPT !.recv = @ + 1] \in Sockets
    BY DEF Sockets
  <2> QED
    BY <2>1, <1>2, SocketCalls
<1>3. CASE r = [s EXCEPT !.timer = "armed"]
  BY <1>3 DEF Sockets
<1> QED
  BY <1>1, <1>2, <1>3, Zenon DEF dispatch_msg

-----------------------------------------------------------------------------
(* The pump. *)

PumpNext ==
    \/ \E r \in Runners : \/ start_service(r) \/ RunnerStep(r) \/ run_returns(r, Work)
                          \/ \E ok \in BOOLEAN : init_service(r, ok)
    \/ start_returns \/ start_gives_up \/ \E ok \in BOOLEAN : start_one(ok)
    \/ \E then \in {"waiting", "forcing"} : stop_service(then)
    \/ \E unlist \in BOOLEAN : stop_one(unlist)
    \/ skip_uninit \/ uninit_begins \/ uninit_ends \/ stop_returns \/ force_stop

\* The server touches the pump only through the pump's own operations.
LEMMA PumpOf == [Next]_vars => PumpNext \/ UNCHANGED pump
<1> SUFFICES ASSUME [Next]_vars PROVE PumpNext \/ UNCHANGED pump
  OBVIOUS
<1>1. CASE pump_step
  BY <1>1, Zenon DEF pump_step, PumpNext
<1>2. CASE pump_call
  BY <1>2, Zenon DEF pump_call, PumpNext
<1>3. CASE \E ok \in BOOLEAN : /\ \/ \E r \in Runners : init_service(r, ok)
                                  \/ at[main] = "idle" /\ start_one(ok)
                               /\ init(ok)
  BY <1>3, Zenon DEF PumpNext
<1>4. CASE uninit_stop \/ close_all_client
  BY <1>4, Zenon DEF PumpNext, uninit_stop, close_all_client
<1>5. ASSUME NEW t \in IoThreads, Handler(t) PROVE UNCHANGED pump
  BY <1>5, Zenon DEF Handler, start, start_returns_true, accept_again, push_closed, del_client_closes, end_recv_error,
     accept_handler, accept_error, recv_handler, msg_handler, send_handler, on_timer_0, on_timer_3,
     on_timer_10, on_recv_error
<1>6. CASE push_closed(main) \/ client_closed \/ linger_ends \/ free_object \/ clear_all_closed_object
  BY <1>6, Zenon DEF push_closed, client_closed, linger_ends, free_object, clear_all_closed_object
<1>7. ASSUME NEW o \in Objects, \/ close_client(o) \/ connect(o) \/ accept_fails(o)
                                \/ read_completes(o) \/ write_completes(o) \/ timer_expires(o)
      PROVE  UNCHANGED pump
  BY <1>7, Zenon DEF close_client, connect, accept_fails, read_completes, write_completes, timer_expires
<1>8. CASE UNCHANGED vars
  BY <1>8, Zenon DEF vars
<1>9. CASE Next
  BY <1>9, <1>1, <1>2, <1>3, <1>4, <1>5, <1>6, <1>7, Zenon DEF Next
<1> QED
  BY <1>8, <1>9

\* Every operation of the pump keeps the types of its variables.
LEMMA PumpTypeStep == PumpTypeOK /\ PumpNext => PumpTypeOK'
<1> SUFFICES ASSUME PumpTypeOK, PumpNext PROVE PumpTypeOK'
  OBVIOUS
<1> DEFINE Flags == {started, stopped, serving, listed} \subseteq BOOLEAN
           Rest  == /\ runner \in [Runners -> RunnerPhases]
                    /\ caller \in CallerPhases /\ after \in CallerPhases
                    /\ slow \in 0..MaxSlow
<1>1. Flags /\ Rest
  BY DEF PumpTypeOK
<1>2. Flags'
  BY <1>1, Zenon DEF PumpNext, start_service, RunnerStep, run_service, check_service, do_service,
     run_returns, init_service, start_returns, start_gives_up, start_one, stop_service, stop_one,
     skip_uninit, uninit_begins, uninit_ends, stop_returns, force_stop
<1>3. Rest'
  BY <1>1, PumpAssumption DEF PumpNext, start_service, RunnerStep, run_service, check_service, do_service,
     run_returns, init_service, start_returns, start_gives_up, start_one, stop_service, stop_one,
     skip_uninit, uninit_begins, uninit_ends, stop_returns, force_stop, RunnerPhases, CallerPhases
<1> QED
  BY <1>2, <1>3 DEF PumpTypeOK

\* Beyond OneRunner: between start_service and the moment the pump is started
\* the application thread waits in start_service.
PumpInv ==
    /\ OneRunner
    /\ slow = 0 /\ ~started => caller = "starting" \/ \A r \in Runners : ~Active(r)

\* started is set and cleared by the thread that runs the pump, and
\* start_service creates none while it is set.
LEMMA PumpInvStep == PumpTypeOK /\ PumpInv /\ PumpNext => PumpInv'
<1> SUFFICES ASSUME PumpTypeOK, PumpInv, PumpNext PROVE PumpInv'
  OBVIOUS
<1>0. started \in BOOLEAN /\ runner \in [Runners -> RunnerPhases] /\ slow \in Nat
  <2>1. started \in BOOLEAN /\ runner \in [Runners -> RunnerPhases]
    BY Zenon DEF PumpTypeOK
  <2>2. slow \in Nat
    BY PumpAssumption DEF PumpTypeOK
  <2> QED
    BY <2>1, <2>2
<1> USE <1>0 DEF PumpInv, OneRunner, Running, Active
<1>1. ASSUME NEW r \in Runners, start_service(r) PROVE PumpInv'
  BY <1>1 DEF start_service
<1>2. ASSUME NEW r \in Runners, RunnerStep(r) PROVE PumpInv'
  BY <1>2 DEF RunnerStep, run_service, check_service, do_service
<1>3. ASSUME NEW r \in Runners, run_returns(r, Work) PROVE PumpInv'
  BY <1>3 DEF run_returns
<1>4. ASSUME NEW r \in Runners, NEW ok \in BOOLEAN, init_service(r, ok) PROVE PumpInv'
  BY <1>4 DEF init_service
<1>5. CASE start_gives_up
  BY <1>5 DEF start_gives_up
<1>6. CASE start_returns
  BY <1>6 DEF start_returns
<1>7. ASSUME /\ UNCHANGED <<started, runner, slow>>
             /\ caller # "starting" \/ caller' = caller
      PROVE  PumpInv'
  BY <1>7
<1>8. CASE \/ \E ok \in BOOLEAN : start_one(ok)
           \/ \E then \in {"waiting", "forcing"} : stop_service(then)
           \/ \E unlist \in BOOLEAN : stop_one(unlist)
           \/ skip_uninit \/ uninit_begins \/ uninit_ends \/ stop_returns \/ force_stop
  <2>1. /\ UNCHANGED <<started, runner, slow>>
        /\ caller # "starting" \/ caller' = caller
    BY <1>8 DEF start_one, stop_service, stop_one, skip_uninit, uninit_begins, uninit_ends,
       stop_returns, force_stop
  <2> QED
    BY <2>1, <1>7
<1> QED
  BY <1>1, <1>2, <1>3, <1>4, <1>5, <1>6, <1>8, Zenon DEF PumpNext

-----------------------------------------------------------------------------
(* The types. *)

\* A thread holds a client_ptr while it is in a handler or in a call.
Held == \A t \in Threads : at[t] = "idle" <=> obj[t] = NoObject

TypeInv == TypeOK /\ Held

\* The part of TypeInv each group of variables has.
SockOK   == sock \in [Objects -> Sockets]
ListOK   == temp_object_can \in Seq(Objects)
PoolOK   == /\ object_can \subseteq Objects /\ asked \subseteq Objects
            /\ late \subseteq Objects /\ outrun \subseteq Objects
ListenOK == acceptor \in {"closed", "open", "listening"} /\ accept \in [Objects -> {"none", "io", "ok", "err"}]
ThreadOK == at \in [Threads -> Places] /\ obj \in [Threads -> Objects \cup {NoObject}] /\ Held
UsedOK   == used \in [Bounds -> Nat] /\ overlapped \in BOOLEAN

\* TypeInv, a conjunct at a time.
LEMMA TypeParts ==
    /\ TypeInv <=> PumpTypeOK /\ SockOK /\ ListOK /\ PoolOK /\ ListenOK /\ ThreadOK /\ UsedOK
    /\ TypeInv' <=> PumpTypeOK' /\ SockOK' /\ ListOK' /\ PoolOK' /\ ListenOK' /\ ThreadOK' /\ UsedOK'
  BY Zenon DEF TypeInv, TypeOK, SockOK, ListOK, PoolOK, ListenOK, ThreadOK, UsedOK

\* A thread that is in a handler or in a call holds an object.
LEMMA HeldObject ==
    ASSUME ThreadOK, NEW t \in Threads, at[t] # "idle"
    PROVE  obj[t] \in Objects
  BY DEF ThreadOK, Held

\* A socket is assigned.
LEMMA OneSocket ==
    ASSUME SockOK, NEW o \in Objects, NEW s \in Sockets, sock' = [sock EXCEPT ![o] = s]
    PROVE  SockOK' /\ sock[o] \in Sockets
  BY DEF SockOK

\* The bounds are counters.
LEMMA SpendOK ==
    ASSUME UsedOK, NEW kind \in Bounds, Spend(kind)
    PROVE  used' \in [Bounds -> Nat]
  BY DEF UsedOK, Spend

\* What a thread does next.
LEMMA ThreadGoes ==
    ASSUME ThreadOK, NEW t \in Threads, NEW p \in Places \ {"idle"}, NEW o \in Objects,
           at' = [at EXCEPT ![t] = p],
           \/ obj' = [obj EXCEPT ![t] = o]
           \/ obj' = obj /\ at[t] # "idle"
    PROVE  ThreadOK'
  BY ServerAssumption DEF ThreadOK, Held

\* The end of a handler or of a call.
LEMMA ThreadEnds ==
    ASSUME ThreadOK, NEW t \in Threads,
           at' = [at EXCEPT ![t] = "idle"], obj' = [obj EXCEPT ![t] = NoObject]
    PROVE  ThreadOK'
  BY ServerAssumption DEF ThreadOK, Held, Places

\* The object that create_object finds: a closed one, which it resets, or new.
TakesClosed(o) ==
    /\ late' = IF sock[o].posted > 0 THEN late \cup {o} ELSE late \ {o}
    /\ \E i \in DOMAIN temp_object_can : /\ o = temp_object_can[i] /\ Reusable(o)
                                        /\ temp_object_can' = RemoveAt(temp_object_can, i)
    /\ sock' = [sock EXCEPT ![o] = reset(sock[o])]
TakesNew(o) ==
    /\ o \in Unused
    /\ late' = late \ {o}
    /\ sock' = [sock EXCEPT ![o] = NewSocket]
    /\ temp_object_can' = temp_object_can
Creates(o, on) ==
    /\ TakesClosed(o) \/ TakesNew(o)
    /\ accept' = [accept EXCEPT ![o] = IF on = "listening" THEN "io" ELSE "err"]
    /\ asked' = asked \ {o} /\ outrun' = outrun \ {o}

\* create_and_accept takes one of the two.
LEMMA Created ==
    ASSUME NEW on, create_and_accept(on)
    PROVE  \E o \in Objects : Creates(o, on)
<1>1. PICK o \in Objects :
        /\ \/ /\ \E i \in Reused : /\ o = temp_object_can[i]
                                   /\ temp_object_can' = RemoveAt(temp_object_can, i)
              /\ sock' = [sock EXCEPT ![o] = reset(@)]
              /\ late' = IF sock[o].posted > 0 THEN late \cup {o} ELSE late \ {o}
           \/ /\ Reused = {} /\ Unused # {}
              /\ o = CHOOSE p \in Unused : TRUE
              /\ sock' = [sock EXCEPT ![o] = NewSocket]
              /\ late' = late \ {o}
              /\ UNCHANGED temp_object_can
        /\ accept' = [accept EXCEPT ![o] = IF on = "listening" THEN "io" ELSE "err"]
        /\ asked' = asked \ {o} /\ outrun' = outrun \ {o}
  BY Zenon DEF create_and_accept
<1>2. \A i \in Reused : i \in DOMAIN temp_object_can /\ Reusable(temp_object_can[i])
  BY Zenon DEF Reused
<1>3. Unused # {} => (CHOOSE p \in Unused : TRUE) \in Unused
  OBVIOUS
<1>4. CASE Reused = {} /\ Unused # {} /\ o = CHOOSE p \in Unused : TRUE
  BY <1>1, <1>2, <1>3, <1>4, Zenon DEF Creates, TakesNew
<1>5. ASSUME NEW i \in Reused, o = temp_object_can[i], temp_object_can' = RemoveAt(temp_object_can, i),
             sock' = [sock EXCEPT ![o] = reset(sock[o])],
             late' = IF sock[o].posted > 0 THEN late \cup {o} ELSE late \ {o}
      PROVE  TakesClosed(o)
  BY <1>2, <1>5, Zenon DEF TakesClosed
<1> QED
  BY <1>1, <1>4, <1>5, Zenon DEF Creates, TakesNew

\* create_object and async_accept keep the types.
LEMMA CreateTypes ==
    ASSUME TypeInv, NEW on, create_and_accept(on)
    PROVE  /\ SockOK' /\ ListOK'
           /\ asked' \subseteq Objects /\ late' \subseteq Objects /\ outrun' \subseteq Objects
           /\ accept' \in [Objects -> {"none", "io", "ok", "err"}]
<1>0. SockOK /\ ListOK /\ PoolOK /\ ListenOK
  BY TypeParts, Zenon
<1>1. PICK o \in Objects : Creates(o, on)
  BY Created, Zenon
<1>2. sock[o] \in Sockets
  BY <1>0 DEF SockOK
<1>3. SockOK'
  BY <1>0, <1>1, <1>2, ResetSocket, OneSocket, Zenon DEF Creates, TakesClosed, TakesNew
<1>4. ListOK'
  <2>1. ASSUME NEW i \in DOMAIN temp_object_can PROVE RemoveAt(temp_object_can, i) \in Seq(Objects)
    BY <1>0, TakenOut, Zenon DEF ListOK
  <2> QED
    BY <1>0, <1>1, <2>1, Zenon DEF ListOK, Creates, TakesClosed, TakesNew
<1>5. asked' \subseteq Objects /\ late' \subseteq Objects /\ outrun' \subseteq Objects
  <2>1. asked' \subseteq Objects /\ outrun' \subseteq Objects
    BY <1>0, <1>1 DEF PoolOK, Creates
  <2>2. late' \subseteq late \cup {o}
    BY <1>1, Zenon DEF Creates, TakesClosed, TakesNew
  <2> QED
    BY <1>0, <2>1, <2>2 DEF PoolOK
<1>6. accept' \in [Objects -> {"none", "io", "ok", "err"}]
  BY <1>0, <1>1 DEF ListenOK, Creates
<1> QED
  BY <1>3, <1>4, <1>5, <1>6

\* What a step leaves alone keeps its type.
LEMMA FrameTypes ==
    ASSUME TypeInv
    PROVE  /\ PumpTypeOK /\ SockOK /\ ListOK /\ PoolOK /\ ListenOK /\ ThreadOK /\ UsedOK
           /\ \A t \in Threads : at[t] # "idle" => obj[t] \in Objects
           /\ \A o \in Objects : sock[o] \in Sockets
           /\ UNCHANGED pump => PumpTypeOK'
           /\ UNCHANGED sock => SockOK'
           /\ UNCHANGED pool => ListOK'
           /\ UNCHANGED temp_object_can => ListOK'
           /\ UNCHANGED <<pool, ghost>> => PoolOK'
           /\ UNCHANGED listener => ListenOK'
           /\ UNCHANGED thread => ThreadOK'
           /\ UNCHANGED <<ghost, used>> => UsedOK'
<1>1. PumpTypeOK /\ SockOK /\ ListOK /\ PoolOK /\ ListenOK /\ ThreadOK /\ UsedOK
  BY TypeParts, Zenon
<1>2. \A t \in Threads : at[t] # "idle" => obj[t] \in Objects
  BY <1>1, HeldObject, Zenon
<1>3. \A o \in Objects : sock[o] \in Sockets
  BY <1>1 DEF SockOK
<1>4. UNCHANGED pump => PumpTypeOK'
  BY <1>1 DEF PumpTypeOK, pump
<1> QED
  BY <1>1, <1>2, <1>3, <1>4, Zenon DEF SockOK, ListOK, PoolOK, ListenOK, ThreadOK, UsedOK, Held,
     pool, ghost, listener, thread

\* del_object's push keeps the types.
LEMMA PushTypes ==
    ASSUME TypeInv, NEW t \in Threads, push_closed(t)
    PROVE  TypeInv'
<1>1. at[t] # "idle" /\ obj[t] \in Objects /\ PoolOK /\ ListOK /\ ThreadOK
  BY FrameTypes DEF push_closed
<1>2. ListOK'
  BY <1>1, PushedBack DEF push_closed, ListOK
<1>3. ThreadOK'
  BY <1>1, ThreadGoes DEF push_closed, Places
<1>4. PoolOK'
  BY <1>1, Zenon DEF push_closed, PoolOK, ghost
<1> QED
  BY FrameTypes, TypeParts, <1>2, <1>3, <1>4, Zenon DEF push_closed

\* A handler of an io thread keeps the types.
LEMMA HandlerTypes ==
    ASSUME TypeInv, NEW t \in IoThreads, Handler(t)
    PROVE  TypeInv'
<1>0. /\ PumpTypeOK /\ SockOK /\ ListOK /\ PoolOK /\ ListenOK /\ ThreadOK /\ UsedOK
      /\ t \in Threads /\ (at[t] # "idle" => obj[t] \in Objects)
      /\ \A o \in Objects : sock[o] \in Sockets
  BY FrameTypes, Zenon DEF Threads
<1>1. ASSUME UNCHANGED pump, SockOK', ListOK', PoolOK', ListenOK', ThreadOK', UsedOK' PROVE TypeInv'
  BY <1>1, FrameTypes, TypeParts, Zenon
<1>2. /\ UNCHANGED sock => SockOK'
      /\ UNCHANGED pool => ListOK'
      /\ UNCHANGED temp_object_can => ListOK'
      /\ UNCHANGED <<pool, ghost>> => PoolOK'
      /\ UNCHANGED listener => ListenOK'
      /\ UNCHANGED thread => ThreadOK'
      /\ UNCHANGED <<ghost, used>> => UsedOK'
  BY FrameTypes, Zenon
<1>3. ASSUME start(t) PROVE TypeInv'
  <2>1. obj[t] \in Objects /\ sock[obj[t]] \in Sockets /\ at[t] # "idle"
    BY <1>0, <1>3 DEF start
  <2>2. SockOK'
    BY <1>0, <1>2, <1>3, <2>1, SocketCalls, OneSocket, Zenon DEF start
  <2>3. "next" \in Places \ {"idle"} /\ "started" \in Places \ {"idle"}
    BY DEF Places
  <2>4. ThreadOK'
    BY <1>0, <1>3, <2>1, <2>3, ThreadGoes, Zenon DEF start
  <2> QED
    BY <1>1, <1>2, <1>3, <2>2, <2>4, Zenon DEF start
<1>17. ASSUME start_returns_true(t) PROVE TypeInv'
  <2>1. obj[t] \in Objects /\ sock[obj[t]] \in Sockets /\ at[t] # "idle"
    BY <1>0, <1>17 DEF start_returns_true
  <2>2. SockOK'
    <3>1. [sock[obj[t]] EXCEPT !.started = TRUE] \in Sockets
      BY <2>1, OneField
    <3> QED
      BY <1>0, <1>17, <2>1, <3>1, OneSocket, Zenon DEF start_returns_true
  <2>3. "next" \in Places \ {"idle"}
    BY DEF Places
  <2>4. ThreadOK'
    BY <1>0, <1>17, <2>1, <2>3, ThreadGoes, Zenon DEF start_returns_true
  <2>5. PoolOK'
    BY <1>0, <1>17, <2>1 DEF start_returns_true, PoolOK, pool
  <2>6. UsedOK'
    BY <1>0, <1>17, Zenon DEF start_returns_true, UsedOK
  <2> QED
    BY <1>1, <1>2, <1>17, <2>2, <2>4, <2>5, <2>6, Zenon DEF start_returns_true
<1>4. ASSUME accept_again(t) PROVE TypeInv'
  <2>1. /\ SockOK' /\ ListOK'
        /\ asked' \subseteq Objects /\ late' \subseteq Objects /\ outrun' \subseteq Objects
        /\ accept' \in [Objects -> {"none", "io", "ok", "err"}]
    BY <1>4, CreateTypes, Zenon DEF accept_again
  <2>2. ThreadOK'
    BY <1>0, <1>4, ThreadEnds, Zenon DEF accept_again
  <2>3. ListenOK' /\ PoolOK'
    BY <1>0, <1>4, <2>1, Zenon DEF accept_again, ListenOK, PoolOK
  <2>4. UsedOK'
    BY <1>0, <1>4, Zenon DEF accept_again, UsedOK
  <2> QED
    BY <1>1, <1>4, <2>1, <2>2, <2>3, <2>4, Zenon DEF accept_again
<1>5. ASSUME push_closed(t) PROVE TypeInv'
  BY <1>0, <1>5, PushTypes, Zenon
<1>6. ASSUME del_client_closes(t) PROVE TypeInv'
  <2>1. obj[t] \in Objects /\ sock[obj[t]] \in Sockets
    BY <1>0, <1>6 DEF del_client_closes
  <2>2. SockOK'
    BY <1>0, <1>6, <2>1, SocketCalls, OneSocket, Zenon DEF del_client_closes
  <2>3. ThreadOK'
    BY <1>0, <1>6, <2>1, ThreadGoes DEF del_client_closes, Places
  <2> QED
    BY <1>1, <1>2, <1>6, <2>2, <2>3, Zenon DEF del_client_closes
<1>7. ASSUME end_recv_error(t) PROVE TypeInv'
  <2> DEFINE s == sock[obj[t]]
             s1 == [s EXCEPT !.close = 0]
             s2 == [s1 EXCEPT !.read = "none"]
  <2>1. obj[t] \in Objects /\ s \in Sockets
    BY <1>0, <1>7 DEF end_recv_error
  <2>2. s2 \in Sockets
    <3>0. 0 \in 0..2
      OBVIOUS
    <3>1. s1 \in Sockets
      BY <2>1, <3>0, OneField, Zenon
    <3>2. "none" \in ReadPhases
      BY DEF ReadPhases
    <3> HIDE DEF s1
    <3>3. [s1 EXCEPT !.read = "none"] \in Sockets
      BY <3>1, <3>2, OneField, Zenon
    <3> QED
      BY <3>3, Zenon
  <2>3. sock' = [sock EXCEPT ![obj[t]] = s2]
    BY <1>0, <1>7, <2>1 DEF end_recv_error, SockOK
  <2>4. SockOK'
    BY <1>0, <2>1, <2>2, <2>3, OneSocket, Zenon
  <2>5. ThreadOK'
    BY <1>0, <1>7, ThreadEnds, Zenon DEF end_recv_error
  <2> QED
    BY <1>1, <1>2, <1>7, <2>4, <2>5, Zenon DEF end_recv_error
<1>8. ASSUME NEW o \in Objects, accept_handler(t, o) PROVE TypeInv'
  <2>1. SockOK'
    BY <1>0, <1>2, <1>8, CleanedUp, OneSocket, Zenon DEF accept_handler
  <2>2. ThreadOK'
    BY <1>0, <1>8, ThreadGoes DEF accept_handler, Places
  <2>3. ListenOK'
    BY <1>0, <1>8 DEF accept_handler, ListenOK
  <2>4. PoolOK'
    BY <1>0, <1>8 DEF accept_handler, PoolOK, ghost
  <2> QED
    BY <1>1, <1>2, <1>8, <2>1, <2>2, <2>3, <2>4, Zenon DEF accept_handler
<1>9. ASSUME NEW o \in Objects, accept_error(t, o) PROVE TypeInv'
  <2>1. ListenOK'
    BY <1>0, <1>9 DEF accept_error, ListenOK
  <2> QED
    BY <1>1, <1>2, <1>9, <2>1, Zenon DEF accept_error
<1>10. ASSUME NEW o \in Objects, recv_handler(t, o) PROVE TypeInv'
  <2> DEFINE s == [sock[o] EXCEPT !.read = "none"]
  <2>1. s \in Sockets
    BY <1>0, OneField DEF ReadPhases
  <2> HIDE DEF s
  <2>2. \A r \in dispatch_msg(s) : r \in Sockets
    BY <2>1, DispatchedSocket, Zenon
  <2>3. \A r \in dispatch_msg(s) \cup {do_recv_msg(s)} : force_close(r) \in Sockets
    BY <2>1, <2>2, SocketCalls, Zenon
  <2>4. SockOK'
    BY <1>0, <1>10, <2>2, <2>3, OneSocket, Zenon DEF recv_handler, s
  <2> QED
    BY <1>1, <1>2, <1>10, <2>4, Zenon DEF recv_handler
<1>11. ASSUME NEW o \in Objects, msg_handler(t, o) PROVE TypeInv'
  <2> DEFINE s1 == [sock[o] EXCEPT !.posted = @ - 1]
             s2 == [s1 EXCEPT !.dispatching = FALSE]
             s3 == [s2 EXCEPT !.recv = @ + 1]
             s4 == [s3 EXCEPT !.redo = TRUE]
             s == [sock[o] EXCEPT !.posted = @ - 1, !.dispatching = FALSE]
             r == [s EXCEPT !.recv = @ + 1, !.redo = TRUE]
  <2>1. s2 = s /\ s4 = r /\ TRUE \in BOOLEAN /\ FALSE \in BOOLEAN
    BY <1>0 DEF Sockets
  <2>2. s1 \in Sockets
    <3>1. sock[o].posted - 1 \in Nat
      BY <1>0, <1>11 DEF msg_handler, Sockets
    <3> QED
      BY <1>0, <3>1, OneField, Zenon
  <2> HIDE DEF s1
  <2>3. s2 \in Sockets
    BY <2>1, <2>2, OneField, Zenon
  <2> HIDE DEF s2
  <2>4. s3 \in Sockets
    <3>1. s2.recv + 1 \in Nat
      BY <2>3 DEF Sockets
    <3> QED
      BY <2>3, <3>1, OneField, Zenon
  <2> HIDE DEF s3
  <2>5. s4 \in Sockets
    BY <2>1, <2>4, OneField, Zenon
  <2> HIDE DEF s4
  <2>6. do_dispatch_msg(do_send_msg(s)) \in Sockets /\ r \in Sockets
    BY <2>1, <2>3, <2>5, SocketCalls, Zenon
  <2>7. sock' = [sock EXCEPT ![o] = do_dispatch_msg(do_send_msg(s))] \/ sock' = [sock EXCEPT ![o] = r]
    BY <1>11, Zenon DEF msg_handler
  <2>8. SockOK'
    BY <1>0, <2>6, <2>7, OneSocket, Zenon
  <2>9. UsedOK'
    <3>1. "refused" \in Bounds
      BY DEF Bounds
    <3> QED
      BY <1>0, <1>11, <3>1, SpendOK, Zenon DEF msg_handler, UsedOK, ghost
  <2> QED
    BY <1>1, <1>2, <1>11, <2>8, <2>9, Zenon DEF msg_handler
<1>12. ASSUME NEW o \in Objects, send_handler(t, o) PROVE TypeInv'
  <2>1. [sock[o] EXCEPT !.write = "none"] \in Sockets
    BY <1>0, OneField
  <2>2. SockOK'
    BY <1>0, <1>12, <2>1, OneSocket, Zenon DEF send_handler
  <2> QED
    BY <1>1, <1>2, <1>12, <2>2, Zenon DEF send_handler
<1>13. ASSUME NEW o \in Objects, on_timer_0(t, o) PROVE TypeInv'
  <2> DEFINE s == [sock[o] EXCEPT !.timer = "none"]
  <2>1. s \in Sockets
    BY <1>0, OneField
  <2> HIDE DEF s
  <2>2. \A r \in dispatch_msg(s) : r \in Sockets
    BY <2>1, DispatchedSocket, Zenon
  <2>3. SockOK'
    BY <1>0, <1>13, <2>2, OneSocket, Zenon DEF on_timer_0, s
  <2> QED
    BY <1>1, <1>2, <1>13, <2>3, Zenon DEF on_timer_0
<1>14. ASSUME NEW o \in Objects, on_timer_3(t, o) PROVE TypeInv'
  <2> DEFINE s == [sock[o] EXCEPT !.redo = FALSE]
  <2>1. s \in Sockets
    BY <1>0, OneField
  <2> HIDE DEF s
  <2>2. do_dispatch_msg(s) \in Sockets
    BY <2>1, SocketCalls, Zenon
  <2>3. SockOK'
    BY <1>0, <1>14, <2>2, OneSocket, Zenon DEF on_timer_3, s
  <2> QED
    BY <1>1, <1>2, <1>14, <2>3, Zenon DEF on_timer_3
<1>15. ASSUME NEW o \in Objects, on_timer_10(t, o) PROVE TypeInv'
  <2> DEFINE s == [sock[o] EXCEPT !.linger = FALSE]
             r == IF s.close = 2 THEN force_close(s) ELSE s
  <2>1. s \in Sockets
    BY <1>0, OneField
  <2>2. sock' = [sock EXCEPT ![o] = r]
    BY <1>15, Zenon DEF on_timer_10
  <2> HIDE DEF s
  <2>3. force_close(s) \in Sockets
    BY <2>1, SocketCalls, Zenon
  <2>4. r \in Sockets
    BY <2>1, <2>3, Zenon
  <2>5. SockOK'
    BY <1>0, <2>2, <2>4, OneSocket, Zenon
  <2> QED
    BY <1>1, <1>2, <1>15, <2>5, Zenon DEF on_timer_10
<1>16. ASSUME NEW o \in Objects, on_recv_error(t, o) PROVE TypeInv'
  <2>1. [sock[o] EXCEPT !.read = "ending"] \in Sockets
    BY <1>0, OneField DEF ReadPhases
  <2>2. SockOK'
    BY <1>0, <1>16, <2>1, OneSocket, Zenon DEF on_recv_error
  <2>3. ThreadOK'
    <3>0. {"push", "reset"} \subseteq Places \ {"idle"}
      BY DEF Places
    <3>1. PICK p \in Places \ {"idle"} : at' = [at EXCEPT ![t] = p]
      <4>1. CASE o \in object_can
        BY <1>16, <4>1, <3>0, Zenon DEF on_recv_error
      <4>2. CASE o \notin object_can
        BY <1>16, <4>2, <3>0, Zenon DEF on_recv_error
      <4> QED
        BY <4>1, <4>2, Zenon
    <3> QED
      BY <1>0, <1>16, <3>1, ThreadGoes, Zenon DEF on_recv_error, erase
  <2>4. PoolOK'
    BY <1>0, <1>16 DEF on_recv_error, erase, PoolOK, ghost
  <2> QED
    BY <1>1, <1>2, <1>16, <2>2, <2>3, <2>4, Zenon DEF on_recv_error
<1> QED
  BY <1>3, <1>4, <1>5, <1>6, <1>7, <1>8, <1>9, <1>10, <1>11, <1>12, <1>13, <1>14, <1>15, <1>16, <1>17, Zenon
     DEF Handler

\* So does every step of the application, the peers, the kernel and the pump.
LEMMA TypeStep == TypeInv /\ [Next]_vars => TypeInv'
<1> SUFFICES ASSUME TypeInv, [Next]_vars PROVE TypeInv'
  OBVIOUS
<1>0. /\ PumpTypeOK /\ SockOK /\ ListOK /\ PoolOK /\ ListenOK /\ ThreadOK /\ UsedOK
      /\ main \in Threads /\ (at[main] # "idle" => obj[main] \in Objects)
      /\ \A o \in Objects : sock[o] \in Sockets
  BY FrameTypes, Zenon DEF Threads
<1>1. ASSUME SockOK', ListOK', PoolOK', ListenOK', ThreadOK', UsedOK' PROVE TypeInv'
  BY <1>0, <1>1, PumpOf, PumpTypeStep, FrameTypes, TypeParts, Zenon
<1>2. /\ UNCHANGED sock => SockOK'
      /\ UNCHANGED pool => ListOK'
      /\ UNCHANGED temp_object_can => ListOK'
      /\ UNCHANGED <<pool, ghost>> => PoolOK'
      /\ UNCHANGED listener => ListenOK'
      /\ UNCHANGED thread => ThreadOK'
      /\ UNCHANGED <<ghost, used>> => UsedOK'
  BY FrameTypes, Zenon
<1>3. ASSUME NEW kind \in Bounds, Spend(kind), UNCHANGED overlapped PROVE UsedOK'
  BY <1>0, <1>3, SpendOK, Zenon DEF UsedOK
<1>4. {"fails", "msgs", "refused", "clients", "calls"} \subseteq Bounds
  BY DEF Bounds
<1>5. CASE pump_step /\ UNCHANGED server
  BY <1>1, <1>2, <1>5, Zenon DEF server
<1>6. CASE pump_call
  <2>1. UsedOK'
    BY <1>3, <1>4, <1>6, Zenon DEF pump_call, ghost
  <2> QED
    BY <1>1, <1>2, <1>6, <2>1, Zenon DEF pump_call
<1>7. ASSUME NEW ok \in BOOLEAN, init(ok) PROVE TypeInv'
  <2>1. CASE create_and_accept("listening") /\ acceptor' = "listening" /\ UNCHANGED used
    <3>1. /\ SockOK' /\ ListOK' /\ ListenOK'
          /\ asked' \subseteq Objects /\ late' \subseteq Objects /\ outrun' \subseteq Objects
      BY <2>1, CreateTypes, Zenon DEF ListenOK
    <3>2. PoolOK'
      BY <1>0, <1>7, <3>1, Zenon DEF init, PoolOK
    <3>3. UsedOK'
      BY <1>0, <1>7, <2>1, Zenon DEF init, UsedOK
    <3> QED
      BY <1>1, <1>2, <1>7, <3>1, <3>2, <3>3, Zenon DEF init
  <2>2. CASE Spend("fails") /\ acceptor' = "open" /\ UNCHANGED <<accept, temp_object_can, sock, asked, late, outrun>>
    <3>1. ListenOK' /\ PoolOK'
      BY <1>0, <1>7, <2>2, Zenon DEF init, ListenOK, PoolOK
    <3>2. used' \in [Bounds -> Nat]
      BY <1>0, <1>4, <2>2, SpendOK, Zenon
    <3>3. UsedOK'
      BY <1>7, <3>2, Zenon DEF init, UsedOK
    <3> QED
      BY <1>1, <1>2, <1>7, <2>2, <3>1, <3>3, Zenon DEF init
  <2> QED
    BY <1>7, <2>1, <2>2, Zenon DEF init
<1>8. CASE uninit_stop
  <2>1. ListenOK'
    BY <1>0, <1>8 DEF uninit_stop, stop_listen, ListenOK
  <2> QED
    BY <1>1, <1>2, <1>8, <2>1, Zenon DEF uninit_stop
<1>9. CASE close_all_client
  <2>1. \A o \in Objects : (IF o \in object_can THEN force_close(sock[o]) ELSE sock[o]) \in Sockets
    BY <1>0, SocketCalls, Zenon
  <2>2. SockOK'
    <3> DEFINE S(o) == IF o \in object_can THEN force_close(sock[o]) ELSE sock[o]
    <3>1. sock' = [o \in Objects |-> S(o)]
      BY <1>9, Zenon DEF close_all_client
    <3>2. \A o \in Objects : S(o) \in Sockets
      BY <2>1, Zenon
    <3> HIDE DEF S
    <3> QED
      BY <3>1, <3>2 DEF SockOK
  <2>3. PoolOK'
    BY <1>0, <1>9 DEF close_all_client, PoolOK, pool
  <2>4. UsedOK'
    BY <1>0, <1>9, Zenon DEF close_all_client, UsedOK
  <2> QED
    BY <1>1, <1>2, <1>9, <2>2, <2>3, <2>4, Zenon DEF close_all_client
<1>10. CASE push_closed(main)
  BY <1>0, <1>10, PushTypes, Zenon
<1>11. CASE client_closed
  <2>1. obj[main] \in Objects /\ sock[obj[main]] \in Sockets /\ TRUE \in BOOLEAN /\ FALSE \in BOOLEAN
    BY <1>0, <1>11 DEF client_closed
  <2>2. SockOK'
    BY <1>0, <1>11, <2>1, SocketCalls, OneSocket, Zenon DEF client_closed
  <2>3. "linger" \in Places \ {"idle"} /\ at[main] # "idle"
    BY <1>11 DEF Places, client_closed
  <2>4. ThreadOK'
    BY <1>0, <1>11, <2>1, <2>3, ThreadGoes, ThreadEnds, Zenon DEF client_closed
  <2> QED
    BY <1>1, <1>2, <1>11, <2>2, <2>4, Zenon DEF client_closed
<1>12. CASE linger_ends
  <2>1. obj[main] \in Objects /\ sock[obj[main]] \in Sockets
    BY <1>0, <1>12 DEF linger_ends
  <2>2. SockOK'
    BY <1>0, <1>2, <1>12, <2>1, CleanedUp, OneSocket, Zenon DEF linger_ends
  <2>3. ThreadOK'
    BY <1>0, <1>12, ThreadEnds, Zenon DEF linger_ends
  <2> QED
    BY <1>1, <1>2, <1>12, <2>2, <2>3, Zenon DEF linger_ends
<1>13. CASE free_object
  <2> DEFINE keep == {i \in DOMAIN temp_object_can : ~Reusable(temp_object_can[i])}
  <2>1. temp_object_can' \in Kept(temp_object_can, keep) /\ keep \in SUBSET DOMAIN temp_object_can
    BY <1>13, Zenon DEF free_object
  <2> HIDE DEF keep
  <2>2. ListOK'
    BY <1>0, <2>1, SomeKept, Zenon DEF ListOK
  <2>3. UsedOK'
    BY <1>3, <1>4, <1>13, Zenon DEF free_object, ghost
  <2>4. PoolOK'
    BY <1>0, <1>13, Zenon DEF free_object, PoolOK, ghost
  <2> QED
    BY <1>1, <1>2, <1>13, <2>2, <2>3, <2>4, Zenon DEF free_object
<1>14. CASE clear_all_closed_object
  <2> DEFINE idle == {o \in object_can : Reusable(o)}
  <2>1. PICK list \in SetToSeqs(idle) : /\ object_can' = object_can \ idle
                                        /\ temp_object_can' = temp_object_can \o list
    BY <1>14, Zenon DEF clear_all_closed_object
  <2>2. idle \in SUBSET Objects
    BY <1>0 DEF PoolOK
  <2>3. IsFiniteSet(idle)
    BY <2>2, ServerAssumption, FS_Subset
  <2> HIDE DEF idle
  <2>4. ListOK'
    BY <1>0, <2>1, <2>2, <2>3, SplicedIn DEF ListOK
  <2>5. PoolOK'
    BY <1>0, <1>14, <2>1, Zenon DEF clear_all_closed_object, PoolOK, ghost
  <2>6. UsedOK'
    BY <1>3, <1>4, <1>14, Zenon DEF clear_all_closed_object, ghost
  <2> QED
    BY <1>1, <1>2, <1>14, <2>4, <2>5, <2>6, Zenon DEF clear_all_closed_object
<1>15. ASSUME NEW o \in Objects, close_client(o) PROVE TypeInv'
  <2>1. ThreadOK'
    BY <1>0, <1>15, ThreadGoes DEF close_client, erase, Places
  <2>2. PoolOK'
    BY <1>0, <1>15 DEF close_client, erase, PoolOK
  <2>3. UsedOK'
    BY <1>3, <1>4, <1>15, Zenon DEF close_client
  <2> QED
    BY <1>1, <1>2, <1>15, <2>1, <2>2, <2>3, Zenon DEF close_client
<1>16. ASSUME NEW o \in Objects, connect(o) PROVE TypeInv'
  <2>1. [sock[o] EXCEPT !.open = TRUE] \in Sockets
    BY <1>0, OneField
  <2>2. SockOK'
    BY <1>0, <1>16, <2>1, OneSocket, Zenon DEF connect
  <2>3. ListenOK'
    BY <1>0, <1>16 DEF connect, ListenOK
  <2>4. UsedOK'
    BY <1>3, <1>4, <1>16, Zenon DEF connect, ghost
  <2> QED
    BY <1>1, <1>2, <1>16, <2>2, <2>3, <2>4, Zenon DEF connect
<1>17. ASSUME NEW o \in Objects, accept_fails(o) PROVE TypeInv'
  <2>1. ListenOK'
    BY <1>0, <1>17 DEF accept_fails, ListenOK
  <2>2. UsedOK'
    BY <1>3, <1>4, <1>17, Zenon DEF accept_fails, ghost
  <2> QED
    BY <1>1, <1>2, <1>17, <2>1, <2>2, Zenon DEF accept_fails
<1>18. ASSUME NEW o \in Objects, read_completes(o) PROVE TypeInv'
  <2>1. [sock[o] EXCEPT !.read = "ok"] \in Sockets /\ [sock[o] EXCEPT !.read = "err"] \in Sockets
    BY <1>0, OneField DEF ReadPhases
  <2>2. SockOK'
    BY <1>0, <1>18, <2>1, OneSocket, Zenon DEF read_completes
  <2>3. UsedOK'
    BY <1>2, <1>3, <1>4, <1>18, Zenon DEF read_completes, ghost
  <2> QED
    BY <1>1, <1>2, <1>18, <2>2, <2>3, Zenon DEF read_completes
<1>19. ASSUME NEW o \in Objects, write_completes(o) PROVE TypeInv'
  <2>1. [sock[o] EXCEPT !.write = "queued"] \in Sockets
    BY <1>0, OneField
  <2>2. SockOK'
    BY <1>0, <1>19, <2>1, OneSocket, Zenon DEF write_completes
  <2> QED
    BY <1>1, <1>2, <1>19, <2>2, Zenon DEF write_completes
<1>20. ASSUME NEW o \in Objects, timer_expires(o) PROVE TypeInv'
  <2>1. [sock[o] EXCEPT !.timer = "queued"] \in Sockets
    BY <1>0, OneField
  <2>2. SockOK'
    BY <1>0, <1>20, <2>1, OneSocket, Zenon DEF timer_expires
  <2> QED
    BY <1>1, <1>2, <1>20, <2>2, Zenon DEF timer_expires
<1>21. CASE UNCHANGED vars
  BY <1>1, <1>2, <1>21, Zenon DEF vars, server
<1>22. CASE Next
  BY <1>22, <1>5, <1>6, <1>7, <1>8, <1>9, <1>10, <1>11, <1>12, <1>13, <1>14, <1>15, <1>16, <1>17,
     <1>18, <1>19, <1>20, HandlerTypes, Zenon DEF Next
<1> QED
  BY <1>21, <1>22

\* TypeInv holds in every reachable state.
LEMMA Typed == Spec => []TypeInv
<1>1. Init => TypeInv
  <2> SUFFICES ASSUME Init PROVE TypeInv
    OBVIOUS
  <2>1. PumpTypeOK
    <3>1. {started, stopped, serving, listed} \subseteq BOOLEAN
      BY Zenon DEF Init, PumpInit
    <3>2. /\ runner \in [Runners -> RunnerPhases]
          /\ caller \in CallerPhases /\ after \in CallerPhases
          /\ slow \in 0..MaxSlow
      BY PumpAssumption DEF Init, PumpInit, RunnerPhases, CallerPhases
    <3> QED
      BY <3>1, <3>2 DEF PumpTypeOK
  <2>2. SockOK
    <3>1. NewSocket \in Sockets
      BY DEF NewSocket, Sockets, ReadPhases
    <3> QED
      BY <3>1 DEF Init, SockOK
  <2>3. ListOK
    BY DEF Init, ListOK
  <2>4. PoolOK /\ ListenOK
    BY DEF Init, PoolOK, ListenOK
  <2>5. ThreadOK
    BY DEF Init, ThreadOK, Held, Places
  <2>6. UsedOK
    <3>1. used \in [Bounds -> Nat]
      BY DEF Init
    <3> QED
      BY <3>1, Zenon DEF Init, UsedOK
  <2> QED
    BY <2>1, <2>2, <2>3, <2>4, <2>5, <2>6, TypeParts, Zenon
<1> QED
  BY <1>1, TypeStep, PTL DEF Spec

\* The server's and the pump's variables keep their types.
THEOREM TypeCorrect == Spec => []TypeOK
<1>1. TypeInv => TypeOK
  BY DEF TypeInv
<1> QED
  BY <1>1, Typed, PTL

\* As long as no start_service has given up waiting (service_pump.h:123), two
\* service threads never run the pump at once, and it counts as started exactly
\* while one does; for any number of starts, stops and failing init()s.  Once
\* one has given up two threads may run the pump, and nothing is said.
THEOREM OneRunnerHolds == Spec => []OneRunner
<1>1. Init => PumpInv
  BY DEF Init, PumpInit, PumpInv, OneRunner, Running, Active
<1>2. TypeInv /\ PumpInv /\ [Next]_vars => PumpInv'
  <2> SUFFICES ASSUME TypeInv, PumpInv, [Next]_vars PROVE PumpInv'
    OBVIOUS
  <2>1. PumpTypeOK
    BY FrameTypes
  <2>2. CASE UNCHANGED pump
    BY <2>2 DEF pump, PumpInv, OneRunner, Running, Active
  <2> QED
    BY <2>1, <2>2, PumpOf, PumpInvStep, Zenon
<1>3. PumpInv => OneRunner
  BY DEF PumpInv
<1> QED
  BY <1>1, <1>2, <1>3, Typed, PTL DEF Spec

-----------------------------------------------------------------------------
(* The containers hold an object once. *)

\* In first-order terms: what is in temp_object_can, in object_can, in the hands
\* of a thread between del_object's two critical sections, or under an accept.
HomeInv ==
    /\ Inj(temp_object_can)
    /\ \A o \in Closed : o \notin object_can /\ accept[o] = "none"
    /\ \A o \in object_can : accept[o] = "none"
    /\ \A t \in Threads : at[t] = "push" =>
          obj[t] \notin object_can /\ obj[t] \notin Closed /\ accept[obj[t]] = "none"
    /\ \A t, u \in Threads : at[t] = "push" /\ at[u] = "push" /\ obj[t] = obj[u] => t = u

\* HomeInv is what OneHome counts.
LEMMA HomeCount == TypeInv /\ HomeInv => OneHome
<1> SUFFICES ASSUME TypeInv, HomeInv, NEW o \in Objects
             PROVE  Cardinality({i \in DOMAIN temp_object_can : temp_object_can[i] = o})
                    + Cardinality(Holders(o))
                    + (IF o \in object_can THEN 1 ELSE 0)
                    + (IF accept[o] # "none" THEN 1 ELSE 0) <= 1
  BY DEF OneHome
<1> DEFINE I == {i \in DOMAIN temp_object_can : temp_object_can[i] = o}
<1>1. \/ I = {} /\ Cardinality(I) = 0
      \/ o \in Closed /\ Cardinality(I) = 1
  <2>1. CASE I = {}
    BY <2>1, FS_EmptySet
  <2>2. CASE I # {}
    <3>1. PICK i : i \in I
      BY <2>2
    <3>2. I = {i}
      BY <3>1 DEF HomeInv, Inj
    <3>3. Cardinality(I) = 1
      BY <3>2, FS_Singleton
    <3>4. o \in Closed
      BY <3>1 DEF Closed, Range
    <3> QED
      BY <3>3, <3>4
  <2> QED
    BY <2>1, <2>2
<1>2. \/ Holders(o) = {} /\ Cardinality(Holders(o)) = 0
      \/ (\E t \in Threads : at[t] = "push" /\ obj[t] = o) /\ Cardinality(Holders(o)) = 1
  <2>1. CASE Holders(o) = {}
    BY <2>1, FS_EmptySet
  <2>2. CASE Holders(o) # {}
    <3>1. PICK t \in Threads : at[t] = "push" /\ obj[t] = o
      BY <2>2 DEF Holders
    <3>2. Holders(o) = {t}
      BY <3>1 DEF HomeInv, Holders
    <3>3. Cardinality(Holders(o)) = 1
      BY <3>2, FS_Singleton
    <3> QED
      BY <3>1, <3>3
  <2> QED
    BY <2>1, <2>2
<1> HIDE DEF I
<1>3. o \in object_can =>
        o \notin Closed /\ accept[o] = "none" /\ ~\E t \in Threads : at[t] = "push" /\ obj[t] = o
  BY DEF HomeInv
<1>4. o \in Closed => accept[o] = "none" /\ ~\E t \in Threads : at[t] = "push" /\ obj[t] = o
  BY DEF HomeInv
<1>5. (\E t \in Threads : at[t] = "push" /\ obj[t] = o) => accept[o] = "none"
  BY DEF HomeInv
<1>6. Cardinality(I) + Cardinality(Holders(o))
                    + (IF o \in object_can THEN 1 ELSE 0)
                    + (IF accept[o] # "none" THEN 1 ELSE 0) <= 1
  BY <1>1, <1>2, <1>3, <1>4, <1>5
<1> QED
  BY <1>6 DEF I

\* A step that moves no object keeps HomeInv.
LEMMA HomeFrame ==
    ASSUME TypeInv, HomeInv, UNCHANGED pool,
           \A o \in Objects : accept[o] = "none" => accept'[o] = "none",
           \A t \in Threads : at'[t] = "push" => at[t] = "push" /\ obj'[t] = obj[t]
    PROVE  HomeInv'
<1>1. object_can' = object_can /\ temp_object_can' = temp_object_can /\ Closed' = Closed
  BY Zenon DEF pool, Closed
<1>2. /\ object_can \subseteq Objects /\ Closed \subseteq Objects
      /\ \A t \in Threads : at[t] = "push" => obj[t] \in Objects
  <2>1. PoolOK /\ ListOK /\ \A t \in Threads : at[t] # "idle" => obj[t] \in Objects
    BY FrameTypes, Zenon
  <2>2. Closed \subseteq Objects
    BY <2>1 DEF ListOK, Closed, Range
  <2> QED
    BY <2>1, <2>2 DEF PoolOK
<1> QED
  BY <1>1, <1>2 DEF HomeInv

\* The object that create_object takes leaves temp_object_can and is in nobody's
\* hands.
LEMMA CreatedHome ==
    ASSUME TypeInv, HomeInv, NEW o \in Objects, NEW on, Creates(o, on)
    PROVE  Unique(o) /\ Inj(temp_object_can') /\ Closed' \subseteq Closed \ {o} /\ o \notin object_can
<1>0. ListOK
  BY FrameTypes
<1>1. CASE TakesClosed(o)
  <2>1. PICK i \in DOMAIN temp_object_can : /\ o = temp_object_can[i] /\ Reusable(o)
                                           /\ temp_object_can' = RemoveAt(temp_object_can, i)
    BY <1>1, Zenon DEF TakesClosed
  <2>2. Inj(temp_object_can') /\ Range(temp_object_can') \subseteq Range(temp_object_can) \ {o}
    BY <1>0, <2>1, TakenOut, Zenon DEF ListOK, HomeInv
  <2>3. o \in Closed
    BY <2>1, Zenon DEF Closed, Range
  <2> QED
    BY <2>1, <2>2, <2>3, Zenon DEF Closed, Reusable, HomeInv
<1>2. CASE TakesNew(o)
  <2>1. Unique(o) /\ o \notin object_can /\ o \notin Closed /\ temp_object_can' = temp_object_can
    BY <1>2 DEF TakesNew, Unused
  <2>2. Closed' = Closed
    BY <2>1, Zenon DEF Closed
  <2> QED
    BY <2>1, <2>2 DEF HomeInv
<1> QED
  BY <1>1, <1>2, Zenon DEF Creates

\* create_object takes an object out of temp_object_can or one that is nowhere.
LEMMA HomeCreate ==
    ASSUME TypeInv, HomeInv, NEW on, create_and_accept(on), UNCHANGED object_can,
           \A t \in Threads : at'[t] = "push" => at[t] = "push" /\ obj'[t] = obj[t]
    PROVE  HomeInv'
<1>0. ListOK /\ accept \in [Objects -> {"none", "io", "ok", "err"}]
  BY FrameTypes DEF ListenOK
<1>1. PICK o \in Objects : Creates(o, on)
  BY Created, Zenon
<1>2. Unique(o) /\ Inj(temp_object_can') /\ Closed' \subseteq Closed \ {o} /\ o \notin object_can
  BY <1>1, CreatedHome, Zenon
<1>3. \A p \in Objects : p # o => accept'[p] = accept[p]
  BY <1>0, <1>1 DEF Creates
<1>4. /\ object_can \subseteq Objects /\ Closed \subseteq Objects
      /\ \A t \in Threads : at[t] = "push" => obj[t] \in Objects
  <2>1. PoolOK /\ ListOK /\ \A t \in Threads : at[t] # "idle" => obj[t] \in Objects
    BY FrameTypes, Zenon
  <2>2. Closed \subseteq Objects
    BY <2>1 DEF ListOK, Closed, Range
  <2> QED
    BY <2>1, <2>2 DEF PoolOK
<1> QED
  BY <1>2, <1>3, <1>4 DEF HomeInv, Unique

\* push_back puts the object that its thread holds in temp_object_can.
LEMMA PushedClosed ==
    ASSUME TypeInv, HomeInv, NEW t \in Threads, push_closed(t)
    PROVE  Inj(temp_object_can') /\ Closed' = Closed \cup {obj[t]}
<1>0. ListOK /\ obj[t] \in Objects /\ at[t] = "push"
  BY FrameTypes DEF push_closed
<1>1. temp_object_can \in Seq(Objects) /\ Inj(temp_object_can) /\ obj[t] \notin Range(temp_object_can)
  BY <1>0, Zenon DEF ListOK, HomeInv, Closed
<1>2. /\ Inj(Append(temp_object_can, obj[t]))
      /\ Range(Append(temp_object_can, obj[t])) = Range(temp_object_can) \cup {obj[t]}
  BY <1>0, <1>1, PushedBack
<1>3. temp_object_can' = Append(temp_object_can, obj[t])
  BY Zenon DEF push_closed
<1> QED
  BY <1>2, <1>3, Zenon DEF Closed

\* free_object leaves some of the objects where they are.
LEMMA FreedClosed ==
    ASSUME TypeInv, HomeInv, free_object
    PROVE  Inj(temp_object_can') /\ Closed' \subseteq Closed
<1> DEFINE keep == {i \in DOMAIN temp_object_can : ~Reusable(temp_object_can[i])}
<1>1. temp_object_can' \in Kept(temp_object_can, keep) /\ keep \in SUBSET DOMAIN temp_object_can
  BY Zenon DEF free_object
<1>2. ListOK
  BY FrameTypes
<1> HIDE DEF keep
<1>3. Inj(temp_object_can') /\ Range(temp_object_can') \subseteq Range(temp_object_can)
  BY <1>1, <1>2, SomeKept, Zenon DEF ListOK, HomeInv
<1> QED
  BY <1>3, Zenon DEF Closed

\* clear_all_closed_object moves the idle objects.
LEMMA ClearedClosed ==
    ASSUME TypeInv, HomeInv, clear_all_closed_object
    PROVE  LET idle == {o \in object_can : Reusable(o)} IN
           /\ object_can' = object_can \ idle
           /\ Inj(temp_object_can') /\ Closed' \subseteq Closed \cup idle
<1> DEFINE idle == {o \in object_can : Reusable(o)}
<1>1. PICK list \in SetToSeqs(idle) : /\ object_can' = object_can \ idle
                                      /\ temp_object_can' = temp_object_can \o list
  BY Zenon DEF clear_all_closed_object
<1>2. object_can \subseteq Objects /\ ListOK
  BY FrameTypes DEF PoolOK
<1>3. idle \in SUBSET Objects /\ \A o \in idle : o \in object_can
  BY <1>2
<1>4. IsFiniteSet(idle)
  BY <1>3, ServerAssumption, FS_Subset
<1> HIDE DEF idle
<1>5. \A o \in idle : o \notin Range(temp_object_can)
  BY <1>3 DEF HomeInv, Closed
<1>6. Inj(temp_object_can) /\ temp_object_can \in Seq(Objects)
  BY <1>2 DEF HomeInv, ListOK
<1>7. Inj(temp_object_can \o list) /\ Range(temp_object_can \o list) \subseteq Range(temp_object_can) \cup idle
  BY <1>3, <1>4, <1>5, <1>6, SplicedIn, Zenon
<1>8. Inj(temp_object_can') /\ Closed' \subseteq Closed \cup idle
  BY <1>1, <1>7, Zenon DEF Closed
<1> QED
  BY <1>1, <1>8, Zenon DEF idle

\* del_object's push adds the object its thread holds.
LEMMA HomePush ==
    ASSUME TypeInv, HomeInv, NEW t \in Threads, push_closed(t)
    PROVE  HomeInv'
<1>1. ListOK /\ obj[t] \in Objects /\ at[t] = "push" /\ at \in [Threads -> Places]
  BY FrameTypes DEF push_closed, ThreadOK
<1>2. Inj(temp_object_can') /\ Closed' = Closed \cup {obj[t]}
  BY PushedClosed, Zenon
<1>3. object_can' = object_can /\ accept' = accept /\ obj' = obj
  BY Zenon DEF push_closed, listener
<1>4. \A u \in Threads : at'[u] = "push" => at[u] = "push" /\ u # t
  BY <1>1 DEF push_closed
<1> QED
  BY <1>1, <1>2, <1>3, <1>4 DEF HomeInv

\* Every step keeps an object in one place.
LEMMA HomeStep == TypeInv /\ HomeInv /\ [Next]_vars => HomeInv'
<1> SUFFICES ASSUME TypeInv, HomeInv, [Next]_vars PROVE HomeInv'
  OBVIOUS
<1>0. /\ at \in [Threads -> Places] /\ obj \in [Threads -> Objects \cup {NoObject}]
      /\ accept \in [Objects -> {"none", "io", "ok", "err"}]
      /\ object_can \subseteq Objects /\ ListOK /\ main \in Threads /\ IoThreads \subseteq Threads
  BY FrameTypes DEF ThreadOK, ListenOK, PoolOK, Threads
<1>1. /\ UNCHANGED listener => \A o \in Objects : accept[o] = "none" => accept'[o] = "none"
      /\ UNCHANGED thread => \A t \in Threads : at'[t] = "push" => at[t] = "push" /\ obj'[t] = obj[t]
  BY Zenon DEF listener, thread
<1>2. CASE pump_step /\ UNCHANGED server
  BY <1>1, <1>2, HomeFrame, Zenon DEF server
<1>3. CASE pump_call
  BY <1>1, <1>3, HomeFrame, Zenon DEF pump_call
<1>4. ASSUME NEW ok \in BOOLEAN, init(ok) PROVE HomeInv'
  <2>1. CASE create_and_accept("listening")
    BY <1>1, <1>4, <2>1, HomeCreate, Zenon DEF init
  <2>2. CASE UNCHANGED <<accept, temp_object_can, sock, asked, late, outrun>>
    BY <1>1, <1>4, <2>2, HomeFrame, Zenon DEF init, pool
  <2> QED
    BY <1>4, <2>1, <2>2, Zenon DEF init
<1>5. CASE uninit_stop
  <2>1. \A o \in Objects : accept[o] = "none" => accept'[o] = "none"
    BY <1>0, <1>5 DEF uninit_stop, stop_listen
  <2> QED
    BY <1>1, <1>5, <2>1, HomeFrame, Zenon DEF uninit_stop
<1>6. CASE close_all_client
  BY <1>1, <1>6, HomeFrame, Zenon DEF close_all_client
<1>7. ASSUME NEW t \in IoThreads,
             start(t) \/ start_returns_true(t) \/ del_client_closes(t) \/ end_recv_error(t)
      PROVE  HomeInv'
  <2>1. \A u \in Threads : at'[u] = "push" => at[u] = "push" /\ obj'[u] = obj[u]
    BY <1>0, <1>7 DEF start, start_returns_true, del_client_closes, end_recv_error
  <2> QED
    BY <1>1, <1>7, <2>1, HomeFrame, Zenon DEF start, start_returns_true, del_client_closes, end_recv_error
<1>8. ASSUME NEW t \in IoThreads, accept_again(t) PROVE HomeInv'
  <2>1. \A u \in Threads : at'[u] = "push" => at[u] = "push" /\ obj'[u] = obj[u]
    BY <1>0, <1>8 DEF accept_again
  <2> QED
    BY <1>8, <2>1, HomeCreate, Zenon DEF accept_again
<1>9. ASSUME NEW t \in Threads, push_closed(t) PROVE HomeInv'
  BY <1>9, HomePush, Zenon
<1>10. ASSUME NEW t \in IoThreads, NEW o \in Objects, accept_handler(t, o) PROVE HomeInv'
  <2>1. \A u \in Threads : at'[u] = "push" => at[u] = "push" /\ obj'[u] = obj[u]
    BY <1>0, <1>10 DEF accept_handler
  <2>2. object_can' = object_can \/ object_can' = object_can \cup {o}
    BY <1>10, Zenon DEF accept_handler
  <2>3. temp_object_can' = temp_object_can /\ Closed' = Closed
    BY <1>10, Zenon DEF accept_handler, Closed
  <2>4. accept[o] # "none" /\ accept' = [accept EXCEPT ![o] = "none"]
    BY <1>10 DEF accept_handler
  <2>5. o \notin Closed /\ \A u \in Threads : at[u] = "push" => obj[u] # o
    BY <2>4 DEF HomeInv
  <2>6. \A p \in Objects : accept[p] = "none" \/ p = o => accept'[p] = "none"
    BY <1>0, <2>4
  <2>7. /\ Closed \subseteq Objects
        /\ \A u \in Threads : at[u] = "push" => obj[u] \in Objects
    BY <1>0, FrameTypes DEF Closed, Range, ListOK
  <2> QED
    BY <1>0, <2>1, <2>2, <2>3, <2>5, <2>6, <2>7 DEF HomeInv
<1>11. ASSUME NEW t \in IoThreads, NEW o \in Objects, accept_error(t, o) PROVE HomeInv'
  <2>1. \A p \in Objects : accept[p] = "none" => accept'[p] = "none"
    BY <1>0, <1>11 DEF accept_error
  <2> QED
    BY <1>1, <1>11, <2>1, HomeFrame, Zenon DEF accept_error
<1>12. ASSUME NEW t \in IoThreads, NEW o \in Objects,
              \/ recv_handler(t, o) \/ msg_handler(t, o) \/ send_handler(t, o) \/ on_timer_0(t, o)
              \/ on_timer_3(t, o) \/ on_timer_10(t, o)
       PROVE  HomeInv'
  BY <1>1, <1>12, HomeFrame, Zenon DEF recv_handler, msg_handler, send_handler, on_timer_0, on_timer_3,
     on_timer_10
<1>13. ASSUME NEW t \in Threads, NEW o \in Objects, erase(t, o), at[t] = "idle",
              UNCHANGED <<listener, temp_object_can>>,
              \/ o \in object_can /\ at' = [at EXCEPT ![t] = "push"]
              \/ o \notin object_can /\ at' = [at EXCEPT ![t] = "reset"]
       PROVE  HomeInv'
  <2>1. accept' = accept /\ Closed' = Closed /\ temp_object_can' = temp_object_can
    BY <1>13, Zenon DEF listener, Closed
  <2>2. object_can' = object_can \ {o} /\ obj' = [obj EXCEPT ![t] = o]
    BY <1>13, Zenon DEF erase
  <2>3. \A u \in Threads : at'[u] = "push" =>
          (at[u] = "push" /\ obj'[u] = obj[u]) \/ (u = t /\ obj'[u] = o /\ o \in object_can)
    <3>1. obj'[t] = o /\ \A u \in Threads : u # t => obj'[u] = obj[u]
      BY <1>0, <2>2
    <3>2. \A u \in Threads : u # t => at'[u] = at[u]
      BY <1>0, <1>13
    <3>3. at'[t] = "push" => o \in object_can
      BY <1>0, <1>13
    <3> QED
      BY <3>1, <3>2, <3>3
  <2>4. o \in object_can =>
          /\ o \notin Closed /\ accept[o] = "none"
          /\ \A u \in Threads : at[u] = "push" => obj[u] # o
    BY DEF HomeInv
  <2> QED
    BY <2>1, <2>2, <2>3, <2>4 DEF HomeInv
<1>14. ASSUME NEW t \in IoThreads, NEW o \in Objects, on_recv_error(t, o) PROVE HomeInv'
  <2>1. CASE o \in object_can
    BY <1>0, <1>13, <1>14, <2>1, Zenon DEF on_recv_error, Free
  <2>2. CASE o \notin object_can
    BY <1>0, <1>13, <1>14, <2>2, Zenon DEF on_recv_error, Free
  <2> QED
    BY <2>1, <2>2, Zenon
<1>15. ASSUME NEW o \in Objects, close_client(o) PROVE HomeInv'
  BY <1>0, <1>13, <1>15, Zenon DEF close_client
<1>16. CASE client_closed \/ linger_ends
  <2>1. \A u \in Threads : at'[u] = "push" => at[u] = "push" /\ obj'[u] = obj[u]
    BY <1>0, <1>16 DEF client_closed, linger_ends
  <2> QED
    BY <1>1, <1>16, <2>1, HomeFrame, Zenon DEF client_closed, linger_ends
<1>17. CASE free_object
  <2>1. Inj(temp_object_can') /\ Closed' \subseteq Closed
    BY <1>17, FreedClosed, Zenon
  <2>2. accept' = accept /\ object_can' = object_can /\ at' = at /\ obj' = obj
    BY <1>17, Zenon DEF free_object, listener, thread
  <2> QED
    BY <2>1, <2>2 DEF HomeInv
<1>18. CASE clear_all_closed_object
  <2> DEFINE idle == {o \in object_can : Reusable(o)}
  <2>1. object_can' = object_can \ idle /\ Inj(temp_object_can') /\ Closed' \subseteq Closed \cup idle
    BY <1>18, ClearedClosed, Zenon
  <2>2. \A o \in idle : o \in object_can /\ Unique(o)
    BY DEF Reusable
  <2> HIDE DEF idle
  <2>3. accept' = accept /\ at' = at /\ obj' = obj
    BY <1>18, Zenon DEF clear_all_closed_object, listener, thread
  <2> QED
    BY <2>1, <2>2, <2>3 DEF HomeInv, Unique
<1>19. ASSUME NEW o \in Objects, connect(o) \/ accept_fails(o) PROVE HomeInv'
  <2>1. \A p \in Objects : accept[p] = "none" => accept'[p] = "none"
    BY <1>0, <1>19 DEF connect, accept_fails
  <2> QED
    BY <1>1, <1>19, <2>1, HomeFrame, Zenon DEF connect, accept_fails
<1>20. ASSUME NEW o \in Objects, read_completes(o) \/ write_completes(o) \/ timer_expires(o) PROVE HomeInv'
  BY <1>1, <1>20, HomeFrame, Zenon DEF read_completes, write_completes, timer_expires
<1>21. CASE UNCHANGED vars
  BY <1>1, <1>21, HomeFrame, Zenon DEF vars, server
<1>22. ASSUME NEW t \in IoThreads, Handler(t) PROVE HomeInv'
  BY <1>0, <1>22, <1>7, <1>8, <1>9, <1>10, <1>11, <1>12, <1>14, Zenon DEF Handler
<1>23. CASE Next
  BY <1>0, <1>23, <1>2, <1>3, <1>4, <1>5, <1>6, <1>9, <1>15, <1>16, <1>17, <1>18, <1>19, <1>20, <1>22, Zenon
     DEF Next
<1> QED
  BY <1>21, <1>23

\* HomeInv holds in every reachable state.
LEMMA AtHome == Spec => []HomeInv
<1>1. Init => HomeInv
  BY DEF Init, HomeInv, Inj, Closed, Range
<1> QED
  BY <1>1, HomeStep, Typed, PTL DEF Spec

\* An object is never twice in the pool, nor in the pool and under an accept:
\* for any number of sockets and of io threads, with reuse, free_object and
\* clear_all_closed_object at any time, and with or without ENHANCED_STABILITY.
THEOREM OneHomeHolds == Spec => []OneHome
  BY HomeCount, AtHome, Typed, PTL

-----------------------------------------------------------------------------
(* The server goes on accepting. *)

InService == serving /\ caller # "uninit" /\ used.fails = 0 /\ ~overlapped

\* Beyond AcceptingGoesOn: no accept has failed, whether a thread runs the pump
\* or not.
AcceptInv ==
    InService => acceptor = "listening" /\ Accepting /\ \A o \in Objects : accept[o] # "err"

\* A step that leaves the acceptor and the accepts alone.
LEMMA AcceptFrame ==
    ASSUME AcceptInv, InService' => InService, UNCHANGED listener,
           \A t \in IoThreads : at[t] \in {"start", "started", "next"} => at'[t] \in {"start", "started", "next"}
    PROVE  AcceptInv'
<1>1. acceptor' = acceptor /\ accept' = accept
  BY Zenon DEF listener
<1>2. Accepting => Accepting'
  BY <1>1, Zenon DEF Accepting
<1> QED
  BY <1>1, <1>2, Zenon DEF AcceptInv

\* Only failures count as failures.
LEMMA NoFailure ==
    ASSUME TypeInv, NEW kind \in {"msgs", "refused", "clients", "calls"}, Spend(kind)
    PROVE  used'.fails = used.fails
<1>1. used \in [Bounds -> Nat]
  BY FrameTypes DEF UsedOK
<1> QED
  BY <1>1 DEF Spend, Bounds

\* A step that counts a failure owes nothing: AcceptInv asks for none.
LEMMA Failure ==
    ASSUME TypeInv, Spend("fails")
    PROVE  used'.fails # 0
<1>1. used \in [Bounds -> Nat] /\ "fails" \in Bounds
  BY FrameTypes DEF UsedOK, Bounds
<1>2. used' = [used EXCEPT !["fails"] = @ + 1]
  BY Zenon DEF Spend
<1>3. used'["fails"] = used["fails"] + 1 /\ used["fails"] \in Nat
  BY <1>1, <1>2
<1> QED
  BY <1>3

\* An accept follows an accept, init() starts the first, and only uninit() and
\* a failure end it.
LEMMA AcceptStep == TypeInv /\ AcceptInv /\ [Next]_vars => AcceptInv'
<1> SUFFICES ASSUME TypeInv, AcceptInv, [Next]_vars PROVE AcceptInv'
  OBVIOUS
<1>0. /\ at \in [Threads -> Places] /\ accept \in [Objects -> {"none", "io", "ok", "err"}]
      /\ main \in Threads /\ IoThreads \subseteq Threads
  BY FrameTypes DEF ThreadOK, ListenOK, Threads
<1>1. /\ UNCHANGED thread => \A t \in IoThreads : at[t] \in {"start", "started", "next"} => at'[t] \in {"start", "started", "next"}
      /\ UNCHANGED <<pump, ghost>> /\ used'.fails = used.fails => (InService' => InService)
      /\ UNCHANGED <<pump, overlapped>> /\ used'.fails = used.fails => (InService' => InService)
      /\ UNCHANGED <<pump, ghost, used>> => (InService' => InService)
  <2>1. UNCHANGED pump => serving' = serving /\ caller' = caller
    BY Zenon DEF pump
  <2>2. UNCHANGED ghost => overlapped' = overlapped
    BY Zenon DEF ghost
  <2>3. /\ serving' = serving /\ caller' = caller
        /\ overlapped' = overlapped /\ used'.fails = used.fails
        => (InService' => InService)
    BY DEF InService
  <2>4. used' = used => used'.fails = used.fails
    OBVIOUS
  <2>5. UNCHANGED thread => \A t \in IoThreads : at[t] \in {"start", "started", "next"} => at'[t] \in {"start", "started", "next"}
    BY Zenon DEF thread
  <2> QED
    BY <2>1, <2>2, <2>3, <2>4, <2>5, Zenon
<1>2. CASE pump_step /\ UNCHANGED server
  <2>1. serving' = serving /\ (serving => caller = caller' \/ caller # "uninit")
    BY <1>2, Zenon DEF pump_step, RunnerStep, run_service, check_service, do_service, run_returns, start_returns,
       skip_uninit, stop_returns, force_stop
  <2>2. used' = used /\ overlapped' = overlapped /\ UNCHANGED listener /\ UNCHANGED thread
    BY <1>2, Zenon DEF server, ghost
  <2>3. InService' => InService
    BY <2>1, <2>2, Zenon DEF InService
  <2> QED
    BY <1>1, <2>2, <2>3, AcceptFrame, Zenon
<1>3. CASE pump_call
  <2>1. serving' = serving /\ caller # "uninit"
    BY <1>3 DEF pump_call, start_service, stop_service, stop_one, start_gives_up
  <2>2. used'.fails = used.fails
    BY <1>3, NoFailure DEF pump_call
  <2>3. overlapped' = overlapped
    BY <1>3, Zenon DEF pump_call, ghost
  <2>4. InService' => InService
    BY <2>1, <2>2, <2>3, Zenon DEF InService
  <2> QED
    BY <1>1, <1>3, <2>4, AcceptFrame, Zenon DEF pump_call
<1>4. ASSUME NEW ok \in BOOLEAN, init(ok) PROVE AcceptInv'
  <2>1. CASE create_and_accept("listening") /\ acceptor' = "listening"
    <3>1. PICK o \in Objects : Creates(o, "listening")
      BY <2>1, Created, Zenon
    <3>2. accept' = [accept EXCEPT ![o] = "io"]
      BY <3>1 DEF Creates
    <3>3. accept'[o] = "io" /\ \A p \in Objects : p # o => accept'[p] = accept[p]
      BY <1>0, <3>2
    <3>4. Accepting'
      BY <3>3 DEF Accepting
    <3>5. overlapped' \/ \A p \in Objects : accept[p] = "none"
      BY <1>4, Zenon DEF init
    <3>6. overlapped' \/ \A p \in Objects : accept'[p] # "err"
      BY <3>3, <3>5
    <3> QED
      BY <2>1, <3>4, <3>6, Zenon DEF AcceptInv, InService
  <2>2. CASE Spend("fails")
    BY <2>2, Failure DEF AcceptInv, InService
  <2> QED
    BY <1>4, <2>1, <2>2, Zenon DEF init
<1>5. CASE uninit_stop
  BY <1>5, Zenon DEF uninit_stop, uninit_begins, AcceptInv, InService
<1>6. CASE close_all_client
  BY <1>6, Zenon DEF close_all_client, uninit_ends, AcceptInv, InService
<1>7. ASSUME NEW t \in Threads, \/ start(t) \/ start_returns_true(t) \/ push_closed(t)
                                \/ del_client_closes(t) \/ end_recv_error(t)
                                \/ \E o \in Objects : on_recv_error(t, o)
      PROVE  AcceptInv'
  <2>1. \A u \in IoThreads : at[u] \in {"start", "started", "next"} => at'[u] \in {"start", "started", "next"}
    BY <1>0, <1>7 DEF start, start_returns_true, push_closed, del_client_closes, end_recv_error, on_recv_error, Free
  <2>2. UNCHANGED listener /\ UNCHANGED <<pump, overlapped>> /\ used' = used
    BY <1>7, Zenon DEF start, start_returns_true, push_closed, del_client_closes, end_recv_error, on_recv_error,
       ghost
  <2> QED
    BY <1>1, <2>1, <2>2, AcceptFrame, Zenon
<1>8. ASSUME NEW t \in IoThreads, accept_again(t) PROVE AcceptInv'
  <2>1. acceptor' = acceptor /\ (InService' => InService)
    BY <1>1, <1>8, Zenon DEF accept_again
  <2>2. PICK o \in Objects : Creates(o, acceptor)
    BY <1>8, Created, Zenon DEF accept_again
  <2>3. ASSUME InService' PROVE acceptor = "listening" /\ \A p \in Objects : accept[p] # "err"
    BY <2>1, <2>3, Zenon DEF AcceptInv
  <2>4. ASSUME InService' PROVE accept' = [accept EXCEPT ![o] = "io"]
    BY <2>2, <2>3, <2>4 DEF Creates
  <2>5. ASSUME InService' PROVE accept'[o] = "io" /\ \A p \in Objects : accept'[p] # "err"
    BY <1>0, <2>3, <2>4, <2>5
  <2> QED
    BY <2>1, <2>3, <2>5 DEF AcceptInv, Accepting
<1>9. ASSUME NEW t \in IoThreads, NEW o \in Objects, accept_handler(t, o) PROVE AcceptInv'
  <2>1. acceptor' = acceptor /\ (InService' => InService)
    BY <1>1, <1>9, Zenon DEF accept_handler
  <2>2. at'[t] \in {"start", "started", "next"} /\ \A p \in Objects : accept'[p] \in {accept[p], "none"}
    BY <1>0, <1>9 DEF accept_handler
  <2> QED
    BY <2>1, <2>2 DEF AcceptInv, Accepting
<1>10. ASSUME NEW t \in IoThreads, NEW o \in Objects, accept_error(t, o) PROVE AcceptInv'
  <2>1. InService' => InService
    BY <1>1, <1>10, Zenon DEF accept_error
  <2>2. accept[o] = "err"
    BY <1>10, Zenon DEF accept_error
  <2> QED
    BY <2>1, <2>2 DEF AcceptInv
<1>11. ASSUME NEW t \in IoThreads, NEW o \in Objects,
              \/ recv_handler(t, o) \/ msg_handler(t, o) \/ send_handler(t, o) \/ on_timer_0(t, o)
              \/ on_timer_3(t, o) \/ on_timer_10(t, o)
       PROVE  AcceptInv'
  <2>1. used'.fails = used.fails
    BY <1>11, NoFailure DEF recv_handler, msg_handler, send_handler, on_timer_0, on_timer_3, on_timer_10
  <2> QED
    BY <1>1, <1>11, <2>1, AcceptFrame, Zenon DEF recv_handler, msg_handler, send_handler, on_timer_0, on_timer_3,
       on_timer_10
<1>12. CASE client_closed \/ linger_ends
  <2>1. \A u \in IoThreads : at[u] \in {"start", "started", "next"} => at'[u] \in {"start", "started", "next"}
    BY <1>0, <1>12, ServerAssumption DEF client_closed, linger_ends
  <2> QED
    BY <1>1, <1>12, <2>1, AcceptFrame, Zenon DEF client_closed, linger_ends
<1>13. CASE free_object \/ clear_all_closed_object
  <2>1. used'.fails = used.fails
    BY <1>13, NoFailure DEF free_object, clear_all_closed_object
  <2> QED
    BY <1>1, <1>13, <2>1, AcceptFrame, Zenon DEF free_object, clear_all_closed_object
<1>14. ASSUME NEW o \in Objects, close_client(o) PROVE AcceptInv'
  <2>1. used'.fails = used.fails
    BY <1>14, NoFailure DEF close_client
  <2>2. \A u \in IoThreads : at[u] \in {"start", "started", "next"} => at'[u] \in {"start", "started", "next"}
    BY <1>0, <1>14, ServerAssumption DEF close_client
  <2> QED
    BY <1>1, <1>14, <2>1, <2>2, AcceptFrame, Zenon DEF close_client
<1>15. ASSUME NEW o \in Objects, connect(o) PROVE AcceptInv'
  <2>1. used'.fails = used.fails
    BY <1>15, NoFailure DEF connect
  <2>2. acceptor' = acceptor /\ (InService' => InService) /\ at' = at
    BY <1>1, <1>15, <2>1, Zenon DEF connect, thread
  <2>3. accept'[o] = "ok" /\ \A p \in Objects : accept'[p] \in {accept[p], "ok"}
    BY <1>0, <1>15 DEF connect
  <2> QED
    BY <2>2, <2>3 DEF AcceptInv, Accepting
<1>16. ASSUME NEW o \in Objects, accept_fails(o) PROVE AcceptInv'
  BY <1>16, Failure DEF accept_fails, AcceptInv, InService
<1>17. ASSUME NEW o \in Objects, read_completes(o) \/ write_completes(o) \/ timer_expires(o) PROVE AcceptInv'
  <2>1. used'.fails = used.fails
    BY <1>17, NoFailure DEF read_completes, write_completes, timer_expires
  <2> QED
    BY <1>1, <1>17, <2>1, AcceptFrame, Zenon DEF read_completes, write_completes, timer_expires
<1>18. CASE UNCHANGED vars
  BY <1>1, <1>18, AcceptFrame, Zenon DEF vars, server
<1>19. ASSUME NEW t \in IoThreads, Handler(t) PROVE AcceptInv'
  BY <1>0, <1>19, <1>7, <1>8, <1>9, <1>10, <1>11, Zenon DEF Handler
<1>20. CASE Next
  BY <1>0, <1>20, <1>2, <1>3, <1>4, <1>5, <1>6, <1>7, <1>12, <1>13, <1>14, <1>15, <1>16, <1>17, <1>19, Zenon
     DEF Next
<1> QED
  BY <1>18, <1>20

\* A server in service goes on accepting, whatever clients and the application
\* do, unless an accept failed or init() overlapped with an earlier accept: for
\* any number of sockets, clients, io threads and restarts.
THEOREM AcceptingGoesOnHolds == Spec => []AcceptingGoesOn
<1>1. Init => AcceptInv
  BY DEF Init, PumpInit, AcceptInv, InService
<1>2. AcceptInv => AcceptingGoesOn
  BY Zenon DEF AcceptInv, InService, AcceptingGoesOn
<1> QED
  BY <1>1, <1>2, AcceptStep, Typed, PTL DEF Spec

-----------------------------------------------------------------------------
(* What the calls do to the fields of a socket that matter for its reuse. *)

\* The fields that say whether the socket is in use stay as they are.
SameLink(s, r) == /\ r.started = s.started /\ r.close = s.close /\ r.open = s.open
                  /\ r.read = s.read /\ r.timer = s.timer

\* clean_up, as far as those fields go.
Cleaned(s, r) == /\ r.close = 1 /\ ~r.started /\ ~r.open
                 /\ r.read = s.read \/ (s.read = "io" /\ r.read = "err")
                 /\ r.timer = s.timer \/ r.timer = "none"

\* clean_up, on those fields.
LEMMA CleanUpDoes ==
    ASSUME NEW s \in Sockets
    PROVE  Cleaned(s, clean_up(s))
  BY DEF clean_up, Cleaned, Sockets

\* force_close does nothing to a closed socket, or cleans up.
LEMMA ForceCloseDoes ==
    ASSUME NEW s \in Sockets
    PROVE  (force_close(s) = s /\ s.close = 1) \/ Cleaned(s, force_close(s))
  BY CleanUpDoes DEF force_close

\* graceful_close: nothing, or clean_up, or the shutdown of one direction.
LEMMA GracefulCloseDoes ==
    ASSUME NEW s \in Sockets, NEW sync \in BOOLEAN
    PROVE  LET r == graceful_close(s, sync) IN
           \/ r = s
           \/ Cleaned(s, r)
           \/ /\ s.close = 0 /\ r.close = 2 /\ r.started = s.started /\ r.open = s.open
              /\ r.read = s.read /\ r.timer = s.timer
<1>1. CASE s.close # 0
  BY <1>1 DEF graceful_close
<1>2. CASE s.close = 0 /\ ~s.open
  BY <1>2, CleanUpDoes DEF graceful_close
<1>3. CASE s.close = 0 /\ s.open
  <2>1. graceful_close(s, sync) = [s EXCEPT !.close = 2, !.linger = ~sync]
    BY <1>3, Zenon DEF graceful_close
  <2> QED
    BY <1>3, <2>1 DEF Sockets
<1> QED
  BY <1>1, <1>2, <1>3, Zenon

\* do_recv_msg only begins a read.
LEMMA RecvDoes ==
    ASSUME NEW s \in Sockets
    PROVE  LET r == do_recv_msg(s) IN
           /\ r.read \in {"io", "err"} /\ r.started = s.started /\ r.close = s.close /\ r.open = s.open
           /\ r.timer = s.timer /\ r.write = s.write
  BY DEF do_recv_msg, Sockets

\* do_send_msg leaves the link as it is.
LEMMA SendDoes ==
    ASSUME NEW s \in Sockets
    PROVE  SameLink(s, do_send_msg(s))
  BY DEF do_send_msg, SameLink, Sockets

\* do_dispatch_msg leaves the link as it is.
LEMMA DispatchDoes ==
    ASSUME NEW s \in Sockets
    PROVE  SameLink(s, do_dispatch_msg(s)) /\ (s.recv = 0 => do_dispatch_msg(s) = s)
<1> DEFINE new == [s EXCEPT !.dispatching = TRUE, !.posted = @ + 1, !.recv = @ - 1]
           none == [s EXCEPT !.recv = 0]
<1>1. SameLink(s, new)
  BY DEF SameLink, Sockets
<1>2. SameLink(s, do_send_msg(none))
  <2>1. none \in Sockets /\ SameLink(s, none)
    BY DEF SameLink, Sockets
  <2> HIDE DEF none
  <2> QED
    BY <2>1, SendDoes, Zenon DEF SameLink
<1>3. do_dispatch_msg(s) \in {s, do_send_msg(none), new} /\ (s.recv = 0 => do_dispatch_msg(s) = s)
  BY DEF do_dispatch_msg, Sockets
<1>4. SameLink(s, s)
  BY Zenon DEF SameLink
<1> HIDE DEF new, none
<1> QED
  BY <1>1, <1>2, <1>3, <1>4

\* dispatch_msg begins a read or sets timer 0, never both.
LEMMA DispatchMsgDoes ==
    ASSUME NEW s \in Sockets, NEW r \in dispatch_msg(s)
    PROVE  /\ r.started = s.started /\ r.close = s.close /\ r.open = s.open
           /\ \/ r.read \in {"io", "err"} /\ r.timer = s.timer
              \/ r.read = s.read /\ r.timer = "armed"
<1>1. CASE r = do_recv_msg(do_send_msg(s))
  <2>1. do_send_msg(s) \in Sockets
    BY SocketCalls, Zenon
  <2> QED
    BY <1>1, <2>1, SendDoes, RecvDoes, Zenon DEF SameLink
<1>2. CASE r = do_recv_msg(do_dispatch_msg([s EXCEPT !.recv = @ + 1]))
  <2> DEFINE s1 == [s EXCEPT !.recv = @ + 1]
  <2>1. s1 \in Sockets /\ SameLink(s, s1)
    BY DEF Sockets, SameLink
  <2> HIDE DEF s1
  <2>2. do_dispatch_msg(s1) \in Sockets
    BY <2>1, SocketCalls, Zenon
  <2>3. r = do_recv_msg(do_dispatch_msg(s1))
    BY <1>2 DEF s1
  <2> QED
    BY <2>1, <2>2, <2>3, DispatchDoes, RecvDoes, Zenon DEF SameLink
<1>3. CASE r = [s EXCEPT !.timer = "armed"]
  BY <1>3 DEF Sockets
<1> QED
  BY <1>1, <1>2, <1>3, Zenon DEF dispatch_msg

-----------------------------------------------------------------------------
(* A socket under an accept is idle, with ENHANCED_STABILITY. *)

\* A thread has issued the first read of o and has yet to set started_.
Starting(o) == \E t \in Threads : at[t] = "started" /\ obj[t] = o

\* A link is read or waits for timer 0, not both, and only after do_start: it
\* is started, or about to be, or closed since.
ChainOK(s, o) ==
    /\ s.read # "none" => s.timer = "none"
    /\ s.read # "none" \/ s.timer # "none" => s.started \/ s.close = 1 \/ Starting(o)

\* Nobody reads the link.
Idle(s) == s.close = 0 /\ ~s.started /\ s.read = "none"
\* Nor does anybody send, or have a message to send back.
Settled(s) == s.write = "none" /\ s.posted = 0 /\ s.recv = 0

\* A thread in on_recv_error, or the application in a close.
Ending(t) == at[t] \in {"push", "close", "reset"}

\* Nobody holds a socket under an accept; accept_handler calls start on a
\* socket that has no chain yet, and on_recv_error is the one end of its chain.
Offered(s, o) == Idle(s) /\ (o \notin late => Settled(s))
AcceptIdle == \A o \in Objects : accept[o] # "none" => Offered(sock[o], o) /\ (sock[o].open => accept[o] = "ok")
HeldNoAccept == \A t \in Threads : at[t] # "idle" => accept[obj[t]] = "none"
Chains == \A o \in Objects : ChainOK(sock[o], o)
StartsFresh == \A t \in Threads : at[t] = "start" => sock[obj[t]].read = "none" /\ sock[obj[t]].timer = "none"
OneStart == \A t, u \in Threads : at[t] = "start" /\ at[u] = "start" /\ obj[t] = obj[u] => t = u
EndsChain == \A t \in IoThreads : Ending(t) => sock[obj[t]].read = "ending"
OneEnd == \A t, u \in IoThreads : Ending(t) /\ Ending(u) /\ obj[t] = obj[u] => t = u
LinkInv == AcceptIdle /\ HeldNoAccept /\ Chains /\ StartsFresh /\ OneStart /\ EndsChain /\ OneEnd

\* A thread goes on to p, with o or with what it holds, or to an end.
Goes(t, p, o) ==
    /\ at'[t] = p /\ obj'[t] = o
    /\ \A u \in Threads : u # t => at'[u] = at[u] /\ obj'[u] = obj[u]

\* A step of thread t that changes the socket o to s; "now" tells of the accepts.
\* What the step owes is what the invariant says of the thread and the socket.
LEMMA LinkMoves ==
    ASSUME TypeInv, LinkInv, NEW o \in Objects, NEW s, NEW t \in Threads, NEW p, NEW q,
           sock'[o] = s, \A x \in Objects : x # o => sock'[x] = sock[x],
           Goes(t, p, q), p # "idle" => q \in Objects,
           accept'[o] # "none" => Idle(s) /\ (o \notin late' => Settled(s)) /\ (s.open => accept'[o] = "ok"),
           \A x \in Objects : x # o => accept'[x] = accept[x] /\ (x \in late' <=> x \in late),
           \/ ChainOK(s, o)
           \/ p = "started" /\ q = o /\ (s.read # "none" => s.timer = "none"),
           at[t] = "started" => obj[t] = o /\ s.started,
           p # "idle" => accept'[q] = "none",
           \A u \in Threads \ {t} : at[u] # "idle" /\ obj[u] = o => accept'[o] = "none",
           \A u \in Threads \ {t} : at[u] = "start" /\ obj[u] = o => s.read = "none" /\ s.timer = "none",
           p = "start" => /\ q = o /\ s.read = "none" /\ s.timer = "none"
                          /\ \A u \in Threads \ {t} : at[u] # "start" \/ obj[u] # o,
           \A u \in IoThreads \ {t} : Ending(u) /\ obj[u] = o => s.read = "ending",
           t \in IoThreads /\ p \in {"push", "close", "reset"} =>
               /\ q = o /\ s.read = "ending"
               /\ \A u \in IoThreads \ {t} : ~Ending(u) \/ obj[u] # o
    PROVE  LinkInv'
<1>1. \A u \in Threads : at[u] # "idle" => obj[u] \in Objects
  BY FrameTypes, Zenon
<1>2. \A u \in IoThreads : u \in Threads
  BY DEF Threads
<1>3. AcceptIdle'
  <2> SUFFICES ASSUME NEW x \in Objects, accept'[x] # "none"
               PROVE  Offered(sock[x], x)' /\ (sock'[x].open => accept'[x] = "ok")
    BY DEF AcceptIdle
  <2>1. CASE x = o
    BY <2>1 DEF Offered, Idle, Settled
  <2>2. CASE x # o
    BY <2>2 DEF LinkInv, AcceptIdle, Offered, Idle, Settled
  <2> QED
    BY <2>1, <2>2
<1>4. HeldNoAccept'
  <2> SUFFICES ASSUME NEW u \in Threads, at'[u] # "idle" PROVE accept'[obj'[u]] = "none"
    BY DEF HeldNoAccept
  <2>1. CASE u = t
    BY <2>1 DEF Goes
  <2>2. CASE u # t
    BY <2>2, <1>1 DEF Goes, LinkInv, HeldNoAccept
  <2> QED
    BY <2>1, <2>2
<1>5. Chains'
  <2> SUFFICES ASSUME NEW x \in Objects PROVE ChainOK(sock[x], x)'
    BY DEF Chains
  <2>1. CASE x = o
    <3>1. Starting(o) /\ ~s.started => Starting(o)'
      BY DEF Starting, Goes
    <3>2. p = "started" /\ q = o => Starting(o)'
      BY DEF Starting, Goes
    <3> QED
      BY <2>1, <3>1, <3>2 DEF ChainOK
  <2>2. CASE x # o
    <3>1. Starting(x) => Starting(x)'
      BY <2>2 DEF Starting, Goes
    <3>2. sock'[x] = sock[x] /\ ChainOK(sock[x], x)
      BY <2>2 DEF LinkInv, Chains
    <3> QED
      BY <3>1, <3>2 DEF ChainOK
  <2> QED
    BY <2>1, <2>2
<1>6. StartsFresh'
  <2> SUFFICES ASSUME NEW u \in Threads, at'[u] = "start"
               PROVE  sock'[obj'[u]].read = "none" /\ sock'[obj'[u]].timer = "none"
    BY DEF StartsFresh
  <2>1. CASE u = t
    BY <2>1 DEF Goes
  <2>2. CASE u # t
    BY <2>2, <1>1 DEF Goes, LinkInv, StartsFresh
  <2> QED
    BY <2>1, <2>2
<1>7. OneStart'
  BY DEF LinkInv, OneStart, Goes
<1>8. EndsChain'
  <2> SUFFICES ASSUME NEW u \in IoThreads, at'[u] \in {"push", "close", "reset"}
               PROVE  sock'[obj'[u]].read = "ending"
    BY DEF EndsChain, Ending
  <2>1. CASE u = t
    BY <2>1 DEF Goes
  <2>2. CASE u # t
    BY <2>2, <1>1, <1>2 DEF Goes, LinkInv, EndsChain, Ending
  <2> QED
    BY <2>1, <2>2
<1>9. OneEnd'
  BY <1>2 DEF LinkInv, OneEnd, Goes, Ending
<1> QED
  BY <1>3, <1>4, <1>5, <1>6, <1>7, <1>8, <1>9 DEF LinkInv

\* The same for a step that leaves the threads where they are.
LEMMA LinkFrame ==
    ASSUME TypeInv, LinkInv, NEW o \in Objects, NEW s,
           sock'[o] = s, \A x \in Objects : x # o => sock'[x] = sock[x],
           UNCHANGED thread,
           accept'[o] # "none" => Idle(s) /\ (o \notin late' => Settled(s)) /\ (s.open => accept'[o] = "ok"),
           \A x \in Objects : x # o => accept'[x] = accept[x] /\ (x \in late' <=> x \in late),
           ChainOK(s, o),
           \A u \in Threads : at[u] # "idle" /\ obj[u] = o => accept'[o] = "none",
           \A u \in Threads : at[u] = "start" /\ obj[u] = o => s.read = "none" /\ s.timer = "none",
           \A u \in IoThreads : Ending(u) /\ obj[u] = o => s.read = "ending"
    PROVE  LinkInv'
<1>0. at' = at /\ obj' = obj
  BY Zenon DEF thread
<1>1. \A u \in Threads : at[u] # "idle" => obj[u] \in Objects
  BY FrameTypes, Zenon
<1>2. \A u \in IoThreads : u \in Threads /\ (Ending(u) => at[u] # "idle") /\ (Ending(u)' <=> Ending(u))
  BY <1>0 DEF Threads, Ending
<1>3. AcceptIdle'
  <2> SUFFICES ASSUME NEW x \in Objects, accept'[x] # "none"
               PROVE  Offered(sock[x], x)' /\ (sock'[x].open => accept'[x] = "ok")
    BY DEF AcceptIdle
  <2>1. CASE x = o
    BY <2>1 DEF Offered, Idle, Settled
  <2>2. CASE x # o
    BY <2>2 DEF LinkInv, AcceptIdle, Offered, Idle, Settled
  <2> QED
    BY <2>1, <2>2
<1>4. HeldNoAccept'
  BY <1>0, <1>1 DEF LinkInv, HeldNoAccept
<1>5. Chains'
  <2> SUFFICES ASSUME NEW x \in Objects PROVE ChainOK(sock[x], x)'
    BY DEF Chains
  <2>1. Starting(x)' <=> Starting(x)
    BY <1>0 DEF Starting
  <2>2. CASE x = o
    BY <2>1, <2>2 DEF ChainOK
  <2>3. CASE x # o
    BY <2>1, <2>3 DEF LinkInv, Chains, ChainOK
  <2> QED
    BY <2>2, <2>3
<1>6. StartsFresh'
  BY <1>0, <1>1 DEF LinkInv, StartsFresh
<1>7. OneStart'
  BY <1>0 DEF LinkInv, OneStart
<1>8. EndsChain'
  BY <1>0, <1>1, <1>2 DEF LinkInv, EndsChain
<1>9. OneEnd'
  BY <1>0, <1>2 DEF LinkInv, OneEnd
<1> QED
  BY <1>3, <1>4, <1>5, <1>6, <1>7, <1>8, <1>9 DEF LinkInv

\* A step that leaves sockets and threads alone and starts no accept.
LEMMA LinkListen ==
    ASSUME TypeInv, LinkInv, UNCHANGED sock, UNCHANGED thread, UNCHANGED late,
           \A x \in Objects : accept'[x] # "none" => accept[x] # "none" /\ (accept[x] = "ok" => accept'[x] = "ok")
    PROVE  LinkInv'
<1>0. at' = at /\ obj' = obj /\ sock' = sock
  BY Zenon DEF thread
<1>1. \A u \in Threads : at[u] # "idle" => obj[u] \in Objects
  BY FrameTypes, Zenon
<1>2. AcceptIdle'
  BY <1>0 DEF LinkInv, AcceptIdle, Offered, Idle, Settled
<1>3. HeldNoAccept'
  BY <1>0, <1>1 DEF LinkInv, HeldNoAccept
<1>4. Chains' /\ StartsFresh' /\ OneStart'
  BY <1>0 DEF LinkInv, Chains, ChainOK, Starting, StartsFresh, OneStart
<1>5. EndsChain' /\ OneEnd'
  BY <1>0 DEF LinkInv, EndsChain, OneEnd, Ending
<1> QED
  BY <1>2, <1>3, <1>4, <1>5 DEF LinkInv

\* force_close, graceful_close and clean_up start no chain and end none.
Closing(s, r) ==
    \/ r = s
    \/ Cleaned(s, r)
    \/ s.close = 0 /\ r.close = 2 /\ r.started = s.started /\ r.read = s.read /\ r.timer = s.timer

\* Closing keeps the chain of a link as it is, up to the abort of a read.
LEMMA ClosingKeeps ==
    ASSUME NEW s, NEW r, NEW o, Closing(s, r), ChainOK(s, o)
    PROVE  /\ ChainOK(r, o)
           /\ s.read = "none" => r.read = "none"
           /\ s.timer = "none" => r.timer = "none"
           /\ s.read = "ending" => r.read = "ending"
<1>1. CASE r = s
  BY <1>1
<1>2. CASE Cleaned(s, r)
  BY <1>2 DEF Cleaned, ChainOK
<1>3. CASE s.close = 0 /\ r.close = 2 /\ r.started = s.started /\ r.read = s.read /\ r.timer = s.timer
  BY <1>3 DEF ChainOK
<1> QED
  BY <1>1, <1>2, <1>3, Zenon DEF Closing

\* The sockets that reuse_object and new hand to async_accept are idle.
LEMMA CreatedIdle ==
    ASSUME ENHANCED_STABILITY, TypeInv, LinkInv, NEW o \in Objects, NEW on, Creates(o, on)
    PROVE  /\ Unique(o) /\ (\A x \in Objects : x # o => sock'[x] = sock[x] /\ accept'[x] = accept[x])
           /\ \A x \in Objects : x # o => (x \in late' <=> x \in late)
           /\ Idle(sock'[o]) /\ (o \notin late' => Settled(sock'[o])) /\ ~sock'[o].open /\ sock'[o].timer = "none" /\ ChainOK(sock'[o], o)
<1>0. sock \in [Objects -> Sockets] /\ accept \in [Objects -> {"none", "io", "ok", "err"}]
  BY FrameTypes DEF SockOK, ListenOK
<1>1. \A x \in Objects : x # o => sock'[x] = sock[x] /\ accept'[x] = accept[x] /\ (x \in late' <=> x \in late)
  BY <1>0 DEF Creates, TakesClosed, TakesNew
<1>2. CASE TakesClosed(o)
  <2>1. Unique(o) /\ Idle(sock[o]) /\ sock[o].write = "none"
    BY <1>2 DEF TakesClosed, Reusable, obsoleted, Idle
  <2>2. sock[o].timer = "none"
    BY <2>1 DEF Idle, LinkInv, Chains, ChainOK, Starting, Unique
  <2>3. sock'[o] = reset(sock[o])
    BY <1>0, <1>2 DEF TakesClosed
  <2>4. /\ reset(sock[o]).close = 0 /\ ~reset(sock[o]).started /\ ~reset(sock[o]).open
        /\ reset(sock[o]).read = sock[o].read /\ reset(sock[o]).write = sock[o].write
        /\ reset(sock[o]).timer = sock[o].timer
        /\ reset(sock[o]).posted = sock[o].posted /\ reset(sock[o]).recv = 0
    BY DEF reset, NewSocket
  <2>5. o \notin late' => sock[o].posted = 0
    <3>1. sock[o].posted \in Nat
      BY <1>0 DEF Sockets
    <3> QED
      BY <1>2, <3>1 DEF TakesClosed
  <2> QED
    BY <1>1, <2>1, <2>2, <2>3, <2>4, <2>5 DEF Settled, Idle, ChainOK
<1>3. CASE TakesNew(o)
  <2>1. Unique(o) /\ sock'[o] = NewSocket
    BY <1>0, <1>3 DEF TakesNew, Unused
  <2>2. Idle(NewSocket) /\ Settled(NewSocket) /\ ~NewSocket.open /\ NewSocket.timer = "none" /\ ChainOK(NewSocket, o)
    BY DEF NewSocket, Idle, Settled, ChainOK
  <2> QED
    BY <1>1, <2>1, <2>2
<1> QED
  BY <1>2, <1>3, Zenon DEF Creates

\* What is known of a thread and of the object it holds.
Known ==
    /\ \A o \in Objects : /\ sock[o] \in Sockets /\ ChainOK(sock[o], o)
                          /\ accept[o] # "none" => Idle(sock[o]) /\ sock[o].timer = "none"
                          /\ accept[o] # "none" /\ o \notin late => Settled(sock[o])
                          /\ accept[o] # "none" /\ sock[o].open => accept[o] = "ok"
    /\ \A t \in Threads : at[t] # "idle" => obj[t] \in Objects /\ accept[obj[t]] = "none"
    /\ \A t \in Threads : at[t] = "start" => sock[obj[t]].read = "none" /\ sock[obj[t]].timer = "none"
    /\ \A t \in IoThreads : t \in Threads /\ (Ending(t) => at[t] # "idle" /\ sock[obj[t]].read = "ending")
    /\ main \in Threads
    /\ sock \in [Objects -> Sockets] /\ accept \in [Objects -> {"none", "io", "ok", "err"}]
    /\ at \in [Threads -> Places] /\ obj \in [Threads -> Objects \cup {NoObject}]

\* Known is what the two invariants say, an object and a thread at a time.
LEMMA LinkKnown ==
    ASSUME TypeInv, LinkInv
    PROVE  Known
<1>1. /\ sock \in [Objects -> Sockets] /\ accept \in [Objects -> {"none", "io", "ok", "err"}]
      /\ at \in [Threads -> Places] /\ obj \in [Threads -> Objects \cup {NoObject}]
      /\ \A t \in Threads : at[t] # "idle" => obj[t] \in Objects
      /\ \A o \in Objects : sock[o] \in Sockets
  BY FrameTypes DEF SockOK, ListenOK, ThreadOK
<1>2. main \in Threads /\ \A t \in IoThreads : t \in Threads /\ (Ending(t) => at[t] # "idle")
  BY DEF Threads, Ending
<1>3. \A o \in Objects : accept[o] # "none" => Idle(sock[o]) /\ sock[o].timer = "none"
  BY DEF LinkInv, AcceptIdle, Offered, HeldNoAccept, Chains, ChainOK, Starting, Idle
<1> QED
  BY <1>1, <1>2, <1>3 DEF Known, LinkInv, AcceptIdle, Offered, HeldNoAccept, Chains, StartsFresh, EndsChain

\* A step of one socket that does not touch what says whether it is in use.
LEMMA LinkSilent ==
    ASSUME TypeInv, LinkInv, NEW o \in Objects, NEW s, sock' = [sock EXCEPT ![o] = s],
           UNCHANGED listener, UNCHANGED thread, UNCHANGED late, SameLink(sock[o], s),
           accept[o] # "none" /\ o \notin late => Settled(s)
    PROVE  LinkInv'
<1>0. Known
  BY LinkKnown, Zenon
<1>1. accept' = accept
  BY Zenon DEF listener
<1>2. sock'[o] = s /\ \A x \in Objects : x # o => sock'[x] = sock[x]
  BY <1>0 DEF Known
<1>3. ChainOK(s, o)
  BY <1>0 DEF Known, ChainOK, SameLink
<1>4. accept[o] # "none" => Idle(s) /\ (o \notin late => Settled(s)) /\ (s.open => accept[o] = "ok")
  BY <1>0 DEF Known, Idle, SameLink
<1>5. s.read = sock[o].read /\ s.timer = sock[o].timer
  BY Zenon DEF SameLink
<1> QED
  BY <1>0, <1>1, <1>2, <1>3, <1>4, <1>5, LinkFrame DEF Known

\* A step of one socket that reads, waits or closes.
LEMMA LinkTurn ==
    ASSUME TypeInv, LinkInv, NEW o \in Objects, NEW s, sock' = [sock EXCEPT ![o] = s],
           UNCHANGED listener, UNCHANGED thread, UNCHANGED late, ChainOK(s, o),
           \/ sock[o].read \in {"io", "ok", "err"}
           \/ sock[o].timer # "none"
    PROVE  LinkInv'
<1>0. Known
  BY LinkKnown, Zenon
<1>1. accept' = accept
  BY Zenon DEF listener
<1>2. sock'[o] = s /\ \A x \in Objects : x # o => sock'[x] = sock[x]
  BY <1>0 DEF Known
<1>3. accept[o] = "none" /\ sock[o].read # "ending"
  BY <1>0 DEF Known, ChainOK, Idle
<1>4. \A u \in Threads : at[u] = "start" => obj[u] # o
  BY <1>0 DEF Known
<1>5. \A u \in IoThreads : Ending(u) => obj[u] # o
  BY <1>0, <1>3 DEF Known
<1> QED
  BY <1>0, <1>1, <1>2, <1>3, <1>4, <1>5, LinkFrame DEF Known

\* A handler of an io thread keeps LinkInv.
LEMMA LinkHandler ==
    ASSUME ENHANCED_STABILITY, TypeInv, HomeInv, LinkInv, NEW t \in IoThreads, Handler(t)
    PROVE  LinkInv'
<1>0. Known
  BY LinkKnown, Zenon
<1> USE DEF Known
<1>1. ASSUME start(t) PROVE LinkInv'
  <2> DEFINE o == obj[t]
  <2>1. /\ o \in Objects /\ accept[o] = "none" /\ sock[o].read = "none" /\ sock[o].timer = "none"
        /\ at[t] = "start" /\ sock[o] \in Sockets
    BY <1>0, <1>1 DEF start
  <2>2. obj' = obj /\ accept' = accept /\ late' = late
    BY <1>1, Zenon DEF start, listener, ghost
  <2>3. \A u \in Threads \ {t} : at[u] = "start" => obj[u] # o
    BY <1>0, <2>1 DEF LinkInv, OneStart
  <2>4. \A u \in IoThreads : Ending(u) => obj[u] # o
    BY <1>0, <2>1
  <2>5. CASE at' = [at EXCEPT ![t] = "next"] /\ sock' = sock
    <3>1. Goes(t, "next", o) /\ ChainOK(sock[o], o)
      BY <1>0, <2>1, <2>2, <2>5 DEF Goes
    <3> HIDE DEF o
    <3> QED
      BY <1>0, <2>1, <2>2, <2>3, <2>4, <2>5, <3>1, LinkMoves
  <2>6. CASE at' = [at EXCEPT ![t] = "started"] /\ sock' = [sock EXCEPT ![o] = do_recv_msg(sock[o])]
    <3> DEFINE s == do_recv_msg(sock[o])
    <3>1. s.timer = "none"
      BY <2>1, RecvDoes, Zenon
    <3>2. Goes(t, "started", o) /\ sock'[o] = s /\ \A x \in Objects : x # o => sock'[x] = sock[x]
      BY <1>0, <2>1, <2>2, <2>6 DEF Goes
    <3> HIDE DEF o, s
    <3> QED
      BY <1>0, <2>1, <2>2, <2>3, <2>4, <3>1, <3>2, LinkMoves
  <2> QED
    BY <1>1, <2>5, <2>6, Zenon DEF start
<1>15. ASSUME start_returns_true(t) PROVE LinkInv'
  <2> DEFINE o == obj[t]
             s == [sock[o] EXCEPT !.started = TRUE]
  <2>1. /\ o \in Objects /\ accept[o] = "none" /\ at[t] = "started" /\ sock[o] \in Sockets
        /\ ChainOK(sock[o], o)
    BY <1>0, <1>15 DEF start_returns_true
  <2>2. s.started /\ s.read = sock[o].read /\ s.timer = sock[o].timer
    BY <2>1 DEF Sockets
  <2>3. ChainOK(s, o)
    BY <2>1, <2>2 DEF ChainOK
  <2>4. /\ sock' = [sock EXCEPT ![o] = s] /\ at' = [at EXCEPT ![t] = "next"] /\ obj' = obj
        /\ accept' = accept /\ late' = late
    BY <1>15, Zenon DEF start_returns_true, listener
  <2> HIDE DEF s
  <2>5. sock'[o] = s /\ (\A x \in Objects : x # o => sock'[x] = sock[x]) /\ Goes(t, "next", o)
    BY <1>0, <2>1, <2>4 DEF Goes
  <2>6. \A u \in Threads \ {t} : at[u] = "start" /\ obj[u] = o => s.read = "none" /\ s.timer = "none"
    BY <1>0, <2>2
  <2>7. \A u \in IoThreads \ {t} : Ending(u) /\ obj[u] = o => s.read = "ending"
    BY <1>0, <2>2
  <2>8. obj[t] = o
    OBVIOUS
  <2> HIDE DEF o
  <2> QED
    BY <1>0, <2>1, <2>2, <2>3, <2>4, <2>5, <2>6, <2>7, <2>8, LinkMoves
<1>2. ASSUME accept_again(t) PROVE LinkInv'
  <2>1. PICK o \in Objects : Creates(o, acceptor)
    BY <1>2, Created, Zenon DEF accept_again
  <2>2. /\ Unique(o) /\ (\A x \in Objects : x # o => sock'[x] = sock[x] /\ accept'[x] = accept[x])
        /\ \A x \in Objects : x # o => (x \in late' <=> x \in late)
        /\ Idle(sock'[o]) /\ (o \notin late' => Settled(sock'[o])) /\ ~sock'[o].open /\ sock'[o].timer = "none" /\ ChainOK(sock'[o], o)
    BY <2>1, CreatedIdle, Zenon
  <2>3. Goes(t, "idle", NoObject) /\ at[t] = "next"
    BY <1>0, <1>2 DEF accept_again, Goes
  <2>4. \A u \in Threads : obj[u] # o
    BY <2>2, Zenon DEF Unique
  <2> QED
    BY <1>0, <2>2, <2>3, <2>4, LinkMoves
<1>3. ASSUME push_closed(t) PROVE LinkInv'
  <2> DEFINE o == obj[t]
  <2>1. /\ o \in Objects /\ accept[o] = "none" /\ sock[o].read = "ending" /\ Ending(t) /\ ChainOK(sock[o], o)
        /\ at[t] # "started"
    BY <1>0, <1>3 DEF push_closed, Ending
  <2>2. sock' = sock /\ at' = [at EXCEPT ![t] = "close"] /\ obj' = obj /\ accept' = accept /\ late' = late
    BY <1>3, Zenon DEF push_closed, listener, ghost
  <2>3. Goes(t, "close", o)
    BY <1>0, <2>2 DEF Goes
  <2>4. \A u \in IoThreads \ {t} : Ending(u) => obj[u] # o
    BY <1>0, <2>1 DEF LinkInv, OneEnd
  <2> HIDE DEF o
  <2> QED
    BY <1>0, <2>1, <2>2, <2>3, <2>4, LinkMoves
<1>4. ASSUME del_client_closes(t) PROVE LinkInv'
  <2> DEFINE o == obj[t]
             s == force_close(sock[o])
  <2>1. /\ o \in Objects /\ accept[o] = "none" /\ sock[o].read = "ending" /\ Ending(t) /\ ChainOK(sock[o], o)
        /\ at[t] # "started"
    BY <1>0, <1>4 DEF del_client_closes, Ending
  <2>2. /\ sock' = [sock EXCEPT ![o] = s] /\ at' = [at EXCEPT ![t] = "reset"] /\ obj' = obj
        /\ accept' = accept /\ late' = late
    BY <1>4, Zenon DEF del_client_closes, listener, ghost
  <2>3. Closing(sock[o], s)
    BY <1>0, <2>1, ForceCloseDoes DEF Closing
  <2> HIDE DEF s
  <2>4. ChainOK(s, o) /\ s.read = "ending"
    BY <2>1, <2>3, ClosingKeeps
  <2>5. sock'[o] = s /\ (\A x \in Objects : x # o => sock'[x] = sock[x]) /\ Goes(t, "reset", o)
    BY <1>0, <2>1, <2>2 DEF Goes
  <2>6. \A u \in IoThreads \ {t} : Ending(u) => obj[u] # o
    BY <1>0, <2>1 DEF LinkInv, OneEnd
  <2> HIDE DEF o
  <2> QED
    BY <1>0, <2>1, <2>2, <2>4, <2>5, <2>6, LinkMoves
<1>5. ASSUME end_recv_error(t) PROVE LinkInv'
  <2> DEFINE o == obj[t]
  <2>1. /\ o \in Objects /\ accept[o] = "none" /\ sock[o].read = "ending" /\ Ending(t) /\ sock[o].timer = "none"
        /\ at[t] # "started"
    BY <1>0, <1>5 DEF end_recv_error, Ending, ChainOK
  <2>2. sock'[o].read = "none" /\ sock'[o].timer = "none" /\ \A x \in Objects : x # o => sock'[x] = sock[x]
    BY <1>0, <1>5, <2>1 DEF end_recv_error, Sockets
  <2>3. /\ at' = [at EXCEPT ![t] = "idle"] /\ obj' = [obj EXCEPT ![t] = NoObject] /\ accept' = accept
        /\ late' = late
    BY <1>5, Zenon DEF end_recv_error, listener, ghost
  <2>4. Goes(t, "idle", NoObject)
    BY <1>0, <2>3 DEF Goes
  <2>5. \A u \in IoThreads \ {t} : Ending(u) => obj[u] # o
    BY <1>0, <2>1 DEF LinkInv, OneEnd
  <2>6. ChainOK(sock'[o], o)
    BY <2>2 DEF ChainOK
  <2> HIDE DEF o
  <2> QED
    BY <1>0, <2>1, <2>2, <2>3, <2>4, <2>5, <2>6, LinkMoves
<1>6. ASSUME NEW o \in Objects, accept_handler(t, o) PROVE LinkInv'
  <2>1. accept[o] # "none" /\ Idle(sock[o]) /\ sock[o].timer = "none" /\ ChainOK(sock[o], o) /\ at[t] = "idle"
    BY <1>0, <1>6 DEF accept_handler, Free
  <2>2. accept' = [accept EXCEPT ![o] = "none"] /\ obj' = [obj EXCEPT ![t] = o] /\ late' = late
    BY <1>6, Zenon DEF accept_handler, ghost
  <2>3. accept'[o] = "none" /\ late' = late /\ \A x \in Objects : x # o => accept'[x] = accept[x]
    BY <1>0, <2>2
  <2>4. \A u \in Threads : at[u] # "idle" => obj[u] # o
    BY <1>0, <2>1
  <2>5. \A u \in IoThreads : Ending(u) => obj[u] # o
    BY <1>0, <2>4
  <2>6. CASE sock' = sock /\ at' = [at EXCEPT ![t] = "start"]
    <3>1. Goes(t, "start", o) /\ sock[o].read = "none"
      BY <1>0, <2>1, <2>2, <2>6 DEF Goes, Idle
    <3> QED
      BY <1>0, <2>1, <2>3, <2>4, <2>5, <2>6, <3>1, LinkMoves
  <2>7. CASE sock' = [sock EXCEPT ![o] = clean_up(sock[o])] /\ at' = [at EXCEPT ![t] = "next"]
    <3>1. ChainOK(clean_up(sock[o]), o)
      BY <1>0, <2>1, CleanUpDoes, ClosingKeeps DEF Closing
    <3>2. Goes(t, "next", o)
      BY <1>0, <2>1, <2>2, <2>7 DEF Goes
    <3>3. sock'[o] = clean_up(sock[o]) /\ \A x \in Objects : x # o => sock'[x] = sock[x]
      BY <1>0, <2>7
    <3> DEFINE s == clean_up(sock[o])
    <3> HIDE DEF s
    <3>4. sock'[o] = s /\ ChainOK(s, o)
      BY <3>1, <3>3 DEF s
    <3>5. t \in Threads /\ at[t] # "started" /\ "next" \notin {"start", "started", "push", "close", "reset", "idle"}
      BY <1>0, <2>1
    <3>6. \A u \in Threads \ {t} : ~(at[u] = "start" /\ obj[u] = o)
      BY <2>4
    <3> HIDE DEF Known
    <3> QED
      BY <2>3, <2>4, <2>5, <3>2, <3>3, <3>4, <3>5, <3>6, LinkMoves, SMTT(60)
  <2> QED
    BY <1>6, <2>6, <2>7, Zenon DEF accept_handler
<1>7. ASSUME NEW o \in Objects, accept_error(t, o) PROVE LinkInv'
  <2>1. \A x \in Objects : accept'[x] # "none" => accept[x] # "none" /\ (accept[x] = "ok" => accept'[x] = "ok")
    BY <1>0, <1>7 DEF accept_error
  <2> QED
    BY <1>7, <2>1, LinkListen, Zenon DEF accept_error, ghost
<1>8. ASSUME NEW o \in Objects, on_recv_error(t, o) PROVE LinkInv'
  <2>1. /\ accept[o] = "none" /\ sock[o].read = "err" /\ sock[o].timer = "none" /\ ChainOK(sock[o], o)
        /\ at[t] = "idle"
    BY <1>0, <1>8 DEF on_recv_error, Free, Idle, ChainOK
  <2>2. /\ sock'[o].read = "ending" /\ sock'[o].timer = "none" /\ sock'[o].started = sock[o].started
        /\ sock'[o].close = sock[o].close
        /\ \A x \in Objects : x # o => sock'[x] = sock[x]
    BY <1>0, <1>8, <2>1 DEF on_recv_error, Sockets
  <2>3. ChainOK(sock'[o], o)
    BY <2>1, <2>2 DEF ChainOK
  <2>4. accept' = accept /\ obj' = [obj EXCEPT ![t] = o] /\ late' = late
    BY <1>8, Zenon DEF on_recv_error, listener, erase, ghost
  <2>5. PICK p \in {"push", "reset"} : at' = [at EXCEPT ![t] = p]
    BY <1>8, Zenon DEF on_recv_error
  <2>6. Goes(t, p, o)
    BY <1>0, <2>4, <2>5 DEF Goes
  <2>7. \A u \in Threads : at[u] = "start" => obj[u] # o
    BY <1>0, <2>1
  <2>8. \A u \in IoThreads : Ending(u) => obj[u] # o
    BY <1>0, <2>1
  <2>9. p # "start" /\ p # "idle" /\ p # "started"
    BY <2>5
  <2> QED
    BY <1>0, <2>1, <2>2, <2>3, <2>4, <2>6, <2>7, <2>8, <2>9, LinkMoves
<1>9. ASSUME NEW o \in Objects, recv_handler(t, o) PROVE LinkInv'
  <2> DEFINE s == [sock[o] EXCEPT !.read = "none"]
  <2>1. /\ sock[o] \in Sockets /\ sock[o].read = "ok" /\ sock[o].timer = "none"
        /\ sock[o].started \/ sock[o].close = 1 \/ Starting(o)
    BY <1>0, <1>9 DEF recv_handler, ChainOK
  <2>2. UNCHANGED listener /\ UNCHANGED thread /\ UNCHANGED late
    BY <1>9, Zenon DEF recv_handler, ghost
  <2>3. /\ s \in Sockets /\ s.read = "none" /\ s.timer = "none" /\ s.started = sock[o].started
        /\ s.close = sock[o].close
    <3>1. s \in Sockets
      BY <2>1, OneField DEF ReadPhases
    <3> QED
      BY <2>1, <3>1 DEF Sockets
  <2> HIDE DEF s
  <2>4. \A r \in dispatch_msg(s) \cup {do_recv_msg(s)} : r \in Sockets /\ ChainOK(r, o)
    <3>1. \A r \in dispatch_msg(s) : r \in Sockets /\ ChainOK(r, o)
      BY <2>1, <2>3, DispatchedSocket, DispatchMsgDoes DEF ChainOK
    <3>2. do_recv_msg(s) \in Sockets /\ ChainOK(do_recv_msg(s), o)
      BY <2>1, <2>3, SocketCalls, RecvDoes DEF ChainOK
    <3> QED
      BY <3>1, <3>2
  <2>5. \A r \in dispatch_msg(s) \cup {do_recv_msg(s)} : ChainOK(force_close(r), o)
    <3> TAKE r \in dispatch_msg(s) \cup {do_recv_msg(s)}
    <3>1. Closing(r, force_close(r))
      BY <2>4, ForceCloseDoes DEF Closing
    <3> QED
      BY <2>4, <3>1, ClosingKeeps
  <2>6. PICK r : sock' = [sock EXCEPT ![o] = r] /\ ChainOK(r, o)
    <3>1. CASE \E r \in dispatch_msg(s) : sock' = [sock EXCEPT ![o] = r]
      BY <2>4, <3>1, Zenon
    <3>2. CASE \E r \in dispatch_msg(s) \cup {do_recv_msg(s)} : sock' = [sock EXCEPT ![o] = force_close(r)]
      BY <2>5, <3>2, Zenon
    <3> QED
      BY <1>9, <3>1, <3>2, Zenon DEF recv_handler, s
  <2> QED
    BY <2>1, <2>2, <2>6, LinkTurn
<1>10. ASSUME NEW o \in Objects, msg_handler(t, o) PROVE LinkInv'
  <2> DEFINE s == [sock[o] EXCEPT !.posted = @ - 1, !.dispatching = FALSE]
             r == [s EXCEPT !.recv = @ + 1, !.redo = TRUE]
  <2>1. SameLink(sock[o], s) /\ s.write = sock[o].write
    BY <1>0 DEF SameLink, Sockets
  <2>2. SameLink(sock[o], r) /\ r.write = sock[o].write
    BY <1>0 DEF SameLink, Sockets
  <2>3. s \in Sockets
    <3> DEFINE s1 == [sock[o] EXCEPT !.posted = @ - 1]
               s2 == [s1 EXCEPT !.dispatching = FALSE]
    <3>1. sock[o].posted - 1 \in Nat /\ FALSE \in BOOLEAN /\ sock[o] \in Sockets
      BY <1>0, <1>10 DEF msg_handler, Sockets
    <3>2. s2 = s
      BY <3>1 DEF Sockets
    <3>3. s1 \in Sockets
      BY <3>1, OneField, Zenon
    <3> HIDE DEF s1
    <3>4. s2 \in Sockets
      BY <3>1, <3>3, OneField, Zenon
    <3> QED
      BY <3>2, <3>4
  <2>4. sock' = [sock EXCEPT ![o] = do_dispatch_msg(do_send_msg(s))] \/ sock' = [sock EXCEPT ![o] = r]
    BY <1>10, Zenon DEF msg_handler
  <2> HIDE DEF s, r
  <2>5. SameLink(sock[o], do_dispatch_msg(do_send_msg(s)))
    <3>1. do_send_msg(s) \in Sockets /\ SameLink(s, do_send_msg(s))
      BY <2>3, SocketCalls, SendDoes, Zenon
    <3> QED
      BY <2>1, <3>1, DispatchDoes, Zenon DEF SameLink
  <2>6. accept[o] # "none" => o \in late
    BY <1>0, <1>10 DEF msg_handler, Settled
  <2>7. UNCHANGED listener /\ UNCHANGED thread /\ UNCHANGED late
    BY <1>10, Zenon DEF msg_handler, ghost
  <2> QED
    BY <2>2, <2>4, <2>5, <2>6, <2>7, LinkSilent
<1>11. ASSUME NEW o \in Objects, send_handler(t, o) PROVE LinkInv'
  <2> DEFINE s == [sock[o] EXCEPT !.write = "none"]
  <2>1. SameLink(sock[o], s) /\ (accept[o] # "none" => o \in late)
    BY <1>0, <1>11 DEF send_handler, SameLink, Sockets, Settled
  <2>2. sock' = [sock EXCEPT ![o] = s] /\ UNCHANGED listener /\ UNCHANGED thread /\ UNCHANGED late
    BY <1>11, Zenon DEF send_handler, ghost
  <2> HIDE DEF s
  <2> QED
    BY <2>1, <2>2, LinkSilent
<1>12. ASSUME NEW o \in Objects, on_timer_0(t, o) PROVE LinkInv'
  <2> DEFINE s == [sock[o] EXCEPT !.timer = "none"]
  <2>1. /\ sock[o] \in Sockets /\ sock[o].timer # "none" /\ sock[o].read = "none"
        /\ sock[o].started \/ sock[o].close = 1 \/ Starting(o)
    BY <1>0, <1>12 DEF on_timer_0, ChainOK
  <2>2. /\ s \in Sockets /\ s.read = "none" /\ s.timer = "none" /\ s.started = sock[o].started
        /\ s.close = sock[o].close
    <3>1. s \in Sockets
      BY <2>1, OneField
    <3> QED
      BY <2>1, <3>1 DEF Sockets
  <2>3. /\ \E r \in dispatch_msg(s) : sock' = [sock EXCEPT ![o] = r]
        /\ UNCHANGED listener /\ UNCHANGED thread /\ UNCHANGED late
    BY <1>12, Zenon DEF on_timer_0, ghost
  <2> HIDE DEF s
  <2>4. PICK r \in dispatch_msg(s) : sock' = [sock EXCEPT ![o] = r]
    BY <2>3, Zenon
  <2>5. ChainOK(r, o)
    BY <2>1, <2>2, DispatchMsgDoes DEF ChainOK
  <2> QED
    BY <2>1, <2>3, <2>4, <2>5, LinkTurn
<1>13. ASSUME NEW o \in Objects, on_timer_3(t, o) PROVE LinkInv'
  <2> DEFINE s == [sock[o] EXCEPT !.redo = FALSE]
  <2>1. s \in Sockets
    BY <1>0, OneField
  <2>2. SameLink(sock[o], s) /\ s.recv = sock[o].recv /\ (Settled(sock[o]) => Settled(s))
    BY <1>0 DEF SameLink, Sockets, Settled
  <2>3. sock' = [sock EXCEPT ![o] = do_dispatch_msg(s)] /\ UNCHANGED listener /\ UNCHANGED thread /\ UNCHANGED late
    BY <1>13, Zenon DEF on_timer_3, ghost
  <2> HIDE DEF s
  <2>4. SameLink(sock[o], do_dispatch_msg(s)) /\ (s.recv = 0 => do_dispatch_msg(s) = s)
    BY <2>1, <2>2, DispatchDoes, Zenon DEF SameLink
  <2>5. accept[o] # "none" /\ o \notin late => Settled(s) /\ s.recv = 0
    BY <1>0, <2>2 DEF Settled
  <2> QED
    BY <2>3, <2>4, <2>5, LinkSilent
<1>14. ASSUME NEW o \in Objects, on_timer_10(t, o) PROVE LinkInv'
  <2> DEFINE s == [sock[o] EXCEPT !.linger = FALSE]
             r == IF s.close = 2 THEN force_close(s) ELSE s
  <2>1. s \in Sockets
    BY <1>0, OneField
  <2>2. SameLink(sock[o], s) /\ (Settled(sock[o]) => Settled(s))
    BY <1>0 DEF SameLink, Sockets, Settled
  <2>3. sock' = [sock EXCEPT ![o] = r] /\ accept' = accept /\ UNCHANGED thread /\ late' = late
    BY <1>14, Zenon DEF on_timer_10, listener, ghost
  <2> HIDE DEF s
  <2>4. Closing(s, r) /\ (s.close # 2 => r = s)
    BY <2>1, ForceCloseDoes DEF Closing
  <2>5. ChainOK(s, o)
    BY <1>0, <2>2 DEF SameLink, ChainOK
  <2> HIDE DEF r
  <2>6. /\ ChainOK(r, o)
        /\ sock[o].read = "none" => r.read = "none"
        /\ sock[o].timer = "none" => r.timer = "none"
        /\ sock[o].read = "ending" => r.read = "ending"
    BY <2>2, <2>4, <2>5, ClosingKeeps DEF SameLink
  <2>7. accept[o] # "none" => Idle(r) /\ (o \notin late => Settled(r)) /\ (r.open => accept[o] = "ok")
    BY <1>0, <2>2, <2>4 DEF SameLink, Idle
  <2>8. sock'[o] = r /\ \A x \in Objects : x # o => sock'[x] = sock[x]
    BY <1>0, <2>3
  <2> QED
    BY <1>0, <2>3, <2>6, <2>7, <2>8, LinkFrame
<1> QED
  BY <1>1, <1>2, <1>3, <1>4, <1>5, <1>6, <1>7, <1>8, <1>9, <1>10, <1>11, <1>12, <1>13, <1>14, <1>15, Zenon DEF Handler

\* The application closes the client it took out of object_can.
LEMMA LinkMainCloses ==
    ASSUME TypeInv, LinkInv, NEW s, NEW p \in {"idle", "linger"}, NEW q,
           at[main] # "idle", at[main] # "started", sock'[obj[main]] = s,
           \A x \in Objects : x # obj[main] => sock'[x] = sock[x],
           Goes(main, p, q), p # "idle" => q = obj[main],
           accept' = accept, late' = late, Closing(sock[obj[main]], s)
    PROVE  LinkInv'
<1>0. Known
  BY LinkKnown, Zenon
<1> DEFINE o == obj[main]
<1>1. o \in Objects /\ accept'[o] = "none" /\ main \in Threads /\ ChainOK(sock[o], o)
  BY <1>0 DEF Known
<1>2. /\ ChainOK(s, o)
      /\ sock[o].read = "none" => s.read = "none"
      /\ sock[o].timer = "none" => s.timer = "none"
      /\ sock[o].read = "ending" => s.read = "ending"
  BY <1>1, ClosingKeeps
<1>3. \A u \in Threads \ {main} : at[u] = "start" /\ obj[u] = o => s.read = "none" /\ s.timer = "none"
  BY <1>0, <1>2 DEF Known
<1>4. \A u \in IoThreads \ {main} : Ending(u) /\ obj[u] = o => s.read = "ending"
  BY <1>0, <1>2 DEF Known
<1>5. /\ p # "start" /\ p # "started" /\ (p # "idle" => q \in Objects /\ accept'[q] = "none") 
      /\ p \notin {"push", "close", "reset"}
  BY <1>1
<1> HIDE DEF o
<1>6. sock'[o] = s /\ \A x \in Objects : x # o => sock'[x] = sock[x] /\ accept'[x] = accept[x]
  BY DEF o
<1> QED
  BY <1>1, <1>2, <1>3, <1>4, <1>5, <1>6, LinkMoves

\* The application takes a client out of object_can, or pushes it.
LEMMA LinkMainHolds ==
    ASSUME TypeInv, LinkInv, NEW o \in Objects, NEW p \in {"push", "close"}, ChainOK(sock[o], o), accept[o] = "none",
           at[main] \in {"idle", "push"}, sock' = sock, at' = [at EXCEPT ![main] = p],
           obj'[main] = o, \A u \in Threads : u # main => obj'[u] = obj[u],
           accept' = accept, late' = late
    PROVE  LinkInv'
<1>0. Known
  BY LinkKnown, Zenon
<1>1. main \notin IoThreads /\ main \in Threads /\ \A u \in IoThreads : u \in Threads
  BY ServerAssumption DEF Threads
<1>2. Goes(main, p, o)
  BY <1>0, <1>1 DEF Goes, Known
<1>3. \A u \in Threads : u # main => at'[u] = at[u] /\ obj'[u] = obj[u]
  BY <1>2 DEF Goes
<1>4. at'[main] \in {"push", "close"} /\ obj'[main] = o
  BY <1>2 DEF Goes
<1>5. \A u \in Threads : at[u] # "idle" => obj[u] \in Objects /\ accept[obj[u]] = "none"
  BY <1>0 DEF Known
<1>6. AcceptIdle' /\ HeldNoAccept'
  BY <1>3, <1>4, <1>5 DEF LinkInv, AcceptIdle, HeldNoAccept, Offered
<1>7. Chains'
  <2>1. \A x \in Objects : Starting(x) => Starting(x)'
    BY <1>3 DEF Starting
  <2> QED
    BY <2>1 DEF LinkInv, Chains, ChainOK
<1>8. StartsFresh' /\ OneStart'
  BY <1>3, <1>4 DEF LinkInv, StartsFresh, OneStart
<1>9. EndsChain' /\ OneEnd'
  BY <1>1, <1>3 DEF LinkInv, EndsChain, OneEnd, Ending
<1> QED
  BY <1>6, <1>7, <1>8, <1>9 DEF LinkInv

\* Every step keeps LinkInv.
LEMMA LinkStep ==
    ASSUME ENHANCED_STABILITY
    PROVE  TypeInv /\ HomeInv /\ LinkInv /\ [Next]_vars => LinkInv'
<1> SUFFICES ASSUME TypeInv, HomeInv, LinkInv, [Next]_vars PROVE LinkInv'
  OBVIOUS
<1>0. Known
  BY LinkKnown, Zenon
<1>1. ASSUME UNCHANGED listener, UNCHANGED sock, UNCHANGED thread, UNCHANGED late PROVE LinkInv'
  <2>1. accept' = accept
    BY <1>1, Zenon DEF listener
  <2> QED
    BY <1>1, <2>1, LinkListen
<1> USE DEF Known
<1>2. CASE pump_step /\ UNCHANGED server
  BY <1>1, <1>2, Zenon DEF server, ghost
<1>3. CASE pump_call
  BY <1>1, <1>3, Zenon DEF pump_call, ghost
<1>4. ASSUME NEW ok \in BOOLEAN, init(ok) PROVE LinkInv'
  <2>1. CASE create_and_accept("listening")
    <3>1. PICK o \in Objects : Creates(o, "listening")
      BY <2>1, Created, Zenon
    <3>2. /\ Unique(o) /\ (\A x \in Objects : x # o => sock'[x] = sock[x] /\ accept'[x] = accept[x])
          /\ \A x \in Objects : x # o => (x \in late' <=> x \in late)
          /\ Idle(sock'[o]) /\ (o \notin late' => Settled(sock'[o])) /\ ~sock'[o].open
          /\ sock'[o].timer = "none" /\ ChainOK(sock'[o], o)
      BY <3>1, CreatedIdle, Zenon
    <3>3. \A u \in Threads : obj[u] # o
      BY <3>2, Zenon DEF Unique
    <3>4. UNCHANGED thread
      BY <1>4, Zenon DEF init
    <3> QED
      BY <1>0, <3>2, <3>3, <3>4, LinkFrame
  <2>2. CASE UNCHANGED <<accept, temp_object_can, sock, asked, late, outrun>>
    <3>1. UNCHANGED thread
      BY <1>4, Zenon DEF init
    <3> QED
      BY <2>2, <3>1, LinkListen
  <2> QED
    BY <1>4, <2>1, <2>2, Zenon DEF init
<1>5. CASE uninit_stop
  <2>1. \A x \in Objects : accept'[x] # "none" => accept[x] # "none" /\ (accept[x] = "ok" => accept'[x] = "ok")
    BY <1>0, <1>5 DEF uninit_stop, stop_listen
  <2> QED
    BY <1>5, <2>1, LinkListen, Zenon DEF uninit_stop, ghost
<1>6. CASE close_all_client
  <2>1. \A x \in Objects : sock'[x] = IF x \in object_can THEN force_close(sock[x]) ELSE sock[x]
    BY <1>6, Zenon DEF close_all_client
  <2>2. accept' = accept /\ at' = at /\ obj' = obj /\ late' = late
    BY <1>6, Zenon DEF close_all_client, listener, thread
  <2>3. \A x \in Objects : Closing(sock[x], sock'[x])
    BY <1>0, <2>1, ForceCloseDoes DEF Closing
  <2>4. \A x \in Objects : /\ ChainOK(sock'[x], x)
                           /\ sock[x].read = "none" => sock'[x].read = "none"
                           /\ sock[x].timer = "none" => sock'[x].timer = "none"
                           /\ sock[x].read = "ending" => sock'[x].read = "ending"
    BY <1>0, <2>3, ClosingKeeps
  <2>5. \A x \in Objects : accept[x] # "none" => sock'[x] = sock[x]
    BY <2>1 DEF HomeInv
  <2>6. AcceptIdle'
    BY <2>2, <2>5 DEF LinkInv, AcceptIdle, Offered, Idle, Settled
  <2>7. HeldNoAccept' /\ OneStart' /\ OneEnd'
    BY <2>2 DEF LinkInv, HeldNoAccept, OneStart, OneEnd, Ending
  <2>8. Chains'
    BY <2>2, <2>4 DEF Chains, ChainOK, Starting
  <2>9. StartsFresh' /\ EndsChain'
    BY <1>0, <2>2, <2>4 DEF StartsFresh, EndsChain, Ending
  <2> QED
    BY <2>6, <2>7, <2>8, <2>9 DEF LinkInv
<1>7. CASE push_closed(main)
  <2> DEFINE o == obj[main]
  <2>1. o \in Objects /\ ChainOK(sock[o], o) /\ accept[o] = "none" /\ at[main] = "push"
    BY <1>0, <1>7 DEF push_closed
  <2>2. /\ sock' = sock /\ at' = [at EXCEPT ![main] = "close"] /\ obj'[main] = o
        /\ \A u \in Threads : u # main => obj'[u] = obj[u]
        /\ accept' = accept /\ late' = late
    BY <1>7, Zenon DEF push_closed, listener, ghost
  <2> HIDE DEF o
  <2> QED
    BY <2>1, <2>2, LinkMainHolds
<1>8. CASE client_closed
  <2> DEFINE o == obj[main]
  <2>1. o \in Objects /\ sock[o] \in Sockets /\ at[main] = "close" /\ TRUE \in BOOLEAN /\ FALSE \in BOOLEAN
    BY <1>0, <1>8 DEF client_closed
  <2>2. accept' = accept /\ late' = late
    BY <1>8, Zenon DEF client_closed, listener, ghost
  <2>3. /\ Closing(sock[o], force_close(sock[o]))
        /\ Closing(sock[o], graceful_close(sock[o], TRUE)) /\ Closing(sock[o], graceful_close(sock[o], FALSE))
    BY <2>1, ForceCloseDoes, GracefulCloseDoes DEF Closing
  <2>4. PICK s : sock' = [sock EXCEPT ![o] = s] /\ Closing(sock[o], s)
    BY <1>8, <2>3, Zenon DEF client_closed
  <2>5. sock'[o] = s /\ \A x \in Objects : x # o => sock'[x] = sock[x]
    BY <1>0, <2>1, <2>4
  <2>6. \/ Goes(main, "idle", NoObject)
        \/ Goes(main, "linger", o)
    <3>1. \/ at' = [at EXCEPT ![main] = "idle"] /\ obj' = [obj EXCEPT ![main] = NoObject]
          \/ at' = [at EXCEPT ![main] = "linger"] /\ obj' = obj
      BY <1>8, Zenon DEF client_closed
    <3> QED
      BY <1>0, <3>1 DEF Goes
  <2> QED
    BY <2>1, <2>2, <2>4, <2>5, <2>6, LinkMainCloses
<1>9. CASE linger_ends
  <2> DEFINE o == obj[main]
  <2>1. o \in Objects /\ sock[o] \in Sockets /\ at[main] = "linger"
    BY <1>0, <1>9 DEF linger_ends
  <2>2. accept' = accept /\ late' = late
    BY <1>9, Zenon DEF linger_ends, listener, ghost
  <2>3. Closing(sock[o], clean_up(sock[o])) /\ Closing(sock[o], sock[o])
    BY <2>1, CleanUpDoes DEF Closing
  <2>4. PICK s : sock'[o] = s /\ Closing(sock[o], s) /\ \A x \in Objects : x # o => sock'[x] = sock[x]
    <3>1. CASE sock' = sock
      BY <2>3, <3>1, Zenon
    <3>2. CASE sock' = [sock EXCEPT ![o] = clean_up(sock[o])]
      <4>1. sock'[o] = clean_up(sock[o]) /\ \A x \in Objects : x # o => sock'[x] = sock[x]
        BY <1>0, <2>1, <3>2
      <4> QED
        BY <2>3, <4>1, Zenon
    <3> QED
      BY <1>9, <3>1, <3>2, Zenon DEF linger_ends
  <2>5. Goes(main, "idle", NoObject)
    BY <1>0, <1>9 DEF linger_ends, Goes
  <2> QED
    BY <2>1, <2>2, <2>4, <2>5, LinkMainCloses
<1>10. CASE free_object \/ clear_all_closed_object
  BY <1>1, <1>10, Zenon DEF free_object, clear_all_closed_object, ghost
<1>11. ASSUME NEW o \in Objects, close_client(o) PROVE LinkInv'
  <2>1. ChainOK(sock[o], o) /\ accept[o] = "none" /\ at[main] = "idle"
    BY <1>0, <1>11 DEF close_client, HomeInv
  <2>2. sock' = sock /\ at' = [at EXCEPT ![main] = "push"] /\ accept' = accept /\ late' = late
    BY <1>11, Zenon DEF close_client, listener
  <2>3. obj' = [obj EXCEPT ![main] = o]
    BY <1>11, Zenon DEF close_client, erase
  <2>4. obj'[main] = o /\ \A u \in Threads : u # main => obj'[u] = obj[u]
    BY <1>0, <2>3
  <2> QED
    BY <2>1, <2>2, <2>4, LinkMainHolds
<1>12. ASSUME NEW o \in Objects, connect(o) PROVE LinkInv'
  <2>1. accept[o] = "io" /\ Idle(sock[o]) /\ sock[o].timer = "none"
    BY <1>0, <1>12 DEF connect
  <2>2. accept'[o] = "ok" /\ \A x \in Objects : x # o => accept'[x] = accept[x]
    BY <1>0, <1>12 DEF connect
  <2>3. /\ Idle(sock'[o]) /\ sock'[o].timer = "none" /\ (o \notin late => Settled(sock'[o]))
        /\ \A x \in Objects : x # o => sock'[x] = sock[x]
    BY <1>0, <1>12, <2>1 DEF connect, Idle, Settled, Sockets
  <2>4. ChainOK(sock'[o], o)
    BY <2>3 DEF Idle, ChainOK
  <2>5. \A u \in Threads : at[u] # "idle" => obj[u] # o
    BY <1>0, <2>1
  <2>6. \A u \in IoThreads : Ending(u) => obj[u] # o
    BY <1>0, <2>5
  <2>7. UNCHANGED thread /\ late' = late
    BY <1>12, Zenon DEF connect, ghost
  <2> QED
    BY <1>0, <2>2, <2>3, <2>4, <2>5, <2>6, <2>7, LinkFrame
<1>13. ASSUME NEW o \in Objects, accept_fails(o) PROVE LinkInv'
  <2>1. \A x \in Objects : accept'[x] # "none" => accept[x] # "none" /\ (accept[x] = "ok" => accept'[x] = "ok")
    BY <1>0, <1>13 DEF accept_fails
  <2> QED
    BY <1>13, <2>1, LinkListen, Zenon DEF accept_fails, ghost
<1>14. ASSUME NEW o \in Objects, read_completes(o) PROVE LinkInv'
  <2>1. /\ sock[o] \in Sockets /\ sock[o].read = "io" /\ sock[o].timer = "none"
        /\ sock[o].started \/ sock[o].close = 1 \/ Starting(o)
    BY <1>0, <1>14 DEF read_completes, ChainOK
  <2>2. ChainOK([sock[o] EXCEPT !.read = "ok"], o) /\ ChainOK([sock[o] EXCEPT !.read = "err"], o)
    BY <2>1 DEF ChainOK, Sockets
  <2>3. PICK s : sock' = [sock EXCEPT ![o] = s] /\ ChainOK(s, o)
    BY <1>14, <2>2, Zenon DEF read_completes
  <2>4. UNCHANGED listener /\ UNCHANGED thread /\ UNCHANGED late
    BY <1>14, Zenon DEF read_completes, ghost
  <2> QED
    BY <2>1, <2>3, <2>4, LinkTurn
<1>15. ASSUME NEW o \in Objects, write_completes(o) PROVE LinkInv'
  <2> DEFINE s == [sock[o] EXCEPT !.write = "queued"]
  <2>1. SameLink(sock[o], s)
    BY <1>0 DEF SameLink, Sockets
  <2>2. accept[o] # "none" => o \in late
    BY <1>0, <1>15 DEF write_completes, Settled
  <2>3. sock' = [sock EXCEPT ![o] = s] /\ UNCHANGED listener /\ UNCHANGED thread /\ UNCHANGED late
    BY <1>15, Zenon DEF write_completes, ghost
  <2> HIDE DEF s
  <2> QED
    BY <2>1, <2>2, <2>3, LinkSilent
<1>16. ASSUME NEW o \in Objects, timer_expires(o) PROVE LinkInv'
  <2> DEFINE s == [sock[o] EXCEPT !.timer = "queued"]
  <2>1. /\ sock[o] \in Sockets /\ sock[o].timer = "armed" /\ sock[o].read = "none"
        /\ sock[o].started \/ sock[o].close = 1 \/ Starting(o)
    BY <1>0, <1>16 DEF timer_expires, ChainOK
  <2>2. ChainOK(s, o)
    BY <2>1 DEF ChainOK, Sockets
  <2>3. sock' = [sock EXCEPT ![o] = s] /\ UNCHANGED listener /\ UNCHANGED thread /\ UNCHANGED late
    BY <1>16, Zenon DEF timer_expires, ghost
  <2> HIDE DEF s
  <2> QED
    BY <2>1, <2>2, <2>3, LinkTurn
<1>17. CASE UNCHANGED vars
  BY <1>1, <1>17, Zenon DEF vars, server, ghost
<1>18. CASE Next
  BY <1>18, <1>2, <1>3, <1>4, <1>5, <1>6, <1>7, <1>8, <1>9, <1>10, <1>11, <1>12, <1>13, <1>14, <1>15, <1>16,
     LinkHandler, Zenon DEF Next
<1> QED
  BY <1>17, <1>18

\* LinkInv holds of the server that asio_server.cpp configures.
LEMMA LinkHolds ==
    ASSUME ENHANCED_STABILITY
    PROVE  Spec => []LinkInv
<1>1. Init => LinkInv
  <2> SUFFICES ASSUME Init PROVE LinkInv
    OBVIOUS
  <2>1. \A o \in Objects : accept[o] = "none" /\ sock[o] = NewSocket
    BY DEF Init
  <2>2. \A t \in Threads : at[t] = "idle"
    BY DEF Init
  <2>3. \A t \in IoThreads : ~Ending(t)
    BY <2>2 DEF Ending, Threads
  <2>4. \A o \in Objects : ChainOK(NewSocket, o)
    BY DEF NewSocket, ChainOK
  <2> QED
    BY <2>1, <2>2, <2>3, <2>4 DEF LinkInv, AcceptIdle, HeldNoAccept, Chains, StartsFresh, OneStart, EndsChain, OneEnd
<1>2. TypeInv /\ HomeInv /\ LinkInv /\ [Next]_vars => LinkInv'
  BY LinkStep
<1> QED
  BY <1>1, <1>2, Typed, AtHome, PTL DEF Spec

\* A socket handed to async_accept is idle, with ENHANCED_STABILITY: no read of
\* a former client is left, and no write unless a msg_handler was queued when the
\* object was taken; for any number of sockets and io threads.
THEOREM AcceptIntoIdleHolds ==
    ASSUME ENHANCED_STABILITY
    PROVE  Spec => []AcceptIntoIdle
<1>1. LinkInv => AcceptIntoIdle
  BY DEF LinkInv, AcceptIdle, Offered, Idle, Settled, AcceptIntoIdle
<1> QED
  BY <1>1, LinkHolds, PTL

-----------------------------------------------------------------------------
(* A link that its client ended is reclaimed, with ENHANCED_STABILITY. *)

\* What a closed link comes to.
Quiet(s) == s.close = 0 /\ ~s.started /\ s.read = "none" /\ s.timer = "none"
\* The fields that Quiet looks at stay as they are.
SameUse(s, r) == /\ r.started = s.started /\ r.close = s.close /\ r.open = s.open
                 /\ r.read = s.read /\ r.timer = s.timer
\* Not closed gracefully, and cleaned up once closed.
ClosedOnce(s) == s.close # 2 /\ (s.close = 1 => ~s.started /\ ~s.open)
\* Quiet, and if a start() is still to set started_, it will see the link closed.
AtRest(o) == Quiet(sock[o]) /\ (Starting(o) => ~sock[o].open)
\* The two exceptions of PeerCloseIsReclaimed.
Excused == asked \cup outrun
\* The thread that closed the object has yet to reset close_state.
Resets(t, o) == obj[t] = o /\ at[t] \in {"close", "reset"}

\* Only what the application asked for closes gracefully, or finds the socket
\* about to be started; a closed object that is not excused is at rest, or the
\* on_recv_error that closes it and resets close_state is under way.
MainAsked == at[main] # "idle" => obj[main] \in asked
Unasked == \A o \in Objects \ Excused : ClosedOnce(sock[o])
StartsHome == \A t \in IoThreads : at[t] = "start" /\ obj[t] \notin Excused =>
                  obj[t] \in object_can /\ sock[obj[t]].close = 0 /\ ~sock[obj[t]].started
StartsAlone == \A t, u \in Threads :
    at[t] \in {"start", "started"} /\ at[u] \in {"start", "started"} /\ obj[t] = obj[u] => t = u
ClosedQuiet == \A o \in Closed \ Excused : AtRest(o) \/ \E t \in IoThreads : Resets(t, o)
ResetsClosed == \A t \in IoThreads : at[t] = "reset" /\ obj[t] \in Closed \ Excused =>
                  sock[obj[t]].close = 1 /\ ~sock[obj[t]].started
CloseInv == MainAsked /\ Unasked /\ StartsHome /\ StartsAlone /\ ClosedQuiet /\ ResetsClosed

\* A closed link nobody asked for has no read and no timer that could fire.
LEMMA NoTurn ==
    ASSUME TypeInv, LinkInv, CloseInv, NEW o \in Objects,
           sock[o].read \in {"io", "ok", "err"} \/ sock[o].timer # "none"
    PROVE  /\ o \notin Closed \ Excused
           /\ \A t \in Threads : at[t] = "start" => obj[t] # o
           /\ \A t \in IoThreads : Ending(t) => obj[t] # o
<1>0. Known
  BY LinkKnown, Zenon
<1>1. sock[o].read # "ending"
  BY <1>0 DEF Known, ChainOK
<1>2. \A t \in IoThreads : Ending(t) => obj[t] # o
  BY <1>0, <1>1 DEF Known
<1>3. \A t \in Threads : at[t] = "start" => obj[t] # o
  BY <1>0 DEF Known
<1>4. \A t \in IoThreads : ~Resets(t, o)
  BY <1>2 DEF Resets, Ending
<1>5. ~AtRest(o)
  BY DEF AtRest, Quiet
<1>6. o \notin Closed \ Excused
  BY <1>4, <1>5 DEF CloseInv, ClosedQuiet
<1> QED
  BY <1>2, <1>3, <1>6

\* temp_object_can holds objects.
LEMMA ClosedObjects == TypeInv => Closed \subseteq Objects
<1> SUFFICES ASSUME TypeInv PROVE Closed \subseteq Objects
  OBVIOUS
<1>1. ListOK
  BY FrameTypes
<1> QED
  BY <1>1 DEF ListOK, Closed, Range

\* A step that leaves the threads where they are.
LEMMA CloseFrame ==
    ASSUME TypeInv, LinkInv, CloseInv, UNCHANGED thread, asked \subseteq asked', outrun \subseteq outrun',
           \A x \in Objects \ Excused' : ClosedOnce(sock'[x]),
           \A x \in Objects \ Excused', u \in IoThreads : at[u] = "start" /\ obj[u] = x =>
               /\ x \in object_can => x \in object_can'
               /\ sock'[x].close = sock[x].close /\ sock'[x].started = sock[x].started,
           \A x \in Closed' \ Excused' : \/ x \in Closed /\ SameUse(sock[x], sock'[x])
                                         \/ Quiet(sock'[x]) /\ Unique(x)
    PROVE  CloseInv'
<1>0. at' = at /\ obj' = obj
  BY Zenon DEF thread
<1>1. \A u \in Threads : at[u] # "idle" => obj[u] \in Objects
  BY FrameTypes, Zenon
<1>2. \A u \in IoThreads : u \in Threads
  BY DEF Threads
<1>3. MainAsked' /\ StartsAlone'
  BY <1>0 DEF CloseInv, MainAsked, StartsAlone
<1>4. Unasked'
  BY DEF Unasked, ClosedOnce
<1>5. \A x : x \notin Excused' => x \notin Excused
  BY DEF Excused
<1>6. StartsHome'
  <2> SUFFICES ASSUME NEW u \in IoThreads, at[u] = "start", obj[u] \notin Excused'
               PROVE  obj[u] \in object_can' /\ sock'[obj[u]].close = 0 /\ ~sock'[obj[u]].started
    BY <1>0 DEF StartsHome
  <2> QED
    BY <1>1, <1>2, <1>5 DEF CloseInv, StartsHome
<1>7. ClosedQuiet'
  <2> SUFFICES ASSUME NEW x \in Closed' \ Excused'
               PROVE  AtRest(x)' \/ \E t \in IoThreads : Resets(t, x)'
    BY Zenon DEF ClosedQuiet
  <2>1. Starting(x)' <=> Starting(x)
    BY <1>0 DEF Starting
  <2>2. CASE x \in Closed /\ SameUse(sock[x], sock'[x])
    <3>1. AtRest(x) \/ \E t \in IoThreads : Resets(t, x)
      BY <1>5, <2>2 DEF CloseInv, ClosedQuiet
    <3>2. \A t \in IoThreads : Resets(t, x)' <=> Resets(t, x)
      BY <1>0 DEF Resets
    <3>3. AtRest(x) => AtRest(x)'
      BY <2>1, <2>2 DEF AtRest, Quiet, SameUse
    <3> QED
      BY <3>1, <3>2, <3>3, Zenon
  <2>3. CASE Quiet(sock'[x]) /\ Unique(x)
    BY <2>1, <2>3 DEF AtRest, Quiet, Unique, Starting
  <2> QED
    BY <2>2, <2>3
<1>8. ResetsClosed'
  <2> SUFFICES ASSUME NEW t \in IoThreads, at[t] = "reset", obj[t] \in Closed' \ Excused'
               PROVE  sock'[obj[t]].close = 1 /\ ~sock'[obj[t]].started
    BY <1>0 DEF ResetsClosed
  <2>1. ~Unique(obj[t])
    BY <1>2 DEF Unique
  <2>2. obj[t] \in Closed \ Excused /\ SameUse(sock[obj[t]], sock'[obj[t]])
    BY <1>5, <2>1
  <2> QED
    BY <2>2 DEF CloseInv, ResetsClosed, SameUse
<1> QED
  BY <1>3, <1>4, <1>6, <1>7, <1>8 DEF CloseInv

\* A step of thread t that changes the socket o and where the object o is.
LEMMA CloseMoves ==
    ASSUME TypeInv, LinkInv, CloseInv, NEW o \in Objects, NEW t \in Threads, NEW p, NEW q,
           Goes(t, p, q), p # "idle" => q \in Objects, p \in {"start", "started", "reset"} => q = o,
           obj[t] = o \/ at[t] \notin {"close", "reset"},
           asked \subseteq asked', outrun \subseteq outrun',
           \A x \in Objects : x # o => sock'[x] = sock[x],
           \A x \in Objects : x # o /\ x \in object_can => x \in object_can',
           \A x \in Objects : x # o /\ x \in Closed' => x \in Closed,
           Closed' \subseteq Objects,
           o \notin Excused' => ClosedOnce(sock'[o]),
           t = main /\ p # "idle" => q \in asked',
           \A u \in IoThreads \ {t} : at[u] = "start" /\ obj[u] = o /\ o \notin Excused' =>
               o \in object_can' /\ sock'[o].close = 0 /\ ~sock'[o].started,
           p = "start" /\ o \notin Excused' => o \in object_can' /\ sock'[o].close = 0 /\ ~sock'[o].started,
           p \in {"start", "started"} =>
               \A u \in Threads \ {t} : at[u] \in {"start", "started"} => obj[u] # o,
           o \in Closed' \ Excused' =>
               /\ AtRest(o)' \/ \E u \in IoThreads : Resets(u, o)'
               /\ \A u \in IoThreads : at'[u] = "reset" /\ obj'[u] = o => sock'[o].close = 1 /\ ~sock'[o].started
    PROVE  CloseInv'
<1>1. \A u \in Threads : at[u] # "idle" => obj[u] \in Objects
  BY FrameTypes, Zenon
<1>2. main \in Threads /\ \A u \in IoThreads : u \in Threads
  BY DEF Threads
<1>3. MainAsked'
  BY <1>2 DEF CloseInv, MainAsked, Goes
<1>4. \A x : x \notin Excused' => x \notin Excused
  BY DEF Excused
<1>5. Unasked'
  <2> SUFFICES ASSUME NEW x \in Objects \ Excused' PROVE ClosedOnce(sock'[x])
    BY DEF Unasked, ClosedOnce
  <2> QED
    BY <1>4 DEF CloseInv, Unasked
<1>6. StartsHome'
  <2> SUFFICES ASSUME NEW u \in IoThreads, at'[u] = "start", obj'[u] \notin Excused'
               PROVE  obj'[u] \in object_can' /\ sock'[obj'[u]].close = 0 /\ ~sock'[obj'[u]].started
    BY DEF StartsHome
  <2>1. CASE u = t
    BY <2>1 DEF Goes
  <2>2. CASE u # t
    <3>1. at[u] = "start" /\ obj'[u] = obj[u] /\ obj[u] \in Objects /\ obj[u] \notin Excused
      BY <1>1, <1>2, <1>4, <2>2 DEF Goes
    <3>2. obj[u] \in object_can /\ sock[obj[u]].close = 0 /\ ~sock[obj[u]].started
      BY <3>1 DEF CloseInv, StartsHome
    <3> QED
      BY <2>2, <3>1, <3>2
  <2> QED
    BY <2>1, <2>2
<1>7. StartsAlone'
  BY DEF CloseInv, StartsAlone, Goes
<1>8. ClosedQuiet'
  <2> SUFFICES ASSUME NEW x \in Closed' \ Excused'
               PROVE  AtRest(x)' \/ \E u \in IoThreads : Resets(u, x)'
    BY Zenon DEF ClosedQuiet
  <2>1. CASE x = o
    BY <2>1
  <2>2. CASE x # o
    <3>1. x \in Objects /\ x \in Closed \ Excused /\ sock'[x] = sock[x]
      BY <1>4, <2>2
    <3>2. CASE AtRest(x)
      <4>1. Starting(x)' => Starting(x)
        BY <2>2 DEF Starting, Goes
      <4> QED
        BY <3>1, <3>2, <4>1 DEF AtRest, Quiet
    <3>3. ASSUME NEW u \in IoThreads, Resets(u, x)
          PROVE  Resets(u, x)'
      BY <1>2, <2>2, <3>3 DEF Resets, Goes
    <3> QED
      BY <3>1, <3>2, <3>3, Zenon DEF CloseInv, ClosedQuiet
  <2> QED
    BY <2>1, <2>2
<1>9. ResetsClosed'
  <2> SUFFICES ASSUME NEW u \in IoThreads, at'[u] = "reset", obj'[u] \in Closed' \ Excused'
               PROVE  sock'[obj'[u]].close = 1 /\ ~sock'[obj'[u]].started
    BY DEF ResetsClosed
  <2>1. CASE obj'[u] = o
    BY <2>1
  <2>2. CASE obj'[u] # o
    <3>1. u # t
      BY <2>2 DEF Goes
    <3>2. at[u] = "reset" /\ obj[u] = obj'[u] /\ obj[u] \in Closed \ Excused /\ sock'[obj[u]] = sock[obj[u]]
      BY <1>1, <1>2, <1>4, <2>2, <3>1 DEF Goes
    <3> QED
      BY <3>2 DEF CloseInv, ResetsClosed
  <2> QED
    BY <2>1, <2>2
<1> QED
  BY <1>3, <1>5, <1>6, <1>7, <1>8, <1>9 DEF CloseInv

\* create_object takes an object that nobody asks about any more.
LEMMA CloseCreates ==
    ASSUME ENHANCED_STABILITY, TypeInv, HomeInv, LinkInv, CloseInv, NEW on, create_and_accept(on),
           UNCHANGED object_can,
           \A u \in Threads : at'[u] # "idle" => at'[u] = at[u] /\ obj'[u] = obj[u],
           \A u \in Threads : at[u] \in {"close", "reset"} => at'[u] = at[u] /\ obj'[u] = obj[u]
    PROVE  CloseInv'
<1>0. (\A u \in Threads : at[u] # "idle" => obj[u] \in Objects) /\ main \in Threads /\ IoThreads \subseteq Threads
  BY FrameTypes DEF Threads
<1>1. PICK o \in Objects : Creates(o, on)
  BY Created, Zenon
<1>2. Unique(o) /\ Closed' \subseteq Closed \ {o}
  BY <1>1, CreatedHome, Zenon
<1>3. Idle(sock'[o]) /\ \A x \in Objects : x # o => sock'[x] = sock[x]
  BY <1>1, CreatedIdle, Zenon
<1>4. asked' = asked \ {o} /\ outrun' = outrun \ {o} /\ object_can' = object_can
  BY <1>1, Zenon DEF Creates
<1>5. \A u \in Threads : obj[u] # o
  BY <1>2, Zenon DEF Unique
<1>6. Closed \subseteq Objects
  BY ClosedObjects
<1>6a. Excused' = Excused \ {o}
  BY <1>4 DEF Excused
<1>7. MainAsked' /\ StartsAlone'
  <2>1. MainAsked'
    BY <1>0, <1>4, <1>5 DEF CloseInv, MainAsked
  <2>2. StartsAlone'
    BY DEF CloseInv, StartsAlone
  <2> QED
    BY <2>1, <2>2
<1>8. Unasked'
  <2> SUFFICES ASSUME NEW x \in Objects \ Excused' PROVE ClosedOnce(sock'[x])
    BY DEF Unasked, ClosedOnce
  <2> QED
    BY <1>3, <1>6a DEF CloseInv, Unasked, Idle, ClosedOnce
<1>9. StartsHome'
  <2> SUFFICES ASSUME NEW u \in IoThreads, at'[u] = "start", obj'[u] \notin Excused'
               PROVE  obj'[u] \in object_can' /\ sock'[obj'[u]].close = 0 /\ ~sock'[obj'[u]].started
    BY DEF StartsHome
  <2>1. at[u] = "start" /\ obj'[u] = obj[u] /\ obj[u] \in Objects /\ obj[u] # o /\ obj[u] \notin Excused
    BY <1>0, <1>5, <1>6a
  <2> QED
    BY <1>3, <1>4, <2>1 DEF CloseInv, StartsHome
<1>10. ClosedQuiet'
  <2> SUFFICES ASSUME NEW x \in Closed' \ Excused'
               PROVE  AtRest(x)' \/ \E u \in IoThreads : Resets(u, x)'
    BY Zenon DEF ClosedQuiet
  <2>1. x \in Objects /\ x \in Closed \ Excused /\ sock'[x] = sock[x]
    BY <1>2, <1>3, <1>6, <1>6a
  <2>2. CASE AtRest(x)
    <3>1. Starting(x)' => Starting(x)
      BY DEF Starting
    <3> QED
      BY <2>1, <2>2, <3>1 DEF AtRest, Quiet
  <2>3. ASSUME NEW u \in IoThreads, Resets(u, x)
        PROVE  Resets(u, x)'
    BY <1>0, <2>3 DEF Resets
  <2> QED
    BY <2>1, <2>2, <2>3, Zenon DEF CloseInv, ClosedQuiet
<1>11. ResetsClosed'
  <2> SUFFICES ASSUME NEW u \in IoThreads, at'[u] = "reset", obj'[u] \in Closed' \ Excused'
               PROVE  sock'[obj'[u]].close = 1 /\ ~sock'[obj'[u]].started
    BY DEF ResetsClosed
  <2>1. at[u] = "reset" /\ obj[u] = obj'[u] /\ obj[u] \in Closed \ Excused /\ sock'[obj[u]] = sock[obj[u]]
    BY <1>0, <1>2, <1>3, <1>6a
  <2> QED
    BY <2>1 DEF CloseInv, ResetsClosed
<1> QED
  BY <1>7, <1>8, <1>9, <1>10, <1>11 DEF CloseInv

\* A step of one socket that leaves its use as it is, or that the application
\* asked for.
LEMMA CloseSilent ==
    ASSUME TypeInv, LinkInv, CloseInv, NEW o \in Objects, NEW s, sock' = [sock EXCEPT ![o] = s],
           UNCHANGED pool, UNCHANGED thread, UNCHANGED ghost,
           o \in Excused \/ SameUse(sock[o], s)
    PROVE  CloseInv'
<1>0. Known
  BY LinkKnown, Zenon
<1>1. object_can' = object_can /\ Closed' = Closed /\ asked' = asked /\ outrun' = outrun /\ Excused' = Excused
  BY Zenon DEF pool, ghost, Closed, Excused
<1>2. sock'[o] = s /\ \A x \in Objects : x # o => sock'[x] = sock[x]
  BY <1>0 DEF Known
<1>3. \A x \in Objects \ Excused : SameUse(sock[x], sock'[x])
  BY <1>2 DEF SameUse
<1>4. \A x \in Objects \ Excused' : ClosedOnce(sock'[x])
  BY <1>1, <1>3 DEF CloseInv, Unasked, ClosedOnce, SameUse
<1>5. \A x \in Objects \ Excused' : sock'[x].close = sock[x].close /\ sock'[x].started = sock[x].started
  BY <1>1, <1>3 DEF SameUse
<1>6. Closed \subseteq Objects
  BY ClosedObjects
<1> QED
  BY <1>1, <1>3, <1>4, <1>5, <1>6, CloseFrame

\* A step of a link that is read or waits for timer 0.
LEMMA CloseTurn ==
    ASSUME TypeInv, LinkInv, CloseInv, NEW o \in Objects, NEW s, sock' = [sock EXCEPT ![o] = s],
           UNCHANGED pool, UNCHANGED thread, UNCHANGED ghost,
           ClosedOnce(sock[o]) => ClosedOnce(s),
           sock[o].read \in {"io", "ok", "err"} \/ sock[o].timer # "none"
    PROVE  CloseInv'
<1>0. Known
  BY LinkKnown, Zenon
<1>1. object_can' = object_can /\ Closed' = Closed /\ asked' = asked /\ outrun' = outrun /\ Excused' = Excused
  BY Zenon DEF pool, ghost, Closed, Excused
<1>2. sock'[o] = s /\ \A x \in Objects : x # o => sock'[x] = sock[x]
  BY <1>0 DEF Known
<1>3. o \notin Closed \ Excused /\ \A u \in IoThreads : at[u] = "start" => obj[u] # o
  BY <1>0, NoTurn DEF Known
<1>4. \A x \in Objects \ Excused' : ClosedOnce(sock'[x])
  BY <1>1, <1>2 DEF CloseInv, Unasked
<1>5. Closed \subseteq Objects
  BY ClosedObjects
<1>6. \A x \in Closed' \ Excused' : x \in Closed /\ SameUse(sock[x], sock'[x])
  BY <1>1, <1>2, <1>3, <1>5 DEF SameUse
<1> QED
  BY <1>1, <1>2, <1>3, <1>4, <1>6, CloseFrame

\* A handler of an io thread keeps CloseInv.
LEMMA CloseHandler ==
    ASSUME ENHANCED_STABILITY, TypeInv, HomeInv, LinkInv, CloseInv, NEW t \in IoThreads, Handler(t)
    PROVE  CloseInv'
<1>0. Known /\ Closed \subseteq Objects /\ t # main
  BY LinkKnown, ClosedObjects, ServerAssumption
<1> USE DEF Known
<1>1. ASSUME start(t) PROVE CloseInv'
  <2> PICK o \in Objects : o = obj[t]
    BY <1>0, <1>1 DEF start
  <2>1. o \in Objects /\ sock[o] \in Sockets /\ at[t] = "start"
    BY <1>0, <1>1 DEF start
  <2>2. PICK s \in Sockets, p \in {"next", "started"} :
          sock' = [sock EXCEPT ![o] = s] /\ at' = [at EXCEPT ![t] = p] /\ s.close = sock[o].close
    <3>1. CASE sock' = sock /\ at' = [at EXCEPT ![t] = "next"]
      <4>1. sock' = [sock EXCEPT ![o] = sock[o]]
        BY <1>0, <2>1, <3>1
      <4> QED
        BY <2>1, <3>1, <4>1, Zenon
    <3>2. CASE sock' = [sock EXCEPT ![o] = do_recv_msg(sock[o])] /\ at' = [at EXCEPT ![t] = "started"]
      <4>1. do_recv_msg(sock[o]) \in Sockets /\ do_recv_msg(sock[o]).close = sock[o].close
        BY <2>1, SocketCalls, RecvDoes, Zenon
      <4> QED
        BY <3>2, <4>1, Zenon
    <3> QED
      BY <1>1, <3>1, <3>2, Zenon DEF start
  <2>3. obj' = obj /\ object_can' = object_can /\ Closed' = Closed /\ UNCHANGED ghost
    BY <1>1, Zenon DEF start, pool, Closed
  <2>4. asked' = asked /\ outrun' = outrun /\ Excused' = Excused
    BY <2>3, Zenon DEF ghost, Excused
  <2>5. o \notin Excused => o \in object_can /\ sock[o].close = 0 /\ ~sock[o].started /\ o \notin Closed
    BY <2>1 DEF CloseInv, StartsHome, HomeInv
  <2>6. sock'[o] = s /\ (\A x \in Objects : x # o => sock'[x] = sock[x]) /\ Goes(t, p, o)
    BY <1>0, <2>1, <2>2, <2>3 DEF Goes
  <2>7. o \notin Excused' => ClosedOnce(sock'[o])
    BY <2>2, <2>4, <2>5, <2>6 DEF ClosedOnce
  <2>8. \A u \in Threads \ {t} : at[u] \in {"start", "started"} => obj[u] # o
    BY <1>0, <2>1 DEF CloseInv, StartsAlone
  <2>9. \A u \in IoThreads \ {t} : at[u] = "start" => obj[u] # o
    BY <1>0, <2>8
  <2> QED
    BY <1>0, <2>1, <2>2, <2>3, <2>4, <2>5, <2>6, <2>7, <2>8, <2>9, CloseMoves
<1>1a. ASSUME start_returns_true(t) PROVE CloseInv'
  <2> PICK o \in Objects : o = obj[t]
    BY <1>0, <1>1a DEF start_returns_true
  <2> DEFINE s == [sock[o] EXCEPT !.started = TRUE]
  <2>1. o \in Objects /\ sock[o] \in Sockets /\ at[t] = "started" /\ t \in Threads
    BY <1>0, <1>1a DEF start_returns_true
  <2>2. sock' = [sock EXCEPT ![o] = s] /\ at' = [at EXCEPT ![t] = "next"] /\ obj' = obj /\ object_can' = object_can
        /\ asked' = asked /\ Closed' = Closed
    BY <1>1a, Zenon DEF start_returns_true, pool, Closed
  <2>3. outrun \subseteq outrun' /\ (o \notin outrun' => sock[o].open)
    BY <1>1a DEF start_returns_true
  <2>4. o \notin Excused' => o \notin Excused /\ sock[o].open
    BY <2>2, <2>3 DEF Excused
  <2>5. s.close = sock[o].close /\ s.open = sock[o].open
    BY <2>1 DEF Sockets
  <2>6. o \notin Excused' => ClosedOnce(sock[o]) /\ ClosedOnce(s)
    BY <2>1, <2>4, <2>5 DEF CloseInv, Unasked, ClosedOnce
  <2> HIDE DEF s
  <2>7. sock'[o] = s /\ (\A x \in Objects : x # o => sock'[x] = sock[x]) /\ Goes(t, "next", o)
    BY <1>0, <2>1, <2>2 DEF Goes
  <2>8. \A u \in IoThreads \ {t} : at[u] = "start" => obj[u] # o
    BY <1>0, <2>1 DEF CloseInv, StartsAlone
  <2>9. ASSUME o \in Closed \ Excused'
        PROVE  /\ \E u \in IoThreads : Resets(u, o)'
               /\ \A u \in IoThreads : ~(at'[u] = "reset" /\ obj'[u] = o)
    <3>1. o \in Closed \ Excused /\ sock[o].open /\ sock[o].close # 1
      BY <2>4, <2>6, <2>9 DEF ClosedOnce
    <3>2. ~AtRest(o)
      BY <2>1, <3>1 DEF AtRest, Starting
    <3>3. PICK u \in IoThreads : Resets(u, o)
      BY <3>1, <3>2 DEF CloseInv, ClosedQuiet
    <3>4. u # t /\ u \in Threads
      BY <1>0, <2>1, <3>3 DEF Resets
    <3>5. Resets(u, o)'
      BY <2>7, <3>3, <3>4 DEF Resets, Goes
    <3>6. \A v \in IoThreads : ~(at[v] = "reset" /\ obj[v] = o)
      BY <3>1 DEF CloseInv, ResetsClosed
    <3>7. \A v \in IoThreads : ~(at'[v] = "reset" /\ obj'[v] = o)
      BY <1>0, <2>7, <3>6 DEF Goes
    <3> QED
      BY <3>5, <3>7
  <2> QED
    BY <1>0, <2>1, <2>2, <2>3, <2>6, <2>7, <2>8, <2>9, CloseMoves
<1>2. ASSUME accept_again(t) PROVE CloseInv'
  <2>1. /\ \A u \in Threads : at'[u] # "idle" => at'[u] = at[u] /\ obj'[u] = obj[u]
        /\ \A u \in Threads : at[u] \in {"close", "reset"} => at'[u] = at[u] /\ obj'[u] = obj[u]
    BY <1>0, <1>2 DEF accept_again
  <2> QED
    BY <1>2, <2>1, CloseCreates, Zenon DEF accept_again
<1>3. ASSUME push_closed(t) PROVE CloseInv'
  <2> PICK o \in Objects : o = obj[t]
    BY <1>0, <1>3 DEF push_closed
  <2>1. o \in Objects /\ at[t] = "push" /\ Ending(t)
    BY <1>0, <1>3 DEF push_closed, Ending
  <2>2. sock' = sock /\ at' = [at EXCEPT ![t] = "close"] /\ obj' = obj /\ object_can' = object_can /\ asked' = asked
    BY <1>3, Zenon DEF push_closed, ghost
  <2>3. Closed' = Closed \cup {o}
    BY <1>0, <1>3, PushedClosed
  <2>4. Goes(t, "close", o)
    BY <1>0, <2>2 DEF Goes
  <2>5. \A u \in IoThreads : at'[u] = "reset" => obj'[u] # o
    BY <1>0, <2>1, <2>2 DEF LinkInv, OneEnd, Ending
  <2>6. o \notin Excused => ClosedOnce(sock[o])
    BY <2>1 DEF CloseInv, Unasked
  <2>7. o \notin object_can
    BY <1>0, <2>1 DEF HomeInv
  <2>8. \A u \in IoThreads : at[u] = "start" /\ obj[u] = o => o \in Excused
    BY <2>7 DEF CloseInv, StartsHome
  <2>9. Resets(t, o)'
    BY <2>4 DEF Goes, Resets
  <2>10. asked' = asked /\ outrun' = outrun /\ Excused' = Excused
    BY <1>3, Zenon DEF push_closed, ghost, Excused
  <2> QED
    BY <1>0, <2>1, <2>2, <2>3, <2>4, <2>5, <2>6, <2>8, <2>9, <2>10, CloseMoves
<1>4. ASSUME del_client_closes(t) PROVE CloseInv'
  <2> PICK o \in Objects : o = obj[t]
    BY <1>0, <1>4 DEF del_client_closes
  <2> DEFINE s == force_close(sock[o])
  <2>1. o \in Objects /\ sock[o] \in Sockets /\ sock[o].read = "ending" /\ at[t] = "close"
    BY <1>0, <1>4 DEF del_client_closes, Ending
  <2>2. sock' = [sock EXCEPT ![o] = s] /\ at' = [at EXCEPT ![t] = "reset"] /\ obj' = obj
    BY <1>4, Zenon DEF del_client_closes
  <2>3. object_can' = object_can /\ Closed' = Closed /\ asked' = asked /\ outrun' = outrun /\ Excused' = Excused
    BY <1>4, Zenon DEF del_client_closes, pool, ghost, Closed, Excused
  <2>4. s.close = 1 /\ (o \notin Excused => ~s.started /\ ~s.open)
    <3>1. \/ s = sock[o] /\ sock[o].close = 1
          \/ Cleaned(sock[o], s)
      BY <2>1, ForceCloseDoes, Zenon
    <3>2. o \notin Excused => ClosedOnce(sock[o])
      BY <2>1 DEF CloseInv, Unasked
    <3> QED
      BY <3>1, <3>2 DEF Cleaned, ClosedOnce
  <2> HIDE DEF s
  <2>5. sock'[o] = s /\ (\A x \in Objects : x # o => sock'[x] = sock[x]) /\ Goes(t, "reset", o)
    BY <1>0, <2>1, <2>2 DEF Goes
  <2>6. Resets(t, o)'
    BY <2>5 DEF Goes, Resets
  <2>7. \A u \in IoThreads : at[u] = "start" => obj[u] # o
    BY <1>0, <2>1
  <2>8. o \notin Excused' => ClosedOnce(sock'[o])
    BY <2>3, <2>4, <2>5 DEF ClosedOnce
  <2> QED
    BY <1>0, <2>1, <2>3, <2>4, <2>5, <2>6, <2>7, <2>8, CloseMoves
<1>5. ASSUME end_recv_error(t) PROVE CloseInv'
  <2> PICK o \in Objects : o = obj[t]
    BY <1>0, <1>5 DEF end_recv_error
  <2>1. o \in Objects /\ sock[o].read = "ending" /\ Ending(t) /\ sock[o].timer = "none" /\ at[t] = "reset"
    BY <1>0, <1>5 DEF end_recv_error, Ending, ChainOK
  <2>2. /\ sock'[o].close = 0 /\ sock'[o].read = "none" /\ sock'[o].timer = "none"
        /\ sock'[o].started = sock[o].started /\ sock'[o].open = sock[o].open
        /\ \A x \in Objects : x # o => sock'[x] = sock[x]
    BY <1>0, <1>5, <2>1 DEF end_recv_error, Sockets
  <2>3. at' = [at EXCEPT ![t] = "idle"] /\ obj' = [obj EXCEPT ![t] = NoObject]
    BY <1>5, Zenon DEF end_recv_error
  <2>4. object_can' = object_can /\ Closed' = Closed /\ asked' = asked /\ outrun' = outrun /\ Excused' = Excused
    BY <1>5, Zenon DEF end_recv_error, pool, ghost, Closed, Excused
  <2>5. Goes(t, "idle", NoObject)
    BY <1>0, <2>3 DEF Goes
  <2>6. o \in Closed \ Excused => AtRest(o)'
    BY <2>1, <2>2 DEF CloseInv, Unasked, ClosedOnce, ResetsClosed, AtRest, Quiet
  <2>7. \A u \in IoThreads : at'[u] = "reset" => obj'[u] # o
    BY <1>0, <2>1, <2>3 DEF LinkInv, OneEnd, Ending
  <2>8. \A u \in IoThreads : at[u] = "start" => obj[u] # o
    BY <1>0, <2>1
  <2>9. ClosedOnce(sock'[o])
    BY <2>2 DEF ClosedOnce
  <2> QED
    BY <1>0, <2>1, <2>2, <2>4, <2>5, <2>6, <2>7, <2>8, <2>9, CloseMoves
<1>6. ASSUME NEW o \in Objects, accept_handler(t, o) PROVE CloseInv'
  <2>1. accept[o] # "none" /\ Idle(sock[o]) /\ at[t] = "idle" /\ sock[o] \in Sockets
    BY <1>0, <1>6 DEF accept_handler, Free
  <2>2. /\ obj' = [obj EXCEPT ![t] = o] /\ Closed' = Closed /\ asked' = asked
        /\ outrun' = outrun /\ Excused' = Excused
    BY <1>6, Zenon DEF accept_handler, ghost, Closed, Excused
  <2>3. \A u \in Threads : at[u] # "idle" => obj[u] # o
    BY <1>0, <2>1
  <2>4. \A u \in IoThreads : at[u] = "start" => obj[u] # o
    BY <1>0, <2>3
  <2>5. o \notin Closed
    BY <2>1 DEF HomeInv
  <2>6. CASE sock' = sock /\ at' = [at EXCEPT ![t] = "start"] /\ object_can' = object_can \cup {o}
    <3>1. Goes(t, "start", o)
      BY <1>0, <2>1, <2>2, <2>6 DEF Goes
    <3>2. sock[o].close = 0 /\ ~sock[o].started /\ ClosedOnce(sock[o])
      BY <2>1 DEF Idle, ClosedOnce
    <3> QED
      BY <1>0, <2>1, <2>2, <2>3, <2>4, <2>5, <2>6, <3>1, <3>2, CloseMoves
  <2>7. CASE /\ sock' = [sock EXCEPT ![o] = clean_up(sock[o])] /\ at' = [at EXCEPT ![t] = "next"]
             /\ object_can' = object_can
    <3>1. ClosedOnce(clean_up(sock[o]))
      BY <2>1, CleanUpDoes DEF Cleaned, ClosedOnce
    <3>2. Goes(t, "next", o)
      BY <1>0, <2>1, <2>2, <2>7 DEF Goes
    <3>3. sock'[o] = clean_up(sock[o]) /\ \A x \in Objects : x # o => sock'[x] = sock[x]
      BY <1>0, <2>7
    <3> QED
      BY <1>0, <2>1, <2>2, <2>4, <2>5, <2>7, <3>1, <3>2, <3>3, CloseMoves
  <2> QED
    BY <1>6, <2>6, <2>7, Zenon DEF accept_handler
<1>7. ASSUME NEW o \in Objects, accept_error(t, o) PROVE CloseInv'
  <2>1. /\ sock' = sock /\ UNCHANGED thread /\ object_can' = object_can /\ Closed' = Closed
        /\ asked' = asked /\ outrun' = outrun /\ Excused' = Excused
    BY <1>7, Zenon DEF accept_error, pool, ghost, Closed, Excused
  <2>2. \A x \in Objects : SameUse(sock[x], sock'[x])
    BY <2>1 DEF SameUse
  <2> QED
    BY <1>0, <2>1, <2>2, CloseFrame DEF CloseInv, Unasked
<1>8. ASSUME NEW o \in Objects, on_recv_error(t, o) PROVE CloseInv'
  <2>1. sock[o].read = "err" /\ at[t] = "idle"
    BY <1>0, <1>8 DEF on_recv_error, Free
  <2>2. /\ sock'[o].started = sock[o].started /\ sock'[o].close = sock[o].close
        /\ sock'[o].open = sock[o].open
        /\ \A x \in Objects : x # o => sock'[x] = sock[x]
    BY <1>0, <1>8, <2>1 DEF on_recv_error, Sockets
  <2>3. /\ object_can' = object_can \ {o} /\ obj' = [obj EXCEPT ![t] = o] /\ Closed' = Closed
        /\ asked' = asked /\ outrun' = outrun /\ Excused' = Excused
    BY <1>8, Zenon DEF on_recv_error, ghost, erase, Closed, Excused
  <2>4. PICK p \in {"push", "reset"} : at' = [at EXCEPT ![t] = p]
    BY <1>8, Zenon DEF on_recv_error
  <2>5. Goes(t, p, o) /\ p \notin {"idle", "start", "started"}
    BY <1>0, <2>3, <2>4 DEF Goes
  <2>6. o \notin Closed \ Excused /\ \A u \in IoThreads : at[u] = "start" => obj[u] # o
    BY <1>0, <2>1, NoTurn
  <2>7. o \notin Excused' => ClosedOnce(sock'[o])
    BY <2>2, <2>3 DEF CloseInv, Unasked, ClosedOnce
  <2> QED
    BY <1>0, <2>1, <2>2, <2>3, <2>5, <2>6, <2>7, CloseMoves
<1>9. ASSUME NEW o \in Objects, recv_handler(t, o) PROVE CloseInv'
  <2> DEFINE s == [sock[o] EXCEPT !.read = "none"]
  <2>1. sock[o] \in Sockets /\ sock[o].read = "ok"
    BY <1>0, <1>9 DEF recv_handler
  <2>2. UNCHANGED pool /\ UNCHANGED thread /\ UNCHANGED ghost
    BY <1>9, Zenon DEF recv_handler
  <2>3. s \in Sockets /\ s.started = sock[o].started /\ s.close = sock[o].close /\ s.open = sock[o].open
    <3>1. s \in Sockets
      BY <2>1, OneField DEF ReadPhases
    <3> QED
      BY <2>1, <3>1 DEF Sockets
  <2>4. /\ \/ \E r \in dispatch_msg(s) : sock' = [sock EXCEPT ![o] = r]
           \/ \E r \in dispatch_msg(s) \cup {do_recv_msg(s)} : sock' = [sock EXCEPT ![o] = force_close(r)]
    BY <1>9, Zenon DEF recv_handler
  <2> HIDE DEF s
  <2>5. \A r \in dispatch_msg(s) \cup {do_recv_msg(s)} :
           r \in Sockets /\ r.started = s.started /\ r.close = s.close /\ r.open = s.open
    <3>1. \A r \in dispatch_msg(s) : r \in Sockets /\ r.started = s.started /\ r.close = s.close /\ r.open = s.open
      BY <2>3, DispatchedSocket, DispatchMsgDoes, Zenon
    <3>2. do_recv_msg(s) \in Sockets /\ \A r \in {do_recv_msg(s)} :
             r.started = s.started /\ r.close = s.close /\ r.open = s.open
      BY <2>3, SocketCalls, RecvDoes, Zenon
    <3> QED
      BY <3>1, <3>2
  <2>6. PICK r \in dispatch_msg(s) \cup {do_recv_msg(s)} :
           sock' = [sock EXCEPT ![o] = r] \/ sock' = [sock EXCEPT ![o] = force_close(r)]
    BY <2>4
  <2>7. r \in Sockets /\ (ClosedOnce(sock[o]) => ClosedOnce(r))
    BY <2>3, <2>5, <2>6 DEF ClosedOnce
  <2>8. ClosedOnce(sock[o]) => ClosedOnce(force_close(r))
    BY <2>7, ForceCloseDoes DEF ClosedOnce, Cleaned
  <2> QED
    BY <2>1, <2>2, <2>6, <2>7, <2>8, CloseTurn
<1>10. ASSUME NEW o \in Objects, on_timer_0(t, o) PROVE CloseInv'
  <2> DEFINE s == [sock[o] EXCEPT !.timer = "none"]
  <2>1. sock[o] \in Sockets /\ sock[o].timer # "none"
    BY <1>0, <1>10 DEF on_timer_0
  <2>2. s \in Sockets /\ s.started = sock[o].started /\ s.close = sock[o].close /\ s.open = sock[o].open
    <3>1. s \in Sockets
      BY <2>1, OneField
    <3> QED
      BY <2>1, <3>1 DEF Sockets
  <2>3. /\ \E r \in dispatch_msg(s) : sock' = [sock EXCEPT ![o] = r]
        /\ UNCHANGED pool /\ UNCHANGED thread /\ UNCHANGED ghost
    BY <1>10, Zenon DEF on_timer_0
  <2> HIDE DEF s
  <2>4. PICK r \in dispatch_msg(s) : sock' = [sock EXCEPT ![o] = r]
    BY <2>3, Zenon
  <2>5. ClosedOnce(sock[o]) => ClosedOnce(r)
    BY <2>1, <2>2, DispatchMsgDoes DEF ClosedOnce
  <2> QED
    BY <2>1, <2>3, <2>4, <2>5, CloseTurn
<1>11. ASSUME NEW o \in Objects, msg_handler(t, o) PROVE CloseInv'
  <2> DEFINE s == [sock[o] EXCEPT !.posted = @ - 1, !.dispatching = FALSE]
             r == [s EXCEPT !.recv = @ + 1, !.redo = TRUE]
  <2>1. SameUse(sock[o], s) /\ SameUse(sock[o], r)
    BY <1>0 DEF SameUse, Sockets
  <2>2. s \in Sockets
    <3> DEFINE s1 == [sock[o] EXCEPT !.posted = @ - 1]
               s2 == [s1 EXCEPT !.dispatching = FALSE]
    <3>1. sock[o].posted - 1 \in Nat /\ FALSE \in BOOLEAN /\ sock[o] \in Sockets
      BY <1>0, <1>11 DEF msg_handler, Sockets
    <3>2. s2 = s
      BY <3>1 DEF Sockets
    <3>3. s1 \in Sockets
      BY <3>1, OneField, Zenon
    <3> HIDE DEF s1
    <3>4. s2 \in Sockets
      BY <3>1, <3>3, OneField, Zenon
    <3> QED
      BY <3>2, <3>4
  <2>3. sock' = [sock EXCEPT ![o] = do_dispatch_msg(do_send_msg(s))] \/ sock' = [sock EXCEPT ![o] = r]
    BY <1>11, Zenon DEF msg_handler
  <2> HIDE DEF s, r
  <2>4. SameUse(sock[o], do_dispatch_msg(do_send_msg(s)))
    <3>1. do_send_msg(s) \in Sockets /\ SameLink(s, do_send_msg(s))
      BY <2>2, SocketCalls, SendDoes, Zenon
    <3> QED
      BY <2>1, <3>1, DispatchDoes, Zenon DEF SameUse, SameLink
  <2>5. UNCHANGED pool /\ UNCHANGED thread /\ UNCHANGED ghost
    BY <1>11, Zenon DEF msg_handler
  <2> QED
    BY <2>1, <2>3, <2>4, <2>5, CloseSilent
<1>12. ASSUME NEW o \in Objects, send_handler(t, o) PROVE CloseInv'
  <2> DEFINE s == [sock[o] EXCEPT !.write = "none"]
  <2>1. SameUse(sock[o], s)
    BY <1>0 DEF SameUse, Sockets
  <2>2. sock' = [sock EXCEPT ![o] = s] /\ UNCHANGED pool /\ UNCHANGED thread /\ UNCHANGED ghost
    BY <1>12, Zenon DEF send_handler
  <2> HIDE DEF s
  <2> QED
    BY <2>1, <2>2, CloseSilent
<1>13. ASSUME NEW o \in Objects, on_timer_3(t, o) PROVE CloseInv'
  <2> DEFINE s == [sock[o] EXCEPT !.redo = FALSE]
  <2>1. s \in Sockets
    BY <1>0, OneField
  <2>2. SameUse(sock[o], s)
    BY <1>0 DEF SameUse, Sockets
  <2>3. sock' = [sock EXCEPT ![o] = do_dispatch_msg(s)] /\ UNCHANGED pool /\ UNCHANGED thread /\ UNCHANGED ghost
    BY <1>13, Zenon DEF on_timer_3
  <2> HIDE DEF s
  <2>4. SameUse(sock[o], do_dispatch_msg(s))
    BY <2>1, <2>2, DispatchDoes, Zenon DEF SameUse, SameLink
  <2> QED
    BY <2>3, <2>4, CloseSilent
<1>14. ASSUME NEW o \in Objects, on_timer_10(t, o) PROVE CloseInv'
  <2> DEFINE s == [sock[o] EXCEPT !.linger = FALSE]
             r == IF s.close = 2 THEN force_close(s) ELSE s
  <2>1. SameUse(sock[o], s)
    BY <1>0 DEF SameUse, Sockets
  <2>2. sock' = [sock EXCEPT ![o] = r] /\ UNCHANGED pool /\ UNCHANGED thread /\ UNCHANGED ghost
    BY <1>14, Zenon DEF on_timer_10
  <2> HIDE DEF s
  <2>3. s.close # 2 => r = s
    OBVIOUS
  <2>4. o \in Excused \/ SameUse(sock[o], r)
    BY <2>1, <2>3 DEF CloseInv, Unasked, ClosedOnce, SameUse
  <2> HIDE DEF r
  <2> QED
    BY <2>2, <2>4, CloseSilent
<1> QED
  BY <1>1, <1>2, <1>3, <1>4, <1>5, <1>6, <1>7, <1>8, <1>9, <1>10, <1>11, <1>12, <1>13, <1>14, <1>1a, Zenon DEF Handler

\* The application closes what it asked for.
LEMMA CloseMain ==
    ASSUME TypeInv, LinkInv, CloseInv, NEW p, NEW q, at[main] # "idle",
           \A x \in Objects : x # obj[main] => sock'[x] = sock[x],
           Goes(main, p, q), p \notin {"start", "started", "reset"}, p # "idle" => q = obj[main],
           object_can' = object_can, asked' = asked, outrun' = outrun,
           Closed' \subseteq Closed \cup {obj[main]}
    PROVE  CloseInv'
<1>0. Known /\ Closed \subseteq Objects
  BY LinkKnown, ClosedObjects
<1> DEFINE o == obj[main]
<1>1. o \in Objects /\ o \in asked' /\ o \in Excused' /\ main \in Threads
  BY <1>0 DEF Known, CloseInv, MainAsked, Excused
<1>2. Closed' \subseteq Objects /\ \A x \in Objects : x # o /\ x \in Closed' => x \in Closed
  BY <1>0, <1>1
<1> HIDE DEF o
<1>3. obj[main] = o /\ \A x \in Objects : x # o => sock'[x] = sock[x]
  BY DEF o
<1> QED
  BY <1>1, <1>2, <1>3, CloseMoves

\* Every step keeps CloseInv.
LEMMA CloseStep ==
    ASSUME ENHANCED_STABILITY
    PROVE  TypeInv /\ HomeInv /\ LinkInv /\ CloseInv /\ [Next]_vars => CloseInv'
<1> SUFFICES ASSUME TypeInv, HomeInv, LinkInv, CloseInv, [Next]_vars PROVE CloseInv'
  OBVIOUS
<1>0. Known /\ Closed \subseteq Objects
  BY LinkKnown, ClosedObjects
<1> USE DEF Known
<1>1. ASSUME UNCHANGED pool, UNCHANGED sock, UNCHANGED thread, UNCHANGED ghost PROVE CloseInv'
  <2>1. /\ sock' = sock /\ object_can' = object_can /\ Closed' = Closed
        /\ asked' = asked /\ outrun' = outrun /\ Excused' = Excused
    BY <1>1, Zenon DEF pool, ghost, Closed, Excused
  <2>2. \A x \in Objects : SameUse(sock[x], sock'[x])
    BY <2>1 DEF SameUse
  <2> QED
    BY <1>0, <1>1, <2>1, <2>2, CloseFrame DEF CloseInv, Unasked
<1>2. CASE pump_step /\ UNCHANGED server
  BY <1>1, <1>2, Zenon DEF server
<1>3. CASE pump_call
  BY <1>1, <1>3, Zenon DEF pump_call
<1>4. ASSUME NEW ok \in BOOLEAN, init(ok) PROVE CloseInv'
  <2>0. at' = at /\ obj' = obj /\ object_can' = object_can
    BY <1>4, Zenon DEF init, thread
  <2>1. CASE create_and_accept("listening")
    BY <2>0, <2>1, CloseCreates, Zenon
  <2>2. CASE UNCHANGED <<accept, temp_object_can, sock, asked, late, outrun>>
    <3>1. /\ sock' = sock /\ object_can' = object_can /\ Closed' = Closed /\ UNCHANGED thread
          /\ asked' = asked /\ outrun' = outrun /\ Excused' = Excused
      BY <2>0, <2>2, Zenon DEF thread, Closed, Excused
    <3>2. \A x \in Objects : SameUse(sock[x], sock'[x])
      BY <3>1 DEF SameUse
    <3> QED
      BY <1>0, <3>1, <3>2, CloseFrame DEF CloseInv, Unasked
  <2> QED
    BY <1>4, <2>1, <2>2, Zenon DEF init
<1>5. CASE uninit_stop
  BY <1>1, <1>5, Zenon DEF uninit_stop
<1>6. CASE close_all_client
  <2>1. \A x \in Objects \ object_can : sock'[x] = sock[x]
    BY <1>6 DEF close_all_client
  <2>2. /\ UNCHANGED thread /\ object_can' = object_can /\ Closed' = Closed
        /\ asked' = asked \cup object_can /\ outrun' = outrun
    BY <1>6, Zenon DEF close_all_client, pool, Closed
  <2>5. Excused' = Excused \cup object_can
    BY <2>2 DEF Excused
  <2>3. \A x \in Objects \ Excused' : SameUse(sock[x], sock'[x]) /\ ClosedOnce(sock'[x])
    BY <2>1, <2>5 DEF SameUse, CloseInv, Unasked
  <2>4. \A x \in Objects \ Excused' : sock'[x].close = sock[x].close /\ sock'[x].started = sock[x].started
    BY <2>3 DEF SameUse
  <2> QED
    BY <1>0, <2>2, <2>3, <2>4, <2>5, CloseFrame
<1>7. CASE push_closed(main)
  <2>1. /\ sock' = sock /\ at' = [at EXCEPT ![main] = "close"] /\ obj' = obj /\ object_can' = object_can
        /\ asked' = asked /\ outrun' = outrun
    BY <1>7, Zenon DEF push_closed, ghost
  <2>2. Closed' = Closed \cup {obj[main]} /\ at[main] # "idle"
    BY <1>0, <1>7, PushedClosed DEF push_closed
  <2>3. Goes(main, "close", obj[main])
    BY <1>0, <2>1 DEF Goes
  <2> QED
    BY <2>1, <2>2, <2>3, CloseMain
<1>8. CASE client_closed
  <2>1. object_can' = object_can /\ Closed' = Closed /\ asked' = asked /\ outrun' = outrun /\ at[main] # "idle"
    BY <1>8, Zenon DEF client_closed, pool, ghost, Closed
  <2>2. \A x \in Objects : x # obj[main] => sock'[x] = sock[x]
    <3>1. \E s : sock' = [sock EXCEPT ![obj[main]] = s]
      BY <1>8, Zenon DEF client_closed
    <3> QED
      BY <1>0, <3>1
  <2>3. \/ Goes(main, "idle", NoObject)
        \/ Goes(main, "linger", obj[main])
    <3>1. \/ at' = [at EXCEPT ![main] = "idle"] /\ obj' = [obj EXCEPT ![main] = NoObject]
          \/ at' = [at EXCEPT ![main] = "linger"] /\ obj' = obj
      BY <1>8, Zenon DEF client_closed
    <3> QED
      BY <1>0, <3>1 DEF Goes
  <2> QED
    BY <2>1, <2>2, <2>3, CloseMain
<1>9. CASE linger_ends
  <2>1. object_can' = object_can /\ Closed' = Closed /\ asked' = asked /\ outrun' = outrun /\ at[main] # "idle"
    BY <1>9, Zenon DEF linger_ends, pool, ghost, Closed
  <2>2. \A x \in Objects : x # obj[main] => sock'[x] = sock[x]
    BY <1>0, <1>9 DEF linger_ends
  <2>3. Goes(main, "idle", NoObject)
    BY <1>0, <1>9 DEF linger_ends, Goes
  <2> QED
    BY <2>1, <2>2, <2>3, CloseMain
<1>10. CASE free_object
  <2>1. Closed' \subseteq Closed
    BY <1>10, FreedClosed, Zenon
  <2>2. /\ sock' = sock /\ UNCHANGED thread /\ object_can' = object_can
        /\ asked' = asked /\ outrun' = outrun /\ Excused' = Excused
    BY <1>10, Zenon DEF free_object, ghost, Excused
  <2>3. \A x \in Objects : SameUse(sock[x], sock'[x])
    BY <2>2 DEF SameUse
  <2> QED
    BY <1>0, <2>1, <2>2, <2>3, CloseFrame DEF CloseInv, Unasked
<1>11. CASE clear_all_closed_object
  <2> DEFINE idle == {o \in object_can : Reusable(o)}
  <2>1. object_can' = object_can \ idle /\ Closed' \subseteq Closed \cup idle
    BY <1>11, ClearedClosed, Zenon
  <2>2. sock' = sock /\ UNCHANGED thread /\ asked' = asked /\ outrun' = outrun /\ Excused' = Excused
    BY <1>11, Zenon DEF clear_all_closed_object, ghost, Excused
  <2>3. object_can \subseteq Objects
    BY FrameTypes DEF PoolOK
  <2>4. \A x \in idle : Unique(x) /\ Quiet(sock[x])
    BY <1>0, <2>3 DEF Reusable, obsoleted, Quiet, ChainOK, Starting, Unique
  <2> HIDE DEF idle
  <2>5. \A x \in idle, u \in IoThreads : obj[u] # x
    BY <1>0, <2>4 DEF Unique
  <2>6. \A x \in Objects : SameUse(sock[x], sock'[x])
    BY <2>2 DEF SameUse
  <2>7. \A x \in Closed' \ Excused' : \/ x \in Closed /\ SameUse(sock[x], sock'[x])
                                      \/ Quiet(sock'[x]) /\ Unique(x)
    BY <1>0, <2>1, <2>2, <2>4, <2>6
  <2>8. \A x \in Objects \ Excused' : ClosedOnce(sock'[x])
    BY <2>2 DEF CloseInv, Unasked
  <2> QED
    BY <2>1, <2>2, <2>5, <2>7, <2>8, CloseFrame
<1>12. ASSUME NEW o \in Objects, close_client(o) PROVE CloseInv'
  <2>1. /\ sock' = sock /\ at' = [at EXCEPT ![main] = "push"] /\ obj' = [obj EXCEPT ![main] = o]
        /\ object_can' = object_can \ {o} /\ Closed' = Closed /\ asked' = asked \cup {o}
        /\ outrun' = outrun /\ at[main] = "idle"
    BY <1>12, Zenon DEF close_client, erase, Closed
  <2>2. Goes(main, "push", o) /\ main \in Threads
    BY <1>0, <2>1 DEF Goes
  <2>3. o \in Excused' /\ o \in asked'
    BY <2>1 DEF Excused
  <2> QED
    BY <1>0, <2>1, <2>2, <2>3, CloseMoves
<1>13. ASSUME NEW o \in Objects, connect(o) PROVE CloseInv'
  <2>1. accept[o] # "none" /\ Idle(sock[o]) /\ o \notin Closed
    BY <1>0, <1>13 DEF connect, HomeInv
  <2>2. sock'[o].close = 0 /\ \A x \in Objects : x # o => sock'[x] = sock[x]
    BY <1>0, <1>13, <2>1 DEF connect, Idle, Sockets
  <2>3. UNCHANGED pool /\ UNCHANGED thread /\ UNCHANGED ghost
    BY <1>13, Zenon DEF connect
  <2>4. object_can' = object_can /\ Closed' = Closed /\ asked' = asked /\ outrun' = outrun /\ Excused' = Excused
    BY <2>3, Zenon DEF pool, ghost, Closed, Excused
  <2>5. \A u \in Threads : at[u] = "start" => obj[u] # o
    BY <1>0, <2>1
  <2>6. \A x \in Objects \ Excused' : ClosedOnce(sock'[x])
    BY <2>2, <2>4 DEF CloseInv, Unasked, ClosedOnce
  <2>7. \A x \in Closed : sock'[x] = sock[x] /\ SameUse(sock[x], sock'[x])
    BY <1>0, <2>1, <2>2 DEF SameUse
  <2> QED
    BY <1>0, <2>2, <2>3, <2>4, <2>5, <2>6, <2>7, CloseFrame
<1>14. ASSUME NEW o \in Objects, accept_fails(o) PROVE CloseInv'
  BY <1>1, <1>14, Zenon DEF accept_fails
<1>15. ASSUME NEW o \in Objects, read_completes(o) PROVE CloseInv'
  <2>1. sock[o] \in Sockets /\ sock[o].read = "io"
    BY <1>0, <1>15 DEF read_completes
  <2>2. /\ ClosedOnce(sock[o]) => ClosedOnce([sock[o] EXCEPT !.read = "ok"])
        /\ ClosedOnce(sock[o]) => ClosedOnce([sock[o] EXCEPT !.read = "err"])
    BY <2>1 DEF ClosedOnce, Sockets
  <2>3. PICK s : sock' = [sock EXCEPT ![o] = s] /\ (ClosedOnce(sock[o]) => ClosedOnce(s))
    BY <1>15, <2>2, Zenon DEF read_completes
  <2>4. UNCHANGED pool /\ UNCHANGED thread /\ UNCHANGED ghost
    BY <1>15, Zenon DEF read_completes
  <2> QED
    BY <2>1, <2>3, <2>4, CloseTurn
<1>16. ASSUME NEW o \in Objects, write_completes(o) PROVE CloseInv'
  <2> DEFINE s == [sock[o] EXCEPT !.write = "queued"]
  <2>1. SameUse(sock[o], s)
    BY <1>0 DEF SameUse, Sockets
  <2>2. sock' = [sock EXCEPT ![o] = s] /\ UNCHANGED pool /\ UNCHANGED thread /\ UNCHANGED ghost
    BY <1>16, Zenon DEF write_completes
  <2> HIDE DEF s
  <2> QED
    BY <2>1, <2>2, CloseSilent
<1>17. ASSUME NEW o \in Objects, timer_expires(o) PROVE CloseInv'
  <2> DEFINE s == [sock[o] EXCEPT !.timer = "queued"]
  <2>1. sock[o] \in Sockets /\ sock[o].timer # "none"
    BY <1>0, <1>17 DEF timer_expires
  <2>2. ClosedOnce(sock[o]) => ClosedOnce(s)
    BY <2>1 DEF ClosedOnce, Sockets
  <2>3. sock' = [sock EXCEPT ![o] = s] /\ UNCHANGED pool /\ UNCHANGED thread /\ UNCHANGED ghost
    BY <1>17, Zenon DEF timer_expires
  <2> HIDE DEF s
  <2> QED
    BY <2>1, <2>2, <2>3, CloseTurn
<1>18. CASE UNCHANGED vars
  BY <1>1, <1>18, Zenon DEF vars, server
<1>19. CASE Next
  BY <1>19, <1>2, <1>3, <1>4, <1>5, <1>6, <1>7, <1>8, <1>9, <1>10, <1>11, <1>12, <1>13, <1>14, <1>15, <1>16, <1>17,
     CloseHandler, Zenon DEF Next
<1> QED
  BY <1>18, <1>19

\* A link that its client ended is reclaimed or stranded, with ENHANCED_STABILITY,
\* for any number of sockets and io threads: the on_recv_error of the link is
\* the only one to close it, and it resets close_state in the end.  What the
\* application closed is left out, and so is a link that was cleaned up before
\* start() set started_, as any io thread may do while another is in start().
THEOREM PeerCloseIsReclaimedHolds ==
    ASSUME ENHANCED_STABILITY
    PROVE  Spec => []PeerCloseIsReclaimed
<1>1. Init => CloseInv
  <2> SUFFICES ASSUME Init PROVE CloseInv
    OBVIOUS
  <2>1. \A o \in Objects : sock[o] = NewSocket
    BY DEF Init
  <2>2. (\A t \in Threads : at[t] = "idle") /\ (\A t \in IoThreads : at[t] = "idle") /\ at[main] = "idle"
    BY DEF Init, Threads
  <2>3. ClosedOnce(NewSocket)
    BY DEF NewSocket, ClosedOnce
  <2>4. Closed = {}
    BY DEF Init, Closed, Range
  <2> QED
    BY <2>1, <2>2, <2>3, <2>4 DEF CloseInv, MainAsked, Unasked, StartsHome, StartsAlone, ClosedQuiet, ResetsClosed
<1>2. TypeInv /\ HomeInv /\ LinkInv /\ CloseInv /\ [Next]_vars => CloseInv'
  BY CloseStep
<1>3. TypeInv /\ CloseInv => PeerCloseIsReclaimed
  <2> SUFFICES ASSUME TypeInv, CloseInv, NEW o \in Closed \ Excused,
                      Unique(o), sock[o].read = "none", sock[o].write = "none", sock[o].posted = 0, ~sock[o].redo
               PROVE  obsoleted(o) \/ Stranded(o)
    BY Zenon DEF PeerCloseIsReclaimed, Excused
  <2>1. \A t \in IoThreads : ~Resets(t, o)
    BY DEF Unique, Resets, Threads
  <2>2. Quiet(sock[o])
    BY <2>1, Zenon DEF CloseInv, ClosedQuiet, AtRest
  <2>3. sock[o].recv \in Nat
    <3>1. sock[o] \in Sockets
      BY ClosedObjects, FrameTypes
    <3> QED
      BY <3>1 DEF Sockets
  <2> QED
    BY <2>2, <2>3 DEF Quiet, obsoleted, Stranded
<1> QED
  BY <1>1, <1>2, <1>3, Typed, AtHome, LinkHolds, PTL DEF Spec
=============================================================================
