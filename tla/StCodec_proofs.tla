--------------------------- MODULE StCodec_proofs ---------------------------
(***************************************************************************)
(* What holds of the packers and the unpackers for every width of a byte,  *)
(* of a head and of a size_t, every buffer size, prefix and suffix, and    *)
(* however the network cuts the stream.                                    *)
(*                                                                         *)
(* The loops of the code are recursive functions of the number of turns.   *)
(* Induction over that number rests on one fact, that a set of natural     *)
(* numbers that is not empty has a least element.                          *)
(***************************************************************************)
EXTENDS StCodec, SequenceTheorems, WellFoundedInduction, TLAPS

-----------------------------------------------------------------------------
(* Induction over the turns of a loop. *)

\* The order of the natural numbers is well-founded.
LEMMA LeastNumber ==
    ASSUME NEW T \in SUBSET Nat, T # {}
    PROVE  \E n \in T : \A m \in T : n <= m
<1> DEFINE R == OpToRel(<, Nat)
<1>1. \A x, y \in Nat : <<x, y>> \in R <=> x < y
  BY DEF OpToRel
<1>2. IsWellFoundedOn(R, Nat)
  BY NatLessThanWellFounded, Zenon
<1> HIDE DEF R
<1>3. PICK n \in T : \A m \in T : ~(<<m, n>> \in R)
  BY <1>2, WFMin, Zenon
<1>4. ASSUME NEW m \in T PROVE n <= m
  <2>1. m \in Nat /\ n \in Nat /\ ~(<<m, n>> \in R)
    BY <1>3
  <2>2. ~(m < n)
    BY <1>1, <2>1, Zenon
  <2> QED
    BY <2>1, <2>2
<1> QED
  BY <1>4, Zenon

\* Induction, for a property given as the set of the numbers that have it.
LEMMA Induction ==
    ASSUME NEW P, 0 \in P, \A n \in Nat : n \in P => n + 1 \in P
    PROVE  \A n \in Nat : n \in P
<1> DEFINE Others == {n \in Nat : n \notin P}
<1>1. Others = {}
  <2> SUFFICES ASSUME Others # {} PROVE FALSE
    OBVIOUS
  <2>1. PICK n \in Others : \A m \in Others : n <= m
    <3>1. Others \in SUBSET Nat
      OBVIOUS
    <3> QED
      BY <3>1, LeastNumber, Zenon
  <2>2. n # 0 /\ n \in Nat
    OBVIOUS
  <2>3. n - 1 \in Nat /\ n - 1 \notin Others
    BY <2>1, <2>2
  <2>4. n - 1 \in P
    BY <2>3
  <2>5. (n - 1) + 1 \in P
    BY <2>3, <2>4
  <2>6. n \in P
    BY <2>2, <2>5
  <2> QED
    BY <2>6
<1> QED
  BY <1>1

\* What Turns stands for: the function that the loop defines exists.
LEMMA TurnsAre ==
    ASSUME NEW turn, NEW start
    PROVE  /\ Turns(turn, start, 0) = start
           /\ \A n \in Nat : Turns(turn, start, n + 1) = turn[Turns(turn, start, n)]
<1> DEFINE Is(f, n) == f = [i \in 0..n |-> IF i = 0 THEN start ELSE turn[f[i - 1]]]
           Made == {n \in Nat : \E f : Is(f, n)}
           loop(n) == CHOOSE f : Is(f, n)
           Same == {n \in Nat : \A k \in Nat : loop(n + k)[n] = loop(n)[n]}
<1>1. \A n \in Nat : n \in Made
  <2>1. Is([i \in 0..0 |-> start], 0)
    OBVIOUS
  <2>2. ASSUME NEW n \in Nat, n \in Made PROVE n + 1 \in Made
    <3>1. PICK f : Is(f, n)
      BY <2>2
    <3> DEFINE g == [i \in 0..(n + 1) |-> IF i = n + 1 THEN turn[f[n]] ELSE f[i]]
    <3>2. Is(g, n + 1)
      BY <3>1
    <3> HIDE DEF g
    <3>3. \E h : Is(h, n + 1)
      BY <3>2, Zenon
    <3> QED
      BY <3>3
  <2>3. 0 \in Made
    BY <2>1
  <2> HIDE DEF Made
  <2> QED
    BY <2>2, <2>3, Induction, Zenon
<1>2. ASSUME NEW n \in Nat PROVE Is(loop(n), n)
  <2>1. \E f : Is(f, n)
    BY <1>1
  <2> HIDE DEF Is
  <2> QED
    BY <2>1, Zenon
<1> HIDE DEF loop
<1>3. ASSUME NEW n \in Nat, NEW i \in 0..n
      PROVE  loop(n)[i] = IF i = 0 THEN start ELSE turn[loop(n)[i - 1]]
  BY <1>2
<1> HIDE DEF Is, Made
<1>4. \A n \in Nat : n \in Same
  <2>1. 0 \in Same
    BY <1>3
  <2>2. ASSUME NEW n \in Nat, n \in Same PROVE n + 1 \in Same
    <3>1. ASSUME NEW k \in Nat PROVE loop((n + 1) + k)[n + 1] = turn[loop(n)[n]]
      <4>1. loop((n + 1) + k)[n + 1] = turn[loop((n + 1) + k)[n]]
        BY <1>3
      <4>2. loop(n + (k + 1))[n] = loop(n)[n] /\ n + (k + 1) = (n + 1) + k
        BY <2>2
      <4> QED
        BY <4>1, <4>2
    <3>2. loop(n + 1)[n + 1] = turn[loop(n)[n]]
      <4>1. (n + 1) + 0 = n + 1
        OBVIOUS
      <4> QED
        BY <3>1, <4>1
    <3>3. \A k \in Nat : loop((n + 1) + k)[n + 1] = loop(n + 1)[n + 1]
      BY <3>1, <3>2
    <3> QED
      BY <3>3
  <2> HIDE DEF Same
  <2> QED
    BY <2>1, <2>2, Induction, Zenon
<1>5. ASSUME NEW n \in Nat PROVE Turns(turn, start, n) = loop(n)[n]
  BY DEF Turns, loop, Is
<1>6. ASSUME NEW n \in Nat PROVE loop(n + 1)[n + 1] = turn[loop(n)[n]]
  <2>1. loop(n + 1)[n + 1] = turn[loop(n + 1)[n]]
    BY <1>3
  <2>2. loop(n + 1)[n] = loop(n)[n]
    BY <1>4
  <2> QED
    BY <2>1, <2>2
<1> QED
  BY <1>3, <1>5, <1>6

\* A loop keeps what each of its turns keeps, and is over after as many turns
\* as a quantity that every turn lowers.
LEMMA LoopEnds ==
    ASSUME NEW turn, NEW I, NEW start \in I, NEW V \in [I -> Nat],
           \A s \in I : turn[s] \in I /\ (turn[s] = s \/ V[turn[s]] < V[s]),
           NEW n \in Nat, V[start] <= n
    PROVE  Turns(turn, start, n) \in I /\ turn[Turns(turn, start, n)] = Turns(turn, start, n)
<1> DEFINE T(m) == Turns(turn, start, m)
           Kept == {m \in Nat : T(m) \in I /\ (turn[T(m)] = T(m) \/ V[T(m)] + m <= V[start])}
<1>1. T(0) = start /\ \A m \in Nat : T(m + 1) = turn[T(m)]
  BY TurnsAre, Zenon
<1> HIDE DEF T
<1>2. 0 \in Kept
  BY <1>1
<1>3. ASSUME NEW m \in Nat, m \in Kept PROVE m + 1 \in Kept
  <2>1. T(m) \in I /\ T(m + 1) = turn[T(m)] /\ T(m + 1) \in I
    BY <1>1, <1>3
  <2>2. CASE turn[T(m)] = T(m)
    BY <2>1, <2>2
  <2>3. CASE turn[T(m)] # T(m) /\ V[T(m)] + m <= V[start]
    <3>1. V[turn[T(m)]] < V[T(m)] /\ V[turn[T(m)]] \in Nat /\ V[T(m)] \in Nat
      BY <2>1, <2>3
    <3> QED
      BY <2>1, <2>3, <3>1
  <2> QED
    BY <1>3, <2>2, <2>3
<1>4. n \in Kept
  <2> HIDE DEF Kept
  <2> QED
    BY <1>2, <1>3, Induction, Zenon
<1>5. V[T(n)] \in Nat /\ V[turn[T(n)]] \in Nat /\ V[start] \in Nat
  BY <1>4
<1>6. T(n) \in I /\ turn[T(n)] = T(n)
  BY <1>4, <1>5
<1> QED
  BY <1>6 DEF T

-----------------------------------------------------------------------------
(* The packers. *)

\* What % does to a sum of two numbers.
LEMMA Remainder ==
    ASSUME NEW a \in Nat, NEW m \in Nat \ {0}
    PROVE  /\ a % m \in 0..(m - 1)
           /\ a < m => a % m = a
           /\ a >= m => a % m <= a - m
  OBVIOUS

\* The totals of msg_size_check, one for each number of parts.
LEMMA TotalsAre ==
    ASSUME NEW pre_len \in Nat, NEW parts, Len(parts) \in Nat
    PROVE  \E total :
              /\ total[0] = pre_len
              /\ \A i \in 0..(Len(parts) - 1) :
                    total[i + 1] = add_part(total[i], parts[i + 1])
              /\ msg_size_check(pre_len, parts) = total[Len(parts)]
<1> DEFINE Next1(t, i) == add_part(t, parts[i])
           Is(f, n) == f = [i \in 0..n |-> IF i = 0 THEN pre_len ELSE Next1(f[i - 1], i)]
           Made == {n \in Nat : \E f : Is(f, n)}
           total == CHOOSE f : Is(f, Len(parts))
<1>1. msg_size_check(pre_len, parts) = total[Len(parts)]
  BY Zenon DEF msg_size_check
<1> HIDE DEF Next1
<1>2. \A n \in Nat : n \in Made
  <2>1. Is([i \in 0..0 |-> pre_len], 0)
    OBVIOUS
  <2>2. ASSUME NEW n \in Nat, n \in Made PROVE n + 1 \in Made
    <3>1. PICK f : Is(f, n)
      BY <2>2
    <3> DEFINE g == [i \in 0..(n + 1) |-> IF i = n + 1 THEN Next1(f[n], n + 1) ELSE f[i]]
    <3>2. Is(g, n + 1)
      BY <3>1
    <3> HIDE DEF g
    <3>3. \E h : Is(h, n + 1)
      BY <3>2, Zenon
    <3> QED
      BY <3>3
  <2>3. 0 \in Made
    BY <2>1
  <2> HIDE DEF Made
  <2> QED
    BY <2>2, <2>3, Induction, Zenon
<1>3. \E f : Is(f, Len(parts))
  BY <1>2
<1>4. Is(total, Len(parts))
  <2> HIDE DEF Is
  <2> QED
    BY <1>3, Zenon
<1> HIDE DEF total
<1>5. total[0] = pre_len /\ \A i \in 0..(Len(parts) - 1) : total[i + 1] = Next1(total[i], i + 1)
  <2>1. ASSUME NEW i \in 0..(Len(parts) - 1) PROVE total[i + 1] = Next1(total[i], i + 1)
    <3>1. i + 1 \in 0..Len(parts) /\ i + 1 # 0 /\ (i + 1) - 1 = i
      OBVIOUS
    <3> QED
      BY <1>4, <3>1
  <2> QED
    BY <1>4, <2>1
<1> QED
  BY <1>1, <1>5, Zenon DEF Next1

\* The sums of the lengths of the first parts.
LEMMA PayloadsAre ==
    ASSUME NEW parts, Len(parts) \in Nat
    PROVE  \E f : /\ f[0] = 0
                  /\ \A i \in 0..(Len(parts) - 1) :
                        f[i + 1] = f[i] + (IF parts[i + 1].null THEN 0 ELSE parts[i + 1].len)
                  /\ Payload(parts) = f[Len(parts)]
<1> DEFINE Next1(v, i) == v + (IF parts[i].null THEN 0 ELSE parts[i].len)
           Is(f, n) == f = [i \in 0..n |-> IF i = 0 THEN 0 ELSE Next1(f[i - 1], i)]
           Made == {n \in Nat : \E f : Is(f, n)}
           all == CHOOSE f : Is(f, Len(parts))
<1>1. Payload(parts) = all[Len(parts)]
  BY Zenon DEF Payload
<1> HIDE DEF Next1
<1>2. \A n \in Nat : n \in Made
  <2>1. Is([i \in 0..0 |-> 0], 0)
    OBVIOUS
  <2>2. ASSUME NEW n \in Nat, n \in Made PROVE n + 1 \in Made
    <3>1. PICK f : Is(f, n)
      BY <2>2
    <3> DEFINE g == [i \in 0..(n + 1) |-> IF i = n + 1 THEN Next1(f[n], n + 1) ELSE f[i]]
    <3>2. Is(g, n + 1)
      BY <3>1
    <3> HIDE DEF g
    <3>3. \E h : Is(h, n + 1)
      BY <3>2, Zenon
    <3> QED
      BY <3>3
  <2>3. 0 \in Made
    BY <2>1
  <2> HIDE DEF Made
  <2> QED
    BY <2>2, <2>3, Induction, Zenon
<1>3. \E f : Is(f, Len(parts))
  BY <1>2
<1>4. Is(all, Len(parts))
  <2> HIDE DEF Is
  <2> QED
    BY <1>3, Zenon
<1> HIDE DEF all
<1>5. all[0] = 0 /\ \A i \in 0..(Len(parts) - 1) : all[i + 1] = Next1(all[i], i + 1)
  <2>1. ASSUME NEW i \in 0..(Len(parts) - 1) PROVE all[i + 1] = Next1(all[i], i + 1)
    <3>1. i + 1 \in 0..Len(parts) /\ i + 1 # 0 /\ (i + 1) - 1 = i
      OBVIOUS
    <3> QED
      BY <1>4, <3>1
  <2> QED
    BY <1>4, <2>1
<1> QED
  BY <1>1, <1>5, Zenon DEF Next1

\* The bytes of the first parts.
LEMMA BodiesAre ==
    ASSUME NEW parts, Len(parts) \in Nat
    PROVE  \E f : /\ f[0] = <<>>
                  /\ \A i \in 0..(Len(parts) - 1) :
                        f[i + 1] = f[i] \o (IF parts[i + 1].null THEN <<>> ELSE parts[i + 1].bytes)
                  /\ Body(parts) = f[Len(parts)]
<1> DEFINE Next1(v, i) == v \o (IF parts[i].null THEN <<>> ELSE parts[i].bytes)
           Is(f, n) == f = [i \in 0..n |-> IF i = 0 THEN <<>> ELSE Next1(f[i - 1], i)]
           Made == {n \in Nat : \E f : Is(f, n)}
           all == CHOOSE f : Is(f, Len(parts))
<1>1. Body(parts) = all[Len(parts)]
  BY Zenon DEF Body
<1> HIDE DEF Next1
<1>2. \A n \in Nat : n \in Made
  <2>1. Is([i \in 0..0 |-> <<>>], 0)
    OBVIOUS
  <2>2. ASSUME NEW n \in Nat, n \in Made PROVE n + 1 \in Made
    <3>1. PICK f : Is(f, n)
      BY <2>2
    <3> DEFINE g == [i \in 0..(n + 1) |-> IF i = n + 1 THEN Next1(f[n], n + 1) ELSE f[i]]
    <3>2. Is(g, n + 1)
      BY <3>1
    <3> HIDE DEF g
    <3>3. \E h : Is(h, n + 1)
      BY <3>2, Zenon
    <3> QED
      BY <3>3
  <2>3. 0 \in Made
    BY <2>1
  <2> HIDE DEF Made
  <2> QED
    BY <2>2, <2>3, Induction, Zenon
<1>3. \E f : Is(f, Len(parts))
  BY <1>2
<1>4. Is(all, Len(parts))
  <2> HIDE DEF Is
  <2> QED
    BY <1>3, Zenon
<1> HIDE DEF all
<1>5. all[0] = <<>> /\ \A i \in 0..(Len(parts) - 1) : all[i + 1] = Next1(all[i], i + 1)
  <2>1. ASSUME NEW i \in 0..(Len(parts) - 1) PROVE all[i + 1] = Next1(all[i], i + 1)
    <3>1. i + 1 \in 0..Len(parts) /\ i + 1 # 0 /\ (i + 1) - 1 = i
      OBVIOUS
    <3> QED
      BY <1>4, <3>1
  <2> QED
    BY <1>4, <2>1
<1> QED
  BY <1>1, <1>5, Zenon DEF Next1

\* A request, part by part.
LEMMA RequestParts ==
    ASSUME NEW parts \in Requests
    PROVE  /\ Len(parts) \in Nat
           /\ \A i \in 1..Len(parts) :
                 /\ parts[i].null \in BOOLEAN /\ parts[i].len \in 0..(SIZE - 1)
                 /\ parts[i].bytes \in Seq(Bytes)
                 /\ ~parts[i].null /\ parts[i].len <= MSG_BUFFER_SIZE => Len(parts[i].bytes) = parts[i].len
<1>1. parts \in Seq(Parts)
  BY RequestsAssumption
<1>2. Len(parts) \in Nat /\ DOMAIN parts = 1..Len(parts) /\ \A i \in 1..Len(parts) : parts[i] \in Parts
  BY <1>1
<1>3. ASSUME NEW i \in 1..Len(parts), ~parts[i].null, parts[i].len <= MSG_BUFFER_SIZE
      PROVE  Len(parts[i].bytes) = parts[i].len
  <2>1. parts[i].len \in 0..(SIZE - 1)
    BY <1>2 DEF Parts
  <2>2. ~(parts[i].len > MSG_BUFFER_SIZE)
    BY <1>3, <2>1, CodecAssumption
  <2> QED
    BY <1>2, <1>3, <2>2, RequestsAssumption
<1> QED
  BY <1>2, <1>3 DEF Parts

\* What msg_size_check finds is the true sum, when that fits the buffer, and
\* DontKnow when it does not, also when the sum of two size_t wraps around;
\* the bytes of the parts are then as many.
LEMMA SizeCheck ==
    ASSUME NEW pre_len \in Nat, NEW parts \in Requests
    PROVE  LET total == msg_size_check(pre_len, parts) IN
           /\ Payload(parts) \in Nat /\ Body(parts) \in Seq(Bytes)
           /\ Payload(parts) <= MSG_BUFFER_SIZE => Len(Body(parts)) = Payload(parts)
           /\ \/ total = pre_len + Payload(parts)
                 /\ (total <= MSG_BUFFER_SIZE \/ Payload(parts) = 0)
              \/ total = DontKnow /\ pre_len + Payload(parts) > MSG_BUFFER_SIZE
<1> DEFINE N == Len(parts)
<1>0. /\ N \in Nat
      /\ \A i \in 1..N : /\ parts[i].null \in BOOLEAN /\ parts[i].len \in 0..(SIZE - 1)
                         /\ parts[i].bytes \in Seq(Bytes)
                         /\ ~parts[i].null /\ parts[i].len <= MSG_BUFFER_SIZE
                               => Len(parts[i].bytes) = parts[i].len
  BY RequestParts, Zenon
<1>1. PICK total : /\ total[0] = pre_len
                   /\ \A i \in 0..(N - 1) :
                         total[i + 1] = add_part(total[i], parts[i + 1])
                   /\ msg_size_check(pre_len, parts) = total[N]
  BY <1>0, TotalsAre
<1>2. PICK pay : /\ pay[0] = 0
                 /\ \A i \in 0..(N - 1) :
                       pay[i + 1] = pay[i] + (IF parts[i + 1].null THEN 0 ELSE parts[i + 1].len)
                 /\ Payload(parts) = pay[N]
  BY <1>0, PayloadsAre, Zenon
<1>3. PICK body : /\ body[0] = <<>>
                  /\ \A i \in 0..(N - 1) :
                        body[i + 1] = body[i] \o (IF parts[i + 1].null THEN <<>> ELSE parts[i + 1].bytes)
                  /\ Body(parts) = body[N]
  BY <1>0, BodiesAre, Zenon
<1> DEFINE Good(i) ==
              /\ pay[i] \in Nat /\ body[i] \in Seq(Bytes)
              /\ pay[i] <= MSG_BUFFER_SIZE => Len(body[i]) = pay[i]
              /\ \/ total[i] = pre_len + pay[i] /\ (total[i] <= MSG_BUFFER_SIZE \/ pay[i] = 0)
                 \/ total[i] = DontKnow /\ pre_len + pay[i] > MSG_BUFFER_SIZE
           Goods == {i \in Nat : i <= N => Good(i)}
<1>4. 0 \in Goods
  <2>1. pay[0] = 0 /\ body[0] = <<>> /\ total[0] = pre_len
    BY <1>0, <1>1, <1>2, <1>3
  <2>2. Good(0)
    BY <2>1, CodecAssumption
  <2> QED
    BY <2>2
<1>5. ASSUME NEW i \in Nat, i \in Goods PROVE i + 1 \in Goods
  <2> SUFFICES ASSUME i + 1 <= N PROVE Good(i + 1)
    OBVIOUS
  <2>0. Good(i) /\ i + 1 \in 1..N /\ i \in 0..(N - 1)
    BY <1>0, <1>5
  <2> DEFINE part == parts[i + 1]
             t == total[i]
             sum == (t + part.len) % SIZE
  <2>1. /\ part.null \in BOOLEAN /\ part.len \in 0..(SIZE - 1) /\ part.bytes \in Seq(Bytes)
        /\ ~part.null /\ part.len <= MSG_BUFFER_SIZE => Len(part.bytes) = part.len
    BY <1>0, <2>0
  <2>2. total[i + 1] = IF t = DontKnow \/ part.null THEN t
                       ELSE IF t > sum \/ sum > MSG_BUFFER_SIZE THEN DontKnow ELSE sum
    BY <1>1, <2>0, Zenon DEF part, sum, add_part
  <2>3. pay[i + 1] = pay[i] + (IF part.null THEN 0 ELSE part.len)
    BY <1>2, <2>0, Zenon DEF part
  <2>4. body[i + 1] = body[i] \o (IF part.null THEN <<>> ELSE part.bytes)
    BY <1>3, <2>0, Zenon DEF part
  <2> HIDE DEF part, sum
  <2>5. CASE part.null
    BY <2>0, <2>2, <2>3, <2>4, <2>5, CodecAssumption
  <2>6. CASE ~part.null
    <3>1. pay[i + 1] \in Nat /\ body[i + 1] \in Seq(Bytes)
      BY <2>0, <2>1, <2>3, <2>4, <2>6, CodecAssumption, SMTT(30)
    <3>2. ASSUME pay[i + 1] <= MSG_BUFFER_SIZE PROVE Len(body[i + 1]) = pay[i + 1]
      <4>1. pay[i] <= MSG_BUFFER_SIZE /\ part.len <= MSG_BUFFER_SIZE
        BY <2>0, <2>1, <2>3, <2>6, <3>2, CodecAssumption, SMTT(30)
      <4>2. Len(body[i] \o part.bytes) = Len(body[i]) + Len(part.bytes)
        BY <2>0, <2>1
      <4> QED
        BY <2>0, <2>1, <2>3, <2>4, <2>6, <4>1, <4>2
    <3>3. CASE t = DontKnow
      <4>1. total[i + 1] = DontKnow
        BY <2>2, <3>3
      <4>2. pre_len + pay[i] > MSG_BUFFER_SIZE
        BY <2>0, <3>3 DEF DontKnow
      <4>3. pre_len + pay[i + 1] > MSG_BUFFER_SIZE
        BY <2>0, <2>1, <2>3, <2>6, <4>2, CodecAssumption, SMTT(30)
      <4> QED
        BY <3>1, <3>2, <4>1, <4>3
    <3>4. CASE t # DontKnow
      <4>1. t = pre_len + pay[i] /\ t \in Nat /\ (t <= MSG_BUFFER_SIZE \/ pay[i] = 0)
        BY <2>0, <3>4
      <4>2. /\ sum \in 0..(SIZE - 1)
            /\ t + part.len < SIZE => sum = t + part.len
            /\ t + part.len >= SIZE => sum <= (t + part.len) - SIZE
        <5>1. SIZE \in Nat \ {0} /\ t + part.len \in Nat
          BY <2>1, <4>1, CodecAssumption, SMTT(30)
        <5> HIDE DEF t
        <5> QED
          BY <5>1, Remainder DEF sum
      <4> QED
        <5>1. total[i + 1] = IF t > sum \/ sum > MSG_BUFFER_SIZE THEN DontKnow ELSE sum
          BY <2>2, <2>6, <3>4
        <5>2. pay[i + 1] = pay[i] + part.len
          BY <2>3, <2>6
        <5>3. \/ total[i + 1] = pre_len + pay[i + 1] /\ total[i + 1] <= MSG_BUFFER_SIZE
              \/ total[i + 1] = DontKnow /\ pre_len + pay[i + 1] > MSG_BUFFER_SIZE
          <6>1. /\ SIZE \in Nat /\ MSG_BUFFER_SIZE \in 1..(SIZE - 1)
                /\ part.len \in 0..(SIZE - 1) /\ pay[i] \in Nat
            BY <2>0, <2>1, CodecAssumption
          <6> HIDE DEF t
          <6>2. CASE t + part.len < SIZE
            <7>1. sum = t + part.len /\ ~(t > sum)
              BY <4>1, <4>2, <6>1, <6>2, SMTT(30)
            <7>2. CASE sum > MSG_BUFFER_SIZE
              <8>1. total[i + 1] = DontKnow
                BY <5>1, <7>1, <7>2, Zenon
              <8> QED
                BY <4>1, <5>2, <6>1, <7>1, <7>2, <8>1, SMTT(30)
            <7>3. CASE ~(sum > MSG_BUFFER_SIZE)
              <8>1. total[i + 1] = sum
                BY <5>1, <7>1, <7>3, Zenon
              <8> QED
                BY <4>1, <4>2, <5>2, <6>1, <7>1, <7>3, <8>1, SMTT(30)
            <7> QED
              BY <7>2, <7>3
          <6>3. CASE t + part.len >= SIZE
            <7>0. sum <= (t + part.len) - SIZE /\ sum \in Nat /\ t \in Nat /\ part.len \in Nat /\ part.len < SIZE
              BY <4>1, <4>2, <6>1, <6>3
            <7>1. t > sum /\ t + part.len > MSG_BUFFER_SIZE
              BY <6>1, <6>3, <7>0
            <7>2. total[i + 1] = DontKnow
              BY <5>1, <7>1, Zenon
            <7> QED
              BY <4>1, <5>2, <6>1, <7>1, <7>2, SMTT(30)
          <6> QED
            BY <4>1, <6>1, <6>2, <6>3, SMTT(30)
        <5> QED
          BY <3>1, <3>2, <5>3
    <3> QED
      BY <3>3, <3>4
  <2> QED
    BY <2>5, <2>6
<1>6. N \in Goods
  <2> HIDE DEF Goods
  <2> QED
    BY <1>0, <1>4, <1>5, Induction, Zenon
<1>7. Good(N)
  BY <1>0, <1>6
<1> QED
  BY <1>1, <1>2, <1>3, <1>7

\* A packed head is unpacked to the length it was made of.
LEMMA HeadIsLength ==
    ASSUME NEW n \in Nat, n < HEAD_RANGE
    PROVE  /\ head_h2n(n) \in Seq(Bytes) /\ Len(head_h2n(n)) = HEAD_LEN
           /\ head_h2n(n)[1] * BYTE + head_h2n(n)[2] = n
<1>1. BYTE \in Nat \ {0} /\ n < BYTE * BYTE
  BY CodecAssumption
<1>2. n % BYTE \in 0..(BYTE - 1) /\ n \div BYTE \in Nat /\ n = (n \div BYTE) * BYTE + (n % BYTE)
  BY <1>1
<1>3. n \div BYTE < BYTE
  <2> DEFINE q == n \div BYTE
  <2>1. q \in Nat /\ q * BYTE <= n
    BY <1>1, <1>2
  <2> HIDE DEF q
  <2>2. SUFFICES ASSUME q >= BYTE PROVE FALSE
    BY <1>1, <2>1 DEF q
  <2>3. q * BYTE >= BYTE * BYTE
    BY <1>1, <2>1, <2>2
  <2> QED
    BY <1>1, <2>1, <2>3
<1> QED
  BY <1>1, <1>2, <1>3 DEF head_h2n, HEAD_LEN, Bytes

\* The bytes a packer puts on the stream for a body.
Packed(k, body) ==
    CASE k = "prefix_suffix" -> PREFIX \o body \o SUFFIX
      [] k = "fixed_length"  -> body
      [] OTHER               -> head_h2n(HEAD_LEN + Len(body)) \o body

\* The bodies that a packer of kind k makes a message of and that the
\* application may send.
Bodies(k) == {body \in Seq(Bytes) :
    /\ Len(body) > 0 /\ Envelope(k) + Len(body) <= MSG_BUFFER_SIZE
    /\ k \in {"unpacker", "unbuffered"} => Envelope(k) + Len(body) < HEAD_RANGE
    /\ Suits(k, body)}

\* A packed body is as long as the envelope and the body.
LEMMA PackedIs ==
    ASSUME NEW k \in Kinds, NEW body \in Seq(Bytes), Len(body) > 0,
           k \in {"unpacker", "unbuffered"} => Envelope(k) + Len(body) < HEAD_RANGE
    PROVE  /\ Packed(k, body) \in Seq(Bytes) /\ Len(Packed(k, body)) = Envelope(k) + Len(body)
           /\ Len(Packed(k, body)) > 0 /\ Envelope(k) \in Nat
<1>0. PREFIX \in Seq(Bytes) /\ SUFFIX \in Seq(Bytes) /\ Len(PREFIX) \in Nat /\ Len(SUFFIX) \in Nat /\ Len(body) \in Nat
  BY CodecAssumption
<1>1. CASE k = "prefix_suffix"
  <2>1. PREFIX \o body \in Seq(Bytes) /\ Len(PREFIX \o body) = Len(PREFIX) + Len(body)
    BY <1>0
  <2>2. /\ (PREFIX \o body) \o SUFFIX \in Seq(Bytes)
        /\ Len((PREFIX \o body) \o SUFFIX) = Len(PREFIX) + Len(body) + Len(SUFFIX)
    BY <1>0, <2>1
  <2> QED
    BY <1>0, <1>1, <2>2 DEF Packed, Envelope, min_len
<1>2. CASE k = "fixed_length"
  BY <1>0, <1>2 DEF Packed, Envelope
<1>3. CASE k \in {"unpacker", "unbuffered"}
  <2>1. Envelope(k) = HEAD_LEN /\ HEAD_LEN = 2 /\ HEAD_LEN + Len(body) \in Nat /\ HEAD_LEN + Len(body) < HEAD_RANGE
    BY <1>0, <1>3 DEF Envelope, HEAD_LEN
  <2>2. head_h2n(HEAD_LEN + Len(body)) \in Seq(Bytes) /\ Len(head_h2n(HEAD_LEN + Len(body))) = HEAD_LEN
    BY <2>1, HeadIsLength
  <2>3. Packed(k, body) = head_h2n(HEAD_LEN + Len(body)) \o body
    BY <1>3 DEF Packed
  <2> DEFINE h == head_h2n(HEAD_LEN + Len(body))
  <2>4. h \in Seq(Bytes) /\ Len(h) = HEAD_LEN /\ Packed(k, body) = h \o body
    BY <2>2, <2>3
  <2> HIDE DEF h
  <2>5. h \o body \in Seq(Bytes) /\ Len(h \o body) = Len(h) + Len(body)
    BY <2>4, ConcatProperties
  <2> QED
    BY <1>0, <2>1, <2>4, <2>5
<1> QED
  BY <1>1, <1>2, <1>3 DEF Kinds

\* pack_msg packs the body of a request that is not empty and fits, and makes
\* an empty message of any other.
LEMMA PackMsg ==
    ASSUME NEW k \in Kinds, NEW parts \in Requests
    PROVE  LET pay   == Payload(parts)
               total == Envelope(k) + pay
               fits  == /\ pay > 0 /\ total <= MSG_BUFFER_SIZE
                        /\ k \in {"unpacker", "unbuffered"} => total < HEAD_RANGE
           IN  /\ pay \in Nat /\ Body(parts) \in Seq(Bytes) /\ Envelope(k) \in Nat
               /\ fits => Len(Body(parts)) = pay /\ pack_msg(k, parts) = Packed(k, Body(parts))
               /\ ~fits => pack_msg(k, parts) = <<>>
<1> DEFINE pay == Payload(parts)
           body == Body(parts)
           total == msg_size_check(Envelope(k), parts)
<1>0. Envelope(k) \in Nat /\ MSG_BUFFER_SIZE \in Nat
  BY CodecAssumption DEF Envelope, min_len, HEAD_LEN
<1>1. /\ pay \in Nat /\ body \in Seq(Bytes)
      /\ pay <= MSG_BUFFER_SIZE => Len(body) = pay
      /\ \/ total = Envelope(k) + pay /\ (total <= MSG_BUFFER_SIZE \/ pay = 0)
         \/ total = DontKnow /\ Envelope(k) + pay > MSG_BUFFER_SIZE
  BY <1>0, SizeCheck
<1> HIDE DEF pay, body, total
<1>2. CASE k = "prefix_suffix"
  <2>1. pack_msg(k, parts) = IF total = DontKnow \/ total <= Envelope(k) THEN <<>> ELSE PREFIX \o body \o SUFFIX
    BY <1>2, Zenon DEF pack_msg, prefix_suffix_pack_msg, Envelope, min_len, total, body
  <2>2. Packed(k, body) = PREFIX \o body \o SUFFIX
    BY <1>2 DEF Packed
  <2>3. CASE pay > 0 /\ Envelope(k) + pay <= MSG_BUFFER_SIZE
    <3>1. total = Envelope(k) + pay /\ Len(body) = pay
      BY <1>0, <1>1, <2>3
    <3>2. pack_msg(k, parts) = Packed(k, body)
      BY <1>0, <1>1, <2>1, <2>2, <2>3, <3>1 DEF DontKnow
    <3> QED
      BY <1>0, <1>1, <1>2, <2>3, <3>1, <3>2 DEF pay, body
  <2>4. CASE ~(pay > 0 /\ Envelope(k) + pay <= MSG_BUFFER_SIZE)
    <3>1. total = DontKnow \/ total <= Envelope(k)
      BY <1>0, <1>1, <2>4
    <3>2. pack_msg(k, parts) = <<>>
      BY <2>1, <3>1
    <3> QED
      BY <1>0, <1>1, <1>2, <2>4, <3>2 DEF pay, body
  <2> QED
    BY <2>3, <2>4
<1>3. CASE k = "fixed_length"
  <2>1. pack_msg(k, parts) = IF total = DontKnow THEN <<>> ELSE body
    BY <1>3, Zenon DEF pack_msg, native_pack_msg, Envelope, total, body
  <2>2. Packed(k, body) = body /\ Envelope(k) = 0
    BY <1>3 DEF Packed, Envelope
  <2>3. pay = 0 => body = <<>>
    BY <1>0, <1>1
  <2> QED
    BY <1>0, <1>1, <1>3, <2>1, <2>2, <2>3 DEF pay, body, DontKnow
<1>4. CASE k \in {"unpacker", "unbuffered"}
  <2>1. Envelope(k) = HEAD_LEN
    BY <1>4 DEF Envelope
  <2>2. pack_msg(k, parts) = IF total = DontKnow \/ total <= HEAD_LEN \/ total # total % HEAD_RANGE THEN <<>>
                             ELSE head_h2n(total) \o body
    BY <1>4, <2>1 DEF pack_msg, packer_pack_msg, total, body
  <2>3. Packed(k, body) = head_h2n(HEAD_LEN + Len(body)) \o body
    BY <1>4 DEF Packed
  <2>4. ASSUME total \in Nat PROVE total = total % HEAD_RANGE <=> total < HEAD_RANGE
    <3>1. HEAD_RANGE \in Nat \ {0}
      BY CodecAssumption
    <3> QED
      BY <2>4, <3>1, Remainder
  <2>5. CASE total = DontKnow
    BY <1>0, <1>1, <2>2, <2>5 DEF pay, body, DontKnow
  <2>6. CASE total # DontKnow
    <3>1. total = HEAD_LEN + pay /\ total \in Nat /\ (total <= MSG_BUFFER_SIZE \/ pay = 0)
      BY <1>0, <1>1, <2>1, <2>6
    <3>2. CASE pay > 0 /\ total < HEAD_RANGE
      <4>1. pack_msg(k, parts) = head_h2n(total) \o body
        BY <1>0, <1>1, <2>1, <2>2, <2>4, <2>6, <3>1, <3>2
      <4>2. Len(body) = pay
        BY <1>0, <1>1, <2>1, <3>1, <3>2
      <4> QED
        BY <1>0, <1>1, <2>1, <2>3, <3>1, <3>2, <4>1, <4>2 DEF pay, body
    <3>3. CASE ~(pay > 0 /\ total < HEAD_RANGE)
      <4>1. pack_msg(k, parts) = <<>>
        BY <1>0, <1>1, <2>1, <2>2, <2>4, <2>6, <3>1, <3>3
      <4> QED
        BY <1>0, <1>1, <1>4, <2>1, <3>1, <3>3, <4>1 DEF pay, body
    <3> QED
      BY <3>2, <3>3
  <2> QED
    BY <2>5, <2>6
<1> QED
  BY <1>2, <1>3, <1>4 DEF Kinds

(***************************************************************************)
(* A message goes out exactly when its true length and its envelope fit    *)
(* the buffer and the head, and it is not empty, for all argument lists    *)
(* and all widths.                                                         *)
(***************************************************************************)
THEOREM PacksWhatFits == Spec => []PackedWhenItFits
<1>1. ASSUME kind \in Kinds PROVE PackedWhenItFits
  <2> SUFFICES ASSUME NEW parts \in Requests
               PROVE  LET total == Envelope(kind) + Payload(parts)
                          heads == kind \in {"unpacker", "unbuffered"}
                      IN  Len(pack_msg(kind, parts)) =
                             IF /\ Payload(parts) > 0 /\ total <= MSG_BUFFER_SIZE
                                /\ (heads => total < HEAD_RANGE)
                             THEN total ELSE 0
    BY Zenon DEF PackedWhenItFits
  <2> DEFINE pay == Payload(parts)
             total == Envelope(kind) + pay
             fits == /\ pay > 0 /\ total <= MSG_BUFFER_SIZE
                     /\ kind \in {"unpacker", "unbuffered"} => total < HEAD_RANGE
  <2>1. /\ pay \in Nat /\ Body(parts) \in Seq(Bytes)
        /\ fits => Len(Body(parts)) = pay /\ pack_msg(kind, parts) = Packed(kind, Body(parts))
        /\ ~fits => pack_msg(kind, parts) = <<>>
    BY <1>1, PackMsg, Zenon
  <2>2. CASE fits
    <3>1. Len(Packed(kind, Body(parts))) = total
      BY <1>1, <2>1, <2>2, PackedIs
    <3> QED
      BY <2>1, <2>2, <3>1
  <2>3. CASE ~fits
    <3>1. Len(pack_msg(kind, parts)) = 0
      BY <2>1, <2>3
    <3> QED
      BY <2>3, <3>1
  <2> QED
    BY <2>2, <2>3
<1>2. Init => kind \in Kinds
  BY DEF Init
<1>3. kind \in Kinds /\ [Next]_vars => (kind \in Kinds)'
  BY DEF Next, vars, send_msg, read_some, recv_handler, clean_up
<1> QED
  BY <1>1, <1>2, <1>3, PTL DEF Spec

-----------------------------------------------------------------------------
(* A stream of packed bodies. *)

\* w is what the packers make of the bodies ms, one after the other: the first
\* i - 1 of them end at cut[i].
Framed(k, w, ms) ==
    \E cut \in [1..(Len(ms) + 1) -> 0..Len(w)] :
        /\ cut[1] = 0 /\ cut[Len(ms) + 1] = Len(w)
        /\ \A i \in 1..Len(ms) :
              /\ cut[i + 1] = cut[i] + Len(Packed(k, ms[i]))
              /\ \A j \in 1..Len(Packed(k, ms[i])) : w[cut[i] + j] = Packed(k, ms[i])[j]

\* What PackedIs says of a body that goes out.
LEMMA BodyIsPacked ==
    ASSUME NEW k \in Kinds, NEW b \in Bodies(k)
    PROVE  /\ b \in Seq(Bytes) /\ Len(b) \in Nat /\ Len(b) > 0
           /\ Packed(k, b) \in Seq(Bytes) /\ Len(Packed(k, b)) \in Nat
           /\ Len(Packed(k, b)) = Envelope(k) + Len(b) /\ Len(Packed(k, b)) > 0
           /\ Len(Packed(k, b)) <= MSG_BUFFER_SIZE /\ Envelope(k) \in Nat
<1>1. /\ b \in Seq(Bytes) /\ Len(b) > 0 /\ Envelope(k) + Len(b) <= MSG_BUFFER_SIZE
      /\ k \in {"unpacker", "unbuffered"} => Envelope(k) + Len(b) < HEAD_RANGE
  BY DEF Bodies
<1>2. /\ Packed(k, b) \in Seq(Bytes) /\ Len(Packed(k, b)) = Envelope(k) + Len(b)
      /\ Len(Packed(k, b)) > 0 /\ Envelope(k) \in Nat
  BY <1>1, PackedIs
<1> QED
  BY <1>1, <1>2

\* Nothing sent, nothing on the stream.
LEMMA FramedNothing ==
    ASSUME NEW k \in Kinds, NEW w \in Seq(Bytes)
    PROVE  Framed(k, w, <<>>) <=> w = <<>>
<1>1. ASSUME Framed(k, w, <<>>) PROVE w = <<>>
  BY <1>1 DEF Framed
<1>2. Framed(k, <<>>, <<>>)
  <2>1. [i \in 1..1 |-> 0] \in [1..(Len(<<>>) + 1) -> 0..Len(<<>>)]
    OBVIOUS
  <2> DEFINE cut == [i \in 1..1 |-> 0]
  <2>2. cut[1] = 0 /\ cut[Len(<<>>) + 1] = Len(<<>>) /\ 1..Len(<<>>) = {}
    OBVIOUS
  <2> HIDE DEF cut
  <2> QED
    BY <2>1, <2>2 DEF Framed, cut
<1> QED
  BY <1>1, <1>2

\* One more body is packed.
LEMMA FramedSend ==
    ASSUME NEW k \in Kinds, NEW w \in Seq(Bytes), NEW ms \in Seq(Bodies(k)), NEW b \in Bodies(k),
           Framed(k, w, ms)
    PROVE  Framed(k, w \o Packed(k, b), Append(ms, b))
<1> DEFINE p == Packed(k, b)
           v == w \o p
           ns == Append(ms, b)
           n == Len(ms)
<1>1. p \in Seq(Bytes) /\ Len(p) \in Nat /\ Len(w) \in Nat /\ n \in Nat
  BY BodyIsPacked
<1> HIDE DEF p
<1>2. /\ Len(v) = Len(w) + Len(p) /\ \A j \in 1..Len(w) : v[j] = w[j]
      /\ \A j \in 1..Len(p) : v[Len(w) + j] = p[j]
  BY <1>1
<1>3. Len(ns) = n + 1 /\ ns[n + 1] = b /\ \A i \in 1..n : ns[i] = ms[i]
  BY <1>1
<1>4. PICK cut \in [1..(n + 1) -> 0..Len(w)] :
          /\ cut[1] = 0 /\ cut[n + 1] = Len(w)
          /\ \A i \in 1..n :
                /\ cut[i + 1] = cut[i] + Len(Packed(k, ms[i]))
                /\ \A j \in 1..Len(Packed(k, ms[i])) : w[cut[i] + j] = Packed(k, ms[i])[j]
  BY DEF Framed
<1> DEFINE new == [i \in 1..(n + 2) |-> IF i = n + 2 THEN Len(v) ELSE cut[i]]
<1> HIDE DEF v, ns
<1>5. new \in [1..(Len(ns) + 1) -> 0..Len(v)]
  BY <1>1, <1>2, <1>3, <1>4
<1>6. new[1] = 0 /\ new[Len(ns) + 1] = Len(v)
  BY <1>1, <1>3, <1>4
<1>7. ASSUME NEW i \in 1..Len(ns)
      PROVE  /\ new[i + 1] = new[i] + Len(Packed(k, ns[i]))
             /\ \A j \in 1..Len(Packed(k, ns[i])) : v[new[i] + j] = Packed(k, ns[i])[j]
  <2>1. CASE i = n + 1
    <3>1. Packed(k, ns[i]) = p /\ new[i] = Len(w) /\ new[i + 1] = Len(v)
      BY <1>1, <1>3, <1>4, <2>1 DEF p
    <3> QED
      BY <1>1, <1>2, <3>1
  <2>2. CASE i # n + 1
    <3>1. i \in 1..n /\ ns[i] = ms[i] /\ new[i] = cut[i] /\ new[i + 1] = cut[i + 1]
      BY <1>1, <1>3, <2>2
    <3>2. /\ cut[i + 1] = cut[i] + Len(Packed(k, ms[i])) /\ cut[i] \in Nat /\ cut[i + 1] \in 0..Len(w)
          /\ \A j \in 1..Len(Packed(k, ms[i])) : w[cut[i] + j] = Packed(k, ms[i])[j]
      <4>1. i \in 1..(n + 1) /\ i + 1 \in 1..(n + 1) /\ 0..Len(w) \subseteq Nat
        BY <1>1, <3>1
      <4> QED
        BY <1>4, <3>1, <4>1
    <3>3. Len(Packed(k, ms[i])) \in Nat
      BY <3>1, BodyIsPacked
    <3>4. ASSUME NEW j \in 1..Len(Packed(k, ms[i])) PROVE v[cut[i] + j] = Packed(k, ms[i])[j]
      <4>1. cut[i] + j \in 1..Len(w)
        BY <1>1, <3>2, <3>3, SMTT(30)
      <4> QED
        BY <1>2, <3>2, <4>1
    <3> QED
      BY <3>1, <3>2, <3>4, SMTT(30)
  <2> QED
    BY <2>1, <2>2
<1> HIDE DEF new
<1>8. Framed(k, v, ns)
  BY <1>5, <1>6, <1>7, Zenon DEF Framed
<1> QED
  BY <1>8 DEF v, ns, p

\* The first packed body is the head of the stream, and the rest is framed.
LEMMA FramedFirst ==
    ASSUME NEW k \in Kinds, NEW w \in Seq(Bytes), NEW ms \in Seq(Bodies(k)), ms # <<>>,
           Framed(k, w, ms)
    PROVE  LET p == Packed(k, Head(ms)) IN
           /\ Head(ms) \in Bodies(k) /\ Tail(ms) \in Seq(Bodies(k))
           /\ Len(p) <= Len(w) /\ \A j \in 1..Len(p) : w[j] = p[j]
           /\ Framed(k, Drop(w, Len(p)), Tail(ms))
<1> DEFINE p == Packed(k, Head(ms))
           v == Drop(w, Len(p))
           ns == Tail(ms)
           n == Len(ms)
<1>1. /\ n \in Nat /\ n > 0 /\ Head(ms) = ms[1] /\ Head(ms) \in Bodies(k) /\ ns \in Seq(Bodies(k))
      /\ Len(ns) = n - 1 /\ \A i \in 1..(n - 1) : ns[i] = ms[i + 1]
  BY HeadTailProperties
<1>2. p \in Seq(Bytes) /\ Len(p) \in Nat /\ Len(w) \in Nat
  BY <1>1, BodyIsPacked
<1>3. PICK cut \in [1..(n + 1) -> 0..Len(w)] :
          /\ cut[1] = 0 /\ cut[n + 1] = Len(w)
          /\ \A i \in 1..n :
                /\ cut[i + 1] = cut[i] + Len(Packed(k, ms[i]))
                /\ \A j \in 1..Len(Packed(k, ms[i])) : w[cut[i] + j] = Packed(k, ms[i])[j]
  BY DEF Framed
<1> HIDE DEF ns
<1>4. cut[2] = Len(p) /\ Len(p) <= Len(w) /\ \A j \in 1..Len(p) : w[j] = p[j]
  <2>1. 1 \in 1..n /\ 2 \in 1..(n + 1) /\ 1 + 1 = 2
    BY <1>1
  <2>2. cut[2] = cut[1] + Len(p) /\ \A j \in 1..Len(p) : w[cut[1] + j] = p[j]
    BY <1>1, <1>3, <2>1
  <2>3. cut[2] = Len(p) /\ cut[2] \in 0..Len(w)
    <3>1. cut[2] \in 0..Len(w) /\ cut[1] = 0
      BY <1>3, <2>1, Zenon
    <3> HIDE DEF p
    <3> QED
      BY <1>2, <2>2, <3>1
  <2>4. ASSUME NEW j \in 1..Len(p) PROVE w[j] = p[j]
    BY <1>2, <1>3, <2>2
  <2> QED
    BY <1>2, <2>3, <2>4
<1> HIDE DEF p
<1>5. v \in Seq(Bytes) /\ Len(v) = Len(w) - Len(p) /\ \A j \in 1..Len(v) : v[j] = w[Len(p) + j]
  BY <1>2, <1>4 DEF Drop
<1> HIDE DEF v
<1>6. ASSUME NEW i \in 1..n
      PROVE  /\ cut[i] \in 0..Len(w) /\ cut[i + 1] \in 0..Len(w) /\ Len(Packed(k, ms[i])) \in Nat
             /\ cut[i + 1] = cut[i] + Len(Packed(k, ms[i]))
             /\ \A j \in 1..Len(Packed(k, ms[i])) : w[cut[i] + j] = Packed(k, ms[i])[j]
  <2>1. i \in 1..(n + 1) /\ i + 1 \in 1..(n + 1)
    BY <1>1
  <2>2. Len(Packed(k, ms[i])) \in Nat
    BY BodyIsPacked
  <2> QED
    BY <1>3, <2>1, <2>2
<1> DEFINE Beyond == {i \in Nat : i \in 1..n => cut[i + 1] >= Len(p)}
<1>7. \A i \in Nat : i \in Beyond
  <2>1. 0 \in Beyond
    OBVIOUS
  <2>2. ASSUME NEW i \in Nat, i \in Beyond PROVE i + 1 \in Beyond
    <3>1. CASE i = 0
      BY <1>2, <1>4, <3>1
    <3>2. CASE i # 0 /\ i + 1 \in 1..n
      <4>1. i \in 1..n /\ cut[i + 1] >= Len(p)
        BY <1>1, <2>2, <3>2
      <4>2. cut[(i + 1) + 1] = cut[i + 1] + Len(Packed(k, ms[i + 1])) /\ Len(Packed(k, ms[i + 1])) \in Nat
            /\ cut[i + 1] \in 0..Len(w)
        BY <1>6, <3>2
      <4> QED
        BY <1>2, <4>1, <4>2
    <3> QED
      BY <3>1, <3>2
  <2> HIDE DEF Beyond
  <2> QED
    BY <2>1, <2>2, Induction, Zenon
<1> DEFINE new == [i \in 1..n |-> cut[i + 1] - Len(p)]
<1>8. new \in [1..(Len(ns) + 1) -> 0..Len(v)]
  <2>1. ASSUME NEW i \in 1..n PROVE cut[i + 1] - Len(p) \in 0..Len(v)
    <3>1. cut[i + 1] >= Len(p) /\ cut[i + 1] \in 0..Len(w)
      BY <1>6, <1>7
    <3> QED
      BY <1>2, <1>5, <3>1
  <2>2. Len(ns) + 1 = n
    BY <1>1
  <2> QED
    BY <2>1, <2>2
<1>9. new[1] = 0 /\ new[Len(ns) + 1] = Len(v)
  <2>1. 1 \in 1..n /\ n \in 1..n /\ Len(ns) + 1 = n /\ 1 + 1 = 2
    BY <1>1
  <2>2. new[1] = cut[2] - Len(p) /\ new[n] = cut[n + 1] - Len(p)
    BY <2>1
  <2>3. cut[2] = Len(p) /\ cut[n + 1] = Len(w)
    BY <1>3, <1>4, Zenon
  <2> HIDE DEF new
  <2> QED
    BY <1>2, <1>5, <2>1, <2>2, <2>3
<1>10. ASSUME NEW i \in 1..Len(ns)
       PROVE  /\ new[i + 1] = new[i] + Len(Packed(k, ns[i]))
              /\ \A j \in 1..Len(Packed(k, ns[i])) : v[new[i] + j] = Packed(k, ns[i])[j]
  <2>1. i \in 1..n /\ i + 1 \in 1..n /\ ns[i] = ms[i + 1]
    BY <1>1
  <2>2. new[i] = cut[i + 1] - Len(p) /\ new[i + 1] = cut[(i + 1) + 1] - Len(p)
    BY <2>1
  <2> HIDE DEF new
  <2>3. /\ cut[i + 1] \in 0..Len(w) /\ cut[(i + 1) + 1] \in 0..Len(w) /\ Len(Packed(k, ns[i])) \in Nat
        /\ cut[(i + 1) + 1] = cut[i + 1] + Len(Packed(k, ns[i]))
        /\ \A j \in 1..Len(Packed(k, ns[i])) : w[cut[i + 1] + j] = Packed(k, ns[i])[j]
    BY <1>6, <2>1
  <2>4. cut[i + 1] >= Len(p)
    BY <1>7, <2>1
  <2>5. ASSUME NEW j \in 1..Len(Packed(k, ns[i])) PROVE v[new[i] + j] = Packed(k, ns[i])[j]
    <3>1. new[i] + j \in 1..Len(v) /\ Len(p) + (new[i] + j) = cut[i + 1] + j
      <4> DEFINE a == cut[i + 1]
                 l == Len(Packed(k, ns[i]))
      <4>1. a \in Nat /\ l \in Nat /\ a >= Len(p) /\ a + l <= Len(w) /\ j \in 1..l /\ new[i] = a - Len(p)
        BY <1>2, <2>2, <2>3, <2>4
      <4> DEFINE lw == Len(w)
                 lp == Len(p)
                 lv == Len(v)
                 x == new[i]
      <4>2. lw \in Nat /\ lp \in Nat /\ lv = lw - lp
        BY <1>2, <1>5
      <4>3. a \in Nat /\ l \in Nat /\ a >= lp /\ a + l <= lw /\ j \in 1..l /\ x = a - lp
        BY <4>1
      <4> HIDE DEF a, l, lw, lp, lv, x
      <4>4. x + j \in 1..lv /\ lp + (x + j) = a + j
        BY <4>2, <4>3
      <4> QED
        BY <4>4 DEF a, lv, lp, x
    <3> QED
      BY <1>5, <2>3, <3>1
  <2> QED
    BY <1>2, <2>2, <2>3, <2>5
<1> HIDE DEF new
<1>11. Framed(k, v, ns)
  BY <1>8, <1>9, <1>10, Zenon DEF Framed
<1> QED
  BY <1>1, <1>4, <1>11 DEF v, ns, p

\* The bytes of Drop.
LEMMA DropIs ==
    ASSUME NEW s \in Seq(Bytes), NEW n \in 0..Len(s)
    PROVE  /\ Drop(s, n) \in Seq(Bytes) /\ Len(Drop(s, n)) = Len(s) - n
           /\ \A j \in 1..(Len(s) - n) : Drop(s, n)[j] = s[n + j]
  BY DEF Drop

\* What is left of two pieces of the stream when the first loses its head.
LEMMA DropOfConcat ==
    ASSUME NEW s \in Seq(Bytes), NEW t \in Seq(Bytes), NEW n \in 0..Len(s)
    PROVE  Drop(s \o t, n) = Drop(s, n) \o t
<1> DEFINE a == Drop(s \o t, n)
           b == Drop(s, n) \o t
           d == Drop(s, n)
<1>0. Len(s) \in Nat /\ Len(t) \in Nat /\ n \in Nat /\ n <= Len(s)
  OBVIOUS
<1>1. /\ s \o t \in Seq(Bytes) /\ Len(s \o t) = Len(s) + Len(t)
      /\ \A j \in 1..(Len(s) + Len(t)) : (s \o t)[j] = IF j <= Len(s) THEN s[j] ELSE t[j - Len(s)]
  BY ConcatProperties
<1>2. a \in Seq(Bytes) /\ Len(a) = Len(s) + Len(t) - n /\ \A j \in 1..(Len(s) + Len(t) - n) : a[j] = (s \o t)[n + j]
  <2> DEFINE u == s \o t
  <2>1. u \in Seq(Bytes) /\ Len(u) = Len(s) + Len(t) /\ n \in 0..Len(u)
    BY <1>0, <1>1
  <2> HIDE DEF u
  <2>2. /\ Drop(u, n) \in Seq(Bytes) /\ Len(Drop(u, n)) = Len(u) - n
        /\ \A j \in 1..(Len(u) - n) : Drop(u, n)[j] = u[n + j]
    BY <2>1, DropIs
  <2>3. a = Drop(u, n)
    BY DEF u
  <2> HIDE DEF a
  <2> QED
    BY <2>1, <2>2, <2>3, SMTT(30) DEF u
<1>3. d \in Seq(Bytes) /\ Len(d) = Len(s) - n /\ \A j \in 1..(Len(s) - n) : d[j] = s[n + j]
  BY DropIs
<1> HIDE DEF a, d
<1>4. /\ d \o t \in Seq(Bytes) /\ Len(d \o t) = Len(d) + Len(t)
      /\ \A j \in 1..(Len(d) + Len(t)) : (d \o t)[j] = IF j <= Len(d) THEN d[j] ELSE t[j - Len(d)]
  BY <1>3, ConcatProperties
<1>5. Len(a) = Len(d \o t)
  BY <1>0, <1>2, <1>3, <1>4
<1>6. ASSUME NEW j \in 1..Len(a) PROVE a[j] = (d \o t)[j]
  <2>1. j \in Nat /\ j >= 1 /\ j <= Len(s) + Len(t) - n /\ a[j] = (s \o t)[n + j]
    BY <1>0, <1>2
  <2>2. CASE j <= Len(s) - n
    <3>1. n + j \in 1..(Len(s) + Len(t)) /\ n + j <= Len(s)
      BY <1>0, <2>1, <2>2
    <3>2. a[j] = s[n + j]
      BY <1>1, <2>1, <3>1
    <3>3. j \in 1..(Len(d) + Len(t)) /\ j <= Len(d) /\ j \in 1..(Len(s) - n)
      BY <1>0, <1>3, <2>1, <2>2
    <3> QED
      BY <1>3, <1>4, <3>2, <3>3
  <2>3. CASE j > Len(s) - n
    <3>1. a[j] = t[(n + j) - Len(s)]
      BY <1>0, <1>1, <2>1, <2>3
    <3>2. (d \o t)[j] = t[j - Len(d)] /\ j - Len(d) = (n + j) - Len(s)
      BY <1>0, <1>3, <1>4, <2>1, <2>3, SMTT(30)
    <3> QED
      BY <3>1, <3>2
  <2>4. j <= Len(s) - n \/ j > Len(s) - n
    BY <1>0, <2>1
  <2> QED
    BY <2>2, <2>3, <2>4, Zenon
<1>7. a = d \o t
  BY <1>2, <1>4, <1>5, <1>6, SeqEqual
<1> QED
  BY <1>7 DEF a, d

\* raw holds the first packed body that is still to come, as a whole.
Has(k, raw, ms) == ms # <<>> /\ Len(Packed(k, Head(ms))) <= Len(raw)

\* raw is the first piece of a stream of packed bodies: its bytes are those of
\* the first body as far as they go, and behind that one the stream goes on.
LEMMA FirstOfPieces ==
    ASSUME NEW k \in Kinds, NEW raw \in Seq(Bytes), NEW t \in Seq(Bytes), NEW ms \in Seq(Bodies(k)),
           Framed(k, raw \o t, ms)
    PROVE  /\ ms = <<>> => raw = <<>> /\ t = <<>>
           /\ ms # <<>> =>
                 LET p == Packed(k, Head(ms)) IN
                 /\ Head(ms) \in Bodies(k) /\ Tail(ms) \in Seq(Bodies(k))
                 /\ p \in Seq(Bytes) /\ Len(p) \in 1..MSG_BUFFER_SIZE
                 /\ Len(p) <= Len(raw) + Len(t)
                 /\ \A j \in 1..Len(p) : j <= Len(raw) => raw[j] = p[j]
                 /\ Has(k, raw, ms) => /\ Drop(raw, Len(p)) \in Seq(Bytes)
                                       /\ Len(Drop(raw, Len(p))) = Len(raw) - Len(p)
                                       /\ Framed(k, Drop(raw, Len(p)) \o t, Tail(ms))
<1>0. Len(raw) \in Nat /\ Len(t) \in Nat
  OBVIOUS
<1>1. /\ raw \o t \in Seq(Bytes) /\ Len(raw \o t) = Len(raw) + Len(t)
      /\ \A j \in 1..(Len(raw) + Len(t)) : (raw \o t)[j] = IF j <= Len(raw) THEN raw[j] ELSE t[j - Len(raw)]
  BY ConcatProperties
<1>2. CASE ms = <<>>
  <2>1. raw \o t = <<>>
    BY <1>1, <1>2, FramedNothing
  <2>2. Len(raw) + Len(t) = 0
    BY <1>1, <2>1
  <2> QED
    BY <1>0, <1>2, <2>2
<1>3. CASE ms # <<>>
  <2> DEFINE p == Packed(k, Head(ms))
  <2>1. /\ Head(ms) \in Bodies(k) /\ Tail(ms) \in Seq(Bodies(k))
        /\ Len(p) <= Len(raw \o t) /\ \A j \in 1..Len(p) : (raw \o t)[j] = p[j]
        /\ Framed(k, Drop(raw \o t, Len(p)), Tail(ms))
    BY <1>1, <1>3, FramedFirst
  <2>2. p \in Seq(Bytes) /\ Len(p) \in 1..MSG_BUFFER_SIZE
    BY <2>1, BodyIsPacked, CodecAssumption, SMTT(30)
  <2> HIDE DEF p
  <2>3. ASSUME NEW j \in 1..Len(p), j <= Len(raw) PROVE raw[j] = p[j]
    BY <1>0, <1>1, <2>1, <2>2, <2>3
  <2>4. ASSUME Has(k, raw, ms)
        PROVE  /\ Drop(raw, Len(p)) \in Seq(Bytes) /\ Len(Drop(raw, Len(p))) = Len(raw) - Len(p)
               /\ Framed(k, Drop(raw, Len(p)) \o t, Tail(ms))
    <3>1. Len(p) \in 0..Len(raw)
      BY <1>0, <2>2, <2>4 DEF Has, p
    <3> QED
      BY <2>1, <3>1, DropIs, DropOfConcat
  <2>5. Len(p) <= Len(raw) + Len(t)
    BY <1>1, <2>1
  <2> QED
    BY <1>3, <2>1, <2>2, <2>3, <2>4, <2>5 DEF p
<1> QED
  BY <1>2, <1>3

\* The bytes that a packer puts before a body.
Before(k) ==
    CASE k = "prefix_suffix" -> Len(PREFIX)
      [] k = "fixed_length"  -> 0
      [] OTHER               -> HEAD_LEN

\* Where the body is in its packed form, and what stands around it.
LEMMA PackedBytes ==
    ASSUME NEW k \in Kinds, NEW b \in Bodies(k)
    PROVE  LET p == Packed(k, b) IN
           /\ Before(k) \in Nat /\ Before(k) + Len(b) <= Len(p)
           /\ \A j \in 1..Len(b) : p[Before(k) + j] = b[j]
           /\ k = "fixed_length" => Len(p) = FIXED /\ Len(b) = FIXED
           /\ k = "prefix_suffix" =>
                 /\ Len(p) = Len(PREFIX) + Len(b) + Len(SUFFIX)
                 /\ \A j \in 1..Len(PREFIX) : p[j] = PREFIX[j]
                 /\ SuffixAt(p) = {Len(PREFIX) + Len(b)}
           /\ k \in {"unpacker", "unbuffered"} =>
                 /\ Len(p) = HEAD_LEN + Len(b) /\ ~Invalid(Len(p))
                 /\ p[1] * BYTE + p[2] = Len(p)
<1>0. /\ b \in Seq(Bytes) /\ Len(b) \in Nat /\ Len(b) > 0 /\ Envelope(k) + Len(b) <= MSG_BUFFER_SIZE
      /\ Suits(k, b) /\ (k \in {"unpacker", "unbuffered"} => Envelope(k) + Len(b) < HEAD_RANGE)
  BY DEF Bodies
<1>1. PREFIX \in Seq(Bytes) /\ SUFFIX \in Seq(Bytes) /\ Len(PREFIX) \in Nat /\ Len(SUFFIX) \in Nat
  BY CodecAssumption
<1>2. CASE k = "prefix_suffix"
  <2> DEFINE q == PREFIX \o b
             p == q \o SUFFIX
  <2>1. /\ q \in Seq(Bytes) /\ Len(q) = Len(PREFIX) + Len(b)
        /\ \A j \in 1..Len(q) : q[j] = IF j <= Len(PREFIX) THEN PREFIX[j] ELSE b[j - Len(PREFIX)]
    BY <1>0, <1>1, ConcatProperties
  <2> HIDE DEF q
  <2>2. /\ p \in Seq(Bytes) /\ Len(p) = Len(q) + Len(SUFFIX)
        /\ \A j \in 1..Len(q) : p[j] = q[j]
    <3>1. /\ p \in Seq(Bytes) /\ Len(p) = Len(q) + Len(SUFFIX)
          /\ \A j \in 1..(Len(q) + Len(SUFFIX)) : p[j] = IF j <= Len(q) THEN q[j] ELSE SUFFIX[j - Len(q)]
      <4>1. q \in Seq(Bytes) /\ SUFFIX \in Seq(Bytes)
        BY <1>1, <2>1
      <4> QED
        BY <4>1, ConcatProperties
    <3>2. Len(q) \in Nat
      BY <2>1
    <3> HIDE DEF p
    <3> QED
      BY <1>1, <3>1, <3>2
  <2>3. Packed(k, b) = p /\ Before(k) = Len(PREFIX)
    BY <1>2 DEF Packed, Before, q
  <2>4. SuffixAt(p) = {Len(PREFIX) + Len(b)}
    BY <1>0, <1>2 DEF Suits, q
  <2> HIDE DEF p
  <2>5. ASSUME NEW j \in 1..Len(b) PROVE p[Len(PREFIX) + j] = b[j]
    <3>1. Len(PREFIX) + j \in 1..Len(q) /\ ~(Len(PREFIX) + j <= Len(PREFIX)) /\ (Len(PREFIX) + j) - Len(PREFIX) = j
      BY <1>0, <1>1, <2>1
    <3> QED
      BY <2>1, <2>2, <3>1
  <2>6. ASSUME NEW j \in 1..Len(PREFIX) PROVE p[j] = PREFIX[j]
    <3>1. j \in 1..Len(q) /\ j <= Len(PREFIX)
      BY <1>0, <1>1, <2>1
    <3> QED
      BY <2>1, <2>2, <3>1
  <2> QED
    BY <1>0, <1>1, <1>2, <2>1, <2>2, <2>3, <2>4, <2>5, <2>6, SMTT(30)
<1>3. CASE k = "fixed_length"
  BY <1>0, <1>3 DEF Packed, Before, Suits
<1>4. CASE k \in {"unpacker", "unbuffered"}
  <2> DEFINE n == HEAD_LEN + Len(b)
             h == head_h2n(n)
             p == h \o b
  <2>1. Envelope(k) = HEAD_LEN /\ Before(k) = HEAD_LEN /\ Packed(k, b) = p
    BY <1>4 DEF Envelope, Packed, Before
  <2>2. n \in Nat /\ n < HEAD_RANGE /\ n <= MSG_BUFFER_SIZE /\ n > HEAD_LEN
    BY <1>0, <1>4, <2>1 DEF HEAD_LEN
  <2>3. h \in Seq(Bytes) /\ Len(h) = HEAD_LEN /\ h[1] * BYTE + h[2] = n
    BY <2>2, HeadIsLength
  <2> HIDE DEF h
  <2>4. /\ p \in Seq(Bytes) /\ Len(p) = n /\ p[1] = h[1] /\ p[2] = h[2]
        /\ \A j \in 1..Len(b) : p[HEAD_LEN + j] = b[j]
    <3>1. /\ p \in Seq(Bytes) /\ Len(p) = Len(h) + Len(b)
          /\ \A j \in 1..(Len(h) + Len(b)) : p[j] = IF j <= Len(h) THEN h[j] ELSE b[j - Len(h)]
      BY <1>0, <2>3, ConcatProperties
    <3> HIDE DEF p
    <3>2. p[1] = h[1] /\ p[2] = h[2]
      BY <1>0, <2>3, <3>1 DEF HEAD_LEN
    <3>3. ASSUME NEW j \in 1..Len(b) PROVE p[HEAD_LEN + j] = b[j]
      BY <1>0, <2>3, <3>1 DEF HEAD_LEN
    <3> QED
      BY <2>3, <3>1, <3>2, <3>3
  <2>5. ~Invalid(n)
    BY <2>2, CodecAssumption DEF Invalid, HEAD_LEN
  <2> HIDE DEF p
  <2> QED
    BY <1>0, <1>4, <2>1, <2>2, <2>3, <2>4, <2>5 DEF HEAD_LEN
<1> QED
  BY <1>2, <1>3, <1>4 DEF Kinds

\* A piece of the stream that holds the first packed body holds the body.
LEMMA FirstBody ==
    ASSUME NEW k \in Kinds, NEW raw \in Seq(Bytes), NEW t \in Seq(Bytes), NEW ms \in Seq(Bodies(k)),
           Framed(k, raw \o t, ms), Has(k, raw, ms)
    PROVE  /\ SubSeq(raw, Before(k) + 1, Before(k) + Len(Head(ms))) = Head(ms)
           /\ k \in {"unpacker", "unbuffered"} => head_n2h(raw) = Len(Packed(k, Head(ms)))
<1> DEFINE b == Head(ms)
           p == Packed(k, b)
           e == Before(k)
           s == SubSeq(raw, e + 1, e + Len(b))
<1>1. ms # <<>> /\ Len(p) <= Len(raw) /\ Len(raw) \in Nat
  BY DEF Has
<1>2. b \in Bodies(k) /\ p \in Seq(Bytes) /\ \A j \in 1..Len(p) : j <= Len(raw) => raw[j] = p[j]
  BY <1>1, FirstOfPieces
<1>3. b \in Seq(Bytes) /\ Len(b) \in Nat /\ Len(b) > 0 /\ Len(p) \in Nat
  BY <1>2, BodyIsPacked
<1>4. /\ e \in Nat /\ e + Len(b) <= Len(p) /\ \A j \in 1..Len(b) : p[e + j] = b[j]
      /\ k \in {"unpacker", "unbuffered"} => p[1] * BYTE + p[2] = Len(p) /\ ~Invalid(Len(p))
  BY <1>2, PackedBytes
<1> HIDE DEF b, p, e
<1>5. s \in Seq(Bytes) /\ Len(s) = Len(b) /\ \A j \in 1..Len(b) : s[j] = raw[e + j]
  <2>1. e + 1 \in 1..Len(raw) /\ e + Len(b) \in 1..Len(raw) /\ (e + Len(b)) - (e + 1) + 1 = Len(b)
    BY <1>1, <1>3, <1>4
  <2> DEFINE m == e + 1
             n == e + Len(b)
  <2>2. m \in 1..Len(raw) /\ n \in 1..Len(raw) /\ n - m + 1 = Len(b) /\ m <= n + 1
    BY <1>1, <1>3, <1>4, <2>1
  <2>3. ASSUME NEW j \in 1..Len(b) PROVE (e + 1) + j - 1 = e + j
    BY <1>3, <1>4
  <2>4. Len(s) = Len(b) /\ s \in Seq(Bytes)
    BY <1>1, <1>3, <1>4, <2>1
  <2>5. ASSUME NEW j \in 1..Len(b) PROVE s[j] = raw[e + j]
    BY <1>1, <1>3, <1>4, <2>1, <2>3
  <2> QED
    BY <2>4, <2>5
<1>6. ASSUME NEW j \in 1..Len(b) PROVE s[j] = b[j]
  <2>1. e + j \in 1..Len(p) /\ e + j <= Len(raw)
    BY <1>1, <1>3, <1>4
  <2> QED
    BY <1>2, <1>4, <1>5, <2>1
<1>7. s = b
  <2> HIDE DEF s
  <2>1. \A j \in 1..Len(s) : s[j] = b[j]
    BY <1>5, <1>6
  <2> QED
    BY <1>3, <1>5, <2>1, SeqEqual
<1>8. ASSUME k \in {"unpacker", "unbuffered"} PROVE head_n2h(raw) = Len(p)
  <2>1. Len(p) >= 2
    BY <1>3, <1>4, <1>8, CodecAssumption DEF Invalid, HEAD_LEN
  <2>2. raw[1] = p[1] /\ raw[2] = p[2]
    BY <1>1, <1>2, <1>3, <2>1
  <2> QED
    BY <1>4, <1>8, <2>2 DEF head_n2h
<1> QED
  BY <1>7, <1>8 DEF b, p, e

\* Two bytes are enough to know how long the first packed body is.
LEMMA FirstHead ==
    ASSUME NEW k \in {"unpacker", "unbuffered"}, NEW raw \in Seq(Bytes), NEW t \in Seq(Bytes),
           NEW ms \in Seq(Bodies(k)), Framed(k, raw \o t, ms), Len(raw) >= HEAD_LEN
    PROVE  LET p == Packed(k, Head(ms)) IN
           /\ ms # <<>> /\ Head(ms) \in Bodies(k) /\ head_n2h(raw) = Len(p) /\ ~Invalid(Len(p))
           /\ Len(p) \in Nat /\ Len(p) = HEAD_LEN + Len(Head(ms)) /\ Len(Head(ms)) \in Nat
<1> DEFINE p == Packed(k, Head(ms))
<1>0. k \in Kinds /\ Len(raw) \in Nat /\ Len(raw) >= 2
  BY DEF Kinds, HEAD_LEN
<1>1. ms # <<>>
  <2> SUFFICES ASSUME ms = <<>> PROVE FALSE
    OBVIOUS
  <2>1. raw = <<>>
    BY <1>0, FirstOfPieces
  <2> QED
    BY <1>0, <2>1
<1>2. Head(ms) \in Bodies(k) /\ p \in Seq(Bytes) /\ \A j \in 1..Len(p) : j <= Len(raw) => raw[j] = p[j]
  BY <1>0, <1>1, FirstOfPieces
<1>3. /\ Len(p) \in Nat /\ Len(p) = HEAD_LEN + Len(Head(ms)) /\ ~Invalid(Len(p)) /\ Len(Head(ms)) \in Nat
      /\ p[1] * BYTE + p[2] = Len(p)
  BY <1>0, <1>2, PackedBytes, BodyIsPacked
<1> HIDE DEF p
<1>4. Len(p) >= 2
  BY <1>3 DEF HEAD_LEN
<1>5. raw[1] = p[1] /\ raw[2] = p[2]
  BY <1>0, <1>2, <1>3, <1>4
<1> QED
  BY <1>1, <1>2, <1>3, <1>5 DEF p, head_n2h

\* The suffix is found in a piece of the stream when that holds the first
\* packed body, and then first at the end of that body.
LEMMA FirstSuffix ==
    ASSUME NEW raw \in Seq(Bytes), NEW t \in Seq(Bytes), NEW ms \in Seq(Bodies("prefix_suffix")),
           Framed("prefix_suffix", raw \o t, ms), ms # <<>>
    PROVE  LET p == Packed("prefix_suffix", Head(ms)) IN
           /\ Len(p) > Len(raw) => SuffixAt(raw) = {}
           /\ Len(p) <= Len(raw) => Min(SuffixAt(raw)) = Len(p) - Len(SUFFIX) /\ SuffixAt(raw) # {}
<1> DEFINE k == "prefix_suffix"
           b == Head(ms)
           p == Packed(k, b)
           i0 == Len(PREFIX) + Len(b)
<1>1. k \in Kinds /\ Len(raw) \in Nat
  BY DEF Kinds
<1>2. /\ PREFIX \in Seq(Bytes) /\ SUFFIX \in Seq(Bytes) /\ Len(PREFIX) \in Nat /\ Len(SUFFIX) \in Nat
      /\ Len(SUFFIX) > 0
  BY CodecAssumption
<1>3. /\ b \in Bodies(k) /\ p \in Seq(Bytes)
      /\ \A j \in 1..Len(p) : j <= Len(raw) => raw[j] = p[j]
  BY <1>1, FirstOfPieces
<1>4. /\ Len(b) \in Nat /\ Len(p) \in Nat /\ Len(p) = i0 + Len(SUFFIX) /\ SuffixAt(p) = {i0}
  BY <1>1, <1>3, PackedBytes, BodyIsPacked
<1> HIDE DEF b, p, i0
<1>5. i0 \in Nat
  BY <1>2, <1>4 DEF i0
<1>6. ASSUME NEW i \in Nat, i + Len(SUFFIX) <= Len(raw), i + Len(SUFFIX) <= Len(p)
      PROVE  i \in SuffixAt(raw) <=> i \in SuffixAt(p)
  <2>1. SubSeq(raw, i + 1, i + Len(SUFFIX)) = SubSeq(p, i + 1, i + Len(SUFFIX))
    <3> DEFINE u == SubSeq(raw, i + 1, i + Len(SUFFIX))
               v == SubSeq(p, i + 1, i + Len(SUFFIX))
    <3>1. /\ u \in Seq(Bytes) /\ Len(u) = Len(SUFFIX) /\ \A j \in 1..Len(SUFFIX) : u[j] = raw[i + j]
      BY <1>1, <1>2, <1>6
    <3>2. /\ v \in Seq(Bytes) /\ Len(v) = Len(SUFFIX) /\ \A j \in 1..Len(SUFFIX) : v[j] = p[i + j]
      BY <1>2, <1>3, <1>4, <1>6
    <3> HIDE DEF u, v
    <3>3. ASSUME NEW j \in 1..Len(u) PROVE u[j] = v[j]
      <4>1. j \in 1..Len(SUFFIX) /\ i + j \in 1..Len(p) /\ i + j <= Len(raw)
        BY <1>1, <1>2, <1>4, <1>6, <3>1
      <4> QED
        BY <1>3, <3>1, <3>2, <4>1
    <3>4. u = v
      BY <3>1, <3>2, <3>3, SeqEqual
    <3> QED
      BY <3>4 DEF u, v
  <2>2. i \in Len(PREFIX)..(Len(raw) - Len(SUFFIX)) <=> i \in Len(PREFIX)..(Len(p) - Len(SUFFIX))
    BY <1>1, <1>2, <1>4, <1>6
  <2> QED
    BY <2>1, <2>2 DEF SuffixAt
<1>7. \A i \in SuffixAt(raw) : i \in Nat /\ i + Len(SUFFIX) <= Len(raw)
  BY <1>1, <1>2 DEF SuffixAt
<1>8. ASSUME Len(p) > Len(raw), NEW i \in SuffixAt(raw) PROVE FALSE
  <2>1. i + Len(SUFFIX) <= Len(p) /\ i \in Nat
    BY <1>1, <1>2, <1>4, <1>7, <1>8
  <2>2. i = i0
    BY <1>4, <1>6, <1>7, <2>1
  <2> QED
    BY <1>1, <1>2, <1>4, <1>5, <1>7, <1>8, <2>2
<1>9. ASSUME Len(p) <= Len(raw) PROVE i0 \in SuffixAt(raw) /\ \A i \in SuffixAt(raw) : i0 <= i
  <2>1. i0 \in SuffixAt(raw)
    BY <1>1, <1>4, <1>5, <1>6, <1>9
  <2>2. ASSUME NEW i \in SuffixAt(raw), i < i0 PROVE FALSE
    <3>1. i \in Nat /\ i + Len(SUFFIX) <= Len(raw) /\ i + Len(SUFFIX) <= Len(p)
      BY <1>2, <1>4, <1>5, <1>7, <2>2
    <3>2. i = i0
      BY <1>4, <1>6, <3>1
    <3> QED
      BY <1>5, <2>2, <3>2
  <2>3. ASSUME NEW i \in SuffixAt(raw) PROVE i0 <= i
    <3>1. i \in Nat /\ ~(i < i0)
      BY <1>7, <2>2
    <3> QED
      BY <1>5, <3>1
  <2> QED
    BY <2>1, <2>3
<1>10. ASSUME Len(p) <= Len(raw) PROVE Min(SuffixAt(raw)) = i0
  <2> DEFINE S == SuffixAt(raw)
  <2>1. i0 \in S /\ \A i \in S : i \in Nat /\ i0 <= i
    BY <1>7, <1>9, <1>10
  <2> HIDE DEF S
  <2>2. ASSUME NEW x \in S, \A y \in S : x <= y PROVE x = i0
    BY <1>5, <2>1, <2>2
  <2>3. Min(S) = i0
    BY <2>1, <2>2, Zenon DEF Min
  <2> QED
    BY <2>3 DEF S
<1>11. i0 = Len(p) - Len(SUFFIX)
  BY <1>2, <1>4, <1>5
<1> QED
  BY <1>8, <1>9, <1>10, <1>11 DEF p, b, k

\* peek_msg goes on exactly until the first packed body is there, and finds
\* its length; no byte of the stream makes it fail.
LEMMA PeekFirst ==
    ASSUME NEW raw \in Seq(Bytes), NEW t \in Seq(Bytes), NEW ms \in Seq(Bodies("prefix_suffix")),
           Framed("prefix_suffix", raw \o t, ms), NEW first \in {DontKnow, 0}
    PROVE  LET p == peek_msg(raw, first) IN
           /\ p.more <=> ~Has("prefix_suffix", raw, ms)
           /\ IF Has("prefix_suffix", raw, ms)
              THEN p.cur = Len(Packed("prefix_suffix", Head(ms))) ELSE p.cur \in {DontKnow, 0}
<1> DEFINE k == "prefix_suffix"
           p == Packed(k, Head(ms))
           has == Has(k, raw, ms)
           check == first = DontKnow /\ Len(raw) >= Len(PREFIX)
           found == Len(raw) > min_len /\ SuffixAt(raw) # {}
           full  == Len(raw) > min_len /\ Len(raw) >= MSG_BUFFER_SIZE
<1>1. k \in Kinds /\ Len(raw) \in Nat /\ MSG_BUFFER_SIZE \in Nat /\ MSG_BUFFER_SIZE > 0
  BY CodecAssumption DEF Kinds
<1>2. /\ PREFIX \in Seq(Bytes) /\ SUFFIX \in Seq(Bytes) /\ Len(PREFIX) \in Nat /\ Len(SUFFIX) \in Nat
      /\ min_len \in Nat /\ min_len = Len(PREFIX) + Len(SUFFIX)
  BY CodecAssumption DEF min_len
<1>3. /\ ms = <<>> => Len(raw) = 0
      /\ ms # <<>> => /\ Head(ms) \in Bodies(k) /\ p \in Seq(Bytes) /\ Len(p) \in 1..MSG_BUFFER_SIZE
                      /\ \A j \in 1..Len(p) : j <= Len(raw) => raw[j] = p[j]
  <2>1. ms = <<>> => raw = <<>>
    BY <1>1, FirstOfPieces
  <2>2. ms # <<>> => /\ Head(ms) \in Bodies(k) /\ p \in Seq(Bytes) /\ Len(p) \in 1..MSG_BUFFER_SIZE
                     /\ \A j \in 1..Len(p) : j <= Len(raw) => raw[j] = p[j]
    BY <1>1, FirstOfPieces
  <2> QED
    BY <2>1, <2>2
<1>4. ms # <<>> => /\ Len(p) > min_len /\ \A j \in 1..Len(PREFIX) : p[j] = PREFIX[j]
  <2> SUFFICES ASSUME ms # <<>> PROVE Len(p) > min_len /\ \A j \in 1..Len(PREFIX) : p[j] = PREFIX[j]
    OBVIOUS
  <2>1. /\ Len(p) = Len(PREFIX) + Len(Head(ms)) + Len(SUFFIX) /\ \A j \in 1..Len(PREFIX) : p[j] = PREFIX[j]
        /\ Len(Head(ms)) \in Nat /\ Len(Head(ms)) > 0
    BY <1>1, <1>3, PackedBytes, BodyIsPacked
  <2> HIDE DEF p
  <2> QED
    BY <1>2, <2>1
<1>5. ms # <<>> => /\ Len(p) > Len(raw) => SuffixAt(raw) = {}
                   /\ Len(p) <= Len(raw) => Min(SuffixAt(raw)) = Len(p) - Len(SUFFIX) /\ SuffixAt(raw) # {}
  BY FirstSuffix
<1>6. has <=> ms # <<>> /\ Len(p) <= Len(raw)
  BY DEF Has
<1> HIDE DEF p, has
<1>7. found <=> has
  BY <1>1, <1>2, <1>3, <1>4, <1>5, <1>6
<1>8. full => has
  BY <1>1, <1>2, <1>3, <1>6
<1>9. ASSUME Len(raw) >= Len(PREFIX) PROVE SubSeq(raw, 1, Len(PREFIX)) = PREFIX
  <2> DEFINE u == SubSeq(raw, 1, Len(PREFIX))
  <2>1. u \in Seq(Bytes) /\ Len(u) = Len(PREFIX) /\ \A j \in 1..Len(PREFIX) : u[j] = raw[j]
    BY <1>1, <1>2, <1>9
  <2> HIDE DEF u
  <2>2. ASSUME NEW j \in 1..Len(u) PROVE u[j] = PREFIX[j]
    <3>1. ms # <<>> /\ j \in 1..Len(p) /\ j <= Len(raw) /\ j \in 1..Len(PREFIX)
      BY <1>1, <1>2, <1>3, <1>4, <1>9, <2>1
    <3> QED
      BY <1>3, <1>4, <2>1, <3>1
  <2>3. u = PREFIX
    BY <1>2, <2>1, <2>2, SeqEqual
  <2> QED
    BY <2>3 DEF u
<1>10. peek_msg(raw, first) = [more |-> ~found /\ ~full,
                               cur  |-> IF found THEN Min(SuffixAt(raw)) + Len(SUFFIX)
                                        ELSE IF check THEN 0 ELSE first]
  BY <1>9 DEF peek_msg
<1> DEFINE pm == peek_msg(raw, first)
<1>11. /\ pm.more <=> ~found /\ ~full
       /\ pm.cur = IF found THEN Min(SuffixAt(raw)) + Len(SUFFIX) ELSE IF check THEN 0 ELSE first
  <2>1. pm.more = (~found /\ ~full)
    BY <1>10
  <2>2. pm.cur = IF found THEN Min(SuffixAt(raw)) + Len(SUFFIX) ELSE IF check THEN 0 ELSE first
    BY <1>10
  <2> QED
    BY <2>1, <2>2
<1> HIDE DEF found, full, pm
<1>12. has => Min(SuffixAt(raw)) + Len(SUFFIX) = Len(p)
  BY <1>2, <1>3, <1>5, <1>6
<1>13. /\ pm.more <=> ~has
       /\ IF has THEN pm.cur = Len(p) ELSE pm.cur \in {DontKnow, 0}
  BY <1>7, <1>8, <1>11, <1>12
<1> QED
  BY <1>13 DEF has, p, pm

-----------------------------------------------------------------------------
(* The loops of parse_msg. *)

\* Of the bodies ms, those in msgs have been taken out, and those in ns are
\* still to come: in raw and, behind it, in t.
Left(k, t, ms, raw, msgs, ns) ==
    /\ ms = msgs \o ns /\ msgs \in Seq(Bodies(k)) /\ ns \in Seq(Bodies(k))
    /\ raw \in Seq(Bytes) /\ Framed(k, raw \o t, ns)

LEMMA LeftAtFirst ==
    ASSUME NEW k \in Kinds, NEW raw \in Seq(Bytes), NEW t \in Seq(Bytes), NEW ms \in Seq(Bodies(k)),
           Framed(k, raw \o t, ms)
    PROVE  Left(k, t, ms, raw, <<>>, ms)
<1>1. <<>> \in Seq(Bodies(k)) /\ <<>> \o ms = ms
  BY EmptySeq, ConcatEmptySeq
<1> QED
  BY <1>1, Zenon DEF Left

\* The next body is taken out.
LEMMA LeftAfterOne ==
    ASSUME NEW k \in Kinds, NEW t \in Seq(Bytes), NEW ms, NEW raw, NEW msgs, NEW ns,
           Left(k, t, ms, raw, msgs, ns), Has(k, raw, ns)
    PROVE  LET p == Packed(k, Head(ns)) IN
           /\ Left(k, t, ms, Drop(raw, Len(p)), Append(msgs, Head(ns)), Tail(ns))
           /\ Append(msgs, Head(ns)) # <<>> /\ Head(ns) \in Seq(Bytes)
           /\ Len(p) \in 1..Len(raw) /\ Len(Drop(raw, Len(p))) = Len(raw) - Len(p)
<1> DEFINE p == Packed(k, Head(ns))
           S == Bodies(k)
<1>1. ms = msgs \o ns /\ msgs \in Seq(S) /\ ns \in Seq(S) /\ raw \in Seq(Bytes) /\ ns # <<>>
  BY DEF Left, Has
<1>2. /\ Head(ns) \in S /\ Tail(ns) \in Seq(S) /\ Len(p) \in 1..MSG_BUFFER_SIZE
      /\ Drop(raw, Len(p)) \in Seq(Bytes) /\ Len(Drop(raw, Len(p))) = Len(raw) - Len(p)
      /\ Framed(k, Drop(raw, Len(p)) \o t, Tail(ns))
  BY <1>1, FirstOfPieces DEF Left
<1>3. Len(p) <= Len(raw)
  BY DEF Has
<1>4. Head(ns) \in Seq(Bytes)
  BY <1>2, BodyIsPacked
<1> HIDE DEF p, S
<1>5. msgs \o ns = Append(msgs, Head(ns)) \o Tail(ns)
  <2>1. ns = <<Head(ns)>> \o Tail(ns)
    BY <1>1
  <2>2. Append(msgs, Head(ns)) = msgs \o <<Head(ns)>> /\ <<Head(ns)>> \in Seq(S)
    BY <1>1, <1>2
  <2>3. (msgs \o <<Head(ns)>>) \o Tail(ns) = msgs \o (<<Head(ns)>> \o Tail(ns))
    <3> DEFINE h == <<Head(ns)>>
               tl == Tail(ns)
    <3>1. msgs \in Seq(S) /\ h \in Seq(S) /\ tl \in Seq(S)
      BY <1>1, <1>2, <2>2
    <3> HIDE DEF h, tl
    <3>2. (msgs \o h) \o tl = msgs \o (h \o tl)
      BY <3>1, ConcatAssociative, SMTT(30)
    <3> QED
      BY <3>2 DEF h, tl
  <2> QED
    BY <2>1, <2>2, <2>3, Zenon
<1>6. Append(msgs, Head(ns)) \in Seq(S) /\ Append(msgs, Head(ns)) # <<>>
  <2> DEFINE h == Head(ns)
  <2>1. msgs \in Seq(S) /\ h \in S
    BY <1>1, <1>2
  <2> HIDE DEF h
  <2>2. Append(msgs, h) \in Seq(S) /\ Len(Append(msgs, h)) = Len(msgs) + 1 /\ Len(msgs) \in Nat
    BY <2>1
  <2>3. Append(msgs, h) # <<>>
    BY <2>2
  <2> QED
    BY <2>2, <2>3 DEF h
<1>7. Len(p) \in 1..Len(raw)
  BY <1>1, <1>2, <1>3
<1> QED
  BY <1>1, <1>2, <1>4, <1>5, <1>6, <1>7, Zenon DEF Left, p, S

\* The loop of unpacker::parse_msg takes out every packed body that is there,
\* and leaves the length of the next one when its head is there.
LEMMA CutHeads ==
    ASSUME NEW k \in {"unpacker", "unbuffered"}, NEW raw \in Seq(Bytes), NEW t \in Seq(Bytes),
           NEW ms \in Seq(Bodies(k)), Framed(k, raw \o t, ms),
           NEW cur, cur = DontKnow \/ (Len(raw) >= HEAD_LEN /\ cur = head_n2h(raw))
    PROVE  LET r == cut_heads(raw, cur) IN
           \E ns : /\ Left(k, t, ms, r.raw, r.msgs, ns) /\ ~Has(k, r.raw, ns)
                   /\ r.cur = IF Len(r.raw) >= HEAD_LEN THEN head_n2h(r.raw) ELSE DontKnow
                   /\ r.msgs = <<>> => r.raw = raw
                   /\ r.cur = DontKnow \/ ~Invalid(r.cur)
<1> DEFINE D == [raw : Seq(Bytes), cur : Int, msgs : Seq(Seq(Bytes))]
           start == [raw |-> raw, cur |-> cur, msgs |-> <<>>]
           I == {s \in D :
                    /\ s.msgs = <<>> => s.raw = raw
                    /\ s.cur = DontKnow \/ (Len(s.raw) >= HEAD_LEN /\ s.cur = head_n2h(s.raw))
                    /\ \E ns : Left(k, t, ms, s.raw, s.msgs, ns)}
           V == [s \in I |-> Len(s.raw) + (IF s.cur = DontKnow THEN 1 ELSE 0)]
           Look(s) == s.cur = DontKnow /\ Len(s.raw) >= HEAD_LEN
           Take(s) == s.cur # DontKnow /\ ~Invalid(s.cur) /\ Len(s.raw) >= s.cur
<1>0. k \in Kinds /\ Before(k) = HEAD_LEN /\ DontKnow \in Int
  BY DEF Kinds, Before, DontKnow
<1>1. ASSUME NEW s \in D
      PROVE  /\ Look(s) => heads_turn[s] = [s EXCEPT !.cur = head_n2h(s.raw)]
             /\ ~Look(s) /\ Take(s) =>
                   heads_turn[s] = [raw |-> Drop(s.raw, s.cur), cur |-> DontKnow,
                                    msgs |-> Append(s.msgs, SubSeq(s.raw, HEAD_LEN + 1, s.cur))]
             /\ ~Look(s) /\ ~Take(s) => heads_turn[s] = s
  BY DEF heads_turn
<1>2. ASSUME NEW s \in D, NEW ns, Left(k, t, ms, s.raw, s.msgs, ns), Len(s.raw) >= HEAD_LEN
      PROVE  LET p == Packed(k, Head(ns)) IN
             /\ ns # <<>> /\ Head(ns) \in Bodies(k) /\ head_n2h(s.raw) = Len(p) /\ ~Invalid(Len(p))
             /\ Len(p) \in Nat /\ Len(p) = HEAD_LEN + Len(Head(ns)) /\ Len(Head(ns)) \in Nat
  <2>1. s.raw \in Seq(Bytes) /\ ns \in Seq(Bodies(k)) /\ Framed(k, s.raw \o t, ns)
    BY <1>2 DEF Left
  <2> QED
    BY <1>2, <2>1, FirstHead
<1>3. ASSUME NEW s \in I PROVE heads_turn[s] \in I /\ (heads_turn[s] = s \/ V[heads_turn[s]] < V[s])
  <2>0. s \in D /\ s.raw \in Seq(Bytes) /\ Len(s.raw) \in Nat /\ s.msgs \in Seq(Seq(Bytes))
    OBVIOUS
  <2>1. PICK ns : Left(k, t, ms, s.raw, s.msgs, ns)
    OBVIOUS
  <2> DEFINE p == Packed(k, Head(ns))
             u == heads_turn[s]
  <2>2. CASE Look(s)
    <3>1. head_n2h(s.raw) = Len(p) /\ Len(p) \in Nat
      BY <1>2, <2>0, <2>1, <2>2
    <3>2. u = [raw |-> s.raw, cur |-> Len(p), msgs |-> s.msgs]
      BY <1>1, <2>0, <2>2, <3>1, ZenonT(40)
    <3> HIDE DEF p, u
    <3>3. u \in I
      BY <2>0, <2>1, <2>2, <3>1, <3>2
    <3>4. V[u] < V[s]
      BY <2>0, <2>2, <3>1, <3>2, <3>3, SMTT(30) DEF DontKnow
    <3> QED
      BY <3>3, <3>4 DEF u
  <2>3. CASE ~Look(s) /\ Take(s)
    <3>1. Len(s.raw) >= HEAD_LEN /\ s.cur = head_n2h(s.raw)
      BY <2>3
    <3>2. s.cur = Len(p) /\ ns # <<>> /\ Len(p) = HEAD_LEN + Len(Head(ns)) /\ Len(p) \in Nat
      BY <1>2, <2>0, <2>1, <3>1
    <3>3. Has(k, s.raw, ns)
      BY <2>3, <3>2 DEF Has
    <3>4. SubSeq(s.raw, HEAD_LEN + 1, s.cur) = Head(ns)
      <4>1. ns \in Seq(Bodies(k)) /\ Framed(k, s.raw \o t, ns)
        BY <2>1 DEF Left
      <4>2. SubSeq(s.raw, Before(k) + 1, Before(k) + Len(Head(ns))) = Head(ns)
        BY <1>0, <2>0, <3>3, <4>1, FirstBody
      <4> QED
        BY <1>0, <3>2, <4>2
    <3>5. /\ Left(k, t, ms, Drop(s.raw, Len(p)), Append(s.msgs, Head(ns)), Tail(ns))
          /\ Append(s.msgs, Head(ns)) # <<>> /\ Head(ns) \in Seq(Bytes)
          /\ Len(p) \in 1..Len(s.raw) /\ Len(Drop(s.raw, Len(p))) = Len(s.raw) - Len(p)
      <4> DEFINE w == s.raw
                 m == s.msgs
      <4>1. Left(k, t, ms, w, m, ns) /\ Has(k, w, ns)
        BY <2>1, <3>3
      <4> HIDE DEF w, m, D, I, V
      <4>2. /\ Left(k, t, ms, Drop(w, Len(p)), Append(m, Head(ns)), Tail(ns))
            /\ Append(m, Head(ns)) # <<>> /\ Head(ns) \in Seq(Bytes)
            /\ Len(p) \in 1..Len(w) /\ Len(Drop(w, Len(p))) = Len(w) - Len(p)
        BY <1>0, <4>1, LeftAfterOne
      <4> QED
        BY <4>2 DEF w, m
    <3>6. u = [raw |-> Drop(s.raw, Len(p)), cur |-> DontKnow, msgs |-> Append(s.msgs, Head(ns))]
      BY <1>1, <2>0, <2>3, <3>2, <3>4
    <3>7. Drop(s.raw, Len(p)) \in Seq(Bytes) /\ Append(s.msgs, Head(ns)) \in Seq(Seq(Bytes))
      BY <2>0, <3>5 DEF Left
    <3> HIDE DEF p, u
    <3>8. u \in D /\ u.cur = DontKnow /\ u.msgs # <<>> /\ Left(k, t, ms, u.raw, u.msgs, Tail(ns))
      BY <1>0, <3>5, <3>6, <3>7
    <3>9. u \in I
      BY <3>8
    <3>10. Len(p) > 2
      BY <2>3, <3>2, CodecAssumption DEF Invalid, HEAD_LEN
    <3>11. V[u] < V[s]
      <4>1. V[u] = Len(s.raw) - Len(p) + 1 /\ V[s] = Len(s.raw) + 0
        BY <2>0, <2>3, <3>2, <3>5, <3>6, <3>8, <3>9
      <4> QED
        <5>1. Len(s.raw) \in Nat /\ Len(p) \in Nat
          BY <2>0, <3>2
        <5> HIDE DEF V
        <5> QED
          BY <3>10, <4>1, <5>1
    <3> QED
      BY <3>9, <3>11 DEF u
  <2>4. CASE ~Look(s) /\ ~Take(s)
    BY <1>1, <2>0, <2>4
  <2> QED
    BY <2>2, <2>3, <2>4
<1>4. start \in I /\ V[start] <= Len(raw) + 1 /\ V \in [I -> Nat]
  <2>1. Left(k, t, ms, raw, <<>>, ms)
    BY <1>0, LeftAtFirst
  <2>2. cur \in Int
    <3>1. CASE cur = DontKnow
      BY <1>0, <3>1
    <3>2. CASE Len(raw) >= HEAD_LEN /\ cur = head_n2h(raw)
      <4>1. head_n2h(raw) = Len(Packed(k, Head(ms))) /\ Len(Packed(k, Head(ms))) \in Nat
        BY <3>2, FirstHead
      <4> QED
        BY <3>2, <4>1
    <3> QED
      BY <3>1, <3>2
  <2>3. start \in D
    BY <2>2
  <2>4. start \in I
    BY <2>1, <2>3
  <2>5. ASSUME NEW s \in I PROVE Len(s.raw) + (IF s.cur = DontKnow THEN 1 ELSE 0) \in Nat
    <3>1. Len(s.raw) \in Nat
      OBVIOUS
    <3> QED
      BY <3>1
  <2>6. V[start] <= Len(raw) + 1
    <3>1. Len(raw) \in Nat /\ start.raw = raw
      OBVIOUS
    <3> QED
      BY <2>4, <3>1
  <2> QED
    BY <2>4, <2>5, <2>6
<1> DEFINE r == Turns(heads_turn, start, Len(raw) + 1)
<1>5. r \in I /\ heads_turn[r] = r
  <2>1. Len(raw) + 1 \in Nat
    OBVIOUS
  <2> HIDE DEF I, V
  <2> QED
    BY <1>3, <1>4, <2>1, LoopEnds, ZenonT(40)
<1>6. cut_heads(raw, cur) = r
  BY DEF cut_heads
<1> HIDE DEF r
<1>7. r \in D /\ r.raw \in Seq(Bytes) /\ Len(r.raw) \in Nat
  BY <1>5
<1>8. PICK ns : Left(k, t, ms, r.raw, r.msgs, ns)
  BY <1>5
<1>9. ~Look(r)
  <2> SUFFICES ASSUME Look(r) PROVE FALSE
    OBVIOUS
  <2>1. heads_turn[r] = [r EXCEPT !.cur = head_n2h(r.raw)] /\ head_n2h(r.raw) \in Nat
    BY <1>1, <1>2, <1>7, <1>8
  <2>2. r.cur = head_n2h(r.raw)
    BY <1>5, <1>7, <2>1
  <2> QED
    BY <2>1, <2>2 DEF DontKnow
<1>10. ~Take(r)
  <2> SUFFICES ASSUME Take(r) PROVE FALSE
    OBVIOUS
  <2>1. heads_turn[r] = [raw |-> Drop(r.raw, r.cur), cur |-> DontKnow,
                         msgs |-> Append(r.msgs, SubSeq(r.raw, HEAD_LEN + 1, r.cur))]
    BY <1>1, <1>7, <1>9
  <2>2. heads_turn[r].cur = DontKnow
    BY <2>1
  <2> QED
    BY <1>5, <2>2
<1>11. CASE Len(r.raw) >= HEAD_LEN
  <2> DEFINE p == Packed(k, Head(ns))
  <2>1. ns # <<>> /\ head_n2h(r.raw) = Len(p) /\ ~Invalid(Len(p)) /\ Len(p) \in Nat
    BY <1>2, <1>7, <1>8, <1>11
  <2>2. r.cur = Len(p) /\ r.cur # DontKnow
    BY <1>5, <1>9, <1>11, <2>1 DEF DontKnow
  <2>3. ~Has(k, r.raw, ns)
    BY <1>7, <1>10, <2>1, <2>2 DEF Has
  <2> QED
    BY <1>5, <1>6, <1>8, <1>11, <2>1, <2>2, <2>3
<1>12. CASE ~(Len(r.raw) >= HEAD_LEN)
  <2>1. r.cur = DontKnow
    BY <1>5, <1>12
  <2>2. ~Has(k, r.raw, ns)
    <3> SUFFICES ASSUME Has(k, r.raw, ns) PROVE FALSE
      OBVIOUS
    <3>1. Head(ns) \in Bodies(k) /\ Len(Packed(k, Head(ns))) <= Len(r.raw)
      <4>1. ns \in Seq(Bodies(k)) /\ ns # <<>> /\ Len(Packed(k, Head(ns))) <= Len(r.raw)
        BY <1>8 DEF Left, Has
      <4> QED
        BY <4>1
    <3>2. Len(Packed(k, Head(ns))) = HEAD_LEN + Len(Head(ns)) /\ Len(Head(ns)) \in Nat
      BY <1>0, <3>1, PackedBytes, BodyIsPacked
    <3> QED
      BY <1>7, <1>12, <3>1, <3>2 DEF HEAD_LEN
  <2> QED
    BY <1>5, <1>6, <1>8, <1>12, <2>1, <2>2
<1> QED
  BY <1>11, <1>12

\* The loop of fixed_length_unpacker::parse_msg takes out every body that is
\* there.
LEMMA CutLengths ==
    ASSUME NEW raw \in Seq(Bytes), NEW t \in Seq(Bytes),
           NEW ms \in Seq(Bodies("fixed_length")), Framed("fixed_length", raw \o t, ms)
    PROVE  LET r == Turns(lengths_turn, [raw |-> raw, msgs |-> <<>>], Len(raw)) IN
           \E ns : /\ Left("fixed_length", t, ms, r.raw, r.msgs, ns) /\ ~Has("fixed_length", r.raw, ns)
                   /\ r.msgs = <<>> => r.raw = raw
<1> DEFINE k == "fixed_length"
           D == [raw : Seq(Bytes), msgs : Seq(Seq(Bytes))]
           start == [raw |-> raw, msgs |-> <<>>]
           I == {s \in D : /\ s.msgs = <<>> => s.raw = raw
                           /\ \E ns : Left(k, t, ms, s.raw, s.msgs, ns)}
           V == [s \in I |-> Len(s.raw)]
<1>0. k \in Kinds /\ Before(k) = 0 /\ FIXED \in Nat /\ FIXED > 0
  BY CodecAssumption DEF Kinds, Before
<1> HIDE DEF k
<1>1. ASSUME NEW s \in D
      PROVE  /\ Len(s.raw) < FIXED => lengths_turn[s] = s
             /\ ~(Len(s.raw) < FIXED) =>
                   lengths_turn[s] = [raw  |-> Drop(s.raw, FIXED),
                                      msgs |-> Append(s.msgs, SubSeq(s.raw, 1, FIXED))]
  BY DEF lengths_turn
<1>2. ASSUME NEW w, NEW m, NEW ns, Left(k, t, ms, w, m, ns)
      PROVE  /\ Has(k, w, ns) <=> ~(Len(w) < FIXED)
             /\ Has(k, w, ns) => /\ Len(Packed(k, Head(ns))) = FIXED
                                 /\ SubSeq(w, 1, FIXED) = Head(ns)
  <2> DEFINE p == Packed(k, Head(ns))
  <2>1. w \in Seq(Bytes) /\ Len(w) \in Nat /\ ns \in Seq(Bodies(k)) /\ Framed(k, w \o t, ns)
    BY <1>2 DEF Left
  <2>2. ns = <<>> => Len(w) = 0
    <3>1. ns = <<>> => w = <<>>
      BY <1>0, <2>1, FirstOfPieces
    <3> QED
      BY <3>1
  <2>3. ns # <<>> => Head(ns) \in Bodies(k)
    BY <2>1
  <2>4. ns # <<>> => Len(p) = FIXED /\ Len(Head(ns)) = FIXED
    BY <1>0, <2>3, PackedBytes DEF k
  <2>5. Has(k, w, ns) => SubSeq(w, Before(k) + 1, Before(k) + Len(Head(ns))) = Head(ns)
    BY <1>0, <2>1, FirstBody
  <2>6. Has(k, w, ns) <=> ns # <<>> /\ Len(p) <= Len(w)
    BY DEF Has
  <2> HIDE DEF p
  <2>7. Has(k, w, ns) <=> ~(Len(w) < FIXED)
    BY <1>0, <2>1, <2>2, <2>4, <2>6
  <2>8. Has(k, w, ns) => SubSeq(w, 1, FIXED) = Head(ns)
    BY <1>0, <2>4, <2>5, <2>6
  <2> QED
    BY <2>4, <2>6, <2>7, <2>8 DEF p
<1>3. ASSUME NEW s \in I PROVE lengths_turn[s] \in I /\ (lengths_turn[s] = s \/ V[lengths_turn[s]] < V[s])
  <2>0. s \in D /\ s.raw \in Seq(Bytes) /\ Len(s.raw) \in Nat /\ s.msgs \in Seq(Seq(Bytes))
    OBVIOUS
  <2> DEFINE w == s.raw
             m == s.msgs
             u == lengths_turn[s]
  <2>1. PICK ns : Left(k, t, ms, w, m, ns)
    OBVIOUS
  <2> DEFINE p == Packed(k, Head(ns))
  <2>2. CASE Len(s.raw) < FIXED
    BY <1>1, <2>0, <2>2
  <2>3. CASE ~(Len(s.raw) < FIXED)
    <3>0. w \in Seq(Bytes) /\ Len(w) \in Nat /\ m \in Seq(Seq(Bytes))
      BY <2>0
    <3>1. Has(k, w, ns) /\ Len(p) = FIXED /\ SubSeq(w, 1, FIXED) = Head(ns)
      BY <1>2, <2>1, <2>3
    <3>2. u = [raw |-> Drop(w, FIXED), msgs |-> Append(m, Head(ns))]
      BY <1>1, <2>0, <2>3, <3>1
    <3> HIDE DEF w, m, u, D, I, V
    <3>3. /\ Left(k, t, ms, Drop(w, Len(p)), Append(m, Head(ns)), Tail(ns))
          /\ Append(m, Head(ns)) # <<>> /\ Head(ns) \in Seq(Bytes)
          /\ Len(p) \in 1..Len(w) /\ Len(Drop(w, Len(p))) = Len(w) - Len(p)
      BY <1>0, <2>1, <3>1, LeftAfterOne
    <3> HIDE DEF p
    <3>4. Drop(w, FIXED) \in Seq(Bytes) /\ Append(m, Head(ns)) \in Seq(Seq(Bytes))
      BY <3>0, <3>1, <3>3 DEF Left
    <3>5. u \in D /\ u.msgs # <<>> /\ Left(k, t, ms, u.raw, u.msgs, Tail(ns)) /\ Len(u.raw) = Len(w) - FIXED
      BY <3>1, <3>2, <3>3, <3>4 DEF D
    <3>6. u \in I
      BY <3>5 DEF I
    <3>7. V[u] = Len(w) - FIXED /\ V[s] = Len(w)
      BY <3>5, <3>6 DEF V, w
    <3>8. V[u] < V[s]
      BY <1>0, <3>0, <3>7
    <3> QED
      BY <3>6, <3>8 DEF u
  <2> QED
    BY <2>2, <2>3
<1>4. start \in I /\ V[start] <= Len(raw) /\ V \in [I -> Nat]
  <2>1. Left(k, t, ms, raw, <<>>, ms)
    BY <1>0, LeftAtFirst DEF k
  <2>2. start \in I
    BY <2>1
  <2>3. \A s \in I : Len(s.raw) \in Nat
    OBVIOUS
  <2>4. V[start] <= Len(raw)
    <3>1. Len(raw) \in Nat /\ start.raw = raw
      OBVIOUS
    <3> QED
      BY <2>2, <3>1
  <2> QED
    BY <2>2, <2>3, <2>4
<1> DEFINE r == Turns(lengths_turn, start, Len(raw))
<1>5. r \in I /\ lengths_turn[r] = r
  <2>1. Len(raw) \in Nat
    OBVIOUS
  <2> HIDE DEF I, V
  <2> QED
    BY <1>3, <1>4, <2>1, LoopEnds, ZenonT(40)
<1> HIDE DEF r
<1>6. PICK ns : Left(k, t, ms, r.raw, r.msgs, ns)
  BY <1>5
<1>7. Len(r.raw) < FIXED
  <2> SUFFICES ASSUME ~(Len(r.raw) < FIXED) PROVE FALSE
    OBVIOUS
  <2>1. r \in D /\ r.raw \in Seq(Bytes) /\ Len(r.raw) \in Nat /\ FIXED \in 0..Len(r.raw)
    BY <1>0, <1>5
  <2>2. lengths_turn[r] = [raw  |-> Drop(r.raw, FIXED), msgs |-> Append(r.msgs, SubSeq(r.raw, 1, FIXED))]
    BY <1>1, <2>1
  <2>3. r.raw = Drop(r.raw, FIXED)
    BY <1>5, <2>2
  <2>4. Len(Drop(r.raw, FIXED)) = Len(r.raw) - FIXED
    BY <2>1, DropIs
  <2> QED
    BY <1>0, <2>1, <2>3, <2>4
<1>8. ~Has(k, r.raw, ns)
  BY <1>2, <1>6, <1>7
<1> QED
  BY <1>5, <1>6, <1>8 DEF k, r

\* The loop of prefix_suffix_unpacker::parse_msg, when it starts at the length
\* of the first packed body, takes out every body that is there, and neither
\* fails nor finds a message without a body.
LEMMA CutSuffixes ==
    ASSUME NEW raw \in Seq(Bytes), NEW t \in Seq(Bytes),
           NEW ms \in Seq(Bodies("prefix_suffix")), Framed("prefix_suffix", raw \o t, ms),
           NEW cur, IF Has("prefix_suffix", raw, ms) THEN cur = Len(Packed("prefix_suffix", Head(ms)))
                    ELSE cur \in {DontKnow, 0}
    PROVE  LET r == cut_suffixes(raw, cur) IN
           /\ r.ok = TRUE /\ r.holds = TRUE /\ r.cur \in {DontKnow, 0}
           /\ r.msgs = <<>> => r.raw = raw
           /\ \E ns : Left("prefix_suffix", t, ms, r.raw, r.msgs, ns) /\ ~Has("prefix_suffix", r.raw, ns)
<1> DEFINE k == "prefix_suffix"
           D == [raw : Seq(Bytes), cur : Int, msgs : Seq(Seq(Bytes)), ok : BOOLEAN, holds : BOOLEAN]
           start == [raw |-> raw, cur |-> cur, msgs |-> <<>>, ok |-> TRUE, holds |-> TRUE]
           CurIs(w, c, ns) == IF Has(k, w, ns) THEN c = Len(Packed(k, Head(ns))) ELSE c \in {DontKnow, 0}
           I == {s \in D : /\ s.msgs = <<>> => s.raw = raw
                           /\ s.ok = TRUE /\ s.holds = TRUE
                           /\ \E ns : Left(k, t, ms, s.raw, s.msgs, ns) /\ CurIs(s.raw, s.cur, ns)}
           V == [s \in I |-> Len(s.raw)]
<1>0. /\ k \in Kinds /\ Before(k) = Len(PREFIX) /\ DontKnow \in Int /\ DontKnow = -1 /\ 0 # DontKnow
      /\ Len(PREFIX) \in Nat /\ Len(SUFFIX) \in Nat /\ min_len = Len(PREFIX) + Len(SUFFIX)
  BY CodecAssumption, SMTT(30) DEF Kinds, Before, DontKnow, min_len
<1>1. ASSUME NEW s \in D
      PROVE  /\ s.cur \in {DontKnow, 0} => suffixes_turn[s] = s
             /\ s.cur \notin {DontKnow, 0} =>
                   \E p : /\ p = peek_msg(Drop(s.raw, s.cur), DontKnow)
                          /\ suffixes_turn[s] =
                               [raw |-> Drop(s.raw, s.cur), cur |-> p.cur,
                                msgs |-> Append(s.msgs, SubSeq(s.raw, Len(PREFIX) + 1, s.cur - Len(SUFFIX))),
                                ok |-> p.more \/ p.cur # DontKnow, holds |-> s.holds /\ s.cur > min_len]
  BY DEF suffixes_turn
<1>2. ASSUME NEW w, NEW m, NEW ns, Left(k, t, ms, w, m, ns), Has(k, w, ns)
      PROVE  LET p == Packed(k, Head(ns)) IN
             /\ SubSeq(w, Len(PREFIX) + 1, Len(p) - Len(SUFFIX)) = Head(ns)
             /\ Len(p) \in Nat /\ Len(p) > min_len
  <2> DEFINE p == Packed(k, Head(ns))
  <2>1. w \in Seq(Bytes) /\ Len(w) \in Nat /\ ns \in Seq(Bodies(k)) /\ ns # <<>> /\ Framed(k, w \o t, ns)
    BY <1>2 DEF Left, Has
  <2>2. Head(ns) \in Bodies(k)
    BY <2>1
  <2>3. /\ Len(p) = Len(PREFIX) + Len(Head(ns)) + Len(SUFFIX) /\ Len(p) \in Nat
        /\ Len(Head(ns)) \in Nat /\ Len(Head(ns)) > 0
    BY <1>0, <2>2, PackedBytes, BodyIsPacked
  <2>4. SubSeq(w, Before(k) + 1, Before(k) + Len(Head(ns))) = Head(ns)
    BY <1>0, <1>2, <2>1, FirstBody
  <2> HIDE DEF p
  <2>5. Len(PREFIX) + Len(Head(ns)) = Len(p) - Len(SUFFIX) /\ Len(p) > min_len
    BY <1>0, <2>3
  <2> QED
    BY <1>0, <2>3, <2>4, <2>5 DEF p
<1>3. ASSUME NEW s \in I PROVE suffixes_turn[s] \in I /\ (suffixes_turn[s] = s \/ V[suffixes_turn[s]] < V[s])
  <2>0. s \in D /\ s.raw \in Seq(Bytes) /\ Len(s.raw) \in Nat /\ s.msgs \in Seq(Seq(Bytes)) /\ s.holds = TRUE
    OBVIOUS
  <2> DEFINE w == s.raw
             m == s.msgs
             u == suffixes_turn[s]
  <2>1. PICK ns : Left(k, t, ms, w, m, ns) /\ CurIs(w, s.cur, ns)
    OBVIOUS
  <2> DEFINE p == Packed(k, Head(ns))
  <2>2. CASE ~Has(k, w, ns)
    <3>1. s.cur \in {DontKnow, 0}
      BY <2>1, <2>2
    <3> QED
      BY <1>1, <2>0, <3>1
  <2>3. CASE Has(k, w, ns)
    <3>0. w \in Seq(Bytes) /\ Len(w) \in Nat /\ m \in Seq(Seq(Bytes))
      BY <2>0
    <3>1. /\ s.cur = Len(p) /\ SubSeq(w, Len(PREFIX) + 1, Len(p) - Len(SUFFIX)) = Head(ns)
          /\ Len(p) \in Nat /\ Len(p) > min_len /\ s.cur \notin {DontKnow, 0}
      <4>1. /\ SubSeq(w, Len(PREFIX) + 1, Len(p) - Len(SUFFIX)) = Head(ns)
            /\ Len(p) \in Nat /\ Len(p) > min_len
        BY <1>2, <2>1, <2>3
      <4>2. s.cur = Len(p)
        BY <2>1, <2>3
      <4> HIDE DEF p, w
      <4> QED
        BY <1>0, <4>1, <4>2
    <3> DEFINE rest == Drop(w, Len(p))
               pm == peek_msg(rest, DontKnow)
    <3>2. u = [raw |-> rest, cur |-> pm.cur, msgs |-> Append(m, Head(ns)),
               ok |-> pm.more \/ pm.cur # DontKnow, holds |-> TRUE /\ Len(p) > min_len]
      <4>1. PICK q : /\ q = peek_msg(Drop(s.raw, s.cur), DontKnow)
                     /\ u = [raw |-> Drop(s.raw, s.cur), cur |-> q.cur,
                             msgs |-> Append(s.msgs, SubSeq(s.raw, Len(PREFIX) + 1, s.cur - Len(SUFFIX))),
                             ok |-> q.more \/ q.cur # DontKnow, holds |-> s.holds /\ s.cur > min_len]
        BY <1>1, <2>0, <3>1
      <4>2. /\ Drop(s.raw, s.cur) = rest /\ q = pm /\ s.holds = TRUE
            /\ SubSeq(s.raw, Len(PREFIX) + 1, s.cur - Len(SUFFIX)) = Head(ns) /\ s.cur = Len(p)
        BY <2>0, <3>1, <4>1
      <4> HIDE DEF u, rest, pm, p, D, I, V
      <4> QED
        BY <4>1, <4>2
    <3> HIDE DEF w, m, u, D, I, V
    <3>3. /\ Left(k, t, ms, rest, Append(m, Head(ns)), Tail(ns))
          /\ Append(m, Head(ns)) # <<>> /\ Head(ns) \in Seq(Bytes)
          /\ Len(p) \in 1..Len(w) /\ Len(rest) = Len(w) - Len(p)
      <4> HIDE DEF CurIs, k
      <4>1. k \in Kinds /\ Left(k, t, ms, w, m, ns) /\ Has(k, w, ns)
        BY <1>0, <2>1, <2>3
      <4>2. /\ Left(k, t, ms, Drop(w, Len(p)), Append(m, Head(ns)), Tail(ns))
            /\ Append(m, Head(ns)) # <<>> /\ Head(ns) \in Seq(Bytes)
            /\ Len(p) \in 1..Len(w) /\ Len(Drop(w, Len(p))) = Len(w) - Len(p)
        BY <4>1, LeftAfterOne, SMTT(30)
      <4> QED
        BY <4>2 DEF rest
    <3>4. rest \in Seq(Bytes) /\ Tail(ns) \in Seq(Bodies(k)) /\ Framed(k, rest \o t, Tail(ns))
      BY <3>3 DEF Left
    <3>5. /\ pm.more <=> ~Has(k, rest, Tail(ns))
          /\ CurIs(rest, pm.cur, Tail(ns))
      BY <3>4, PeekFirst
    <3>6. pm.cur \in Int /\ (pm.more \/ pm.cur # DontKnow)
      <4>1. CASE Has(k, rest, Tail(ns))
        <5>1. pm.cur = Len(Packed(k, Head(Tail(ns)))) /\ Len(Packed(k, Head(Tail(ns)))) \in Nat
          BY <1>2, <3>3, <3>5, <4>1
        <5> QED
          BY <1>0, <5>1
      <4>2. CASE ~Has(k, rest, Tail(ns))
        BY <1>0, <3>5, <4>2
      <4> QED
        BY <4>1, <4>2
    <3> HIDE DEF p, rest, pm
    <3>7. u = [raw |-> rest, cur |-> pm.cur, msgs |-> Append(m, Head(ns)), ok |-> TRUE, holds |-> TRUE]
      BY <3>1, <3>2, <3>6
    <3>8. Append(m, Head(ns)) \in Seq(Seq(Bytes))
      BY <3>0, <3>3
    <3>9. /\ u \in D /\ u.msgs # <<>> /\ u.ok = TRUE /\ u.holds = TRUE
          /\ Left(k, t, ms, u.raw, u.msgs, Tail(ns)) /\ CurIs(u.raw, u.cur, Tail(ns))
          /\ Len(u.raw) = Len(w) - Len(p)
      BY <3>3, <3>4, <3>5, <3>6, <3>7, <3>8 DEF D
    <3>10. u \in I
      BY <3>9 DEF I
    <3>11. V[u] = Len(w) - Len(p) /\ V[s] = Len(w)
      BY <3>9, <3>10 DEF V, w
    <3>12. V[u] < V[s]
      BY <3>0, <3>3, <3>11
    <3> QED
      BY <3>10, <3>12 DEF u
  <2> QED
    BY <2>2, <2>3
<1>4. start \in I /\ V[start] <= Len(raw) /\ V \in [I -> Nat]
  <2>1. Left(k, t, ms, raw, <<>>, ms) /\ CurIs(raw, cur, ms)
    BY <1>0, LeftAtFirst
  <2>2. cur \in Int
    <3>1. Has(k, raw, ms) => Len(Packed(k, Head(ms))) \in Nat
      BY <1>2, <2>1
    <3> QED
      BY <1>0, <2>1, <3>1
  <2>3. start \in I
    BY <2>1, <2>2
  <2>4. \A s \in I : Len(s.raw) \in Nat
    OBVIOUS
  <2>5. V[start] <= Len(raw)
    <3>1. Len(raw) \in Nat /\ start.raw = raw
      OBVIOUS
    <3> QED
      BY <2>3, <3>1
  <2> QED
    BY <2>3, <2>4, <2>5
<1> DEFINE r == Turns(suffixes_turn, start, Len(raw))
<1>5. r \in I /\ suffixes_turn[r] = r
  <2>1. Len(raw) \in Nat
    OBVIOUS
  <2> HIDE DEF I, V
  <2> QED
    BY <1>3, <1>4, <2>1, LoopEnds, ZenonT(60)
<1>6. cut_suffixes(raw, cur) = r
  BY DEF cut_suffixes
<1> HIDE DEF r
<1>7. PICK ns : Left(k, t, ms, r.raw, r.msgs, ns) /\ CurIs(r.raw, r.cur, ns)
  BY <1>5
<1>8. ~Has(k, r.raw, ns)
  <2> SUFFICES ASSUME Has(k, r.raw, ns) PROVE FALSE
    OBVIOUS
  <2> DEFINE p == Packed(k, Head(ns))
  <2>1. r.cur = Len(p) /\ Len(p) \in Nat /\ Len(p) > min_len
    BY <1>2, <1>7
  <2>2. Len(p) <= Len(r.raw) /\ r.raw \in Seq(Bytes) /\ Len(r.raw) \in Nat
    BY <1>7 DEF Has, Left
  <2> HIDE DEF p
  <2>3. r.cur \notin {DontKnow, 0} /\ Len(p) > 0
    BY <1>0, <2>1
  <2>4. r \in D
    BY <1>5
  <2>5. suffixes_turn[r].raw = Drop(r.raw, Len(p))
    <3>1. PICK pm : suffixes_turn[r] =
                       [raw |-> Drop(r.raw, r.cur), cur |-> pm.cur,
                        msgs |-> Append(r.msgs, SubSeq(r.raw, Len(PREFIX) + 1, r.cur - Len(SUFFIX))),
                        ok |-> pm.more \/ pm.cur # DontKnow, holds |-> r.holds /\ r.cur > min_len]
      BY <1>1, <2>3, <2>4
    <3> QED
      BY <2>1, <3>1
  <2>6. Len(Drop(r.raw, Len(p))) = Len(r.raw) - Len(p)
    <3> DEFINE n == Len(p)
               w == r.raw
    <3>1. n \in 0..Len(w) /\ w \in Seq(Bytes)
      BY <2>1, <2>2
    <3> HIDE DEF n, w
    <3>2. Len(Drop(w, n)) = Len(w) - n
      BY <3>1, DropIs
    <3> QED
      BY <3>2 DEF n, w
  <2>7. r.raw = Drop(r.raw, Len(p))
    BY <1>5, <2>5
  <2> QED
    BY <2>1, <2>2, <2>3, <2>6, <2>7
<1>9. r.cur \in {DontKnow, 0}
  BY <1>7, <1>8
<1> QED
  BY <1>5, <1>6, <1>7, <1>8, <1>9

-----------------------------------------------------------------------------
(* What completion_condition and parse_msg make of a piece of the stream,    *)
(* for the unpackers that gather messages in one buffer.                     *)

Gathering == {"unpacker", "fixed_length", "prefix_suffix"}

\* cur_msg_len (or first_msg_len) after a look at raw: the length of the first
\* message as far as it can be known.
CurIs(k, raw, ms, cur) ==
    CASE k = "unpacker" -> cur = IF Len(raw) >= HEAD_LEN THEN head_n2h(raw) ELSE DontKnow
      [] k = "prefix_suffix" -> IF Has(k, raw, ms) THEN cur = Len(Packed(k, Head(ms)))
                                ELSE cur \in {DontKnow, 0}
      [] OTHER -> cur = DontKnow

\* cur_msg_len when some bytes of raw may be new.
CurBefore(k, raw, cur) ==
    CASE k = "unpacker" -> cur = DontKnow \/ (Len(raw) >= HEAD_LEN /\ cur = head_n2h(raw))
      [] k = "prefix_suffix" -> cur \in {DontKnow, 0}
      [] OTHER -> TRUE

\* Less than a head is less than a message.
LEMMA NoHeadNoMessage ==
    ASSUME NEW k \in {"unpacker", "unbuffered"}, NEW raw \in Seq(Bytes), NEW ms \in Seq(Bodies(k)),
           ~(Len(raw) >= HEAD_LEN)
    PROVE  ~Has(k, raw, ms)
<1> SUFFICES ASSUME Has(k, raw, ms) PROVE FALSE
  OBVIOUS
<1>1. k \in Kinds /\ Len(raw) \in Nat
  BY DEF Kinds
<1>2. ms # <<>> /\ Len(Packed(k, Head(ms))) <= Len(raw) /\ Head(ms) \in Bodies(k)
  BY DEF Has
<1>3. Len(Packed(k, Head(ms))) = HEAD_LEN + Len(Head(ms)) /\ Len(Head(ms)) \in Nat
  BY <1>1, <1>2, PackedBytes, BodyIsPacked
<1> QED
  BY <1>1, <1>2, <1>3 DEF HEAD_LEN

\* Without a whole message there is room in the buffer; the length is in range.
LEMMA RoomWithoutMessage ==
    ASSUME NEW k \in Kinds, NEW raw \in Seq(Bytes), NEW t \in Seq(Bytes), NEW ms \in Seq(Bodies(k)),
           Framed(k, raw \o t, ms)
    PROVE  /\ ~Has(k, raw, ms) => Len(raw) < MSG_BUFFER_SIZE
           /\ \A cur : k \in Gathering /\ CurIs(k, raw, ms, cur) => cur \in DontKnow..MSG_BUFFER_SIZE
           /\ Has(k, raw, ms) => Len(Packed(k, Head(ms))) \in 1..MSG_BUFFER_SIZE
<1> DEFINE p == Packed(k, Head(ms))
<1>1. Len(raw) \in Nat /\ MSG_BUFFER_SIZE \in Nat /\ MSG_BUFFER_SIZE > 0 /\ DontKnow = -1
  BY CodecAssumption DEF DontKnow
<1>2. ms = <<>> => Len(raw) = 0
  <2>1. ms = <<>> => raw = <<>>
    BY FirstOfPieces
  <2> QED
    BY <2>1
<1>3. ms # <<>> => Len(p) \in 1..MSG_BUFFER_SIZE
  BY FirstOfPieces
<1>4. Has(k, raw, ms) <=> ms # <<>> /\ Len(p) <= Len(raw)
  BY DEF Has
<1> HIDE DEF p
<1>5. ~Has(k, raw, ms) => Len(raw) < MSG_BUFFER_SIZE
  BY <1>1, <1>2, <1>3, <1>4
<1>6. ASSUME NEW cur, k \in Gathering, CurIs(k, raw, ms, cur) PROVE cur \in DontKnow..MSG_BUFFER_SIZE
  <2>1. CASE k = "unpacker"
    <3>1. CASE Len(raw) >= HEAD_LEN
      <4>1. ms # <<>> /\ head_n2h(raw) = Len(p)
        BY <2>1, <3>1, FirstHead DEF p
      <4>2. cur = Len(p)
        BY <1>6, <2>1, <3>1, <4>1 DEF CurIs
      <4> QED
        BY <1>1, <1>3, <4>1, <4>2
    <3>2. CASE ~(Len(raw) >= HEAD_LEN)
      BY <1>1, <1>6, <2>1, <3>2 DEF CurIs
    <3> QED
      BY <3>1, <3>2
  <2>2. CASE k = "fixed_length"
    BY <1>1, <1>6, <2>2 DEF CurIs
  <2>3. CASE k = "prefix_suffix"
    <3>1. CASE Has(k, raw, ms)
      <4>1. cur = Len(p)
        BY <1>6, <2>3, <3>1 DEF CurIs, p
      <4> QED
        BY <1>1, <1>3, <1>4, <3>1, <4>1
    <3>2. CASE ~Has(k, raw, ms)
      BY <1>1, <1>6, <2>3, <3>2 DEF CurIs
    <3> QED
      BY <3>1, <3>2
  <2> QED
    BY <1>6, <2>1, <2>2, <2>3 DEF Gathering
<1> QED
  BY <1>3, <1>4, <1>5, <1>6 DEF p

\* completion_condition asks for more exactly until a whole message is there.
LEMMA ConditionIs ==
    ASSUME kind \in Gathering, NEW raw \in Seq(Bytes), Len(raw) <= MSG_BUFFER_SIZE,
           NEW t \in Seq(Bytes), NEW ms \in Seq(Bodies(kind)), Framed(kind, raw \o t, ms),
           NEW cur, CurBefore(kind, raw, cur), NEW s
    PROVE  LET c == completion_condition(raw, cur, s) IN
           /\ c.more <=> ~Has(kind, raw, ms)
           /\ c.holds = TRUE /\ c.step = 0 /\ CurIs(kind, raw, ms, c.cur)
<1> DEFINE c == completion_condition(raw, cur, s)
           p == Packed(kind, Head(ms))
           has == Has(kind, raw, ms)
<1>0. Len(raw) \in Nat /\ DontKnow = -1 /\ kind \in Kinds
  BY DEF DontKnow, Gathering, Kinds
<1>1. has <=> ms # <<>> /\ Len(p) <= Len(raw)
  BY DEF Has
<1>2. CASE kind = "unpacker"
  <2> DEFINE new == cur = DontKnow /\ Len(raw) >= HEAD_LEN
             len == IF new THEN head_n2h(raw) ELSE cur
  <2>1. c = [more |-> IF len = DontKnow THEN TRUE ELSE ~(new /\ Invalid(len)) /\ Len(raw) < len,
             cur |-> len, step |-> 0, holds |-> Len(raw) <= MSG_BUFFER_SIZE]
    BY <1>2 DEF completion_condition, unpacker_condition
  <2>2. /\ c.more = (IF len = DontKnow THEN TRUE ELSE ~(new /\ Invalid(len)) /\ Len(raw) < len)
        /\ c.cur = len /\ c.step = 0 /\ c.holds = TRUE
    <3> HIDE DEF c, new, len
    <3> QED
      BY <2>1
  <2>3. cur = DontKnow \/ (Len(raw) >= HEAD_LEN /\ cur = head_n2h(raw))
    BY <1>2 DEF CurBefore
  <2> HIDE DEF c
  <2>4. CASE Len(raw) >= HEAD_LEN
    <3>1. ms # <<>> /\ head_n2h(raw) = Len(p) /\ ~Invalid(Len(p)) /\ Len(p) \in Nat
      BY <1>2, <2>4, FirstHead
    <3>2. len = Len(p)
      BY <2>3, <2>4, <3>1
    <3> HIDE DEF len, p
    <3>3. c.more <=> ~(Len(p) <= Len(raw))
      <4>1. c.more = (~(new /\ Invalid(Len(p))) /\ Len(raw) < Len(p)) /\ Len(p) # DontKnow
        BY <1>0, <2>2, <3>1, <3>2
      <4>2. c.more <=> Len(raw) < Len(p)
        BY <3>1, <4>1
      <4> QED
        BY <1>0, <3>1, <4>2
    <3>4. CurIs(kind, raw, ms, c.cur)
      BY <1>2, <2>2, <2>4, <3>1, <3>2 DEF CurIs
    <3> QED
      BY <1>1, <2>2, <3>1, <3>3, <3>4 DEF c
  <2>5. CASE ~(Len(raw) >= HEAD_LEN)
    <3>1. ~has
      BY <1>2, <2>5, NoHeadNoMessage
    <3>2. len = DontKnow
      BY <2>3, <2>5
    <3> HIDE DEF len, has
    <3>3. c.more = TRUE /\ CurIs(kind, raw, ms, c.cur)
      BY <1>2, <2>2, <2>5, <3>2 DEF CurIs
    <3> QED
      BY <2>2, <3>1, <3>3 DEF c, has
  <2> QED
    BY <2>4, <2>5
<1>3. CASE kind = "fixed_length"
  <2>1. c.more = (Len(raw) < FIXED) /\ c.cur = DontKnow /\ c.step = 0 /\ c.holds = TRUE
    BY <1>3 DEF completion_condition, fixed_length_condition
  <2> HIDE DEF c
  <2>2. ms = <<>> => Len(raw) = 0
    <3>1. ms = <<>> => raw = <<>>
      BY <1>0, FirstOfPieces
    <3> QED
      BY <3>1
  <2>3. ms # <<>> => Len(p) = FIXED
    <3>1. ms # <<>> => Head(ms) \in Bodies(kind)
      OBVIOUS
    <3> QED
      BY <1>0, <1>3, <3>1, PackedBytes
  <2>4. FIXED \in Nat /\ FIXED > 0
    BY CodecAssumption
  <2> HIDE DEF p, has
  <2>5. c.more <=> ~has
    <3>1. c.more <=> Len(raw) < FIXED
      BY <2>1
    <3> QED
      BY <1>0, <1>1, <2>2, <2>3, <2>4, <3>1
  <2>6. CurIs(kind, raw, ms, c.cur)
    BY <1>3, <2>1 DEF CurIs
  <2> QED
    BY <2>1, <2>5, <2>6 DEF c, has
<1>4. CASE kind = "prefix_suffix"
  <2> DEFINE pm == peek_msg(raw, cur)
  <2>1. c.more = pm.more /\ c.cur = pm.cur /\ c.step = 0 /\ c.holds = TRUE
    <3>1. c = [more |-> pm.more, cur |-> pm.cur, step |-> 0, holds |-> Len(raw) <= MSG_BUFFER_SIZE]
      BY <1>4, Zenon DEF completion_condition, prefix_suffix_condition
    <3> HIDE DEF c, pm
    <3> QED
      BY <3>1
  <2>2. cur \in {DontKnow, 0}
    BY <1>4 DEF CurBefore
  <2>3. /\ pm.more <=> ~Has("prefix_suffix", raw, ms)
        /\ IF Has("prefix_suffix", raw, ms)
           THEN pm.cur = Len(Packed("prefix_suffix", Head(ms))) ELSE pm.cur \in {DontKnow, 0}
    BY <1>4, <2>2, PeekFirst
  <2> HIDE DEF c, pm
  <2>4. CurIs(kind, raw, ms, c.cur)
    BY <1>4, <2>1, <2>3 DEF CurIs
  <2> QED
    BY <1>4, <2>1, <2>3, <2>4 DEF c
<1> QED
  BY <1>2, <1>3, <1>4 DEF Gathering

\* parse_msg takes out all the whole messages of the buffer, succeeds when
\* there is one, and leaves room.
LEMMA ParseIs ==
    ASSUME kind \in Gathering, raw_buff \in Seq(Bytes), Len(raw_buff) <= MSG_BUFFER_SIZE,
           NEW t \in Seq(Bytes), NEW ms \in Seq(Bodies(kind)), Framed(kind, raw_buff \o t, ms),
           kind # "prefix_suffix" => CurBefore(kind, raw_buff, cur_msg_len),
           kind = "prefix_suffix" => CurIs(kind, raw_buff, ms, cur_msg_len)
    PROVE  LET r == parse_msg IN
           \E ns : /\ Left(kind, t, ms, r.raw, r.msgs, ns) /\ ~Has(kind, r.raw, ns)
                   /\ CurIs(kind, r.raw, ns, r.cur) /\ r.step = 0 /\ r.holds = TRUE
                   /\ r.ok <=> r.msgs # <<>>
                   /\ Has(kind, raw_buff, ms) => r.msgs # <<>>
                   /\ Len(r.raw) < MSG_BUFFER_SIZE
<1> DEFINE r == parse_msg
           Good(ns) == /\ Left(kind, t, ms, r.raw, r.msgs, ns) /\ ~Has(kind, r.raw, ns)
                       /\ CurIs(kind, r.raw, ns, r.cur) /\ r.step = 0 /\ r.holds = TRUE
                       /\ r.ok <=> r.msgs # <<>>
                       /\ r.msgs = <<>> => r.raw = raw_buff
<1>0. kind \in Kinds
  BY DEF Gathering, Kinds
<1>1. ASSUME kind = "unpacker" PROVE \E ns : Good(ns)
  <2> DEFINE q == cut_heads(raw_buff, cur_msg_len)
  <2>1. r = [ok |-> (q.cur = DontKnow \/ ~Invalid(q.cur)) /\ q.msgs # <<>>,
             raw |-> q.raw, cur |-> q.cur, step |-> 0, msgs |-> q.msgs,
             holds |-> Len(raw_buff) <= MSG_BUFFER_SIZE]
    BY <1>1, Zenon DEF parse_msg, unpacker_parse_msg
  <2>2. cur_msg_len = DontKnow \/ (Len(raw_buff) >= HEAD_LEN /\ cur_msg_len = head_n2h(raw_buff))
    BY <1>1 DEF CurBefore
  <2>3. PICK ns : /\ Left(kind, t, ms, q.raw, q.msgs, ns) /\ ~Has(kind, q.raw, ns)
                  /\ q.cur = IF Len(q.raw) >= HEAD_LEN THEN head_n2h(q.raw) ELSE DontKnow
                  /\ q.msgs = <<>> => q.raw = raw_buff
                  /\ q.cur = DontKnow \/ ~Invalid(q.cur)
    BY <1>1, <2>2, CutHeads
  <2> HIDE DEF q, r
  <2>4. /\ r.ok = (q.msgs # <<>>) /\ r.raw = q.raw /\ r.cur = q.cur /\ r.step = 0 /\ r.msgs = q.msgs
        /\ r.holds = TRUE
    BY <2>1, <2>3
  <2>5. CurIs(kind, r.raw, ns, r.cur)
    BY <1>1, <2>3, <2>4 DEF CurIs
  <2>6. Good(ns)
    BY <2>3, <2>4, <2>5
  <2> QED
    BY <2>6
<1>2. ASSUME kind = "fixed_length" PROVE \E ns : Good(ns)
  <2> DEFINE q == Turns(lengths_turn, [raw |-> raw_buff, msgs |-> <<>>], Len(raw_buff))
  <2>1. r = [ok |-> q.msgs # <<>>, raw |-> q.raw, cur |-> DontKnow, step |-> 0, msgs |-> q.msgs,
             holds |-> Len(raw_buff) <= MSG_BUFFER_SIZE]
    BY <1>2, Zenon DEF parse_msg, fixed_length_parse_msg
  <2>2. PICK ns : /\ Left(kind, t, ms, q.raw, q.msgs, ns) /\ ~Has(kind, q.raw, ns)
                  /\ q.msgs = <<>> => q.raw = raw_buff
    BY <1>2, CutLengths
  <2> HIDE DEF q, r
  <2>3. /\ r.ok = (q.msgs # <<>>) /\ r.raw = q.raw /\ r.cur = DontKnow /\ r.step = 0 /\ r.msgs = q.msgs
        /\ r.holds = TRUE
    BY <2>1
  <2>4. CurIs(kind, r.raw, ns, r.cur)
    BY <1>2, <2>3 DEF CurIs
  <2>5. Good(ns)
    BY <2>2, <2>3, <2>4
  <2> QED
    BY <2>5
<1>3. ASSUME kind = "prefix_suffix" PROVE \E ns : Good(ns)
  <2> DEFINE q == cut_suffixes(raw_buff, cur_msg_len)
  <2>1. r = [ok |-> q.ok /\ q.msgs # <<>>, raw |-> q.raw, cur |-> q.cur, step |-> 0,
             msgs |-> q.msgs, holds |-> q.holds /\ Len(raw_buff) <= MSG_BUFFER_SIZE]
    BY <1>3, Zenon DEF parse_msg, prefix_suffix_parse_msg
  <2>2. IF Has("prefix_suffix", raw_buff, ms)
        THEN cur_msg_len = Len(Packed("prefix_suffix", Head(ms))) ELSE cur_msg_len \in {DontKnow, 0}
    BY <1>3 DEF CurIs
  <2>3. /\ q.ok = TRUE /\ q.holds = TRUE /\ q.cur \in {DontKnow, 0}
        /\ q.msgs = <<>> => q.raw = raw_buff
        /\ \E ns : Left(kind, t, ms, q.raw, q.msgs, ns) /\ ~Has(kind, q.raw, ns)
    <3>1. ms \in Seq(Bodies("prefix_suffix")) /\ Framed("prefix_suffix", raw_buff \o t, ms)
      BY <1>3
    <3>2. /\ q.ok = TRUE /\ q.holds = TRUE /\ q.cur \in {DontKnow, 0}
          /\ q.msgs = <<>> => q.raw = raw_buff
          /\ \E ns : /\ Left("prefix_suffix", t, ms, q.raw, q.msgs, ns)
                     /\ ~Has("prefix_suffix", q.raw, ns)
      BY <2>2, <3>1, CutSuffixes
    <3> HIDE DEF q
    <3> QED
      BY <1>3, <3>2
  <2>4. PICK ns : Left(kind, t, ms, q.raw, q.msgs, ns) /\ ~Has(kind, q.raw, ns)
    BY <2>3
  <2> HIDE DEF q, r
  <2>5. /\ r.ok = (q.msgs # <<>>) /\ r.raw = q.raw /\ r.cur = q.cur /\ r.step = 0 /\ r.msgs = q.msgs
        /\ r.holds = TRUE
    BY <2>1, <2>3
  <2>6. CurIs(kind, r.raw, ns, r.cur)
    BY <1>3, <2>3, <2>4, <2>5 DEF CurIs
  <2>7. Good(ns)
    BY <2>3, <2>4, <2>5, <2>6
  <2> QED
    BY <2>7
<1> HIDE DEF r
<1>4. PICK ns : Good(ns)
  BY <1>1, <1>2, <1>3 DEF Gathering
<1>5. Len(r.raw) < MSG_BUFFER_SIZE
  <2>1. r.raw \in Seq(Bytes) /\ ns \in Seq(Bodies(kind)) /\ Framed(kind, r.raw \o t, ns)
    BY <1>4 DEF Left
  <2> QED
    BY <1>0, <1>4, <2>1, RoomWithoutMessage
<1>6. ASSUME Has(kind, raw_buff, ms), r.msgs = <<>> PROVE FALSE
  <2>1. ms = <<>> \o ns /\ ns \in Seq(Bodies(kind)) /\ r.raw = raw_buff
    BY <1>4, <1>6 DEF Left
  <2>2. ms = ns
    BY <2>1, ConcatEmptySeq
  <2> QED
    BY <1>4, <1>6, <2>1, <2>2
<1> QED
  BY <1>4, <1>5, <1>6 DEF r

-----------------------------------------------------------------------------
(* The invariant.                                                            *)

\* While the link is up, the bytes received and those under way are the packed
\* bodies that have not been unpacked.
GatheringInv(ms) ==
    /\ Framed(kind, raw_buff \o stream, ms)
    /\ step = 0 /\ CurIs(kind, raw_buff, ms, cur_msg_len)
    /\ reading = "complete" <=> Has(kind, raw_buff, ms)

\* The unbuffered unpacker reads a head, has read one, or reads the body that
\* belongs to the head h, which is in the buffer no more.
ReadsHead(ms) ==
    /\ step = 0 /\ cur_msg_len = 0 /\ reading = "reading" /\ Len(raw_buff) < HEAD_LEN
    /\ Framed(kind, raw_buff \o stream, ms)
HasHead(ms) ==
    /\ step = 0 /\ ms # <<>> /\ cur_msg_len = Len(Head(ms))
    /\ reading = "complete" /\ Len(raw_buff) = HEAD_LEN
    /\ Framed(kind, raw_buff \o stream, ms)
ReadsBody(ms) ==
    /\ step = 1 /\ ms # <<>> /\ cur_msg_len = Len(Head(ms)) /\ Len(raw_buff) <= cur_msg_len
    /\ reading = "reading" <=> Len(raw_buff) < cur_msg_len
    /\ \E h \in Seq(Bytes) : Len(h) = HEAD_LEN /\ Framed(kind, (h \o raw_buff) \o stream, ms)

\* A handler that was queued when the link was closed finds a piece of the
\* stream and an unpacker that starts anew.
QueuedInv(ms) ==
    /\ step = 0 /\ cur_msg_len = ResetLen(kind)
    /\ kind # "unbuffered" => \E t \in Seq(Bytes) : Framed(kind, raw_buff \o t, ms)

\* The bodies in ms are sent and not unpacked.
Link(ms) ==
    /\ sent = unpacked \o ms
    /\ unpacked \in Seq(Bodies(kind)) /\ ms \in Seq(Bodies(kind))
    /\ ~closed /\ kind # "unbuffered" => GatheringInv(ms)
    /\ ~closed /\ kind = "unbuffered" => ReadsHead(ms) \/ HasHead(ms) \/ ReadsBody(ms)
    /\ closed /\ reading = "complete" => QueuedInv(ms)

CodecTypes ==
    /\ kind \in Kinds
    /\ stream \in Seq(Bytes)
    /\ raw_buff \in Seq(Bytes) /\ Len(raw_buff) <= MSG_BUFFER_SIZE
    /\ transferred \in 0..Len(raw_buff)
    /\ cur_msg_len \in DontKnow..MSG_BUFFER_SIZE
    /\ step \in -1..1
    /\ reading \in {"reading", "complete", "ended"}
    /\ unpack_ok \in BOOLEAN /\ asserted \in BOOLEAN /\ closed \in BOOLEAN

CodecInv ==
    /\ CodecTypes /\ AssertsHold
    /\ reading = "reading" => ~closed
    /\ ~closed => reading # "ended" /\ unpack_ok
    /\ \E ms : Link(ms)

\* Bytes that go from the stream to the buffer.
LEMMA MovedBytes ==
    ASSUME NEW raw \in Seq(Bytes), NEW t \in Seq(Bytes), NEW n \in 0..Len(t)
    PROVE  LET x == raw \o SubSeq(t, 1, n) IN
           /\ x \in Seq(Bytes) /\ Drop(t, n) \in Seq(Bytes) /\ Len(x) = Len(raw) + n
           /\ x \o Drop(t, n) = raw \o t
           /\ \A j \in 1..Len(raw) : x[j] = raw[j]
<1> DEFINE u == SubSeq(t, 1, n)
           d == Drop(t, n)
<1>1. Len(t) \in Nat /\ Len(raw) \in Nat
  OBVIOUS
<1>2. u \in Seq(Bytes) /\ Len(u) = n
  BY <1>1
<1>3. d \in Seq(Bytes)
  BY DropIs
<1>4. u \o d = t
  <2>1. SubSeq(t, 1, n) \o SubSeq(t, n + 1, Len(t)) = SubSeq(t, 1, Len(t))
    <3>1. 1 \in 1..(Len(t) + 1) /\ n \in (1 - 1)..Len(t) /\ Len(t) \in n..Len(t)
      BY <1>1
    <3> QED
      BY <3>1, ConcatAdjacentSubSeq
  <2>2. SubSeq(t, 1, Len(t)) = t
    BY SubSeqFull
  <2> QED
    BY <2>1, <2>2 DEF Drop
<1> HIDE DEF u, d
<1>5. (raw \o u) \o d = raw \o (u \o d)
  <2>1. raw \in Seq(Bytes) /\ u \in Seq(Bytes) /\ d \in Seq(Bytes)
    BY <1>2, <1>3
  <2> QED
    BY <2>1, ConcatAssociative, SMTT(30)
<1>6. /\ raw \o u \in Seq(Bytes) /\ Len(raw \o u) = Len(raw) + Len(u)
      /\ \A j \in 1..(Len(raw) + Len(u)) : (raw \o u)[j] = IF j <= Len(raw) THEN raw[j] ELSE u[j - Len(raw)]
  BY <1>2, ConcatProperties
<1>7. \A j \in 1..Len(raw) : (raw \o u)[j] = raw[j]
  BY <1>1, <1>2, <1>6
<1> QED
  BY <1>2, <1>3, <1>4, <1>5, <1>6, <1>7 DEF u, d

\* One more packed body at the end of the stream changes nothing in front.
LEMMA SentBehind ==
    ASSUME NEW k \in Kinds, NEW raw \in Seq(Bytes), NEW t \in Seq(Bytes), NEW ms \in Seq(Bodies(k)),
           Framed(k, raw \o t, ms), NEW b \in Bodies(k)
    PROVE  /\ Framed(k, raw \o (t \o Packed(k, b)), Append(ms, b))
           /\ Has(k, raw, Append(ms, b)) <=> Has(k, raw, ms)
           /\ \A cur : CurIs(k, raw, ms, cur) => CurIs(k, raw, Append(ms, b), cur)
           /\ Append(ms, b) \in Seq(Bodies(k)) /\ Append(ms, b) # <<>>
           /\ ms # <<>> => Head(Append(ms, b)) = Head(ms)
<1> DEFINE p == Packed(k, b)
           S == Bodies(k)
           ns == Append(ms, b)
<1>1. p \in Seq(Bytes) /\ Len(p) \in Nat /\ Len(p) > 0
  BY BodyIsPacked
<1>2. /\ ns \in Seq(S) /\ Len(ns) = Len(ms) + 1 /\ Len(ms) \in Nat
      /\ ms # <<>> => ns[1] = ms[1]
      /\ ms = <<>> => ns[1] = b
  <2> HIDE DEF S
  <2>1. ms \in Seq(S) /\ b \in S
    BY DEF S
  <2>2. /\ ns \in Seq(S) /\ Len(ns) = Len(ms) + 1 /\ Len(ms) \in Nat
        /\ \A i \in 1..(Len(ms) + 1) : ns[i] = IF i = Len(ms) + 1 THEN b ELSE ms[i]
    BY <2>1
  <2>3. ms # <<>> => Len(ms) > 0
    BY <2>1
  <2>4. ms = <<>> => Len(ms) = 0
    BY <2>1
  <2> HIDE DEF ns
  <2> QED
    BY <2>2, <2>3, <2>4
<1>3. ns # <<>> /\ Head(ns) = ns[1] /\ (ms # <<>> => Head(ms) = ms[1])
  <2> HIDE DEF ns, S
  <2>1. ns # <<>>
    BY <1>2
  <2>2. Head(ns) = ns[1]
    BY <1>2, <2>1
  <2>3. ms # <<>> => Head(ms) = ms[1]
    OBVIOUS
  <2> QED
    BY <2>1, <2>2, <2>3
<1>4. Framed(k, raw \o (t \o p), ns)
  <2>1. raw \o t \in Seq(Bytes)
    OBVIOUS
  <2>2. Framed(k, (raw \o t) \o p, ns)
    BY <2>1, FramedSend
  <2> HIDE DEF p
  <2>3. (raw \o t) \o p = raw \o (t \o p)
    BY <1>1, ConcatAssociative
  <2> QED
    BY <2>2, <2>3
<1>5. ms # <<>> => Head(ns) = Head(ms)
  BY <1>2, <1>3
<1>6. Has(k, raw, ns) <=> Has(k, raw, ms)
  <2>1. CASE ms # <<>>
    BY <1>3, <1>5, <2>1 DEF Has
  <2>2. CASE ms = <<>>
    <3>0. raw = <<>>
      BY <2>2, FirstOfPieces
    <3>1. raw = <<>> /\ Head(ns) = b
      BY <1>2, <1>3, <2>2, <3>0
    <3>2. Len(raw) = 0
      BY <3>1
    <3> HIDE DEF ns
    <3> QED
      BY <1>1, <2>2, <3>1, <3>2 DEF Has
  <2> QED
    BY <2>1, <2>2
<1>7. ASSUME NEW cur, CurIs(k, raw, ms, cur) PROVE CurIs(k, raw, ns, cur)
  <2>1. CASE k = "prefix_suffix"
    <3>1. Has(k, raw, ms) => Head(ns) = Head(ms)
      BY <1>5 DEF Has
    <3> HIDE DEF ns
    <3> QED
      BY <1>6, <1>7, <2>1, <3>1 DEF CurIs
  <2>2. CASE k # "prefix_suffix"
    BY <1>7, <2>2 DEF CurIs
  <2> QED
    BY <2>1, <2>2
<1> QED
  BY <1>2, <1>3, <1>4, <1>5, <1>6, <1>7

\* New bytes behind those looked at do not change what is known.
LEMMA CurStays ==
    ASSUME NEW k \in Gathering, NEW raw \in Seq(Bytes), NEW x \in Seq(Bytes), Len(raw) <= Len(x),
           \A j \in 1..Len(raw) : x[j] = raw[j], NEW ms, ~Has(k, raw, ms),
           NEW cur, CurIs(k, raw, ms, cur)
    PROVE  CurBefore(k, x, cur)
<1>1. Len(raw) \in Nat /\ Len(x) \in Nat
  OBVIOUS
<1>2. CASE k = "unpacker"
  <2>1. CASE Len(raw) >= HEAD_LEN
    <3>1. x[1] = raw[1] /\ x[2] = raw[2] /\ Len(x) >= HEAD_LEN
      BY <1>1, <2>1 DEF HEAD_LEN
    <3>2. cur = head_n2h(raw)
      BY <1>2, <2>1 DEF CurIs
    <3>3. cur = head_n2h(x)
      BY <3>1, <3>2 DEF head_n2h
    <3> QED
      BY <1>2, <3>1, <3>3 DEF CurBefore
  <2>2. CASE ~(Len(raw) >= HEAD_LEN)
    BY <1>2, <2>2 DEF CurBefore, CurIs
  <2> QED
    BY <2>1, <2>2
<1>3. CASE k = "fixed_length"
  BY <1>3 DEF CurBefore
<1>4. CASE k = "prefix_suffix"
  BY <1>4 DEF CurBefore, CurIs
<1> QED
  BY <1>2, <1>3, <1>4 DEF Gathering

-----------------------------------------------------------------------------
(* Each action keeps the invariant.                                          *)

LEMMA InitKeeps == Init => CodecInv
<1> SUFFICES ASSUME Init PROVE CodecInv
  OBVIOUS
<1>1. CodecTypes
  <2>1. <<>> \in Seq(Bytes) /\ Len(<<>>) = 0 /\ 0 \in 0..Len(<<>>) /\ 0 \in -1..1
    OBVIOUS
  <2>2. 0 <= MSG_BUFFER_SIZE /\ ResetLen(kind) \in DontKnow..MSG_BUFFER_SIZE
    BY CodecAssumption DEF ResetLen, DontKnow
  <2> QED
    BY <2>1, <2>2 DEF Init, CodecTypes
<1>2. Framed(kind, raw_buff \o stream, <<>>)
  <2>1. kind \in Kinds /\ <<>> \in Seq(Bytes) /\ <<>> \o <<>> = <<>>
    BY EmptySeq, ConcatEmptySeq DEF Init
  <2>2. Framed(kind, <<>>, <<>>)
    BY <2>1, FramedNothing
  <2> QED
    BY <2>1, <2>2 DEF Init
<1>3. Link(<<>>)
  <2>1. /\ kind \in Kinds /\ raw_buff = <<>> /\ step = 0 /\ cur_msg_len = ResetLen(kind)
        /\ reading = "reading" /\ sent = <<>> /\ unpacked = <<>> /\ closed = FALSE /\ Len(raw_buff) = 0
    BY DEF Init
  <2>2. <<>> \in Seq(Bodies(kind)) /\ <<>> \o <<>> = <<>>
    BY EmptySeq, ConcatEmptySeq
  <2>3. kind # "unbuffered" => GatheringInv(<<>>)
    BY <1>2, <2>1 DEF GatheringInv, CurIs, Has, ResetLen, HEAD_LEN
  <2>4. kind = "unbuffered" => ReadsHead(<<>>)
    BY <1>2, <2>1 DEF ReadsHead, ResetLen, HEAD_LEN
  <2> QED
    BY <2>1, <2>2, <2>3, <2>4 DEF Link
<1> QED
  BY <1>1, <1>3 DEF CodecInv, AssertsHold, Init

LEMMA StutterKeeps ==
    ASSUME CodecInv, UNCHANGED vars
    PROVE  CodecInv'
BY DEF CodecInv, CodecTypes, AssertsHold, Link, GatheringInv, ReadsHead, HasHead, ReadsBody, QueuedInv, vars

\* What can be packed and suits the unpacker is a body.
LEMMA PackedBody ==
    ASSUME NEW k \in Kinds, NEW parts \in Requests,
           pack_msg(k, parts) # <<>>, Suits(k, Body(parts))
    PROVE  Body(parts) \in Bodies(k) /\ pack_msg(k, parts) = Packed(k, Body(parts))
<1> DEFINE pay == Payload(parts)
           b == Body(parts)
           total == Envelope(k) + pay
           fits == /\ pay > 0 /\ total <= MSG_BUFFER_SIZE
                   /\ k \in {"unpacker", "unbuffered"} => total < HEAD_RANGE
<1>1. /\ pay \in Nat /\ b \in Seq(Bytes) /\ Envelope(k) \in Nat
      /\ fits => Len(b) = pay /\ pack_msg(k, parts) = Packed(k, b)
      /\ ~fits => pack_msg(k, parts) = <<>>
  BY PackMsg, Zenon
<1>2. fits
  BY <1>1
<1>3. Len(b) = pay /\ pack_msg(k, parts) = Packed(k, b)
  BY <1>1, <1>2
<1> HIDE DEF b, pay
<1> QED
  BY <1>1, <1>2, <1>3 DEF Bodies, b

LEMMA SendKeeps ==
    ASSUME CodecInv, NEW parts \in Requests, send_msg(parts)
    PROVE  CodecInv'
<1> DEFINE msg == pack_msg(kind, parts)
           b == Body(parts)
<1>1. CodecTypes /\ kind \in Kinds /\ stream \in Seq(Bytes) /\ raw_buff \in Seq(Bytes)
  BY DEF CodecInv, CodecTypes
<1>2. /\ reading # "ended" /\ (msg # <<>> => Suits(kind, b)) /\ stream' = stream \o msg
      /\ sent' = IF msg = <<>> THEN sent ELSE Append(sent, b)
      /\ UNCHANGED <<kind, raw_buff, transferred, cur_msg_len, step, reading, unpack_ok, asserted,
                     unpacked, closed>>
  BY DEF send_msg, unpacker_vars
<1>3. CASE msg = <<>>
  <2>1. stream' = stream /\ sent' = sent
    BY <1>1, <1>2, <1>3, ConcatEmptySeq
  <2>2. UNCHANGED vars
    BY <1>2, <2>1 DEF vars
  <2> QED
    BY <2>2, StutterKeeps
<1>4. CASE msg # <<>>
  <2>1. b \in Bodies(kind) /\ msg = Packed(kind, b)
    BY <1>1, <1>2, <1>4, PackedBody
  <2> DEFINE p == Packed(kind, b)
  <2>2. p \in Seq(Bytes) /\ stream' = stream \o p /\ sent' = Append(sent, b)
    BY <1>1, <1>2, <1>4, <2>1, BodyIsPacked
  <2> HIDE DEF msg, b, p
  <2>3. CodecTypes'
    <3>1. stream \o p \in Seq(Bytes)
      BY <1>1, <2>2
    <3> QED
      BY <1>1, <1>2, <2>2, <3>1 DEF CodecTypes
  <2>4. PICK ms : Link(ms)
    BY DEF CodecInv
  <2> DEFINE ns == Append(ms, b)
  <2>5. /\ sent = unpacked \o ms /\ unpacked \in Seq(Bodies(kind)) /\ ms \in Seq(Bodies(kind))
        /\ ns \in Seq(Bodies(kind)) /\ ns # <<>>
    <3> DEFINE S == Bodies(kind)
    <3>1. sent = unpacked \o ms /\ unpacked \in Seq(S) /\ ms \in Seq(S) /\ b \in S
      BY <2>1, <2>4 DEF Link
    <3> HIDE DEF S
    <3>2. ns \in Seq(S) /\ Len(ns) = Len(ms) + 1 /\ Len(ms) \in Nat
      BY <3>1
    <3>3. ns # <<>>
      BY <3>2
    <3> QED
      BY <3>1, <3>2, <3>3 DEF S
  <2>6. sent' = unpacked \o ns
    <3> DEFINE S == Bodies(kind)
               one == <<b>>
    <3>1. unpacked \in Seq(S) /\ ms \in Seq(S) /\ one \in Seq(S) /\ unpacked \o ms \in Seq(S)
      BY <2>1, <2>5
    <3>2. Append(unpacked \o ms, b) = (unpacked \o ms) \o one /\ ns = ms \o one
      <4>1. b \in S
        BY <2>1
      <4> HIDE DEF S
      <4>2. ns = ms \o one
        BY <3>1, <4>1
      <4> DEFINE v == unpacked \o ms
      <4>3. v \in Seq(S)
        BY <3>1
      <4> HIDE DEF v
      <4>4. Append(v, b) = v \o one
        BY <4>1, <4>3
      <4> QED
        BY <4>2, <4>4 DEF v
    <3> HIDE DEF one, S
    <3>3. (unpacked \o ms) \o one = unpacked \o (ms \o one)
      BY <3>1, ConcatAssociative, SMTT(30)
    <3> QED
      BY <2>2, <2>5, <3>2, <3>3
  <2>7. ASSUME NEW raw \in Seq(Bytes), Framed(kind, raw \o stream, ms)
        PROVE  /\ Framed(kind, raw \o stream', ns)
               /\ Has(kind, raw, ns) <=> Has(kind, raw, ms)
               /\ \A cur : CurIs(kind, raw, ms, cur) => CurIs(kind, raw, ns, cur)
    BY <1>1, <2>1, <2>2, <2>5, <2>7, SentBehind DEF p
  <2>8. ms # <<>> => Head(ns) = Head(ms)
    <3> DEFINE S == Bodies(kind)
    <3>1. ms \in Seq(S) /\ b \in S
      BY <2>1, <2>5
    <3> HIDE DEF S
    <3> QED
      BY <3>1
  <2> HIDE DEF ns
  <2>9. Link(ns)'
    <3>1. ASSUME ~closed, kind # "unbuffered" PROVE GatheringInv(ns)'
      <4>1. GatheringInv(ms)
        BY <2>4, <3>1 DEF Link
      <4> QED
        BY <1>1, <1>2, <2>7, <4>1 DEF GatheringInv
    <3>2. ASSUME ~closed, kind = "unbuffered" PROVE (ReadsHead(ns) \/ HasHead(ns) \/ ReadsBody(ns))'
      <4>1. CASE ReadsHead(ms)
        BY <1>1, <1>2, <2>7, <4>1 DEF ReadsHead
      <4>2. CASE HasHead(ms)
        BY <1>1, <1>2, <2>5, <2>7, <2>8, <4>2 DEF HasHead
      <4>3. CASE ReadsBody(ms)
        <5>1. PICK h \in Seq(Bytes) : Len(h) = HEAD_LEN /\ Framed(kind, (h \o raw_buff) \o stream, ms)
          BY <4>3 DEF ReadsBody
        <5>2. h \o raw_buff \in Seq(Bytes)
          BY <1>1
        <5>3. Framed(kind, (h \o raw_buff) \o stream', ns)
          BY <2>7, <5>1, <5>2
        <5> QED
          BY <1>1, <1>2, <2>5, <2>8, <4>3, <5>1, <5>3 DEF ReadsBody
      <4> QED
        BY <2>4, <3>2, <4>1, <4>2, <4>3 DEF Link
    <3>3. ASSUME closed, reading = "complete" PROVE QueuedInv(ns)'
      <4>1. QueuedInv(ms)
        BY <2>4, <3>3 DEF Link
      <4>2. ASSUME kind # "unbuffered" PROVE \E t \in Seq(Bytes) : Framed(kind, raw_buff \o t, ns)
        <5>1. PICK t \in Seq(Bytes) : Framed(kind, raw_buff \o t, ms)
          BY <4>1, <4>2 DEF QueuedInv
        <5>2. Framed(kind, raw_buff \o (t \o p), ns)
          BY <1>1, <2>1, <2>5, <5>1, SentBehind DEF p, ns
        <5>3. t \o p \in Seq(Bytes)
          BY <2>2
        <5> QED
          BY <5>2, <5>3
      <4> QED
        BY <1>2, <4>1, <4>2 DEF QueuedInv
    <3> QED
      BY <1>2, <2>5, <2>6, <3>1, <3>2, <3>3 DEF Link
  <2> QED
    BY <1>2, <2>3, <2>9 DEF CodecInv, AssertsHold
<1> QED
  BY <1>3, <1>4

LEMMA CleanKeeps ==
    ASSUME CodecInv, clean_up
    PROVE  CodecInv'
<1>1. /\ ~closed /\ reading # "ended" /\ closed' = TRUE
      /\ reading' = IF reading = "reading" THEN "ended" ELSE reading
      /\ raw_buff' = SubSeq(raw_buff, 1, transferred)
      /\ cur_msg_len' = ResetLen(kind) /\ step' = 0
      /\ UNCHANGED <<kind, stream, transferred, unpack_ok, asserted, sent, unpacked>>
  BY DEF clean_up
<1>2. CodecTypes /\ kind \in Kinds /\ stream \in Seq(Bytes) /\ raw_buff \in Seq(Bytes)
      /\ transferred \in 0..Len(raw_buff) /\ Len(raw_buff) \in Nat
  BY DEF CodecInv, CodecTypes
<1> DEFINE x == SubSeq(raw_buff, 1, transferred)
<1>3. /\ x \in Seq(Bytes) /\ Len(x) = transferred /\ x \o Drop(raw_buff, transferred) = raw_buff
      /\ Drop(raw_buff, transferred) \in Seq(Bytes)
  <2> DEFINE n == transferred
  <2>1. <<>> \in Seq(Bytes) /\ n \in 0..Len(raw_buff) /\ <<>> \o x = x /\ <<>> \o raw_buff = raw_buff
    <3>1. x \in Seq(Bytes)
      BY <1>2
    <3> QED
      BY <1>2, <3>1, EmptySeq, ConcatEmptySeq
  <2>2. /\ <<>> \o x \in Seq(Bytes) /\ Drop(raw_buff, n) \in Seq(Bytes) /\ Len(<<>> \o x) = Len(<<>>) + n
        /\ (<<>> \o x) \o Drop(raw_buff, n) = <<>> \o raw_buff
    BY <1>2, <2>1, MovedBytes
  <2> HIDE DEF x
  <2> QED
    BY <1>2, <2>1, <2>2, EmptySeq
<1> HIDE DEF x
<1>4. CodecTypes'
  <2>1. ResetLen(kind) \in DontKnow..MSG_BUFFER_SIZE
    BY CodecAssumption DEF ResetLen, DontKnow
  <2>2. reading' \in {"reading", "complete", "ended"} /\ Len(raw_buff') <= MSG_BUFFER_SIZE
    <3>1. Len(raw_buff) <= MSG_BUFFER_SIZE /\ MSG_BUFFER_SIZE \in Nat
      BY <1>2, CodecAssumption DEF CodecTypes
    <3> QED
      BY <1>1, <1>2, <1>3, <3>1 DEF CodecTypes, x
  <2> QED
    BY <1>1, <1>2, <1>3, <2>1, <2>2 DEF CodecTypes, x
<1>5. PICK ms : Link(ms)
  BY DEF CodecInv
<1>6. Link(ms)'
  <2>1. ASSUME reading = "complete" PROVE QueuedInv(ms)'
    <3>1. ASSUME kind # "unbuffered" PROVE \E t \in Seq(Bytes) : Framed(kind, x \o t, ms)
      <4> DEFINE d == Drop(raw_buff, transferred)
      <4>1. Framed(kind, raw_buff \o stream, ms)
        BY <1>1, <1>5, <3>1 DEF Link, GatheringInv
      <4>2. x \in Seq(Bytes) /\ d \in Seq(Bytes) /\ stream \in Seq(Bytes) /\ x \o d = raw_buff
        BY <1>2, <1>3
      <4> HIDE DEF d
      <4>3. (x \o d) \o stream = x \o (d \o stream)
        <5>1. x \in Seq(Bytes) /\ d \in Seq(Bytes) /\ stream \in Seq(Bytes)
          BY <4>2
        <5> QED
          BY <5>1, ConcatAssociative, SMTT(30)
      <4>4. d \o stream \in Seq(Bytes)
        BY <4>2
      <4> QED
        BY <4>1, <4>2, <4>3, <4>4
    <3> QED
      BY <1>1, <3>1 DEF QueuedInv, x
  <2>2. reading' = "complete" => reading = "complete"
    BY <1>1
  <2> QED
    BY <1>1, <1>5, <2>1, <2>2 DEF Link
<1>7. AssertsHold' /\ reading' # "reading"
  BY <1>1 DEF AssertsHold, CodecInv
<1> QED
  BY <1>1, <1>4, <1>6, <1>7 DEF CodecInv

\* What an arrival of bytes does to the buffer, the stream and the flags,
\* whatever the unpacker.
LEMMA ReadGathering ==
    ASSUME CodecInv, NEW n \in 1..MSG_BUFFER_SIZE, read_some(n), kind # "unbuffered"
    PROVE  CodecInv'
<1> DEFINE x == raw_buff \o SubSeq(stream, 1, n)
           c == completion_condition(x, cur_msg_len, step)
<1>1. /\ kind \in Kinds /\ kind \in Gathering /\ stream \in Seq(Bytes) /\ raw_buff \in Seq(Bytes)
      /\ transferred \in 0..Len(raw_buff) /\ Len(raw_buff) \in Nat /\ Len(stream) \in Nat
      /\ unpack_ok \in BOOLEAN /\ MSG_BUFFER_SIZE \in Nat /\ asserted \in BOOLEAN /\ closed \in BOOLEAN
  BY CodecAssumption DEF CodecInv, CodecTypes, Kinds, Gathering
<1>2. /\ reading = "reading" /\ ~closed /\ n <= Len(stream) /\ n <= MSG_BUFFER_SIZE - Len(raw_buff)
      /\ raw_buff' = x /\ stream' = Drop(stream, n) /\ transferred' = transferred + n
      /\ cur_msg_len' = c.cur /\ step' = c.step /\ asserted' = (asserted /\ c.holds)
      /\ reading' = IF c.more /\ Len(x) < MSG_BUFFER_SIZE THEN "reading" ELSE "complete"
      /\ UNCHANGED <<kind, unpack_ok, sent, unpacked, closed>>
  <2>1. BufferSize(cur_msg_len) = MSG_BUFFER_SIZE
    BY DEF BufferSize
  <2> QED
    BY <2>1 DEF read_some
<1>3. asserted = TRUE /\ unpack_ok = TRUE
  BY <1>1, <1>2 DEF CodecInv, AssertsHold
<1>4. PICK ms : Link(ms)
  BY DEF CodecInv
<1>5. /\ ms \in Seq(Bodies(kind)) /\ Framed(kind, raw_buff \o stream, ms)
      /\ CurIs(kind, raw_buff, ms, cur_msg_len) /\ ~Has(kind, raw_buff, ms)
  BY <1>2, <1>4 DEF Link, GatheringInv
<1>6. /\ x \in Seq(Bytes) /\ Drop(stream, n) \in Seq(Bytes) /\ Len(x) = Len(raw_buff) + n
      /\ x \o Drop(stream, n) = raw_buff \o stream
      /\ \A j \in 1..Len(raw_buff) : x[j] = raw_buff[j]
  <2>1. n \in 0..Len(stream)
    BY <1>1, <1>2
  <2> QED
    BY <1>1, <2>1, MovedBytes
<1> HIDE DEF x
<1>7. Framed(kind, x \o Drop(stream, n), ms)
  BY <1>5, <1>6
<1>8. CurBefore(kind, x, cur_msg_len)
  <2>1. Len(raw_buff) <= Len(x)
    BY <1>1, <1>6
  <2> QED
    BY <1>1, <1>5, <1>6, <2>1, CurStays
<1>9. /\ c.more <=> ~Has(kind, x, ms)
      /\ c.holds = TRUE /\ c.step = 0 /\ CurIs(kind, x, ms, c.cur)
  <2>1. Len(x) <= MSG_BUFFER_SIZE
    BY <1>1, <1>2, <1>6
  <2> QED
    BY <1>1, <1>5, <1>6, <1>7, <1>8, <2>1, ConditionIs
<1>10. /\ ~Has(kind, x, ms) => Len(x) < MSG_BUFFER_SIZE
       /\ c.cur \in DontKnow..MSG_BUFFER_SIZE
  BY <1>1, <1>5, <1>6, <1>7, <1>9, RoomWithoutMessage
<1> HIDE DEF c
<1>11. reading' \in {"reading", "complete"} /\ (reading' = "complete" <=> Has(kind, x, ms))
  BY <1>2, <1>9, <1>10
<1>12. CodecTypes'
  <2>1. Len(x) <= MSG_BUFFER_SIZE /\ transferred + n \in 0..Len(x) /\ 0 \in -1..1
    BY <1>1, <1>2, <1>6
  <2>2. asserted' \in BOOLEAN /\ closed' \in BOOLEAN
    <3>1. asserted' = TRUE /\ closed' = closed
      BY <1>2, <1>3, <1>9
    <3> QED
      BY <1>1, <3>1
  <2> QED
    BY <1>1, <1>2, <1>6, <1>9, <1>10, <1>11, <2>1, <2>2 DEF CodecTypes
<1>13. GatheringInv(ms)'
  BY <1>2, <1>7, <1>9, <1>11 DEF GatheringInv
<1>14. Link(ms)'
  BY <1>2, <1>4, <1>13 DEF Link
<1> QED
  BY <1>2, <1>3, <1>9, <1>11, <1>12, <1>14 DEF CodecInv, AssertsHold

LEMMA ReadUnbuffered ==
    ASSUME CodecInv, NEW n \in 1..MSG_BUFFER_SIZE, read_some(n), kind = "unbuffered"
    PROVE  CodecInv'
<1> DEFINE x == raw_buff \o SubSeq(stream, 1, n)
           size == BufferSize(cur_msg_len)
           c == unbuffered_condition(x, cur_msg_len, step)
<1>1. /\ kind \in Kinds /\ kind \in {"unpacker", "unbuffered"} /\ stream \in Seq(Bytes)
      /\ raw_buff \in Seq(Bytes) /\ transferred \in 0..Len(raw_buff) /\ Len(raw_buff) \in Nat
      /\ Len(stream) \in Nat /\ unpack_ok \in BOOLEAN /\ asserted \in BOOLEAN /\ closed \in BOOLEAN
      /\ MSG_BUFFER_SIZE \in 1..(SIZE - 1) /\ SIZE \in Nat
  BY CodecAssumption DEF CodecInv, CodecTypes, Kinds
<1>2. /\ reading = "reading" /\ ~closed /\ n <= Len(stream) /\ n <= size - Len(raw_buff)
      /\ raw_buff' = x /\ stream' = Drop(stream, n) /\ transferred' = transferred + n
      /\ cur_msg_len' = c.cur /\ step' = c.step /\ asserted' = (asserted /\ c.holds)
      /\ reading' = IF c.more /\ Len(x) < size THEN "reading" ELSE "complete"
      /\ UNCHANGED <<kind, unpack_ok, sent, unpacked, closed>>
  BY DEF read_some, completion_condition
<1>3. asserted = TRUE /\ unpack_ok = TRUE
  BY <1>1, <1>2 DEF CodecInv, AssertsHold
<1>4. PICK ms : Link(ms)
  BY DEF CodecInv
<1>5. ms \in Seq(Bodies(kind)) /\ (ReadsHead(ms) \/ HasHead(ms) \/ ReadsBody(ms))
  BY <1>2, <1>4 DEF Link
<1>6. /\ x \in Seq(Bytes) /\ Drop(stream, n) \in Seq(Bytes) /\ Len(x) = Len(raw_buff) + n
      /\ x \o Drop(stream, n) = raw_buff \o stream
  <2>1. n \in 0..Len(stream)
    BY <1>1, <1>2
  <2> QED
    BY <1>1, <2>1, MovedBytes
<1>7. ASSUME NEW b \in Bodies(kind)
      PROVE  Len(b) \in Nat /\ Len(b) > 0 /\ HEAD_LEN + Len(b) <= MSG_BUFFER_SIZE
  BY <1>1, <1>7, BodyIsPacked DEF Envelope
<1> HIDE DEF x, c, size
\* What is left to show once the place in the stream is known.
<1>8. ASSUME (ReadsHead(ms) \/ HasHead(ms) \/ ReadsBody(ms))', c.holds = TRUE, Len(x) <= MSG_BUFFER_SIZE,
             c.cur \in DontKnow..MSG_BUFFER_SIZE, c.step \in -1..1
      PROVE  CodecInv'
  <2>1. transferred + n \in 0..Len(x)
    BY <1>1, <1>6
  <2>2. CodecTypes'
    <3>1. reading' \in {"reading", "complete", "ended"} /\ asserted' \in BOOLEAN /\ closed' \in BOOLEAN
      <4>1. asserted' = TRUE /\ closed' = closed /\ reading' \in {"reading", "complete", "ended"}
        BY <1>2, <1>3, <1>8
      <4> QED
        BY <1>1, <4>1
    <3> QED
      BY <1>1, <1>2, <1>6, <1>8, <2>1, <3>1 DEF CodecTypes
  <2>3. Link(ms)'
    BY <1>2, <1>4, <1>8 DEF Link
  <2>4. AssertsHold' /\ reading' # "ended" /\ unpack_ok' = TRUE /\ ~closed'
    BY <1>2, <1>3, <1>8 DEF AssertsHold
  <2> QED
    BY <2>2, <2>3, <2>4 DEF CodecInv
<1>9. CASE ReadsHead(ms)
  <2>1. step = 0 /\ cur_msg_len = 0 /\ Len(raw_buff) < HEAD_LEN /\ Framed(kind, raw_buff \o stream, ms)
    BY <1>9 DEF ReadsHead
  <2>2. size = HEAD_LEN
    BY <2>1 DEF size, BufferSize
  <2>3. Len(x) <= HEAD_LEN /\ Len(x) \in Nat /\ Framed(kind, x \o Drop(stream, n), ms)
    BY <1>1, <1>2, <1>6, <2>1, <2>2 DEF HEAD_LEN
  <2>4. Len(x) <= MSG_BUFFER_SIZE
    <3>1. ms # <<>> => HEAD_LEN <= MSG_BUFFER_SIZE
      <4>1. ms # <<>> => Head(ms) \in Bodies(kind)
        BY <1>5
      <4> QED
        BY <1>1, <1>7, <4>1 DEF HEAD_LEN
    <3>2. ms = <<>> => Len(x) = 0
      <4>1. ms = <<>> => x = <<>>
        BY <1>1, <1>5, <1>6, <2>3, FirstOfPieces
      <4> QED
        BY <4>1
    <3> QED
      BY <1>1, <2>3, <3>1, <3>2 DEF HEAD_LEN
  <2>5. CASE Len(x) < HEAD_LEN
    <3>1. c.more = TRUE /\ c.cur = 0 /\ c.step = 0 /\ c.holds = TRUE
      <4>1. c = [more |-> TRUE, cur |-> cur_msg_len, step |-> 0, holds |-> cur_msg_len = 0]
        BY <2>1, <2>3, <2>5 DEF c, unbuffered_condition, HEAD_LEN
      <4> QED
        BY <2>1, <4>1
    <3>2. ReadsHead(ms)'
      BY <1>2, <2>1, <2>2, <2>3, <2>5, <3>1 DEF ReadsHead
    <3>3. 0 \in DontKnow..MSG_BUFFER_SIZE /\ 0 \in -1..1
      BY <1>1 DEF DontKnow
    <3> QED
      BY <1>8, <2>4, <3>1, <3>2, <3>3
  <2>6. CASE Len(x) = HEAD_LEN
    <3> DEFINE b == Head(ms)
               len == (head_n2h(x) - HEAD_LEN) % SIZE
    <3>1. /\ ms # <<>> /\ b \in Bodies(kind) /\ head_n2h(x) = HEAD_LEN + Len(b)
      <4>1. HEAD_LEN <= Len(x)
        BY <2>3, <2>6
      <4> QED
        BY <1>1, <1>5, <1>6, <2>3, <4>1, FirstHead, ZenonT(40)
    <3>2. Len(b) \in Nat /\ Len(b) > 0 /\ HEAD_LEN + Len(b) <= MSG_BUFFER_SIZE
      BY <1>7, <3>1
    <3> HIDE DEF b
    <3>3. len = Len(b)
      <4>1. head_n2h(x) - HEAD_LEN = Len(b) /\ Len(b) < SIZE /\ SIZE \in Nat \ {0}
        BY <1>1, <3>1, <3>2 DEF HEAD_LEN
      <4> QED
        BY <3>2, <4>1, Remainder
    <3>4. ~(len > MSG_BUFFER_SIZE - HEAD_LEN)
      BY <1>1, <3>2, <3>3 DEF HEAD_LEN
    <3>5. c.more = FALSE /\ c.cur = Len(b) /\ c.step = 0 /\ c.holds = TRUE
      <4>1. c = [more |-> FALSE, cur |-> len, step |-> 0, holds |-> cur_msg_len = 0 /\ Len(x) = HEAD_LEN]
        BY <2>1, <2>6, <3>4 DEF c, unbuffered_condition, HEAD_LEN
      <4> HIDE DEF len
      <4> QED
        BY <2>1, <2>6, <3>3, <4>1
    <3>6. HasHead(ms)'
      BY <1>2, <2>3, <2>6, <3>1, <3>5 DEF HasHead, b
    <3>7. Len(b) \in DontKnow..MSG_BUFFER_SIZE /\ 0 \in -1..1
      BY <1>1, <3>2 DEF DontKnow, HEAD_LEN
    <3> QED
      BY <1>8, <2>4, <3>5, <3>6, <3>7
  <2>7. Len(x) < HEAD_LEN \/ Len(x) = HEAD_LEN
    <3> DEFINE l == Len(x)
    <3>1. l \in Nat /\ l <= 2
      BY <2>3 DEF HEAD_LEN
    <3> HIDE DEF l
    <3>2. l < 2 \/ l = 2
      BY <3>1
    <3> QED
      BY <3>2 DEF l, HEAD_LEN
  <2> QED
    BY <2>5, <2>6, <2>7
<1>10. CASE HasHead(ms)
  BY <1>2, <1>10 DEF HasHead
<1>11. CASE ReadsBody(ms)
  <2> DEFINE b == Head(ms)
  <2>1. step = 1 /\ ms # <<>> /\ cur_msg_len = Len(b)
    BY <1>11 DEF ReadsBody
  <2>2. PICK h \in Seq(Bytes) : Len(h) = HEAD_LEN /\ Framed(kind, (h \o raw_buff) \o stream, ms)
    BY <1>11 DEF ReadsBody
  <2>3. Len(b) \in Nat /\ Len(b) > 0 /\ HEAD_LEN + Len(b) <= MSG_BUFFER_SIZE
    <3>1. b \in Bodies(kind)
      BY <1>5, <2>1
    <3> QED
      BY <1>7, <3>1
  <2> HIDE DEF b
  <2>4. size = Len(b)
    BY <1>1, <2>1, <2>3 DEF size, BufferSize
  <2>5. Len(x) <= Len(b) /\ Len(x) \in Nat
    BY <1>1, <1>2, <1>6, <2>3, <2>4
  <2>6. c.more = TRUE /\ c.cur = Len(b) /\ c.step = 1 /\ c.holds = TRUE
    <3>1. c = [more |-> TRUE, cur |-> cur_msg_len, step |-> 1, holds |-> cur_msg_len > 0]
      BY <2>1 DEF c, unbuffered_condition
    <3> QED
      BY <2>1, <2>3, <3>1
  <2>7. Framed(kind, (h \o x) \o Drop(stream, n), ms)
    <3> DEFINE d == Drop(stream, n)
    <3>1. d \in Seq(Bytes) /\ x \in Seq(Bytes) /\ h \in Seq(Bytes) /\ raw_buff \in Seq(Bytes) /\ stream \in Seq(Bytes)
      BY <1>1, <1>6, <2>2
    <3> HIDE DEF d
    <3>2. (h \o x) \o d = h \o (x \o d)
      <4>1. h \in Seq(Bytes) /\ x \in Seq(Bytes) /\ d \in Seq(Bytes)
        BY <3>1
      <4> QED
        BY <4>1, ConcatAssociative, SMTT(30)
    <3>3. (h \o raw_buff) \o stream = h \o (raw_buff \o stream)
      <4>1. h \in Seq(Bytes) /\ raw_buff \in Seq(Bytes) /\ stream \in Seq(Bytes)
        BY <3>1
      <4> QED
        BY <4>1, ConcatAssociative, SMTT(30)
    <3> QED
      BY <1>6, <2>2, <3>2, <3>3 DEF d
  <2>8. ReadsBody(ms)'
    <3>1. reading' = "reading" <=> Len(x) < Len(b)
      BY <1>2, <2>4, <2>6
    <3> QED
      BY <1>2, <2>1, <2>2, <2>5, <2>6, <2>7, <3>1 DEF ReadsBody, b
  <2>9. Len(b) \in DontKnow..MSG_BUFFER_SIZE /\ 1 \in -1..1 /\ Len(x) <= MSG_BUFFER_SIZE
    BY <1>1, <2>3, <2>5 DEF DontKnow, HEAD_LEN
  <2> QED
    BY <1>8, <2>6, <2>8, <2>9
<1> QED
  BY <1>5, <1>9, <1>10, <1>11

LEMMA HandlerGathering ==
    ASSUME CodecInv, recv_handler, ~closed, kind # "unbuffered"
    PROVE  CodecInv'
<1> DEFINE r == parse_msg
           c == completion_condition(r.raw, r.cur, r.step)
           go == r.ok /\ ~closed
<1>1. /\ kind \in Kinds /\ kind \in Gathering /\ stream \in Seq(Bytes) /\ raw_buff \in Seq(Bytes)
      /\ Len(raw_buff) <= MSG_BUFFER_SIZE /\ asserted \in BOOLEAN /\ unpack_ok \in BOOLEAN
      /\ closed \in BOOLEAN
  BY DEF CodecInv, CodecTypes, Kinds, Gathering
<1>2. /\ reading = "complete" /\ unpacked' = unpacked \o r.msgs /\ unpack_ok' = (unpack_ok /\ r.ok)
      /\ asserted' = (asserted /\ r.holds /\ Len(r.raw) < MSG_BUFFER_SIZE /\ (go => c.holds /\ c.more))
      /\ reading' = IF go THEN "reading" ELSE "ended"
      /\ raw_buff' = IF r.ok THEN r.raw ELSE <<>>
      /\ cur_msg_len' = IF ~r.ok THEN ResetLen(kind) ELSE IF go THEN c.cur ELSE r.cur
      /\ step' = IF ~r.ok THEN 0 ELSE r.step
      /\ transferred' = 0 /\ UNCHANGED <<kind, stream, sent, closed>>
  BY DEF recv_handler
<1>3. asserted = TRUE /\ unpack_ok = TRUE
  BY <1>1 DEF CodecInv, AssertsHold
<1>4. PICK ms : Link(ms)
  BY DEF CodecInv
<1>5. /\ ms \in Seq(Bodies(kind)) /\ Framed(kind, raw_buff \o stream, ms)
      /\ CurIs(kind, raw_buff, ms, cur_msg_len) /\ Has(kind, raw_buff, ms)
  BY <1>2, <1>4 DEF Link, GatheringInv
<1>6. kind # "prefix_suffix" => CurBefore(kind, raw_buff, cur_msg_len)
  <2>1. CASE kind = "unpacker"
    BY <1>5, <2>1 DEF CurIs, CurBefore
  <2>2. CASE kind = "fixed_length"
    BY <2>2 DEF CurBefore
  <2> QED
    BY <1>1, <2>1, <2>2 DEF Gathering
<1>7. PICK ns : /\ Left(kind, stream, ms, r.raw, r.msgs, ns) /\ ~Has(kind, r.raw, ns)
                /\ CurIs(kind, r.raw, ns, r.cur) /\ r.step = 0 /\ r.holds = TRUE
                /\ r.ok <=> r.msgs # <<>>
                /\ Has(kind, raw_buff, ms) => r.msgs # <<>>
                /\ Len(r.raw) < MSG_BUFFER_SIZE
  BY <1>1, <1>5, <1>6, ParseIs
<1>8. /\ ms = r.msgs \o ns /\ r.msgs \in Seq(Bodies(kind)) /\ ns \in Seq(Bodies(kind))
      /\ r.raw \in Seq(Bytes) /\ Framed(kind, r.raw \o stream, ns) /\ Len(r.raw) \in Nat
      /\ MSG_BUFFER_SIZE \in Nat
  BY <1>7, CodecAssumption DEF Left
<1>9. /\ c.more <=> ~Has(kind, r.raw, ns)
      /\ c.holds = TRUE /\ c.step = 0 /\ CurIs(kind, r.raw, ns, c.cur)
  <2>1. Len(r.raw) <= Len(r.raw) /\ \A j \in 1..Len(r.raw) : r.raw[j] = r.raw[j]
    BY <1>8
  <2> HIDE DEF r
  <2>2. CurBefore(kind, r.raw, r.cur)
    <3> DEFINE w == r.raw
               v == r.cur
    <3>1. w \in Seq(Bytes) /\ Len(w) <= Len(w) /\ ~Has(kind, w, ns) /\ CurIs(kind, w, ns, v) /\ kind \in Gathering
      BY <1>1, <1>7, <1>8, <2>1
    <3> HIDE DEF w, v
    <3>2. CurBefore(kind, w, v)
      BY <3>1, CurStays
    <3> QED
      BY <3>2 DEF w, v
  <2>3. Len(r.raw) <= MSG_BUFFER_SIZE
    BY <1>7, <1>8
  <2> QED
    BY <1>1, <1>8, <2>2, <2>3, ConditionIs
<1>10. c.cur \in DontKnow..MSG_BUFFER_SIZE
  <2> HIDE DEF r
  <2> DEFINE w == r.raw
             v == c.cur
  <2>1. /\ kind \in Kinds /\ kind \in Gathering /\ w \in Seq(Bytes) /\ stream \in Seq(Bytes)
        /\ ns \in Seq(Bodies(kind)) /\ Framed(kind, w \o stream, ns) /\ CurIs(kind, w, ns, v)
    BY <1>1, <1>8, <1>9
  <2> HIDE DEF w, v
  <2>2. v \in DontKnow..MSG_BUFFER_SIZE
    BY <2>1, RoomWithoutMessage
  <2> QED
    BY <2>2 DEF v
<1> HIDE DEF r, c
<1>11. r.ok /\ r.msgs # <<>> /\ go
  BY <1>5, <1>7
<1>12. /\ unpack_ok' /\ asserted' /\ reading' = "reading" /\ raw_buff' = r.raw /\ cur_msg_len' = c.cur
       /\ step' = 0
  <2>1. c.holds /\ c.more
    BY <1>7, <1>9
  <2> QED
    BY <1>2, <1>3, <1>7, <1>11, <2>1
<1>13. asserted' \in BOOLEAN /\ unpack_ok' \in BOOLEAN /\ closed' \in BOOLEAN
  <2>1. asserted' = TRUE
    BY <1>2, <1>12
  <2>2. unpack_ok' = TRUE
    BY <1>2, <1>12
  <2> QED
    BY <1>1, <1>2, <2>1, <2>2
<1>14. CodecTypes'
  <2>1. Len(r.raw) <= MSG_BUFFER_SIZE /\ 0 \in 0..Len(r.raw) /\ 0 \in -1..1
    BY <1>7, <1>8
  <2> QED
    BY <1>1, <1>2, <1>8, <1>10, <1>12, <1>13, <2>1 DEF CodecTypes
<1>15. sent' = unpacked' \o ns /\ unpacked' \in Seq(Bodies(kind))
  <2> DEFINE S == Bodies(kind)
             q == r.msgs
  <2>1. unpacked \in Seq(S) /\ q \in Seq(S) /\ ns \in Seq(S)
    BY <1>4, <1>8 DEF Link
  <2>2. sent = unpacked \o (q \o ns)
    BY <1>4, <1>8 DEF Link
  <2> HIDE DEF S, q
  <2>3. (unpacked \o q) \o ns = unpacked \o (q \o ns) /\ unpacked \o q \in Seq(S)
    BY <2>1, ConcatAssociative, SMTT(30)
  <2> QED
    BY <1>2, <2>2, <2>3 DEF q, S
<1>16. GatheringInv(ns)'
  BY <1>2, <1>7, <1>8, <1>9, <1>12 DEF GatheringInv
<1>17. Link(ns)'
  BY <1>2, <1>8, <1>15, <1>16 DEF Link
<1> QED
  BY <1>2, <1>12, <1>14, <1>17 DEF CodecInv, AssertsHold

LEMMA HandlerUnbuffered ==
    ASSUME CodecInv, recv_handler, ~closed, kind = "unbuffered"
    PROVE  CodecInv'
<1> DEFINE r == unbuffered_parse_msg(raw_buff, cur_msg_len, step)
           c == unbuffered_condition(r.raw, r.cur, r.step)
           go == r.ok /\ ~closed
<1>1. /\ kind \in Kinds /\ stream \in Seq(Bytes) /\ raw_buff \in Seq(Bytes) /\ Len(raw_buff) \in Nat
      /\ asserted \in BOOLEAN /\ unpack_ok \in BOOLEAN /\ closed \in BOOLEAN
      /\ MSG_BUFFER_SIZE \in Nat /\ MSG_BUFFER_SIZE > 0
  BY CodecAssumption DEF CodecInv, CodecTypes
<1>2. /\ reading = "complete" /\ unpacked' = unpacked \o r.msgs /\ unpack_ok' = (unpack_ok /\ r.ok)
      /\ asserted' = (asserted /\ r.holds /\ Len(r.raw) < MSG_BUFFER_SIZE /\ (go => c.holds /\ c.more))
      /\ reading' = IF go THEN "reading" ELSE "ended"
      /\ raw_buff' = IF r.ok THEN r.raw ELSE <<>>
      /\ cur_msg_len' = IF ~r.ok THEN ResetLen(kind) ELSE IF go THEN c.cur ELSE r.cur
      /\ step' = IF ~r.ok THEN 0 ELSE r.step
      /\ transferred' = 0 /\ UNCHANGED <<kind, stream, sent, closed>>
  BY DEF recv_handler, parse_msg, completion_condition
<1>3. asserted = TRUE /\ unpack_ok = TRUE
  BY <1>1 DEF CodecInv, AssertsHold
<1>4. PICK ms : Link(ms)
  BY DEF CodecInv
<1>5. /\ ms \in Seq(Bodies(kind)) /\ unpacked \in Seq(Bodies(kind)) /\ sent = unpacked \o ms
      /\ ReadsHead(ms) \/ HasHead(ms) \/ ReadsBody(ms)
  BY <1>4 DEF Link
<1>6. ASSUME NEW b \in Bodies(kind)
      PROVE  b \in Seq(Bytes) /\ Len(b) \in Nat /\ Len(b) > 0 /\ Len(b) <= MSG_BUFFER_SIZE
             /\ Len(Packed(kind, b)) = HEAD_LEN + Len(b)
  <2>1. /\ b \in Seq(Bytes) /\ Len(b) \in Nat /\ Len(b) > 0
        /\ Len(Packed(kind, b)) = Envelope(kind) + Len(b) /\ Len(Packed(kind, b)) <= MSG_BUFFER_SIZE
    BY <1>1, BodyIsPacked
  <2>2. Envelope(kind) = HEAD_LEN
    BY DEF Envelope
  <2> QED
    BY <1>1, <2>1, <2>2 DEF HEAD_LEN
\* What is left to show once the place in the stream is known.
<1>7. ASSUME NEW ns \in Seq(Bodies(kind)), NEW cur \in DontKnow..MSG_BUFFER_SIZE, NEW s \in 0..1,
             NEW more \in Seq(Bodies(kind)), ms = more \o ns, unpacked' = unpacked \o more,
             unpack_ok' = TRUE, asserted' = TRUE, reading' = "reading", raw_buff' = <<>>,
             cur_msg_len' = cur, step' = s, (ReadsHead(ns) \/ ReadsBody(ns))'
      PROVE  CodecInv'
  <2>1. CodecTypes'
    <3>1. <<>> \in Seq(Bytes) /\ Len(<<>>) <= MSG_BUFFER_SIZE /\ 0 \in 0..Len(<<>>) /\ s \in -1..1
      BY <1>1
    <3> QED
      BY <1>1, <1>2, <1>7, <3>1 DEF CodecTypes
  <2>2. sent' = unpacked' \o ns /\ unpacked' \in Seq(Bodies(kind))
    <3> DEFINE S == Bodies(kind)
    <3>1. unpacked \in Seq(S) /\ more \in Seq(S) /\ ns \in Seq(S)
      BY <1>5, <1>7
    <3> HIDE DEF S
    <3>2. (unpacked \o more) \o ns = unpacked \o (more \o ns) /\ unpacked \o more \in Seq(S)
      BY <3>1, ConcatAssociative, SMTT(30)
    <3> QED
      BY <1>2, <1>5, <1>7, <3>2 DEF S
  <2>3. Link(ns)'
    BY <1>2, <1>7, <2>2 DEF Link
  <2> QED
    BY <1>2, <1>7, <2>1, <2>3 DEF CodecInv, AssertsHold
<1>8. CASE ReadsHead(ms)
  BY <1>2, <1>8 DEF ReadsHead
<1>9. CASE HasHead(ms)
  <2> DEFINE b == Head(ms)
  <2>1. /\ step = 0 /\ ms # <<>> /\ cur_msg_len = Len(b) /\ Len(raw_buff) = HEAD_LEN
        /\ Framed(kind, raw_buff \o stream, ms)
    BY <1>9 DEF HasHead
  <2>2. Len(b) \in Nat /\ Len(b) > 0 /\ Len(b) <= MSG_BUFFER_SIZE
    <3>1. b \in Bodies(kind)
      BY <1>5, <2>1
    <3> QED
      BY <1>6, <3>1
  <2> HIDE DEF b
  <2>3. r = [ok |-> TRUE, raw |-> <<>>, cur |-> Len(b), step |-> 1, msgs |-> <<>>, holds |-> Len(b) > 0]
    BY <2>1 DEF unbuffered_parse_msg
  <2>4. r.ok = TRUE /\ r.raw = <<>> /\ r.cur = Len(b) /\ r.step = 1 /\ r.msgs = <<>> /\ r.holds = TRUE
    <3> HIDE DEF r
    <3> QED
      BY <2>2, <2>3
  <2>5. c.more = TRUE /\ c.cur = Len(b) /\ c.holds = TRUE
    <3>1. c = [more |-> TRUE, cur |-> Len(b), step |-> 1, holds |-> Len(b) > 0]
      BY <2>4 DEF unbuffered_condition
    <3> HIDE DEF r, c
    <3> QED
      BY <2>2, <3>1
  <2> HIDE DEF r, c
  <2>6. /\ unpack_ok' = TRUE /\ asserted' = TRUE /\ reading' = "reading" /\ raw_buff' = <<>>
        /\ cur_msg_len' = Len(b) /\ step' = 1 /\ unpacked' = unpacked \o <<>>
    <3>1. Len(<<>>) < MSG_BUFFER_SIZE /\ go
      BY <1>1, <2>4
    <3> QED
      BY <1>2, <1>3, <2>4, <2>5, <3>1
  <2>7. ReadsBody(ms)'
    <3>1. Len(<<>>) <= Len(b) /\ Len(<<>>) < Len(b)
      BY <2>2
    <3>2. Framed(kind, (raw_buff \o <<>>) \o stream, ms)
      <4>1. raw_buff \o <<>> = raw_buff
        BY <1>1, ConcatEmptySeq
      <4> QED
        BY <2>1, <4>1
    <3> QED
      BY <1>1, <1>2, <2>1, <2>6, <3>1, <3>2 DEF ReadsBody, b
  <2>8. <<>> \in Seq(Bodies(kind)) /\ <<>> \o ms = ms
    BY <1>5, EmptySeq, ConcatEmptySeq
  <2>9. Len(b) \in DontKnow..MSG_BUFFER_SIZE /\ 1 \in 0..1
    BY <1>1, <2>2 DEF DontKnow
  <2> QED
    BY <1>5, <1>7, <2>6, <2>7, <2>8, <2>9
<1>10. CASE ReadsBody(ms)
  <2> DEFINE b == Head(ms)
  <2>1. step = 1 /\ ms # <<>> /\ cur_msg_len = Len(b)
    BY <1>10 DEF ReadsBody
  <2>2. PICK h \in Seq(Bytes) : Len(h) = HEAD_LEN /\ Framed(kind, (h \o raw_buff) \o stream, ms)
    BY <1>10 DEF ReadsBody
  <2>3. b \in Bodies(kind)
    BY <1>5, <2>1
  <2>4. b \in Seq(Bytes) /\ Len(b) \in Nat /\ Len(b) > 0 /\ Len(Packed(kind, b)) = HEAD_LEN + Len(b)
    BY <1>6, <2>3
  <2>5. Len(raw_buff) = Len(b)
    <3>1. Len(raw_buff) <= cur_msg_len /\ ~(Len(raw_buff) < cur_msg_len)
      BY <1>2, <1>10 DEF ReadsBody
    <3> HIDE DEF b
    <3> QED
      BY <1>1, <2>1, <2>4, <3>1
  <2> DEFINE w == h \o raw_buff
             p == Packed(kind, b)
  <2>6. /\ w \in Seq(Bytes) /\ Len(w) = HEAD_LEN + Len(b)
        /\ \A j \in 1..(HEAD_LEN + Len(b)) : w[j] = IF j <= HEAD_LEN THEN h[j] ELSE raw_buff[j - HEAD_LEN]
    <3>1. /\ w \in Seq(Bytes) /\ Len(w) = Len(h) + Len(raw_buff)
          /\ \A j \in 1..(Len(h) + Len(raw_buff)) : w[j] = IF j <= Len(h) THEN h[j] ELSE raw_buff[j - Len(h)]
      BY <1>1, <2>2, ConcatProperties
    <3> QED
      BY <2>2, <2>5, <3>1
  <2> HIDE DEF w
  <2>7. Has(kind, w, ms)
    BY <2>1, <2>4, <2>6 DEF Has, HEAD_LEN
  <2>8. SubSeq(w, HEAD_LEN + 1, HEAD_LEN + Len(b)) = b
    <3>1. SubSeq(w, Before(kind) + 1, Before(kind) + Len(b)) = b
      BY <1>1, <1>5, <2>2, <2>6, <2>7, FirstBody DEF w
    <3>2. Before(kind) = HEAD_LEN
      BY DEF Before
    <3> QED
      BY <3>1, <3>2
  <2>9. raw_buff = b
    <3> HIDE DEF b
    <3> DEFINE u == SubSeq(w, HEAD_LEN + 1, HEAD_LEN + Len(b))
    <3>1. \A j \in 1..Len(b) : u[j] = w[HEAD_LEN + j]
      BY <2>4, <2>6 DEF HEAD_LEN
    <3> HIDE DEF u
    <3>2. ASSUME NEW j \in 1..Len(b) PROVE raw_buff[j] = b[j]
      <4>1. /\ HEAD_LEN + j \in 1..(HEAD_LEN + Len(b)) /\ ~(HEAD_LEN + j <= HEAD_LEN)
            /\ (HEAD_LEN + j) - HEAD_LEN = j
        BY <2>4 DEF HEAD_LEN
      <4>2. w[HEAD_LEN + j] = raw_buff[j]
        BY <2>6, <4>1
      <4> QED
        BY <2>8, <3>1, <4>2 DEF u
    <3>3. \A j \in 1..Len(raw_buff) : raw_buff[j] = b[j]
      BY <2>5, <3>2
    <3> QED
      BY <1>1, <2>4, <2>5, <3>3, SeqEqual
  <2>10. Framed(kind, <<>> \o stream, Tail(ms)) /\ Tail(ms) \in Seq(Bodies(kind))
    <3>1. /\ Drop(w, Len(p)) \in Seq(Bytes) /\ Len(Drop(w, Len(p))) = Len(w) - Len(p)
          /\ Framed(kind, Drop(w, Len(p)) \o stream, Tail(ms)) /\ Tail(ms) \in Seq(Bodies(kind))
      <4>1. Framed(kind, w \o stream, ms)
        BY <2>2 DEF w
      <4> QED
        BY <1>1, <1>5, <2>1, <2>6, <2>7, <4>1, FirstOfPieces, SMTT(30)
    <3>2. Len(Drop(w, Len(p))) = 0
      BY <2>4, <2>6, <3>1 DEF HEAD_LEN
    <3>3. Drop(w, Len(p)) = <<>>
      BY <3>1, <3>2
    <3> QED
      BY <3>1, <3>3
  <2>11. r = [ok |-> TRUE, raw |-> <<>>, cur |-> 0, step |-> 0, msgs |-> <<raw_buff>>, holds |-> cur_msg_len > 0]
    BY <2>1, <2>5 DEF unbuffered_parse_msg
  <2>12. r.ok = TRUE /\ r.raw = <<>> /\ r.cur = 0 /\ r.step = 0 /\ r.msgs = <<b>> /\ r.holds = TRUE
    <3> HIDE DEF r, b
    <3> QED
      BY <2>1, <2>4, <2>9, <2>11
  <2>13. c.more = TRUE /\ c.cur = 0 /\ c.holds = TRUE
    <3>1. c = [more |-> TRUE, cur |-> 0, step |-> 0, holds |-> 0 = 0]
      BY <2>12 DEF unbuffered_condition, HEAD_LEN
    <3> HIDE DEF r, c
    <3> QED
      BY <3>1
  <2> HIDE DEF r, c, b, p
  <2>14. /\ unpack_ok' = TRUE /\ asserted' = TRUE /\ reading' = "reading" /\ raw_buff' = <<>>
         /\ cur_msg_len' = 0 /\ step' = 0 /\ unpacked' = unpacked \o <<b>>
    <3>1. Len(<<>>) < MSG_BUFFER_SIZE /\ go
      BY <1>1, <2>12
    <3> QED
      BY <1>2, <1>3, <2>12, <2>13, <3>1
  <2>15. ReadsHead(Tail(ms))'
    <3>1. Len(<<>>) < HEAD_LEN
      BY DEF HEAD_LEN
    <3>2. Framed(kind', raw_buff' \o stream', Tail(ms))
      BY <1>2, <2>10, <2>14
    <3> QED
      BY <2>14, <3>1, <3>2 DEF ReadsHead
  <2>16. <<b>> \in Seq(Bodies(kind)) /\ <<b>> \o Tail(ms) = ms
    <3> DEFINE S == Bodies(kind)
    <3>1. ms \in Seq(S) /\ b \in S /\ b = Head(ms) /\ ms # <<>>
      BY <1>5, <2>1, <2>3 DEF b
    <3> HIDE DEF S
    <3>2. ms = <<b>> \o Tail(ms)
      BY <3>1
    <3> QED
      BY <3>1, <3>2 DEF S
  <2>17. 0 \in DontKnow..MSG_BUFFER_SIZE /\ 0 \in 0..1
    BY <1>1 DEF DontKnow
  <2> QED
    BY <1>7, <2>10, <2>14, <2>15, <2>16, <2>17
<1> QED
  BY <1>5, <1>8, <1>9, <1>10

\* A handler that was queued when the link was closed takes whole messages of
\* what is left of the buffer, or none.
LEMMA HandlerClosed ==
    ASSUME CodecInv, recv_handler, closed
    PROVE  CodecInv'
<1> DEFINE r == parse_msg
           S == Bodies(kind)
           c == completion_condition(r.raw, r.cur, r.step)
           go == r.ok /\ ~closed
<1>1. /\ kind \in Kinds /\ stream \in Seq(Bytes) /\ raw_buff \in Seq(Bytes) /\ Len(raw_buff) \in Nat
      /\ Len(raw_buff) <= MSG_BUFFER_SIZE /\ asserted \in BOOLEAN /\ unpack_ok \in BOOLEAN
      /\ closed \in BOOLEAN /\ MSG_BUFFER_SIZE \in Nat
  BY CodecAssumption DEF CodecInv, CodecTypes
<1>2. /\ reading = "complete" /\ unpacked' = unpacked \o r.msgs /\ unpack_ok' = (unpack_ok /\ r.ok)
      /\ asserted' = (asserted /\ r.holds /\ Len(r.raw) < MSG_BUFFER_SIZE /\ (go => c.holds /\ c.more))
      /\ reading' = IF go THEN "reading" ELSE "ended"
      /\ raw_buff' = IF r.ok THEN r.raw ELSE <<>>
      /\ cur_msg_len' = IF ~r.ok THEN ResetLen(kind) ELSE IF go THEN c.cur ELSE r.cur
      /\ step' = IF ~r.ok THEN 0 ELSE r.step
      /\ transferred' = 0 /\ UNCHANGED <<kind, stream, sent, closed>>
  BY DEF recv_handler
<1>3. PICK ms : Link(ms)
  BY DEF CodecInv
<1>4. /\ ms \in Seq(S) /\ unpacked \in Seq(S) /\ sent = unpacked \o ms
      /\ step = 0 /\ cur_msg_len = ResetLen(kind)
      /\ kind # "unbuffered" => \E t \in Seq(Bytes) : Framed(kind, raw_buff \o t, ms)
  BY <1>2, <1>3 DEF Link, QueuedInv
<1>5. ResetLen(kind) \in DontKnow..MSG_BUFFER_SIZE
  BY <1>1 DEF ResetLen, DontKnow
\* What is left to show of the messages and the unpacker.
<1>6. ASSUME NEW ns \in Seq(S), r.msgs \in Seq(S), ms = r.msgs \o ns,
             r.ok => /\ r.raw \in Seq(Bytes) /\ Len(r.raw) <= MSG_BUFFER_SIZE
                     /\ r.cur \in DontKnow..MSG_BUFFER_SIZE /\ r.step \in -1..1,
             (r.holds = TRUE /\ Len(r.raw) < MSG_BUFFER_SIZE) \/ kind \in {"unbuffered", "prefix_suffix"}
      PROVE  CodecInv'
  <2> HIDE DEF r, c
  <2>0. reading' = "ended" /\ ~go
    BY <1>2
  <2>1. raw_buff' \in Seq(Bytes) /\ Len(raw_buff') <= MSG_BUFFER_SIZE /\ 0 \in 0..Len(raw_buff')
    <3>1. CASE r.ok
      BY <1>2, <1>6, <3>1
    <3>2. CASE ~r.ok
      BY <1>1, <1>2, <3>2
    <3> QED
      BY <3>1, <3>2
  <2>2. cur_msg_len' \in DontKnow..MSG_BUFFER_SIZE /\ step' \in -1..1
    <3>1. CASE r.ok
      BY <1>2, <1>6, <2>0, <3>1
    <3>2. CASE ~r.ok
      <4>1. cur_msg_len' = ResetLen(kind) /\ step' = 0
        BY <1>2, <3>2
      <4> QED
        BY <1>5, <4>1
    <3> QED
      BY <3>1, <3>2
  <2>3. asserted' \in BOOLEAN /\ unpack_ok' \in BOOLEAN /\ closed'
    BY <1>1, <1>2
  <2>4. CodecTypes'
    <3>1. reading' \in {"reading", "complete", "ended"} /\ closed' \in BOOLEAN
      BY <1>1, <1>2, <2>0
    <3> QED
      BY <1>1, <1>2, <2>1, <2>2, <2>3, <3>1 DEF CodecTypes
  <2>5. sent' = unpacked' \o ns /\ unpacked' \in Seq(S)
    <3> DEFINE q == r.msgs
    <3>1. unpacked \in Seq(S) /\ q \in Seq(S) /\ ns \in Seq(S) /\ sent = unpacked \o (q \o ns)
      BY <1>4, <1>6
    <3> HIDE DEF S, q
    <3>2. unpacked \in Seq(S) /\ q \in Seq(S) /\ ns \in Seq(S)
      BY <3>1
    <3>3. (unpacked \o q) \o ns = unpacked \o (q \o ns) /\ unpacked \o q \in Seq(S)
      BY <3>2, ConcatAssociative
    <3> QED
      BY <1>2, <3>1, <3>3 DEF q
  <2>6. Link(ns)'
    BY <1>2, <1>6, <2>0, <2>3, <2>5 DEF Link
  <2>7. AssertsHold'
    <3>1. CASE kind \in {"unbuffered", "prefix_suffix"}
      BY <1>2, <2>3, <3>1 DEF AssertsHold
    <3>2. CASE kind \notin {"unbuffered", "prefix_suffix"}
      <4>1. asserted
        BY <3>2 DEF CodecInv, AssertsHold
      <4>2. asserted'
        BY <1>2, <1>6, <2>0, <3>2, <4>1
      <4> QED
        BY <4>2 DEF AssertsHold
    <3> QED
      BY <3>1, <3>2
  <2> QED
    BY <1>2, <2>0, <2>3, <2>4, <2>6, <2>7 DEF CodecInv
<1>7. <<>> \in Seq(S) /\ <<>> \o ms = ms
  BY <1>4, EmptySeq, ConcatEmptySeq
<1>8. CASE kind = "unbuffered"
  <2>1. r = [ok |-> TRUE, raw |-> <<>>, cur |-> 0, step |-> 1, msgs |-> <<>>, holds |-> cur_msg_len > 0]
    BY <1>4, <1>8 DEF parse_msg, unbuffered_parse_msg, ResetLen
  <2>2. r.raw = <<>> /\ r.cur = 0 /\ r.step = 1 /\ r.msgs = <<>>
    <3> HIDE DEF r
    <3> QED
      BY <2>1
  <2>3. <<>> \in Seq(Bytes) /\ Len(<<>>) <= MSG_BUFFER_SIZE /\ 0 \in DontKnow..MSG_BUFFER_SIZE /\ 1 \in -1..1
    BY <1>1 DEF DontKnow
  <2> HIDE DEF r, S
  <2> QED
    BY <1>4, <1>6, <1>7, <1>8, <2>2, <2>3
<1>9. CASE kind = "prefix_suffix"
  <2> DEFINE start == [raw |-> raw_buff, cur |-> DontKnow, msgs |-> <<>>, ok |-> TRUE, holds |-> TRUE]
             q == cut_suffixes(raw_buff, DontKnow)
  <2>1. suffixes_turn[start] = start
    <3>1. start \in [raw : Seq(Bytes), cur : Int, msgs : Seq(Seq(Bytes)), ok : BOOLEAN, holds : BOOLEAN]
      BY <1>1 DEF DontKnow
    <3>2. start.cur \in {DontKnow, 0}
      OBVIOUS
    <3> QED
      BY <3>1, <3>2 DEF suffixes_turn
  <2>2. q = start
    <3> DEFINE I == {start}
               V == [s \in I |-> 0]
    <3>1. /\ start \in I /\ V \in [I -> Nat] /\ V[start] <= Len(raw_buff)
          /\ \A s \in I : suffixes_turn[s] \in I /\ (suffixes_turn[s] = s \/ V[suffixes_turn[s]] < V[s])
      BY <1>1, <2>1
    <3> HIDE DEF I, V, start
    <3>2. Turns(suffixes_turn, start, Len(raw_buff)) \in I
      BY <1>1, <3>1, LoopEnds
    <3>3. q = Turns(suffixes_turn, start, Len(raw_buff))
      BY Zenon DEF cut_suffixes, start
    <3> QED
      BY <3>2, <3>3 DEF I
  <2>3. r = [ok |-> q.ok /\ q.msgs # <<>>, raw |-> q.raw, cur |-> q.cur, step |-> 0,
             msgs |-> q.msgs, holds |-> q.holds /\ Len(raw_buff) <= MSG_BUFFER_SIZE]
    <3>1. cur_msg_len = DontKnow
      BY <1>4, <1>9 DEF ResetLen
    <3> QED
      BY <1>9, <3>1, Zenon DEF parse_msg, prefix_suffix_parse_msg
  <2>4. r.ok = FALSE /\ r.msgs = <<>>
    <3>1. q.msgs = <<>>
      BY <2>2
    <3> HIDE DEF r, q
    <3> QED
      BY <2>3, <3>1
  <2> HIDE DEF r, S
  <2> QED
    BY <1>2, <1>4, <1>6, <1>7, <1>9, <2>4
<1>10. CASE kind \in {"unpacker", "fixed_length"}
  <2>1. PICK t \in Seq(Bytes) : Framed(kind, raw_buff \o t, ms)
    BY <1>4, <1>10
  <2>2. kind \in Gathering /\ CurBefore(kind, raw_buff, cur_msg_len)
    BY <1>4, <1>10 DEF Gathering, CurBefore, ResetLen
  <2>3. PICK ns : /\ Left(kind, t, ms, r.raw, r.msgs, ns) /\ ~Has(kind, r.raw, ns)
                  /\ CurIs(kind, r.raw, ns, r.cur) /\ r.step = 0 /\ r.holds = TRUE
                  /\ r.ok <=> r.msgs # <<>>
                  /\ Has(kind, raw_buff, ms) => r.msgs # <<>>
                  /\ Len(r.raw) < MSG_BUFFER_SIZE
    BY <1>1, <1>4, <1>10, <2>1, <2>2, ParseIs
  <2>4. /\ ms = r.msgs \o ns /\ r.msgs \in Seq(S) /\ ns \in Seq(S)
        /\ r.raw \in Seq(Bytes) /\ Framed(kind, r.raw \o t, ns) /\ Len(r.raw) \in Nat
    BY <2>3 DEF Left
  <2> HIDE DEF r
  <2>5. r.cur \in DontKnow..MSG_BUFFER_SIZE
    <3> DEFINE w == r.raw
               v == r.cur
    <3>1. /\ kind \in Kinds /\ kind \in Gathering /\ w \in Seq(Bytes) /\ t \in Seq(Bytes)
          /\ ns \in Seq(Bodies(kind)) /\ Framed(kind, w \o t, ns) /\ CurIs(kind, w, ns, v)
      BY <1>1, <2>2, <2>3, <2>4
    <3> HIDE DEF w, v
    <3>2. v \in DontKnow..MSG_BUFFER_SIZE
      BY <3>1, RoomWithoutMessage
    <3> QED
      BY <3>2 DEF v
  <2>6. Len(r.raw) < MSG_BUFFER_SIZE /\ Len(r.raw) <= MSG_BUFFER_SIZE /\ r.step \in -1..1
    BY <1>1, <1>2, <2>3, <2>4
  <2> HIDE DEF S
  <2> QED
    BY <1>6, <2>3, <2>4, <2>5, <2>6
<1> QED
  BY <1>1, <1>8, <1>9, <1>10 DEF Kinds

\* The invariant is inductive.
LEMMA NextKeeps == CodecInv /\ [Next]_vars => CodecInv'
<1> SUFFICES ASSUME CodecInv, [Next]_vars PROVE CodecInv'
  OBVIOUS
<1>1. ASSUME NEW parts \in Requests, send_msg(parts) PROVE CodecInv'
  BY <1>1, SendKeeps
<1>2. ASSUME NEW n \in 1..MSG_BUFFER_SIZE, read_some(n) PROVE CodecInv'
  BY <1>2, ReadGathering, ReadUnbuffered
<1>3. CASE recv_handler
  BY <1>3, HandlerGathering, HandlerUnbuffered, HandlerClosed
<1>4. CASE clean_up
  BY <1>4, CleanKeeps
<1>5. CASE UNCHANGED vars
  BY <1>5, StutterKeeps
<1> QED
  BY <1>1, <1>2, <1>3, <1>4, <1>5 DEF Next

-----------------------------------------------------------------------------
(* The theorems.                                                             *)

LEMMA Inductive == Spec => []CodecInv
BY InitKeeps, NextKeeps, PTL DEF Spec

(***************************************************************************)
(* The variables stay within their types; the received bytes never exceed  *)
(* the buffer.                                                             *)
(***************************************************************************)
THEOREM CodecTypeCorrect == Spec => []TypeOK
<1>1. CodecInv => TypeOK
  <2> SUFFICES ASSUME CodecInv PROVE TypeOK
    OBVIOUS
  <2>1. CodecTypes
    BY DEF CodecInv
  <2>2. PICK ms : Link(ms)
    BY DEF CodecInv
  <2>3. sent \in Seq(Seq(Bytes)) /\ unpacked \in Seq(Seq(Bytes))
    <3> DEFINE S == Bodies(kind)
               B == Seq(Bytes)
    <3>1. sent = unpacked \o ms /\ unpacked \in Seq(S) /\ ms \in Seq(S) /\ S \subseteq B
      BY <2>2 DEF Link, Bodies
    <3> HIDE DEF S, B
    <3>2. unpacked \in Seq(B) /\ ms \in Seq(B)
      BY <3>1, SeqMonotonic
    <3>3. unpacked \o ms \in Seq(B)
      BY <3>2, ConcatProperties
    <3> QED
      BY <3>1, <3>2, <3>3 DEF B
  <2>4. transferred \in 0..MSG_BUFFER_SIZE
    <3>1. MSG_BUFFER_SIZE \in Nat /\ Len(raw_buff) \in Nat
      BY <2>1, CodecAssumption DEF CodecTypes
    <3> QED
      BY <2>1, <3>1 DEF CodecTypes
  <2> QED
    BY <2>1, <2>3, <2>4 DEF CodecTypes, TypeOK
<1> QED
  BY <1>1, Inductive, PTL

(***************************************************************************)
(* However the network cuts the stream, and when another thread closes the *)
(* link under a queued handler too, parse_msg hands out the bodies that    *)
(* were packed, in order, none twice.                                      *)
(***************************************************************************)
THEOREM UnpacksInOrder == Spec => []UnpackedInOrder
<1>1. CodecInv => UnpackedInOrder
  <2> SUFFICES ASSUME CodecInv PROVE UnpackedInOrder
    OBVIOUS
  <2>1. PICK ms : Link(ms)
    BY DEF CodecInv
  <2> DEFINE S == Bodies(kind)
  <2>2. sent = unpacked \o ms /\ unpacked \in Seq(S) /\ ms \in Seq(S)
    BY <2>1 DEF Link
  <2> HIDE DEF S
  <2>3. /\ sent \in Seq(S) /\ Len(sent) = Len(unpacked) + Len(ms) /\ Len(unpacked) \in Nat /\ Len(ms) \in Nat
        /\ \A j \in 1..(Len(unpacked) + Len(ms)) :
              sent[j] = IF j <= Len(unpacked) THEN unpacked[j] ELSE ms[j - Len(unpacked)]
    BY <2>2, ConcatProperties
  <2>4. Len(unpacked) <= Len(sent)
    BY <2>3
  <2> DEFINE u == SubSeq(sent, 1, Len(unpacked))
  <2>5. u \in Seq(S) /\ Len(u) = Len(unpacked) /\ \A j \in 1..Len(unpacked) : u[j] = sent[j]
    BY <2>3, <2>4
  <2>6. \A j \in 1..Len(u) : u[j] = unpacked[j]
    <3> HIDE DEF u
    <3> QED
      BY <2>3, <2>5
  <2>7. u = unpacked
    <3> HIDE DEF u
    <3> QED
      BY <2>2, <2>5, <2>6, SeqEqual
  <2>8. SubSeq(unpacked, 1, Len(unpacked)) = unpacked
    BY <2>2, SubSeqFull
  <2> QED
    BY <2>4, <2>7, <2>8 DEF UnpackedInOrder, IsPrefix
<1> QED
  BY <1>1, Inductive, PTL

(***************************************************************************)
(* The asserts of the unpackers hold, but for the two unpackers that a     *)
(* close by another thread resets under a queued handler.                  *)
(***************************************************************************)
THEOREM AssertsAreTrue == Spec => []AssertsHold
<1>1. CodecInv => AssertsHold
  BY DEF CodecInv
<1> QED
  BY <1>1, Inductive, PTL

(***************************************************************************)
(* While the link is up, no cut of the stream makes parse_msg fail, so     *)
(* on_unpack_error closes no link whose peer packs what it sends.          *)
(***************************************************************************)
THEOREM UnpacksWhileOpen == Spec => [](~closed => unpack_ok)
<1>1. CodecInv => (~closed => unpack_ok)
  BY DEF CodecInv
<1> QED
  BY <1>1, Inductive, PTL
=============================================================================
