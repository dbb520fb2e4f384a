--------------------------- MODULE MsgPool_proofs ---------------------------
(***************************************************************************)
(* The allocator is safe for any number of threads and buffers and any     *)
(* capacity of the pool.                                                   *)
(***************************************************************************)
EXTENDS MsgPool, TLAPS

\* The front of a non-empty pool, and what is left without it.
LEMMA PoolFront ==
    ASSUME NEW S, NEW q \in Seq(S), q # <<>>
    PROVE  /\ Head(q) \in S /\ Head(q) = q[1]
           /\ Tail(q) \in Seq(S)
           /\ Len(q) \in Nat /\ Len(q) > 0 /\ Len(Tail(q)) = Len(q) - 1
           /\ \A i \in 1..Len(Tail(q)) : Tail(q)[i] = q[i + 1]
  OBVIOUS

\* Each step keeps the types of the allocator's variables.
LEMMA TypeStep == TypeOK /\ [Next]_vars => TypeOK'
<1> SUFFICES ASSUME TypeOK, [Next]_vars PROVE TypeOK'
  OBVIOUS
<1> USE PoolAssumption DEF TypeOK, Phases
<1>0. \A b \in Buffers, n \in Lengths : body_length(size_allocated_[b], n) \in Nat
  BY DEF body_length
<1>1. ASSUME NEW t \in Threads, NEW b \in Buffers, NEW h \in Headers, allocate_new(t, b, h) PROVE TypeOK'
  BY <1>1 DEF allocate_new, new_msg
<1>2. ASSUME NEW t \in Threads, NEW h \in Headers, allocate_not_empty(t, h) PROVE TypeOK'
  BY <1>2 DEF allocate_not_empty
<1>3. ASSUME NEW t \in Threads, NEW b \in Buffers, allocate_recheck_new(t, b) PROVE TypeOK'
  BY <1>3 DEF allocate_recheck_new, new_msg
<1>4. ASSUME NEW t \in Threads, allocate_from_pool(t) PROVE TypeOK'
  <2>1. Head(conn_msg_buffer_) \in Buffers /\ Tail(conn_msg_buffer_) \in Seq(Buffers)
    BY <1>4, PoolFront DEF allocate_from_pool, empty
  <2> QED
    BY <1>4, <2>1 DEF allocate_from_pool, empty
<1>5. ASSUME NEW t \in Threads, NEW b \in Buffers, set_body(t, b) PROVE TypeOK'
  <2>1. header_' \in [Buffers -> Headers]
    BY <1>5 DEF set_body, Headers
  <2>2. size_allocated_' \in [Buffers -> Nat]
    BY <1>0, <1>5 DEF set_body, Headers
  <2> QED
    BY <1>5, <2>1, <2>2 DEF set_body
<1>6. ASSUME NEW t \in Threads, NEW b \in Buffers, dellocate_delete(t, b) PROVE TypeOK'
  BY <1>6 DEF dellocate_delete, delete_msg
<1>7. ASSUME NEW t \in Threads, NEW b \in Buffers, dellocate_not_full(t, b) PROVE TypeOK'
  BY <1>7 DEF dellocate_not_full
<1>8. ASSUME NEW t \in Threads, NEW b \in Buffers, dellocate_recheck_delete(t, b) PROVE TypeOK'
  BY <1>8 DEF dellocate_recheck_delete, delete_msg
<1>9. ASSUME NEW t \in Threads, NEW b \in Buffers, dellocate_to_pool(t, b) PROVE TypeOK'
  <2>1. conn_msg_buffer_' \in Seq(Buffers)
    BY <1>9 DEF dellocate_to_pool
  <2> QED
    BY <1>9, <2>1 DEF dellocate_to_pool
<1>10. CASE clear_buffer
  <2>1. conn_msg_buffer_' \in Seq(Buffers)
    BY <1>10 DEF clear_buffer
  <2> QED
    BY <1>10, <2>1 DEF clear_buffer
<1>11. CASE UNCHANGED vars
  BY <1>11 DEF vars
<1>13. ASSUME NEW S \in SUBSET Buffers, session_destroyed(S) PROVE TypeOK'
  BY <1>13 DEF session_destroyed
<1> HIDE DEF TypeOK
<1>12. ASSUME NEW t \in Threads, Step(t) PROVE TypeOK'
  BY <1>1, <1>2, <1>3, <1>4, <1>5, <1>6, <1>7, <1>8, <1>9, <1>12 DEF Step
<1> QED
  BY <1>10, <1>11, <1>12, <1>13 DEF Next

\* The allocator's variables keep their types.
THEOREM PoolTypeCorrect == Spec => []TypeOK
<1>1. Init => TypeOK
  <2> SUFFICES ASSUME Init PROVE TypeOK
    OBVIOUS
  <2>1. AnyHeader \in Headers
    <3>1. \E h \in Headers : TRUE
      <4>1. PICK y \in Types, n \in Lengths : TRUE
        BY PoolAssumption
      <4>2. [type |-> y, len |-> n] \in Headers
        BY DEF Headers
      <4> QED
        BY <4>2
    <3> QED
      BY <3>1 DEF AnyHeader
  <2>2. conn_msg_buffer_ \in Seq(Buffers)
    BY DEF Init
  <2> QED
    BY <2>1, <2>2 DEF Init, TypeOK, Phases
<1> QED
  BY <1>1, TypeStep, PTL DEF Spec
-----------------------------------------------------------------------------
\* Taking the front buffer out of a pool without duplicates.
LEMMA PopFront ==
    ASSUME NEW S, NEW q \in Seq(S), q # <<>>,
           \A i, j \in 1..Len(q) : q[i] = q[j] => i = j
    PROVE  /\ {Tail(q)[i] : i \in 1..Len(Tail(q))} = {q[i] : i \in 1..Len(q)} \ {Head(q)}
           /\ Head(q) \in {q[i] : i \in 1..Len(q)}
           /\ \A i, j \in 1..Len(Tail(q)) : Tail(q)[i] = Tail(q)[j] => i = j
<1>1. /\ Head(q) = q[1] /\ Len(q) \in Nat /\ Len(q) > 0 /\ Len(Tail(q)) = Len(q) - 1
      /\ \A i \in 1..Len(Tail(q)) : Tail(q)[i] = q[i + 1]
  BY PoolFront
<1>2. \A i \in 1..Len(Tail(q)) : i + 1 \in 1..Len(q) /\ i + 1 # 1
  BY <1>1
<1>3. \A i \in 1..Len(q) : i # 1 => i - 1 \in 1..Len(Tail(q)) /\ (i - 1) + 1 = i
  BY <1>1
<1>4. 1 \in 1..Len(q)
  BY <1>1
<1>5. ASSUME NEW x \in {Tail(q)[i] : i \in 1..Len(Tail(q))}
      PROVE  x \in {q[i] : i \in 1..Len(q)} \ {Head(q)}
  <2>1. PICK i \in 1..Len(Tail(q)) : x = Tail(q)[i]
    OBVIOUS
  <2>2. x = q[i + 1] /\ i + 1 \in 1..Len(q) /\ i + 1 # 1
    BY <1>1, <1>2, <2>1
  <2>3. q[i + 1] # q[1]
    BY <1>4, <2>2
  <2> QED
    BY <1>1, <2>2, <2>3
<1>6. ASSUME NEW x \in {q[i] : i \in 1..Len(q)} \ {Head(q)}
      PROVE  x \in {Tail(q)[i] : i \in 1..Len(Tail(q))}
  <2>1. PICK i \in 1..Len(q) : x = q[i]
    OBVIOUS
  <2>2. i # 1
    BY <1>1, <2>1
  <2>3. i - 1 \in 1..Len(Tail(q)) /\ Tail(q)[i - 1] = x
    BY <1>1, <1>3, <2>1, <2>2
  <2> QED
    BY <2>3
<1>7. ASSUME NEW i \in 1..Len(Tail(q)), NEW j \in 1..Len(Tail(q)), Tail(q)[i] = Tail(q)[j]
      PROVE  i = j
  <2>1. q[i + 1] = q[j + 1] /\ i + 1 \in 1..Len(q) /\ j + 1 \in 1..Len(q)
    BY <1>1, <1>2, <1>7
  <2>2. i + 1 = j + 1
    BY <2>1
  <2> QED
    BY <1>1, <2>2
<1> QED
  BY <1>1, <1>4, <1>5, <1>6, <1>7

\* Putting a new buffer at the end of a pool without duplicates.
LEMMA PushBack ==
    ASSUME NEW S, NEW q \in Seq(S), NEW b \in S,
           b \notin {q[i] : i \in 1..Len(q)},
           \A i, j \in 1..Len(q) : q[i] = q[j] => i = j
    PROVE  /\ {Append(q, b)[i] : i \in 1..Len(Append(q, b))} = {q[i] : i \in 1..Len(q)} \cup {b}
           /\ \A i, j \in 1..Len(Append(q, b)) : Append(q, b)[i] = Append(q, b)[j] => i = j
<1> DEFINE r == Append(q, b)
<1>1. /\ Len(r) = Len(q) + 1 /\ Len(q) \in Nat /\ r[Len(q) + 1] = b
      /\ \A i \in 1..Len(q) : r[i] = q[i]
  OBVIOUS
<1> HIDE DEF r
<1>2. \A i \in 1..Len(r) : i \in 1..Len(q) \/ i = Len(q) + 1
  BY <1>1
<1>3. (\A i \in 1..Len(q) : i \in 1..Len(r)) /\ Len(q) + 1 \in 1..Len(r)
  BY <1>1
<1>4. \A i \in 1..Len(q) : q[i] # b
  OBVIOUS
<1>5. \A i, j \in 1..Len(r) : r[i] = r[j] => i = j
  BY <1>1, <1>2, <1>4
<1>6. {r[i] : i \in 1..Len(r)} = {q[i] : i \in 1..Len(q)} \cup {b}
  BY <1>1, <1>2, <1>3
<1> QED
  BY <1>5, <1>6 DEF r

\* Each step of the allocator keeps the inductive invariant.
LEMMA PoolStep == TypeOK /\ PoolInv /\ [Next]_vars => PoolInv'
<1> SUFFICES ASSUME TypeOK, PoolInv, [Next]_vars PROVE PoolInv'
  OBVIOUS
<1> DEFINE Distinct == \A i, j \in 1..Len(conn_msg_buffer_) :
                          conn_msg_buffer_[i] = conn_msg_buffer_[j] => i = j
<1>0. /\ conn_msg_buffer_ \in Seq(Buffers) /\ Len(conn_msg_buffer_) \in Nat
      /\ size_allocated_ \in [Buffers -> Nat] /\ header_ \in [Buffers -> Headers]
      /\ pc \in [Threads -> Phases] /\ want \in [Threads -> Headers]
      /\ holds \in [Threads -> Buffers \cup {NoBuffer}]
      /\ queued \subseteq Buffers /\ live \subseteq Buffers /\ Pooled \subseteq Buffers
      /\ Distinct
  BY DEF TypeOK, PoolInv, OneOwner, Pooled
<1>1. /\ OneOwner /\ LostOnlyWithSession /\ PoolIsUniform /\ BodyFits /\ PhasesHold
  BY DEF PoolInv
<1> USE PoolAssumption
<1>2. ASSUME NEW t \in Threads, NEW b \in Buffers, NEW h \in Headers, allocate_new(t, b, h) PROVE PoolInv'
  <2>1. conn_msg_buffer_' = conn_msg_buffer_ /\ Pooled' = Pooled
    BY <1>2 DEF allocate_new, new_msg, Pooled
  <2>2. OneOwner'
    BY <1>2, <1>0, <1>1, <2>1 DEF allocate_new, new_msg, OneOwner, LostOnlyWithSession, Held, PhasesHold, Phases
  <2>3. LostOnlyWithSession'
    BY <1>2, <1>0, <1>1, <2>1 DEF allocate_new, new_msg, OneOwner, LostOnlyWithSession, Held, PhasesHold, Phases
  <2>4. PoolIsUniform'
    BY <1>2, <1>0, <1>1, <2>1 DEF allocate_new, new_msg, PoolIsUniform, capacity, OneOwner, LostOnlyWithSession, Held
  <2>5. BodyFits'
    BY <1>2, <1>0, <1>1, <2>1 DEF allocate_new, new_msg, BodyFits, capacity, OneOwner, LostOnlyWithSession, Held
  <2>6. PhasesHold'
    BY <1>2, <1>0, <1>1, <2>1 DEF allocate_new, new_msg, PhasesHold, capacity, OneOwner, LostOnlyWithSession, Held, Phases
  <2> QED
    BY <2>2, <2>3, <2>4, <2>5, <2>6 DEF PoolInv
<1>3. ASSUME NEW t \in Threads, NEW h \in Headers, allocate_not_empty(t, h) PROVE PoolInv'
  <2>1. conn_msg_buffer_' = conn_msg_buffer_ /\ Pooled' = Pooled
    BY <1>3 DEF allocate_not_empty, Pooled
  <2>2. OneOwner'
    BY <1>3, <1>0, <1>1, <2>1 DEF allocate_not_empty, OneOwner, LostOnlyWithSession, Held, PhasesHold, Phases
  <2>3. LostOnlyWithSession'
    BY <1>3, <1>0, <1>1, <2>1 DEF allocate_not_empty, OneOwner, LostOnlyWithSession, Held, PhasesHold, Phases
  <2>4. PoolIsUniform'
    BY <1>3, <1>0, <1>1, <2>1 DEF allocate_not_empty, PoolIsUniform, capacity, OneOwner, LostOnlyWithSession, Held
  <2>5. BodyFits'
    BY <1>3, <1>0, <1>1, <2>1 DEF allocate_not_empty, BodyFits, capacity, OneOwner, LostOnlyWithSession, Held
  <2>6. PhasesHold'
    BY <1>3, <1>0, <1>1, <2>1 DEF allocate_not_empty, PhasesHold, capacity, OneOwner, LostOnlyWithSession, Held, Phases
  <2> QED
    BY <2>2, <2>3, <2>4, <2>5, <2>6 DEF PoolInv
<1>4. ASSUME NEW t \in Threads, NEW b \in Buffers, allocate_recheck_new(t, b) PROVE PoolInv'
  <2>1. conn_msg_buffer_' = conn_msg_buffer_ /\ Pooled' = Pooled
    BY <1>4 DEF allocate_recheck_new, new_msg, Pooled
  <2>2. OneOwner'
    BY <1>4, <1>0, <1>1, <2>1 DEF allocate_recheck_new, new_msg, OneOwner, LostOnlyWithSession, Held, PhasesHold, Phases
  <2>3. LostOnlyWithSession'
    BY <1>4, <1>0, <1>1, <2>1 DEF allocate_recheck_new, new_msg, OneOwner, LostOnlyWithSession, Held, PhasesHold, Phases
  <2>4. PoolIsUniform'
    BY <1>4, <1>0, <1>1, <2>1 DEF allocate_recheck_new, new_msg, PoolIsUniform, capacity, OneOwner, LostOnlyWithSession, Held
  <2>5. BodyFits'
    BY <1>4, <1>0, <1>1, <2>1 DEF allocate_recheck_new, new_msg, BodyFits, capacity, OneOwner, LostOnlyWithSession, Held
  <2>6. PhasesHold'
    BY <1>4, <1>0, <1>1, <2>1 DEF allocate_recheck_new, new_msg, PhasesHold, capacity, OneOwner, LostOnlyWithSession, Held, Phases
  <2> QED
    BY <2>2, <2>3, <2>4, <2>5, <2>6 DEF PoolInv
<1>5. ASSUME NEW t \in Threads, allocate_from_pool(t) PROVE PoolInv'
  <2> DEFINE b == Head(conn_msg_buffer_)
  <2>1. /\ b \in Buffers /\ b \in Pooled /\ Pooled' = Pooled \ {b} /\ Distinct'
    <3>1. conn_msg_buffer_ # <<>> /\ conn_msg_buffer_' = Tail(conn_msg_buffer_)
      BY <1>5 DEF allocate_from_pool, empty
    <3>2. /\ {Tail(conn_msg_buffer_)[i] : i \in 1..Len(Tail(conn_msg_buffer_))} = Pooled \ {b}
          /\ b \in Pooled
          /\ \A i, j \in 1..Len(Tail(conn_msg_buffer_)) :
                Tail(conn_msg_buffer_)[i] = Tail(conn_msg_buffer_)[j] => i = j
      BY <1>0, <3>1, PopFront DEF Pooled
    <3>3. Pooled' = Pooled \ {b}
      BY <3>1, <3>2 DEF Pooled
    <3>4. Distinct'
      BY <3>1, <3>2
    <3>5. b \in Buffers
      BY <1>0, <3>2
    <3> QED
      BY <3>2, <3>3, <3>4, <3>5
  <2>2. OneOwner'
    BY <1>5, <1>0, <1>1, <2>1 DEF allocate_from_pool, empty, OneOwner, LostOnlyWithSession, Held, PhasesHold, Phases
  <2>3. LostOnlyWithSession'
    BY <1>5, <1>0, <1>1, <2>1 DEF allocate_from_pool, empty, OneOwner, LostOnlyWithSession, Held, PhasesHold, Phases
  <2>4. PoolIsUniform'
    BY <1>5, <1>0, <1>1, <2>1 DEF allocate_from_pool, empty, PoolIsUniform, capacity, OneOwner, LostOnlyWithSession, Held
  <2>5. BodyFits'
    BY <1>5, <1>0, <1>1, <2>1 DEF allocate_from_pool, empty, BodyFits, capacity, OneOwner, LostOnlyWithSession, Held
  <2>6. PhasesHold'
    BY <1>5, <1>0, <1>1, <2>1 DEF allocate_from_pool, empty, PhasesHold, capacity, OneOwner, LostOnlyWithSession, Held, Phases
  <2> QED
    BY <2>2, <2>3, <2>4, <2>5, <2>6 DEF PoolInv
<1>6. ASSUME NEW t \in Threads, NEW b \in Buffers, set_body(t, b) PROVE PoolInv'
  <2>1. conn_msg_buffer_' = conn_msg_buffer_ /\ Pooled' = Pooled
    BY <1>6 DEF set_body, Pooled
  <2>2. OneOwner'
    BY <1>6, <1>0, <1>1, <2>1 DEF set_body, OneOwner, LostOnlyWithSession, Held, PhasesHold, Phases
  <2>3. LostOnlyWithSession'
    BY <1>6, <1>0, <1>1, <2>1 DEF set_body, OneOwner, LostOnlyWithSession, Held, PhasesHold, Phases
  <2>4. PoolIsUniform'
    BY <1>6, <1>0, <1>1, <2>1 DEF set_body, PoolIsUniform, capacity, OneOwner, LostOnlyWithSession, Held
  <2>5. BodyFits'
    <3>1. size_allocated_[b] \in Nat /\ want[t].len \in Nat
      BY <1>0 DEF Headers
    <3>2. /\ header_'[b].len = want[t].len
          /\ size_allocated_'[b] = body_length(size_allocated_[b], want[t].len)
          /\ \A a \in Buffers : a # b => /\ header_'[a] = header_[a]
                                       /\ size_allocated_'[a] = size_allocated_[a]
      BY <1>6, <1>0 DEF set_body, Headers
    <3>3. want[t].len <= capacity(b)'
      BY <3>1, <3>2 DEF capacity, body_length
    <3> QED
      BY <1>6, <1>0, <1>1, <3>2, <3>3 DEF set_body, BodyFits, capacity
  <2>6. PhasesHold'
    BY <1>6, <1>0, <1>1, <2>1 DEF set_body, PhasesHold, capacity, OneOwner, LostOnlyWithSession, Held, Phases
  <2> QED
    BY <2>2, <2>3, <2>4, <2>5, <2>6 DEF PoolInv
<1>7. ASSUME NEW t \in Threads, NEW b \in Buffers, dellocate_delete(t, b) PROVE PoolInv'
  <2>1. conn_msg_buffer_' = conn_msg_buffer_ /\ Pooled' = Pooled
    BY <1>7 DEF dellocate_delete, delete_msg, Pooled
  <2>2. OneOwner'
    BY <1>7, <1>0, <1>1, <2>1 DEF dellocate_delete, delete_msg, OneOwner, LostOnlyWithSession, Held, PhasesHold, Phases
  <2>3. LostOnlyWithSession'
    BY <1>7, <1>0, <1>1, <2>1 DEF dellocate_delete, delete_msg, OneOwner, LostOnlyWithSession, Held, PhasesHold, Phases
  <2>4. PoolIsUniform'
    BY <1>7, <1>0, <1>1, <2>1 DEF dellocate_delete, delete_msg, PoolIsUniform, capacity, OneOwner, LostOnlyWithSession, Held
  <2>5. BodyFits'
    BY <1>7, <1>0, <1>1, <2>1 DEF dellocate_delete, delete_msg, BodyFits, capacity, OneOwner, LostOnlyWithSession, Held
  <2>6. PhasesHold'
    BY <1>7, <1>0, <1>1, <2>1 DEF dellocate_delete, delete_msg, PhasesHold, capacity, OneOwner, LostOnlyWithSession, Held, Phases
  <2> QED
    BY <2>2, <2>3, <2>4, <2>5, <2>6 DEF PoolInv
<1>8. ASSUME NEW t \in Threads, NEW b \in Buffers, dellocate_not_full(t, b) PROVE PoolInv'
  <2>1. conn_msg_buffer_' = conn_msg_buffer_ /\ Pooled' = Pooled
    BY <1>8 DEF dellocate_not_full, Pooled
  <2>2. OneOwner'
    BY <1>8, <1>0, <1>1, <2>1 DEF dellocate_not_full, OneOwner, LostOnlyWithSession, Held, PhasesHold, Phases
  <2>3. LostOnlyWithSession'
    BY <1>8, <1>0, <1>1, <2>1 DEF dellocate_not_full, OneOwner, LostOnlyWithSession, Held, PhasesHold, Phases
  <2>4. PoolIsUniform'
    BY <1>8, <1>0, <1>1, <2>1 DEF dellocate_not_full, PoolIsUniform, capacity, OneOwner, LostOnlyWithSession, Held
  <2>5. BodyFits'
    BY <1>8, <1>0, <1>1, <2>1 DEF dellocate_not_full, BodyFits, capacity, OneOwner, LostOnlyWithSession, Held
  <2>6. PhasesHold'
    BY <1>8, <1>0, <1>1, <2>1 DEF dellocate_not_full, PhasesHold, capacity, OneOwner, LostOnlyWithSession, Held, Phases
  <2> QED
    BY <2>2, <2>3, <2>4, <2>5, <2>6 DEF PoolInv
<1>9. ASSUME NEW t \in Threads, NEW b \in Buffers, dellocate_recheck_delete(t, b) PROVE PoolInv'
  <2>1. conn_msg_buffer_' = conn_msg_buffer_ /\ Pooled' = Pooled
    BY <1>9 DEF dellocate_recheck_delete, delete_msg, Pooled
  <2>2. OneOwner'
    BY <1>9, <1>0, <1>1, <2>1 DEF dellocate_recheck_delete, delete_msg, OneOwner, LostOnlyWithSession, Held, PhasesHold, Phases
  <2>3. LostOnlyWithSession'
    BY <1>9, <1>0, <1>1, <2>1 DEF dellocate_recheck_delete, delete_msg, OneOwner, LostOnlyWithSession, Held, PhasesHold, Phases
  <2>4. PoolIsUniform'
    BY <1>9, <1>0, <1>1, <2>1 DEF dellocate_recheck_delete, delete_msg, PoolIsUniform, capacity, OneOwner, LostOnlyWithSession, Held
  <2>5. BodyFits'
    BY <1>9, <1>0, <1>1, <2>1 DEF dellocate_recheck_delete, delete_msg, BodyFits, capacity, OneOwner, LostOnlyWithSession, Held
  <2>6. PhasesHold'
    BY <1>9, <1>0, <1>1, <2>1 DEF dellocate_recheck_delete, delete_msg, PhasesHold, capacity, OneOwner, LostOnlyWithSession, Held, Phases
  <2> QED
    BY <2>2, <2>3, <2>4, <2>5, <2>6 DEF PoolInv
<1>10. ASSUME NEW t \in Threads, NEW b \in Buffers, dellocate_to_pool(t, b) PROVE PoolInv'
  <2>1. Pooled' = Pooled \cup {b} /\ Distinct'
    <3>1. b \notin Pooled
      BY <1>10, <1>0, <1>1 DEF dellocate_to_pool, full, OneOwner, Held
    <3> QED
      BY <1>10, <1>0, <3>1, PushBack DEF dellocate_to_pool, full, Pooled
  <2>2. OneOwner'
    BY <1>10, <1>0, <1>1, <2>1 DEF dellocate_to_pool, full, OneOwner, LostOnlyWithSession, Held, PhasesHold, Phases
  <2>3. LostOnlyWithSession'
    BY <1>10, <1>0, <1>1, <2>1 DEF dellocate_to_pool, full, OneOwner, LostOnlyWithSession, Held, PhasesHold, Phases
  <2>4. PoolIsUniform'
    <3>1. Len(conn_msg_buffer_') = Len(conn_msg_buffer_) + 1
      BY <1>10, <1>0 DEF dellocate_to_pool
    <3>2. Len(conn_msg_buffer_') <= Capacity
      BY <1>10, <1>0, <3>1 DEF dellocate_to_pool, full
    <3>3. capacity(b) = MaxBody
      BY <1>10, <1>1 DEF dellocate_to_pool, PhasesHold
    <3> QED
      BY <1>10, <1>1, <2>1, <3>2, <3>3 DEF dellocate_to_pool, PoolIsUniform, capacity
  <2>5. BodyFits'
    BY <1>10, <1>0, <1>1, <2>1 DEF dellocate_to_pool, full, BodyFits, capacity, OneOwner, LostOnlyWithSession, Held
  <2>6. PhasesHold'
    BY <1>10, <1>0, <1>1, <2>1 DEF dellocate_to_pool, full, PhasesHold, capacity, OneOwner, LostOnlyWithSession, Held, Phases
  <2> QED
    BY <2>2, <2>3, <2>4, <2>5, <2>6 DEF PoolInv
<1>11. CASE clear_buffer
  <2>1. Pooled' = {} /\ Len(conn_msg_buffer_') = 0 /\ live' = live \ Pooled
    BY <1>11 DEF clear_buffer, Pooled
  <2> QED
    BY <1>11, <1>0, <1>1, <2>1 DEF clear_buffer, PoolInv, OneOwner, LostOnlyWithSession, PoolIsUniform,
       BodyFits, PhasesHold, Held, capacity
<1>12. CASE UNCHANGED vars
  BY <1>12, <1>1 DEF vars, PoolInv, OneOwner, LostOnlyWithSession, PoolIsUniform, BodyFits, PhasesHold,
     Held, Pooled, capacity
<1>14. ASSUME NEW S \in SUBSET Buffers, session_destroyed(S) PROVE PoolInv'
  <2>1. Pooled' = Pooled /\ Held' = Held
    BY <1>14 DEF session_destroyed, Pooled, Held
  <2> QED
    BY <1>14, <1>0, <1>1, <2>1 DEF session_destroyed, PoolInv, OneOwner, LostOnlyWithSession,
       PoolIsUniform, BodyFits, PhasesHold, capacity
<1>13. ASSUME NEW t \in Threads, Step(t) PROVE PoolInv'
  BY <1>2, <1>3, <1>4, <1>5, <1>6, <1>7, <1>8, <1>9, <1>10, <1>13 DEF Step
<1> QED
  BY <1>11, <1>12, <1>13, <1>14 DEF Next

\* The inductive invariant of the allocator.
LEMMA PoolInvariant == Spec => []PoolInv
<1>1. Init => PoolInv
  <2> SUFFICES ASSUME Init PROVE PoolInv
    OBVIOUS
  <2>1. Pooled = {} /\ Held = {} /\ Len(conn_msg_buffer_) = 0
    BY DEF Init, Pooled, Held
  <2> QED
    BY <2>1, PoolAssumption
       DEF Init, PoolInv, OneOwner, LostOnlyWithSession, PoolIsUniform, BodyFits, PhasesHold
<1> QED
  BY <1>1, PoolStep, PoolTypeCorrect, PTL DEF Spec

\* A buffer is never given to two messages, for any number of threads: what
\* allocate and dellocate decide under the exclusive lock is enough.
THEOREM BuffersHaveOneOwner == Spec => []OneOwner
  BY PoolInvariant, PTL DEF PoolInv

\* A buffer is lost only with the session that had it in its queue, and no buffer
\* is used after delete or after it was lost.
THEOREM BuffersAreLostOnlyWithSession == Spec => []LostOnlyWithSession
  BY PoolInvariant, PTL DEF PoolInv

\* The pool respects its capacity and holds only buffers with the fixed body.
THEOREM PoolStaysUniform == Spec => []PoolIsUniform
  BY PoolInvariant, PTL DEF PoolInv

\* No message overruns its buffer.
THEOREM BodiesFit == Spec => []BodyFits
  BY PoolInvariant, PTL DEF PoolInv
=============================================================================
