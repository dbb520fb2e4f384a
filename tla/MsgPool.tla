------------------------------ MODULE MsgPool ------------------------------
(***************************************************************************)
(* The message buffers of the echo server: class conn_msg and the          *)
(* allocator of connection_mgr (allocate_msg_buffer, dellocate_msg_buffer, *)
(* clear_buffer) in asio_test/connection.{h,cpp}.                          *)
(*                                                                         *)
(* Both allocator functions look at the pool under a shared lock, release  *)
(* it, and look again under an exclusive lock: two actions, between which  *)
(* the pool may change.  A thread allocates a buffer for a header it has   *)
(* read, fills it (set_body) and hands it to a session's queue; the thread *)
(* whose write completes takes it from there and gives it back.  A session *)
(* that is destroyed with messages in its queue gives nothing back.        *)
(***************************************************************************)
EXTENDS Naturals, Sequences, FiniteSets

CONSTANTS
    Threads,     \* the io threads
    Buffers,     \* addresses of conn_msg objects
    NoBuffer,    \* the null pointer
    Types,       \* what tells headers apart: type, subtype, packNum
    Lengths,     \* body lengths that occur
    MaxBody,     \* conn_msg::max_body_length
    Capacity,    \* capacity of the circular buffer
    MaxLeaked    \* bound: buffers that destroyed sessions leave behind

ASSUME PoolAssumption ==
    /\ NoBuffer \notin Buffers
    /\ Types # {}
    /\ Lengths # {} /\ Lengths \subseteq Nat
    /\ MaxBody \in Nat \ {0}
    /\ Capacity \in Nat
    /\ MaxLeaked \in Nat

Headers == [type : Types, len : Lengths]

VARIABLES
    conn_msg_buffer_,  \* the pool of idle buffers
    live,              \* conn_msg objects that exist
    size_allocated_,   \* size_allocated_[b]: heap size of the body, 0 if inside b
    header_,           \* header_[b]: the header the buffer would send
    pc,                \* where a thread is in the allocator
    want,              \* want[t]: the header thread t allocates for
    holds,             \* holds[t]: the buffer thread t is working on
    queued,            \* buffers in some session's msg_queue_
    leaked,            \* buffers whose only pointer went with a session
    meant              \* history: meant[b]: the header b was last allocated for

vars == <<conn_msg_buffer_, live, size_allocated_, header_, pc, want, holds,
          queued, leaked, meant>>

Phases == {"idle", "alloc_locked", "fill", "free_locked"}

TypeOK ==
    /\ conn_msg_buffer_ \in Seq(Buffers)
    /\ live \subseteq Buffers
    /\ size_allocated_ \in [Buffers -> Nat]
    /\ header_ \in [Buffers -> Headers]
    /\ pc \in [Threads -> Phases]
    /\ want \in [Threads -> Headers]
    /\ holds \in [Threads -> Buffers \cup {NoBuffer}]
    /\ queued \subseteq Buffers
    /\ leaked \subseteq Buffers
    /\ meant \in [Buffers -> Headers]

AnyHeader == CHOOSE h \in Headers : TRUE

Init ==
    /\ conn_msg_buffer_ = <<>>
    /\ live = {}
    /\ size_allocated_ = [b \in Buffers |-> 0]
    /\ header_ = [b \in Buffers |-> AnyHeader]
    /\ pc = [t \in Threads |-> "idle"]
    /\ want = [t \in Threads |-> AnyHeader]
    /\ holds = [t \in Threads |-> NoBuffer]
    /\ queued = {}
    /\ leaked = {}
    /\ meant = [b \in Buffers |-> AnyHeader]

-----------------------------------------------------------------------------
\* conn_msg::capacity
capacity(b) == IF size_allocated_[b] > 0 THEN size_allocated_[b] ELSE MaxBody

\* conn_msg::body_length(nSize): the size_allocated_ it leaves behind.  A heap
\* body that is large enough is kept; otherwise the body goes to the heap when
\* it is longer than the fixed one.
body_length(allocated, n) ==
    IF allocated > 0 /\ n <= allocated THEN allocated
    ELSE IF n > MaxBody THEN n ELSE 0

empty == conn_msg_buffer_ = <<>>
full  == Len(conn_msg_buffer_) >= Capacity

\* new conn_msg(header): the constructor copies the header.
new_msg(t, b, h) ==
    /\ b \notin live
    /\ live' = live \cup {b}
    /\ size_allocated_' = [size_allocated_ EXCEPT ![b] = 0]
    /\ header_' = [header_ EXCEPT ![b] = h]
    /\ meant' = [meant EXCEPT ![b] = h]
    /\ holds' = [holds EXCEPT ![t] = b]
    /\ pc' = [pc EXCEPT ![t] = "fill"]
    /\ UNCHANGED <<conn_msg_buffer_, queued, leaked>>

delete_msg(t, b) ==
    /\ live' = live \ {b}
    /\ holds' = [holds EXCEPT ![t] = NoBuffer]
    /\ pc' = [pc EXCEPT ![t] = "idle"]
    /\ UNCHANGED <<conn_msg_buffer_, size_allocated_, header_, want, leaked, meant>>

\* allocate_msg_buffer up to the end of the shared lock.
allocate_new(t, b, h) ==
    /\ pc[t] = "idle"
    /\ h.len > MaxBody \/ empty
    /\ want' = [want EXCEPT ![t] = h]
    /\ new_msg(t, b, h)

allocate_not_empty(t, h) ==
    /\ pc[t] = "idle"
    /\ h.len <= MaxBody /\ ~empty
    /\ want' = [want EXCEPT ![t] = h]
    /\ pc' = [pc EXCEPT ![t] = "alloc_locked"]
    /\ UNCHANGED <<conn_msg_buffer_, live, size_allocated_, header_, holds, queued, leaked, meant>>

\* allocate_msg_buffer under the exclusive lock: the pool is empty by now ...
allocate_recheck_new(t, b) ==
    /\ pc[t] = "alloc_locked" /\ empty
    /\ new_msg(t, b, want[t])
    /\ UNCHANGED want

\* Mutant of allocate_from_pool: front() without pop_front().
allocate_without_pop(t) ==
    /\ pc[t] = "alloc_locked" /\ ~empty
    /\ holds' = [holds EXCEPT ![t] = Head(conn_msg_buffer_)]
    /\ meant' = [meant EXCEPT ![Head(conn_msg_buffer_)] = want[t]]
    /\ pc' = [pc EXCEPT ![t] = "fill"]
    /\ UNCHANGED <<conn_msg_buffer_, live, size_allocated_, header_, want, queued, leaked>>

\* ... or its front buffer is taken, as it is: the header is not copied.
allocate_from_pool(t) ==
    /\ pc[t] = "alloc_locked" /\ ~empty
    /\ holds' = [holds EXCEPT ![t] = Head(conn_msg_buffer_)]
    /\ conn_msg_buffer_' = Tail(conn_msg_buffer_)
    /\ meant' = [meant EXCEPT ![Head(conn_msg_buffer_)] = want[t]]
    /\ pc' = [pc EXCEPT ![t] = "fill"]
    /\ UNCHANGED <<live, size_allocated_, header_, want, queued, leaked>>

\* set_body (body_length sets header_.len) and the push on a session's queue.
set_body(t, b) ==
    /\ pc[t] = "fill" /\ holds[t] = b
    /\ size_allocated_' = [size_allocated_ EXCEPT ![b] = body_length(@, want[t].len)]
    /\ header_' = [header_ EXCEPT ![b].len = want[t].len]
    /\ queued' = queued \cup {b}
    /\ holds' = [holds EXCEPT ![t] = NoBuffer]
    /\ pc' = [pc EXCEPT ![t] = "idle"]
    /\ UNCHANGED <<conn_msg_buffer_, live, want, leaked, meant>>

\* dellocate_msg_buffer up to the end of the shared lock.
dellocate_delete(t, b) ==
    /\ pc[t] = "idle" /\ b \in queued
    /\ capacity(b) # MaxBody \/ full
    /\ queued' = queued \ {b}
    /\ delete_msg(t, b)

\* Mutant of dellocate_not_full: the capacity of the buffer is not looked at.
dellocate_any_capacity(t, b) ==
    /\ pc[t] = "idle" /\ b \in queued
    /\ ~full
    /\ queued' = queued \ {b}
    /\ holds' = [holds EXCEPT ![t] = b]
    /\ pc' = [pc EXCEPT ![t] = "free_locked"]
    /\ UNCHANGED <<conn_msg_buffer_, live, size_allocated_, header_, want, leaked, meant>>

dellocate_not_full(t, b) ==
    /\ pc[t] = "idle" /\ b \in queued
    /\ capacity(b) = MaxBody /\ ~full
    /\ queued' = queued \ {b}
    /\ holds' = [holds EXCEPT ![t] = b]
    /\ pc' = [pc EXCEPT ![t] = "free_locked"]
    /\ UNCHANGED <<conn_msg_buffer_, live, size_allocated_, header_, want, leaked, meant>>

\* dellocate_msg_buffer under the exclusive lock.
dellocate_recheck_delete(t, b) ==
    /\ pc[t] = "free_locked" /\ holds[t] = b
    /\ full
    /\ delete_msg(t, b)
    /\ UNCHANGED queued

\* Mutant of dellocate_to_pool: no second look; the circular buffer overwrites
\* its oldest element when it is full.
dellocate_without_recheck(t, b) ==
    /\ pc[t] = "free_locked" /\ holds[t] = b
    /\ conn_msg_buffer_' = Append(IF full THEN Tail(conn_msg_buffer_)
                                          ELSE conn_msg_buffer_, b)
    /\ holds' = [holds EXCEPT ![t] = NoBuffer]
    /\ pc' = [pc EXCEPT ![t] = "idle"]
    /\ UNCHANGED <<live, size_allocated_, header_, want, queued, leaked, meant>>

dellocate_to_pool(t, b) ==
    /\ pc[t] = "free_locked" /\ holds[t] = b
    /\ ~full
    /\ conn_msg_buffer_' = Append(conn_msg_buffer_, b)
    /\ holds' = [holds EXCEPT ![t] = NoBuffer]
    /\ pc' = [pc EXCEPT ![t] = "idle"]
    /\ UNCHANGED <<live, size_allocated_, header_, want, queued, leaked, meant>>

\* server_tcp::stop calls clear_buffer once the io threads are joined; it locks
\* mutex_, not buffer_mutex_.
clear_buffer ==
    /\ \A t \in Threads : pc[t] = "idle"
    /\ live' = live \ {conn_msg_buffer_[i] : i \in 1..Len(conn_msg_buffer_)}
    /\ conn_msg_buffer_' = <<>>
    /\ UNCHANGED <<size_allocated_, header_, pc, want, holds, queued, leaked, meant>>

\* ~session_tcp, when the last handler of a session is gone: msg_queue_ is a
\* list of plain pointers, and the destructor frees none of the messages S that
\* a broken link has left in it.
session_destroyed(S) ==
    /\ S \subseteq queued /\ S # {}
    /\ Cardinality(leaked \cup S) <= MaxLeaked
    /\ queued' = queued \ S
    /\ leaked' = leaked \cup S
    /\ UNCHANGED <<conn_msg_buffer_, live, size_allocated_, header_, pc, want, holds, meant>>

-----------------------------------------------------------------------------
Step(t) ==
    \/ \E b \in Buffers, h \in Headers : allocate_new(t, b, h)
    \/ \E h \in Headers : allocate_not_empty(t, h)
    \/ \E b \in Buffers : allocate_recheck_new(t, b)
    \/ allocate_from_pool(t)
    \/ \E b \in Buffers : set_body(t, b)
    \/ \E b \in Buffers : dellocate_delete(t, b)
    \/ \E b \in Buffers : dellocate_not_full(t, b)
    \/ \E b \in Buffers : dellocate_recheck_delete(t, b)
    \/ \E b \in Buffers : dellocate_to_pool(t, b)

Next ==
    \/ \E t \in Threads : Step(t)
    \/ \E S \in SUBSET Buffers : session_destroyed(S)
    \/ clear_buffer

Spec == Init /\ [][Next]_vars

-----------------------------------------------------------------------------
Pooled == {conn_msg_buffer_[i] : i \in 1..Len(conn_msg_buffer_)}
Held   == {holds[t] : t \in Threads} \ {NoBuffer}

(***************************************************************************)
(* A buffer has one owner: the pool, a queue or one thread, and the pool   *)
(* holds it once.  The two looks of the allocator never give one buffer to *)
(* two messages.                                                           *)
(***************************************************************************)
OneOwner ==
    /\ \A i, j \in 1..Len(conn_msg_buffer_) :
          conn_msg_buffer_[i] = conn_msg_buffer_[j] => i = j
    /\ \A t, u \in Threads : holds[t] = holds[u] /\ holds[t] # NoBuffer => t = u
    /\ Pooled \cap queued = {}
    /\ Pooled \cap Held = {}
    /\ queued \cap Held = {}

(***************************************************************************)
(* A buffer is lost only with its session: the objects that exist are      *)
(* those in the pool, in a queue, with a thread, or left behind by         *)
(* ~session_tcp, and what was left behind is in none of the other places.  *)
(* A push on a full circular buffer would drop its oldest element, which   *)
(* nobody has then; a freed buffer would be used after delete.             *)
(***************************************************************************)
LostOnlyWithSession ==
    /\ live = Pooled \cup queued \cup Held \cup leaked
    /\ leaked \cap (Pooled \cup queued \cup Held) = {}

(***************************************************************************)
(* The pool stays within its capacity, and every buffer in it has the      *)
(* fixed body, so that any of them can serve any body of at most MaxBody.  *)
(***************************************************************************)
PoolIsUniform ==
    /\ Len(conn_msg_buffer_) <= Capacity
    /\ \A b \in Pooled : capacity(b) = MaxBody

(***************************************************************************)
(* A queued message fits the memory of its buffer, also in a recycled one. *)
(***************************************************************************)
BodyFits == \A b \in queued : header_[b].len <= capacity(b)

\* What a thread holds in each phase of the allocator.
PhasesHold ==
    \A t \in Threads :
        /\ pc[t] \in {"idle", "alloc_locked"} <=> holds[t] = NoBuffer
        /\ pc[t] = "free_locked" => capacity(holds[t]) = MaxBody

(***************************************************************************)
(* The inductive invariant of the allocator: the four properties above     *)
(* with what the threads hold between their two looks at the pool.         *)
(***************************************************************************)
PoolInv == OneOwner /\ LostOnlyWithSession /\ PoolIsUniform /\ BodyFits /\ PhasesHold

(***************************************************************************)
(* "Here we only echo back the msg" (ProcessMsg): the header a queued      *)
(* buffer sends is the one it was allocated for.                           *)
(***************************************************************************)
EchoesOwnHeader == \A b \in queued : header_[b] = meant[b]
=============================================================================
