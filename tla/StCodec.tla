------------------------------ MODULE StCodec ------------------------------
(***************************************************************************)
(* From send_msg to on_msg across one TCP link of st_asio_wrapper: the     *)
(* packers (st_asio_wrapper_packer.h) put messages on a byte stream, the   *)
(* network cuts the stream anywhere, and async_read with the unpacker's    *)
(* completion_condition followed by parse_msg finds the messages again     *)
(* (st_asio_wrapper_unpacker.h, st_tcp_socket_base::do_recv_msg and        *)
(* recv_handler).                                                          *)
(*                                                                         *)
(* Bytes are numbers below BYTE, so that a body may look like a head.      *)
(* "kind" is the unpacker class in use; the sender uses the packer that    *)
(* belongs to it (the fixed length one has none: send_native_msg).         *)
(***************************************************************************)
EXTENDS Integers, Sequences, SequencesExt, FiniteSetsExt

CONSTANTS
    BYTE,             \* number of values of a byte
    SIZE,             \* number of values of a size_t
    HEAD_RANGE,       \* number of values of HEAD_TYPE
    MSG_BUFFER_SIZE,
    FIXED,            \* _fixed_length
    PREFIX, SUFFIX,   \* _prefix and _suffix
    Requests,         \* argument lists the application calls send_msg with
    MaxSent           \* bound on the number of messages

HEAD_LEN == 2
Kinds    == {"unpacker", "unbuffered", "fixed_length", "prefix_suffix"}
DontKnow == -1        \* (size_t) -1
Bytes    == 0..(BYTE - 1)

\* One entry of pstr[] and len[].
Parts == [null : BOOLEAN, len : 0..(SIZE - 1), bytes : Seq(Bytes)]

ASSUME CodecAssumption ==
    /\ BYTE \in Nat \ {0}
    /\ HEAD_RANGE \in Nat \ {0} /\ HEAD_RANGE <= BYTE * BYTE
    /\ SIZE \in Nat /\ MSG_BUFFER_SIZE \in 1..(SIZE - 1)
    /\ FIXED \in 1..MSG_BUFFER_SIZE
    /\ PREFIX \in Seq(Bytes) /\ SUFFIX \in Seq(Bytes)
    /\ SUFFIX # <<>> /\ Len(PREFIX) + Len(SUFFIX) < MSG_BUFFER_SIZE

\* pstr[i] points to len[i] bytes; those of a part too long to be packed do
\* not matter.
ASSUME RequestsAssumption ==
    /\ Requests \subseteq Seq(Parts)
    /\ \A parts \in Requests : \A i \in DOMAIN parts :
          \/ parts[i].null
          \/ parts[i].len > MSG_BUFFER_SIZE
          \/ Len(parts[i].bytes) = parts[i].len

VARIABLES
    kind,
    stream,           \* bytes sent and not yet received
    raw_buff,         \* the received bytes that await parse_msg
    transferred,      \* how many of them the current async_read brought
    cur_msg_len,      \* the unpacker's cur_msg_len / first_msg_len / raw_buff.size()
    step,             \* unbuffered_unpacker::step
    reading,          \* the async_read: "reading", "complete" or "ended"
    unpack_ok,        \* no parse_msg has returned false
    asserted,         \* every assert passed so far
    sent, unpacked,   \* history: the bodies packed and the bodies unpacked
    closed            \* another thread has closed the link (clean_up)

vars == <<kind, stream, raw_buff, transferred, cur_msg_len, step, reading,
          unpack_ok, asserted, sent, unpacked, closed>>
unpacker_vars == <<raw_buff, transferred, cur_msg_len, step>>

-----------------------------------------------------------------------------
(* The packers. *)

\* Mutant of add_part: the wrap-around of size_t goes unnoticed.
add_part_wraps(total, part) ==
    IF total = DontKnow \/ part.null THEN total
    ELSE LET sum == (total + part.len) % SIZE IN
         IF sum > MSG_BUFFER_SIZE THEN DontKnow ELSE sum

\* The total with one more part.
add_part(total, part) ==
    IF total = DontKnow \/ part.null THEN total
    ELSE LET sum == (total + part.len) % SIZE IN
         IF total > sum \/ sum > MSG_BUFFER_SIZE THEN DontKnow ELSE sum

\* The total length, DontKnow when it exceeds MSG_BUFFER_SIZE or wraps around.
msg_size_check(pre_len, parts) ==
    LET total[i \in 0..Len(parts)] ==
            IF i = 0 THEN pre_len ELSE add_part(total[i - 1], parts[i])
    IN  total[Len(parts)]

\* The bytes of the parts, one after the other.
Body(parts) ==
    LET bytes[i \in 0..Len(parts)] ==
            IF i = 0 THEN <<>>
            ELSE bytes[i - 1] \o (IF parts[i].null THEN <<>> ELSE parts[i].bytes)
    IN  bytes[Len(parts)]

\* HEAD_H2N and HEAD_N2H: big-endian.
head_h2n(n) == <<n \div BYTE, n % BYTE>>
head_n2h(b) == b[1] * BYTE + b[2]

\* packer::pack_msg; an empty message stands for every failure.
packer_pack_msg(parts) ==
    LET total == msg_size_check(HEAD_LEN, parts) IN
    IF total = DontKnow \/ total <= HEAD_LEN \/ total # total % HEAD_RANGE THEN <<>>
    ELSE head_h2n(total) \o Body(parts)

\* packer::pack_msg with native = true.
native_pack_msg(parts) ==
    IF msg_size_check(0, parts) = DontKnow THEN <<>> ELSE Body(parts)

prefix_suffix_pack_msg(parts) ==
    LET pre_len == Len(PREFIX) + Len(SUFFIX)
        total   == msg_size_check(pre_len, parts)
    IN  IF total = DontKnow \/ total <= pre_len THEN <<>>
        ELSE PREFIX \o Body(parts) \o SUFFIX

pack_msg(k, parts) ==
    CASE k = "prefix_suffix" -> prefix_suffix_pack_msg(parts)
      [] k = "fixed_length"  -> native_pack_msg(parts)
      [] OTHER               -> packer_pack_msg(parts)

-----------------------------------------------------------------------------
(* The unpackers: completion_condition (more: go on reading) and parse_msg. *)

Drop(s, n) == SubSeq(s, n + 1, Len(s))
Invalid(len) == len > MSG_BUFFER_SIZE \/ len <= HEAD_LEN

\* Mutant of unpacker_condition: one byte too many is awaited.
unpacker_condition_late(raw, cur) ==
    LET len == IF cur = DontKnow /\ Len(raw) >= HEAD_LEN THEN head_n2h(raw) ELSE cur IN
    [more |-> len = DontKnow \/ Len(raw) <= len, cur |-> len, step |-> 0,
     holds |-> Len(raw) <= MSG_BUFFER_SIZE]

unpacker_condition(raw, cur) ==
    LET new == cur = DontKnow /\ Len(raw) >= HEAD_LEN
        len == IF new THEN head_n2h(raw) ELSE cur
    IN  [more |-> IF len = DontKnow THEN TRUE
                  ELSE ~(new /\ Invalid(len)) /\ Len(raw) < len,
         cur |-> len, step |-> 0, holds |-> Len(raw) <= MSG_BUFFER_SIZE]

\* The state of a loop after n turns, turn being a function.
Turns(turn, start, n) ==
    LET loop[i \in 0..n] == IF i = 0 THEN start ELSE turn[loop[i - 1]]
    IN  loop[n]

\* A turn of the loop of unpacker::parse_msg: the head is looked at, or a
\* message is taken out, or the loop is over and leaves all as it is.
heads_turn ==
    [s \in [raw : Seq(Bytes), cur : Int, msgs : Seq(Seq(Bytes))] |->
        CASE s.cur = DontKnow /\ Len(s.raw) >= HEAD_LEN -> [s EXCEPT !.cur = head_n2h(s.raw)]
          [] s.cur # DontKnow /\ ~Invalid(s.cur) /\ Len(s.raw) >= s.cur ->
                [raw |-> Drop(s.raw, s.cur), cur |-> DontKnow,
                 msgs |-> Append(s.msgs, SubSeq(s.raw, HEAD_LEN + 1, s.cur))]
          [] OTHER -> s]

\* The loop, for messages that stick together.  A message has more than
\* HEAD_LEN bytes, so it is over after Len(raw) + 1 turns.
cut_heads(raw, cur) ==
    Turns(heads_turn, [raw |-> raw, cur |-> cur, msgs |-> <<>>], Len(raw) + 1)

unpacker_parse_msg(raw, cur) ==
    LET r == cut_heads(raw, cur) IN
    [ok |-> (r.cur = DontKnow \/ ~Invalid(r.cur)) /\ r.msgs # <<>>,
     raw |-> r.raw, cur |-> r.cur, step |-> 0, msgs |-> r.msgs,
     holds |-> Len(raw) <= MSG_BUFFER_SIZE]

\* unbuffered_unpacker: head and body are separate reads; cur is the size of
\* the attached raw_buff, 0 when there is none.
unbuffered_condition(raw, cur, s) ==
    CASE s = 0 /\ Len(raw) < HEAD_LEN -> [more |-> TRUE, cur |-> cur, step |-> 0, holds |-> cur = 0]
      [] s = 0 /\ Len(raw) >= HEAD_LEN ->
            LET len == (head_n2h(raw) - HEAD_LEN) % SIZE
                bad == len > MSG_BUFFER_SIZE - HEAD_LEN
            IN  [more |-> FALSE, cur |-> IF bad THEN cur ELSE len,
                 step |-> IF bad THEN -1 ELSE 0, holds |-> cur = 0 /\ Len(raw) = HEAD_LEN]
      [] s = 1 -> [more |-> TRUE, cur |-> cur, step |-> 1, holds |-> cur > 0]
      [] OTHER -> [more |-> FALSE, cur |-> cur, step |-> s, holds |-> FALSE]

unbuffered_parse_msg(raw, cur, s) ==
    CASE s = 0 -> [ok |-> TRUE, raw |-> <<>>, cur |-> cur, step |-> 1, msgs |-> <<>>,
                   holds |-> cur > 0]
      [] s = 1 /\ Len(raw) = cur ->
                  [ok |-> TRUE, raw |-> <<>>, cur |-> 0, step |-> 0, msgs |-> <<raw>>,
                   holds |-> cur > 0]
      [] OTHER -> [ok |-> FALSE, raw |-> <<>>, cur |-> cur, step |-> s, msgs |-> <<>>,
                   holds |-> s = 1 => cur > 0]

fixed_length_condition(raw) ==
    [more |-> Len(raw) < FIXED, cur |-> DontKnow, step |-> 0,
     holds |-> Len(raw) <= MSG_BUFFER_SIZE]

\* A turn of the loop of fixed_length_unpacker::parse_msg.
lengths_turn ==
    [s \in [raw : Seq(Bytes), msgs : Seq(Seq(Bytes))] |->
        IF Len(s.raw) < FIXED THEN s
        ELSE [raw |-> Drop(s.raw, FIXED), msgs |-> Append(s.msgs, SubSeq(s.raw, 1, FIXED))]]

fixed_length_parse_msg(raw) ==
    LET r == Turns(lengths_turn, [raw |-> raw, msgs |-> <<>>], Len(raw)) IN
    [ok |-> r.msgs # <<>>, raw |-> r.raw, cur |-> DontKnow, step |-> 0, msgs |-> r.msgs,
     holds |-> Len(raw) <= MSG_BUFFER_SIZE]

\* memmem: the places of the suffix behind the prefix.
SuffixAt(raw) == {i \in Len(PREFIX)..(Len(raw) - Len(SUFFIX)) :
                     SubSeq(raw, i + 1, i + Len(SUFFIX)) = SUFFIX}
min_len == Len(PREFIX) + Len(SUFFIX)

\* Mutant of peek_msg: the length of the suffix is forgotten.
peek_msg_short(raw, first) ==
    LET found == Len(raw) > min_len /\ SuffixAt(raw) # {} IN
    [more |-> ~found, cur |-> IF found THEN Min(SuffixAt(raw)) ELSE 0]

\* peek_msg: first is DontKnow, 0 (prefix seen) or the length of the message.
peek_msg(raw, first) ==
    LET check == first = DontKnow /\ Len(raw) >= Len(PREFIX)
        found == Len(raw) > min_len /\ SuffixAt(raw) # {}
        full  == Len(raw) > min_len /\ Len(raw) >= MSG_BUFFER_SIZE
    IN  IF check /\ SubSeq(raw, 1, Len(PREFIX)) # PREFIX
        THEN [more |-> FALSE, cur |-> first]
        ELSE [more |-> ~found /\ ~full,
              cur  |-> IF found THEN Min(SuffixAt(raw)) + Len(SUFFIX)
                       ELSE IF check THEN 0 ELSE first]

prefix_suffix_condition(raw, first) ==
    LET p == peek_msg(raw, first) IN
    [more |-> p.more, cur |-> p.cur, step |-> 0, holds |-> Len(raw) <= MSG_BUFFER_SIZE]

\* A turn of the loop of prefix_suffix_unpacker::parse_msg: the first message
\* is taken out, and peek_msg looks for the next.
suffixes_turn ==
    [s \in [raw : Seq(Bytes), cur : Int, msgs : Seq(Seq(Bytes)),
            ok : BOOLEAN, holds : BOOLEAN] |->
        IF s.cur \in {DontKnow, 0} THEN s
        ELSE LET rest == Drop(s.raw, s.cur)
                 p    == peek_msg(rest, DontKnow)
             IN  [raw |-> rest, cur |-> p.cur,
                  msgs |-> Append(s.msgs, SubSeq(s.raw, Len(PREFIX) + 1, s.cur - Len(SUFFIX))),
                  ok |-> p.more \/ p.cur # DontKnow, holds |-> s.holds /\ s.cur > min_len]]

\* The loop: every turn takes bytes out, so it is over after Len(raw) turns.
cut_suffixes(raw, first) ==
    Turns(suffixes_turn,
          [raw |-> raw, cur |-> first, msgs |-> <<>>, ok |-> TRUE, holds |-> TRUE], Len(raw))

prefix_suffix_parse_msg(raw, first) ==
    LET r == cut_suffixes(raw, first) IN
    [ok |-> r.ok /\ r.msgs # <<>>, raw |-> r.raw, cur |-> r.cur, step |-> 0,
     msgs |-> r.msgs, holds |-> r.holds /\ Len(raw) <= MSG_BUFFER_SIZE]

completion_condition(raw, cur, s) ==
    CASE kind = "unpacker"      -> unpacker_condition(raw, cur)
      [] kind = "unbuffered"    -> unbuffered_condition(raw, cur, s)
      [] kind = "fixed_length"  -> fixed_length_condition(raw)
      [] kind = "prefix_suffix" -> prefix_suffix_condition(raw, cur)

parse_msg ==
    CASE kind = "unpacker"      -> unpacker_parse_msg(raw_buff, cur_msg_len)
      [] kind = "unbuffered"    -> unbuffered_parse_msg(raw_buff, cur_msg_len, step)
      [] kind = "fixed_length"  -> fixed_length_parse_msg(raw_buff)
      [] kind = "prefix_suffix" -> prefix_suffix_parse_msg(raw_buff, cur_msg_len)

\* cur_msg_len after reset_state.
ResetLen(k) == IF k = "unbuffered" THEN 0 ELSE DontKnow

\* Mutant of BufferSize: the head is read into a buffer of full size.
BufferSize_full(cur) == IF kind = "unbuffered" /\ cur > 0 THEN cur ELSE MSG_BUFFER_SIZE

\* prepare_next_recv: the size of the buffer the whole async_read may fill.
BufferSize(cur) ==
    CASE kind = "unbuffered" /\ cur > 0 -> cur
      [] kind = "unbuffered" /\ cur = 0 -> HEAD_LEN
      [] OTHER -> MSG_BUFFER_SIZE

-----------------------------------------------------------------------------
Init ==
    /\ kind \in Kinds
    /\ stream = <<>> /\ raw_buff = <<>> /\ transferred = 0
    /\ cur_msg_len = ResetLen(kind) /\ step = 0
    /\ reading = "reading"
    /\ unpack_ok = TRUE /\ asserted = TRUE
    /\ sent = <<>> /\ unpacked = <<>>
    /\ closed = FALSE

\* What the application may send: a message of the fixed length; a body in
\* which the suffix does not occur before its place.
Suits(k, body) ==
    CASE k = "fixed_length"  -> Len(body) = FIXED
      [] k = "prefix_suffix" -> SuffixAt(PREFIX \o body \o SUFFIX) = {Len(PREFIX) + Len(body)}
      [] OTHER -> TRUE

\* send_msg or send_native_msg: what cannot be packed is not sent.
send_msg(parts) ==
    LET msg == pack_msg(kind, parts) IN
    /\ Len(sent) < MaxSent /\ reading # "ended"
    /\ msg # <<>> => Suits(kind, Body(parts))
    /\ stream' = stream \o msg
    /\ sent' = IF msg = <<>> THEN sent ELSE Append(sent, Body(parts))
    /\ UNCHANGED <<kind, unpacker_vars, reading, unpack_ok, asserted, unpacked, closed>>

\* One async_read_some of the composed async_read: n bytes arrive, and the
\* operation ends when the condition says so or the buffer is full.
read_some(n) ==
    /\ reading = "reading" /\ ~closed
    /\ n <= Len(stream)
    /\ n <= BufferSize(cur_msg_len) - Len(raw_buff)
    /\ raw_buff' = raw_buff \o SubSeq(stream, 1, n)
    /\ \E c \in {completion_condition(raw_buff', cur_msg_len, step)} :
           /\ cur_msg_len' = c.cur /\ step' = c.step
           /\ asserted' = (asserted /\ c.holds)
           /\ reading' = IF c.more /\ Len(raw_buff') < BufferSize(cur_msg_len)
                         THEN "reading" ELSE "complete"
    /\ transferred' = transferred + n
    /\ stream' = Drop(stream, n)
    /\ UNCHANGED <<kind, unpack_ok, sent, unpacked, closed>>

\* recv_handler: parse_msg; dispatch_msg, which issues the next read (and its
\* first look at completion_condition); on_unpack_error closes, then reset_state.
recv_handler ==
    /\ reading = "complete"
    /\ \E r \in {parse_msg} : \E c \in {completion_condition(r.raw, r.cur, r.step)} :
       LET go == r.ok /\ ~closed
       IN  /\ unpacked' = unpacked \o r.msgs
           /\ unpack_ok' = (unpack_ok /\ r.ok)
           /\ asserted' = (asserted /\ r.holds /\ Len(r.raw) < MSG_BUFFER_SIZE /\ (go => c.holds /\ c.more))
           /\ reading' = IF go THEN "reading" ELSE "ended"
           /\ raw_buff' = IF r.ok THEN r.raw ELSE <<>>
           /\ cur_msg_len' = IF ~r.ok THEN ResetLen(kind) ELSE IF go THEN c.cur ELSE r.cur
           /\ step' = IF ~r.ok THEN 0 ELSE r.step
    /\ transferred' = 0
    /\ UNCHANGED <<kind, stream, sent, closed>>

\* clean_up by another thread: reset_state, then the socket is closed.  A read
\* under way is aborted; a handler that is already queued will find only the
\* first "transferred" bytes of the buffer (or the freed raw_buff).
clean_up ==
    /\ ~closed /\ reading # "ended"
    /\ closed' = TRUE
    /\ reading' = IF reading = "reading" THEN "ended" ELSE reading
    /\ raw_buff' = SubSeq(raw_buff, 1, transferred)
    /\ cur_msg_len' = ResetLen(kind) /\ step' = 0
    /\ UNCHANGED <<kind, stream, transferred, unpack_ok, asserted, sent, unpacked>>

Next ==
    \/ \E parts \in Requests : send_msg(parts)
    \/ \E n \in 1..MSG_BUFFER_SIZE : read_some(n)
    \/ recv_handler
    \/ clean_up

Spec == Init /\ [][Next]_vars

\* The network delivers what was sent and the io threads run handlers.
FairSpec ==
    /\ Spec
    /\ WF_vars(\E n \in 1..MSG_BUFFER_SIZE : read_some(n))
    /\ WF_vars(recv_handler)

-----------------------------------------------------------------------------
TypeOK ==
    /\ kind \in Kinds
    /\ stream \in Seq(Bytes)
    /\ raw_buff \in Seq(Bytes) /\ Len(raw_buff) <= MSG_BUFFER_SIZE
    /\ transferred \in 0..MSG_BUFFER_SIZE
    /\ cur_msg_len \in DontKnow..MSG_BUFFER_SIZE
    /\ step \in -1..1
    /\ reading \in {"reading", "complete", "ended"}
    /\ unpack_ok \in BOOLEAN /\ asserted \in BOOLEAN /\ closed \in BOOLEAN
    /\ sent \in Seq(Seq(Bytes)) /\ unpacked \in Seq(Seq(Bytes))

(***************************************************************************)
(* However the stream is cut, parse_msg hands out exactly the bodies that  *)
(* were packed, in order, none twice and none out of the bytes of two      *)
(* messages; also when a close resets the unpacker under a queued handler. *)
(***************************************************************************)
UnpackedInOrder == IsPrefix(unpacked, sent)

(***************************************************************************)
(* The asserts of the unpackers hold: data_len and remain_len stay within  *)
(* the buffer, there is room for the next read, no read is issued that is  *)
(* already complete, and first_msg_len is longer than prefix and suffix.   *)
(* The exception is a close by another thread that resets the unpacker     *)
(* under a queued handler: the raw_buff of an unbuffered unpacker is then  *)
(* gone, and a full buffer of the prefix and suffix unpacker is not parsed *)
(* any more.                                                               *)
(***************************************************************************)
AssertsHold == asserted \/ (closed /\ kind \in {"unbuffered", "prefix_suffix"})

\* The sum of the lengths of the parts, as a number.
Payload(parts) ==
    LET sum[i \in 0..Len(parts)] ==
            IF i = 0 THEN 0
            ELSE sum[i - 1] + (IF parts[i].null THEN 0 ELSE parts[i].len)
    IN  sum[Len(parts)]

\* The bytes a packer adds to a body.
Envelope(k) ==
    CASE k = "prefix_suffix" -> min_len
      [] k = "fixed_length"  -> 0
      [] OTHER               -> HEAD_LEN

(***************************************************************************)
(* A message goes out exactly when its true length (as a number, not as a  *)
(* size_t) and its envelope fit the buffer and the head, and it is not     *)
(* empty; its packed length is then that sum.                              *)
(***************************************************************************)
PackedWhenItFits ==
    \A parts \in Requests :
        LET total == Envelope(kind) + Payload(parts)
            heads == kind \in {"unpacker", "unbuffered"}
        IN  Len(pack_msg(kind, parts)) =
                IF Payload(parts) > 0 /\ total <= MSG_BUFFER_SIZE /\ (heads => total < HEAD_RANGE)
                THEN total ELSE 0

(***************************************************************************)
(* Every message that was sent is unpacked in the end while the link is    *)
(* up: no cut of the stream leaves the reader waiting for bytes that will  *)
(* not come, or with a full buffer.                                        *)
(***************************************************************************)
SentIsUnpacked ==
    \A n \in 1..MaxSent : Len(sent) >= n ~> (Len(unpacked) >= n \/ closed)

(***************************************************************************)
(* The asserts without the exception: what a debug build relies on.        *)
(***************************************************************************)
AssertsAlwaysHold == asserted

(***************************************************************************)
(* send_msg returns true for every message ("guarantee send msg            *)
(* successfully"), so each one should have a packed form.                  *)
(***************************************************************************)
EverythingCanBePacked ==
    \A parts \in Requests : Body(parts) # <<>> => pack_msg(kind, parts) # <<>>
=============================================================================
