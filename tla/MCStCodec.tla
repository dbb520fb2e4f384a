----------------------------- MODULE MCStCodec -----------------------------
(* StCodec for TLC: bytes below 4, size_t below 32. *)
EXTENDS StCodec

Part(b)  == [null |-> FALSE, len |-> Len(b), bytes |-> b]
Null     == [null |-> TRUE, len |-> 2, bytes |-> <<>>]
Huge(n)  == [null |-> FALSE, len |-> n, bytes |-> <<>>]

OneByte  == <<1>>
TwoBytes == <<2, 3>>

(* Bodies that end like the start of the suffix or look like heads; several
   parts, none of them, an empty one; the largest that fits, one byte more,
   and lengths whose sum wraps around. *)
SomeRequests ==
    {<<Part(<<0, 2>>)>>, <<Part(<<2>>), Null, Part(<<1, 3>>)>>, <<Part(<<3>>)>>,
     <<Part(<<1, 1>>), Part(<<>>), Part(<<0, 3, 2>>)>>,
     <<Null>>, <<Part(<<>>)>>, <<Part(<<1, 1, 1>>), Part(<<1, 1, 1>>)>>,
     <<Part(<<1>>), Huge(31)>>, <<Huge(30)>>, <<Huge(31), Part(<<1, 1, 1>>)>>}
=============================================================================
