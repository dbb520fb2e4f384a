---------------------------- MODULE EchoChannel ----------------------------
(***************************************************************************)
(* What one session of the echo server promises its user: messages handed  *)
(* to write() reach the peer whole, once each and in the order they were   *)
(* handed over, until the connection breaks; after that nothing more is    *)
(* delivered.                                                              *)
(*                                                                         *)
(* The promise has a limit.  A message handed over at the moment when all  *)
(* the former ones have just been delivered may spoil the channel, for     *)
(* good: what is delivered from then on is anything.  A message handed     *)
(* over while others are under way never does.                             *)
(***************************************************************************)
EXTENDS Naturals, Sequences

CONSTANT Messages

VARIABLES
    accepted,    \* messages handed over, in order
    delivered,   \* messages the peer has received completely, in order
    up,          \* the connection is not broken
    intact       \* the channel is not spoilt

channel == <<accepted, delivered, up, intact>>

ChannelInit == accepted = <<>> /\ delivered = <<>> /\ up = TRUE /\ intact = TRUE

Drained == Len(delivered) = Len(accepted)

Accept(m) ==
    /\ accepted' = Append(accepted, m)
    /\ intact' = intact \/ (Drained /\ ~intact')
    /\ UNCHANGED <<delivered, up>>

Deliver ==
    /\ up /\ intact
    /\ Len(delivered) < Len(accepted)
    /\ delivered' = Append(delivered, accepted[Len(delivered) + 1])
    /\ UNCHANGED <<accepted, up, intact>>

\* A spoilt channel delivers anything.
DeliverAnything ==
    /\ up /\ ~intact
    /\ UNCHANGED <<accepted, up, intact>>

Break ==
    /\ up /\ up' = FALSE
    /\ UNCHANGED <<accepted, delivered, intact>>

ChannelNext == (\E m \in Messages : Accept(m)) \/ Deliver \/ DeliverAnything \/ Break

ChannelSafe == ChannelInit /\ [][ChannelNext]_channel
ChannelSpec == ChannelSafe /\ WF_channel(Deliver)
=============================================================================
