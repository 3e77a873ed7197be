--------------------------- MODULE ReliableChannel ---------------------------
(***************************************************************************)
(* What iax2.h promises of full frames: "Full frames are always delivered   *)
(* reliably".  Between two ends, the frames of each end reach the other one *)
(* in the order in which they were sent, none twice, and an end takes a     *)
(* frame for acknowledged only after it arrived.  A frame is known by its   *)
(* number: 0 is the first frame an end sends.                               *)
(***************************************************************************)
EXTENDS Naturals, Sequences

CONSTANTS Pager, Server      \* the two ends

Nodes == {Pager, Server}
Peer(n) == IF n = Pager THEN Server ELSE Pager

VARIABLES sent,     \* how many frames each end has sent
          got,      \* the numbers of the frames each end accepted, in order
          acked     \* how many of its frames each end knows to have arrived

channel == <<sent, got, acked>>

ChannelInit ==
  /\ sent = [n \in Nodes |-> 0]
  /\ got = [n \in Nodes |-> << >>]
  /\ acked = [n \in Nodes |-> 0]

(* n sends a frame *)
Sends(n) == sent' = [sent EXCEPT ![n] = @ + 1]

(* the next frame of the peer, and no other, arrives at n *)
Accepts(n) ==
  /\ Len(got[n]) < sent[Peer(n)]
  /\ got' = [got EXCEPT ![n] = Append(@, Len(@))]

(* n learns that frames arrived *)
Learns(n) ==
  \E k \in acked[n] .. Len(got[Peer(n)]) : acked' = [acked EXCEPT ![n] = k]

(* a handler may do all of it at once: learn from a piggybacked
   acknowledgement, accept a frame and answer it *)
Exchange(n) ==
  /\ Sends(n) \/ UNCHANGED sent
  /\ Accepts(n) \/ UNCHANGED got
  /\ Learns(n)

ChannelNext == \E n \in Nodes : Exchange(n)

ChannelSpec == ChannelInit /\ [][ChannelNext]_channel

=============================================================================
