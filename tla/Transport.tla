------------------------------ MODULE Transport ------------------------------
(***************************************************************************)
(* Full frames between two ends that run libiax2 (src/libiax2/iax.c): the   *)
(* numbering of iax_send, the retransmission timer of iax_get_event, and    *)
(* the part of iax_header_to_event that deals with implicit acknowledgement, *)
(* order, ACK and VNAK.  What a frame means is left out: a handler          *)
(* acknowledges it, answers it with a full frame of its own, or (an unknown  *)
(* control or HTML subclass or frame type) returns early without either.    *)
(*                                                                         *)
(* net holds every datagram ever sent.  A datagram may be read from it any  *)
(* number of times, in any order, or never: the network loses, duplicates   *)
(* and reorders.  The sequence numbers on the wire wrap; n and a in a       *)
(* datagram are the numbers they stand for and are read by no handler.      *)
(***************************************************************************)
EXTENDS Integers, Sequences

CONSTANTS Pager, Server,  \* the two ends
          M,              \* the numbers a sequence number has: 256
          Half,           \* the first distance that counts as newer: 128
          Window,         \* bound: frames an end has unacknowledged at once
          Lifetime,       \* bound: by how many numbers a datagram may be late
          Loads           \* bound: how much may happen, see load

ASSUME EndsAssumption == Pager # Server
ASSUME NumbersAssumption ==
  /\ M \in Nat \ {0} /\ Half \in 0 .. M
  /\ Window \in Nat /\ Lifetime \in Nat /\ Window + Lifetime < M
ASSUME LoadsAssumption ==
  Loads \subseteq [sends : [{Pager, Server} -> Nat],   \* frames each end sends
                   retries : Nat,                     \* maxretries
                   hangUp : BOOLEAN,   \* may an end use send_command_final?
                   odd : BOOLEAN]      \* may a frame be of a kind the receiver ignores?

Nodes == {Pager, Server}
Peer(n) == IF n = Pager THEN Server ELSE Pager

VARIABLES load,     \* the load of this behaviour, which does not change
          session,  \* the sequence numbers in each end's struct iax_session
          schedq,   \* the frames in each end's schedule
          net,      \* the datagrams sent to each end
          sent, got, acked, \* what ReliableChannel says of it, without wrap-around
          timedOut, \* the end raised IAX_EVENT_TIMEOUT
          closed,   \* the end destroyed its session
          missed    \* the end saw a frame beyond the one it expects now

vars == <<load, session, schedq, net, sent, got, acked, timedOut, closed, missed>>

Numbers == 0 .. M - 1
Session == [oseqno : Numbers, iseqno : Numbers, rseqno : Numbers, aseqno : Numbers,
            lastvnak : Numbers]
Frame == [oseqno : Numbers, iseqno : Numbers, retries : -1 .. load.retries, n : Nat, a : Nat]
Datagram == [kind : {"data"}, oseqno : Numbers, iseqno : Numbers, n : Nat, a : Nat]
            \cup [kind : {"ack", "vnak"}, iseqno : Numbers, a : Nat]

TypeOK ==
  /\ load \in Loads
  /\ session \in [Nodes -> Session]
  /\ schedq \in [Nodes -> SUBSET Frame]
  /\ net \in [Nodes -> SUBSET Datagram]
  /\ sent \in [Nodes -> Nat] /\ got \in [Nodes -> Seq(Nat)] /\ acked \in [Nodes -> Nat]
  /\ timedOut \in [Nodes -> BOOLEAN] /\ closed \in [Nodes -> BOOLEAN]
  /\ missed \in [Nodes -> BOOLEAN]

(* iax_session_new: memset, lastvnak = -1 *)
NewSession == [oseqno |-> 0, iseqno |-> 0, rseqno |-> 0, aseqno |-> 0, lastvnak |-> M - 1]

Init ==
  /\ load \in Loads
  /\ session = [n \in Nodes |-> NewSession]
  /\ schedq = [n \in Nodes |-> {}] /\ net = [n \in Nodes |-> {}]
  /\ sent = [n \in Nodes |-> 0] /\ got = [n \in Nodes |-> << >>]
  /\ acked = [n \in Nodes |-> 0]
  /\ timedOut = [n \in Nodes |-> FALSE] /\ closed = [n \in Nodes |-> FALSE]
  /\ missed = [n \in Nodes |-> FALSE]

-----------------------------------------------------------------------------
(* Sequence numbers *)

\* mutant: the next number is not cut to a byte
SuccPastEnd(x) == x + 1

(* (unsigned char)(x - y) *)
Minus(x, y) == (x - y) % M

Succ(x) == (x + 1) % M

\* mutant: the acknowledged number itself counts as acknowledged
CoversTooMuch(s, ack, x) == Minus(x, s.rseqno) <= Minus(ack, s.rseqno)

(* does acknowledgement number ack lie in rseqno .. oseqno? *)
InWindow(s, ack) == Minus(ack, s.rseqno) <= Minus(s.oseqno, s.rseqno)

(* is x one of rseqno .. ack - 1? *)
Covers(s, ack, x) == Minus(x, s.rseqno) < Minus(ack, s.rseqno)

(* the session after the implicit acknowledgement in m *)
Acknowledge(s, m) == IF InWindow(s, m.iseqno) THEN [s EXCEPT !.rseqno = m.iseqno] ELSE s

(* the schedule after it: what it covers is not to be sent again *)
Settle(q, s, m) ==
  IF InWindow(s, m.iseqno)
  THEN {IF Covers(s, m.iseqno, f.oseqno) THEN [f EXCEPT !.retries = -1] ELSE f : f \in q}
  ELSE q

-----------------------------------------------------------------------------
(* Sending *)

(* the frame iax_send makes for a session, and the datagrams it can be *)
NewFrame(n, s, a) ==
  [oseqno |-> s.oseqno, iseqno |-> s.iseqno, retries |-> load.retries, n |-> sent[n], a |-> a]

Data(f) == [kind |-> "data", oseqno |-> f.oseqno, iseqno |-> f.iseqno, n |-> f.n, a |-> f.a]

(* send_command_immediate of an ACK or a VNAK: no number is used up.  The
   oseqno such a datagram carries makes no difference to its receiver. *)
Control(kind, s, a) == [kind |-> kind, iseqno |-> s.iseqno, a |-> a]

(* the session after iax_send of a frame with a number of its own *)
Numbered(s) == [s EXCEPT !.oseqno = Succ(@), !.aseqno = s.iseqno]

(* ... and after one without *)
Answered(s) == [s EXCEPT !.aseqno = s.iseqno]

(* the application stays inside the assumed window *)
MaySend(n) == sent[n] < load.sends[n] /\ sent[n] < acked[n] + Window

(* send_command: a ping, a registration, an answer ... *)
Send(n) ==
  /\ ~closed[n] /\ MaySend(n)
  /\ LET f == NewFrame(n, session[n], Len(got[n]))
     IN /\ schedq' = [schedq EXCEPT ![n] = @ \cup {f}]
        /\ net' = [net EXCEPT ![Peer(n)] = @ \cup {Data(f)}]
  /\ session' = [session EXCEPT ![n] = Numbered(@)]
  /\ sent' = [sent EXCEPT ![n] = @ + 1]
  /\ UNCHANGED <<load, got, acked, timedOut, closed, missed>>

(* send_command_final: the frame is sent and scheduled, then destroy_session
   marks every frame of the session as done *)
HangUp(n) ==
  /\ load.hangUp /\ ~closed[n] /\ MaySend(n)
  /\ LET f == NewFrame(n, session[n], Len(got[n]))
     IN /\ schedq' = [schedq EXCEPT ![n] = {[g EXCEPT !.retries = -1] : g \in @ \cup {f}}]
        /\ net' = [net EXCEPT ![Peer(n)] = @ \cup {Data(f)}]
  /\ session' = [session EXCEPT ![n] = Numbered(@)]
  /\ sent' = [sent EXCEPT ![n] = @ + 1]
  /\ closed' = [closed EXCEPT ![n] = TRUE]
  /\ UNCHANGED <<load, got, acked, timedOut, missed>>

\* mutant: the retries are not counted down
RetryForever(n, f) ==
  /\ f.retries > 0
  /\ net' = [net EXCEPT ![Peer(n)] = @ \cup {Data(f)}]
  /\ UNCHANGED <<load, session, schedq, sent, got, acked, timedOut, closed, missed>>

(* the timer of a frame: iax_get_event *)
Retry(n, f) ==
  \/ /\ f.retries = -1                                   \* acknowledged
     /\ schedq' = [schedq EXCEPT ![n] = @ \ {f}]
     /\ UNCHANGED <<load, net, timedOut, session, sent, got, acked, closed, missed>>
  \/ /\ f.retries = 0                                    \* IAX_EVENT_TIMEOUT
     /\ schedq' = [schedq EXCEPT ![n] = @ \ {f}]
     /\ timedOut' = [timedOut EXCEPT ![n] = TRUE]
     /\ UNCHANGED <<load, net, session, sent, got, acked, closed, missed>>
  \/ /\ f.retries > 0                                    \* the same bytes again
     /\ schedq' = [schedq EXCEPT ![n] = (@ \ {f}) \cup {[f EXCEPT !.retries = @ - 1]}]
     /\ net' = [net EXCEPT ![Peer(n)] = @ \cup {Data(f)}]
     /\ UNCHANGED <<load, timedOut, session, sent, got, acked, closed, missed>>

-----------------------------------------------------------------------------
(* Receiving: iax_header_to_event *)

(* The network drops a datagram before the numbers on it can be mistaken for
   current ones. *)
Fresh(n, m) ==
  /\ m.kind = "data" => m.n + Lifetime >= Len(got[n])
  /\ m.a + Lifetime >= acked[n]

(* what every datagram does first; s is the session after it *)
Implicit(n, m) ==
  acked' = [acked EXCEPT ![n] =
              @ + Minus(Acknowledge(session[n], m).rseqno, session[n].rseqno)]

(* an ACK; what a handler left unacknowledged is acknowledged now *)
ReceiveAck(n, m) ==
  /\ m.kind = "ack"
  /\ LET s == Acknowledge(session[n], m)
     IN IF s.aseqno # s.iseqno
        THEN /\ session' = [session EXCEPT ![n] = Answered(s)]
             /\ net' = [net EXCEPT ![Peer(n)] = @ \cup {Control("ack", s, Len(got[n]))}]
        ELSE /\ session' = [session EXCEPT ![n] = s]
             /\ UNCHANGED net
  /\ schedq' = [schedq EXCEPT ![n] = Settle(@, session[n], m)]
  /\ UNCHANGED <<sent, got, timedOut, closed, missed>>

(* the datagrams iax_handle_vnak sends again: those of the frames from the
   number asked for on, acknowledged or not *)
Resent(q, s, m) == {Data(f) : f \in {g \in q : Minus(m.iseqno, s.rseqno) <= Minus(g.oseqno, s.rseqno)}}

(* a VNAK *)
ReceiveVnak(n, m) ==
  /\ m.kind = "vnak"
  /\ LET s == Acknowledge(session[n], m)
         again == Resent(schedq[n], s, m)
     IN IF s.aseqno # s.iseqno
        THEN /\ session' = [session EXCEPT ![n] = Answered(s)]
             /\ net' = [net EXCEPT ![Peer(n)] = @ \cup again \cup {Control("ack", s, Len(got[n]))}]
        ELSE /\ session' = [session EXCEPT ![n] = s]
             /\ net' = [net EXCEPT ![Peer(n)] = @ \cup again]
  /\ schedq' = [schedq EXCEPT ![n] = Settle(@, session[n], m)]
  /\ UNCHANGED <<sent, got, timedOut, closed, missed>>

\* mutant: a frame from behind a gap is accepted too
AcceptAhead(n, m) ==
  /\ m.kind = "data"
  /\ Minus(session[n].iseqno, m.oseqno) >= Half \/ m.oseqno = session[n].iseqno
  /\ session' = [session EXCEPT ![n] = [Acknowledge(session[n], m) EXCEPT !.iseqno = Succ(@)]]
  /\ got' = [got EXCEPT ![n] = Append(@, m.n)]
  /\ missed' = [missed EXCEPT ![n] = FALSE]
  /\ schedq' = [schedq EXCEPT ![n] = Settle(@, session[n], m)]
  /\ UNCHANGED <<net, sent, timedOut, closed>>

(* the frame that is expected, and what its handler does about it *)
Accept(n, m) ==
  /\ m.kind = "data" /\ m.oseqno = session[n].iseqno
  /\ LET s == [Acknowledge(session[n], m) EXCEPT !.iseqno = Succ(@)]
         q == Settle(schedq[n], session[n], m)
         f == NewFrame(n, s, Len(got[n]) + 1)
     IN \/ /\ session' = [session EXCEPT ![n] = Answered(s)]     \* ACK
           /\ net' = [net EXCEPT ![Peer(n)] = @ \cup {Control("ack", s, Len(got[n]) + 1)}]
           /\ schedq' = [schedq EXCEPT ![n] = q]
           /\ UNCHANGED sent
        \/ /\ MaySend(n)                                        \* a full frame
           /\ session' = [session EXCEPT ![n] = Numbered(s)]
           /\ net' = [net EXCEPT ![Peer(n)] = @ \cup {Data(f)}]
           /\ schedq' = [schedq EXCEPT ![n] = q \cup {f}]
           /\ sent' = [sent EXCEPT ![n] = @ + 1]
        \/ /\ load.odd                                          \* return NULL
           /\ session' = [session EXCEPT ![n] = s]
           /\ schedq' = [schedq EXCEPT ![n] = q]
           /\ UNCHANGED <<net, sent>>
  /\ got' = [got EXCEPT ![n] = Append(@, m.n)]
  /\ missed' = [missed EXCEPT ![n] = FALSE]
  /\ UNCHANGED <<timedOut, closed>>

(* a frame seen before: "Acking anyway" *)
Old(n, m) ==
  /\ m.kind = "data" /\ m.oseqno # session[n].iseqno
  /\ Minus(session[n].iseqno, m.oseqno) < Half
  /\ LET s == Acknowledge(session[n], m)
     IN /\ session' = [session EXCEPT ![n] = Answered(s)]
        /\ net' = [net EXCEPT ![Peer(n)] = @ \cup {Control("ack", s, Len(got[n]))}]
  /\ schedq' = [schedq EXCEPT ![n] = Settle(@, session[n], m)]
  /\ UNCHANGED <<sent, got, timedOut, closed, missed>>

(* iax2_vnak: has a VNAK for this number been sent? *)
VnakSent(s) == Minus(s.lastvnak, s.iseqno) < Half

(* a frame from behind a gap *)
Ahead(n, m) ==
  /\ m.kind = "data" /\ m.oseqno # session[n].iseqno
  /\ Minus(session[n].iseqno, m.oseqno) >= Half
  /\ LET s == Acknowledge(session[n], m)
     IN IF VnakSent(s)
        THEN /\ session' = [session EXCEPT ![n] = s]
             /\ UNCHANGED net
        ELSE /\ session' = [session EXCEPT ![n] = [Answered(s) EXCEPT !.lastvnak = s.iseqno]]
             /\ net' = [net EXCEPT ![Peer(n)] = @ \cup {Control("vnak", s, Len(got[n]))}]
  /\ schedq' = [schedq EXCEPT ![n] = Settle(@, session[n], m)]
  /\ missed' = [missed EXCEPT ![n] = TRUE]
  /\ UNCHANGED <<sent, got, timedOut, closed>>

(* a destroyed session is found by no datagram any more *)
Receive(n) ==
  \E m \in net[n] :
    /\ ~closed[n] /\ Fresh(n, m)
    /\ Implicit(n, m) /\ UNCHANGED load
    /\ ReceiveAck(n, m) \/ ReceiveVnak(n, m) \/ Accept(n, m) \/ Old(n, m) \/ Ahead(n, m)

-----------------------------------------------------------------------------
Timer(n) == \E f \in schedq[n] : Retry(n, f)

Next == \E n \in Nodes : Send(n) \/ HangUp(n) \/ Receive(n) \/ Timer(n)

Spec == Init /\ [][Next]_vars

(* The service loop wakes up for the timers of the schedule.  Nothing is
   asked of the network. *)
FairSpec == Spec /\ \A n \in Nodes : WF_vars(Timer(n))

-----------------------------------------------------------------------------
(* Properties *)

Channel == INSTANCE ReliableChannel WITH sent <- sent, got <- got, acked <- acked

(* Retransmission, duplicate detection and acknowledgement together implement
   the reliable channel: in order, without gap or duplicate, and nothing is
   taken for acknowledged that did not arrive. *)
ChannelImplemented == Channel!ChannelSpec

(* what is marked as done was acknowledged, and whatever is neither
   acknowledged nor timed out is there to be sent again *)
Remembered(n) ==
  /\ \A f \in schedq[n] : f.retries = -1 => f.n < acked[n]
  /\ \A k \in acked[n] .. sent[n] - 1 :
       timedOut[n] \/ \E f \in schedq[n] : f.n = k /\ f.retries >= 0

(* A frame leaves the schedule of a session without a timeout only if it
   arrived, and one that did arrive raises no timeout after its acknowledgement:
   the timer of an acknowledged frame only removes it. *)
NothingForgotten ==
  \A n \in Nodes :
    /\ closed[n] \/ Remembered(n)
    /\ \A f \in schedq[n] : f.n < acked[n] => f.retries = -1

(* ... and when the session is gone as well, for the frame that ended it has to
   arrive too: iax2.h:160 promises it of every full frame. *)
FinalFrameRemembered == \A n \in Nodes : Remembered(n)

(* An end that sees a frame from behind a gap has asked for the missing one:
   iax.c:1642 says "send vnak just once for a given sequence number". *)
GapIsReported ==
  \A n \in Nodes : missed[n] => \E m \in net[Peer(n)] : m.kind = "vnak" /\ m.a = Len(got[n])

MostSent == CHOOSE k \in {l.sends[n] : l \in Loads, n \in Nodes} :
              \A l \in Loads : \A n \in Nodes : l.sends[n] <= k

(* Every frame is acknowledged or times out, or the session is gone. *)
Settled ==
  \A n \in Nodes : \A k \in 0 .. MostSent - 1 :
    sent[n] > k ~> acked[n] > k \/ timedOut[n] \/ closed[n]

=============================================================================
