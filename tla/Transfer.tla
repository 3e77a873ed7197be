------------------------------ MODULE Transfer ------------------------------
(***************************************************************************)
(* Native transfer in libiax2/iax.c: a bridge with a session to each of    *)
(* two ends takes itself out of the call.  It asks both to try the direct  *)
(* path (TXREQ); each end sends TXCNT to the other, which answers TXACC,   *)
(* and reports TXREADY to the bridge; with both reports the bridge         *)
(* releases the call (TXREL) and each end goes on with the other as its    *)
(* peer and with its numbers started anew.                                 *)
(*                                                                         *)
(* All four sessions run the same handlers.  What a handler changes is     *)
(* computed on a record v of the sessions, their schedules and the         *)
(* datagrams sent, so that a handler is a composition of the calls it      *)
(* makes.  How many retries a frame has left is a choice: a frame may be   *)
(* sent again any number of times, and a transfer frame may time out.      *)
(***************************************************************************)
EXTENDS Integers, Sequences, FiniteSets

CONSTANTS
  Pager, Phone, Bridge,   \* the hosts, and the addresses they have
  Outside,                \* the address of a phone behind a router, as seen from the pager
  ToPager, ToPhone,       \* the bridge's two sessions; those of the ends have the host's name
  Nobody,                 \* no address
  M, Half,                \* the number of sequence numbers, and half of it
  Plans                   \* what is transferred under which circumstances

VARIABLES
  plan,     \* the one that is tried
  session,  \* of each session: what struct iax_session says of its peer, transfer and numbers
  schedq,   \* of each session: the frames in the schedule
  net,      \* the datagrams under way
  sent,     \* of each end: how many frames it has sent to the other end as its peer
  taken     \* of each end: which of the other's it has handled since it was released

vars == <<plan, session, schedq, net, sent, taken>>

Ends == {Pager, Phone}
Legs == Ends \cup {ToPager, ToPhone}
Hosts == Ends \cup {Bridge}
Numbers == 0 .. M - 1
Callno(l) == plan.callno[l]

ASSUME HostsAssumption ==
  /\ Pager # Phone /\ Bridge \notin Ends /\ ToPager # ToPhone /\ Ends \cap {ToPager, ToPhone} = {}
  /\ Outside \notin Hosts /\ Nobody \notin Hosts \cup {Outside}
ASSUME NumbersAssumption == M \in Nat /\ Half \in 1 .. M - 1

(* callno: the call numbers of the sessions; sends: how many frames an end
   sends, window: how many of them before it has an answer; nat: the phone is
   behind a router that gives it another address towards the pager; dup: frames
   are sent again and datagrams delivered again; expire: transfer frames may time
   out; late: the bridge may see a TXREADY again after it has released the call;
   most: a bound on the frames a session numbers. *)
ASSUME PlansAssumption == \A p \in Plans :
  /\ p.callno \in [Legs -> Nat \ {0}] /\ p.callno[ToPager] # p.callno[ToPhone]
  /\ p.sends \in [Ends -> Nat] /\ p.window \in Nat /\ p.most \in [Legs -> 1 .. Half - 1]
  /\ p.nat \in BOOLEAN /\ p.dup \in BOOLEAN /\ p.expire \in BOOLEAN /\ p.late \in BOOLEAN

-----------------------------------------------------------------------------

(* A frame and a datagram: addr and callno are the information elements of
   TXREQ and TXREL, n counts the frames sent to the other end (0 for others),
   fresh tells the numbers of the direct call from those of the call before. *)
Frame == [cmd : {"data", "TXREQ", "TXCNT", "TXACC", "TXREADY", "TXREL", "TXREJ"},
          oseqno : Numbers, iseqno : Numbers, dst : Nat, transfer : BOOLEAN,
          addr : Hosts \cup {Nobody, Outside}, callno : Nat, n : Nat, live : BOOLEAN, fresh : BOOLEAN]

TypeOK ==
  /\ plan \in Plans
  /\ \A l \in Legs :
       /\ session[l].peer \in Hosts \cup {Outside}
       /\ session[l].transfer \in Hosts \cup {Outside, Nobody}
       /\ session[l].transferring \in {"NONE", "BEGIN", "READY", "REL"}
       /\ \A x \in {session[l].oseqno, session[l].iseqno, session[l].rseqno, session[l].aseqno,
                    session[l].lastvnak} : x \in Numbers
       /\ schedq[l] \subseteq Frame
  /\ \A d \in net : d.at \in Hosts /\ d.oseqno \in Numbers /\ d.iseqno \in Numbers
  /\ sent \in [Ends -> Nat] /\ taken \in [Ends -> Seq(Nat)]

Succ(x) == (x + 1) % M
Minus(x, y) == (x - y) % M

Host(l) == IF l \in Ends THEN l ELSE Bridge
Leg(e) == IF e = Pager THEN ToPager ELSE ToPhone

(* The other session of the same kind: of the two ends, of the two legs. *)
Other(l) == CASE l = Pager -> Phone [] l = Phone -> Pager [] l = ToPager -> ToPhone [] l = ToPhone -> ToPager

(* The address a host sees on a session's datagrams, and where a datagram to an
   address arrives: a router lets nobody in whom the phone has not addressed. *)
Seen(l, h) == IF plan.nat /\ l = Phone /\ h = Pager THEN Outside ELSE Host(l)
Reached(l, a) ==
  {h \in Hosts : \/ a = h /\ ~(plan.nat /\ l = Pager /\ h = Phone)
                 \/ a = Outside /\ l = Pager /\ h = Phone}

(* mutant: -1 kept in a wider field than an unsigned char *)
InCallSigned(peer, peercallno) ==
  [peer |-> peer, peercallno |-> peercallno, transfer |-> Nobody, transfercallno |-> 0,
   transferpeer |-> 0, transferring |-> "NONE", fresh |-> FALSE,
   oseqno |-> 1, iseqno |-> 1, rseqno |-> 1, aseqno |-> 1, lastvnak |-> -1]

(* A call over the bridge, set up with one frame each way. *)
InCall(peer, peercallno) ==
  [peer |-> peer, peercallno |-> peercallno, transfer |-> Nobody, transfercallno |-> 0,
   transferpeer |-> 0, transferring |-> "NONE", fresh |-> FALSE,
   oseqno |-> 1, iseqno |-> 1, rseqno |-> 1, aseqno |-> 1, lastvnak |-> M - 1]

Init ==
  /\ plan \in Plans
  /\ session = [l \in Legs |-> IF l \in Ends THEN InCall(Bridge, Callno(Leg(l)))
                               ELSE LET e == CHOOSE x \in Ends : Leg(x) = l IN InCall(e, Callno(e))]
  /\ schedq = [l \in Legs |-> {}]
  /\ net = {}
  /\ sent = [e \in Ends |-> 0]
  /\ taken = [e \in Ends |-> << >>]

-----------------------------------------------------------------------------
(* What handlers are made of. *)

Current == [s |-> session, q |-> schedq, out |-> {}]

(* Sends a frame to the peer, or to the transfer address (iax_xmit_frame). *)
Transmitted(l, s, f) ==
  {[at |-> h, from |-> Seen(l, h), src |-> Callno(l), dst |-> f.dst, cmd |-> f.cmd,
    oseqno |-> f.oseqno, iseqno |-> f.iseqno, addr |-> f.addr, callno |-> f.callno, n |-> f.n] :
   h \in Reached(l, IF f.transfer THEN s.transfer ELSE s.peer)}

Scheduled(v, l, f) ==
  [s |-> [v.s EXCEPT ![l].aseqno = v.s[l].iseqno],
   q |-> [v.q EXCEPT ![l] = @ \cup {f}],
   out |-> v.out \cup Transmitted(l, v.s[l], f)]

(* A numbered frame to the peer (send_command). *)
Numbered(v, l, cmd, addr, callno, n) ==
  LET s == v.s[l]
      f == [cmd |-> cmd, oseqno |-> s.oseqno, iseqno |-> s.iseqno, dst |-> s.peercallno,
            transfer |-> FALSE, addr |-> addr, callno |-> callno, n |-> n, live |-> TRUE, fresh |-> s.fresh]
  IN Scheduled([v EXCEPT !.s[l].oseqno = Succ(@)], l, f)

(* A frame to the transfer address (send_command_transfer): both its numbers are
   0, yet aseqno says that everything received has been acknowledged. *)
ToTransfer(v, l, cmd) ==
  Scheduled(v, l, [cmd |-> cmd, oseqno |-> 0, iseqno |-> 0, dst |-> v.s[l].transfercallno,
                   transfer |-> TRUE, addr |-> Nobody, callno |-> 0, n |-> 0, live |-> TRUE,
                   fresh |-> v.s[l].fresh])

(* An ACK or VNAK; its own number is never looked at. *)
Immediate(v, l, cmd) ==
  LET s == v.s[l]
      f == [cmd |-> cmd, oseqno |-> 0, iseqno |-> s.iseqno, dst |-> s.peercallno, transfer |-> FALSE,
            addr |-> Nobody, callno |-> 0, n |-> 0]
  IN [v EXCEPT !.s[l].aseqno = s.iseqno, !.out = @ \cup Transmitted(l, s, f)]

(* Nothing of the session is sent again. *)
StopTransfer(v, l) == [v EXCEPT !.q[l] = {[f EXCEPT !.live = FALSE] : f \in @}]

(* What complete_transfer does to the session; also a mutant, which leaves the
   frames to be sent again. *)
CompleteWithoutStop(v, l, peercallno, xfr2peer, preserveSeq) ==
  LET moved(s) == IF xfr2peer
                  THEN [s EXCEPT !.peer = s.transfer, !.transfer = Nobody, !.transferring = "NONE",
                                 !.transferpeer = 0]
                  ELSE s
      numbers(s) == IF preserveSeq THEN s
                    ELSE [s EXCEPT !.oseqno = 0, !.iseqno = 0, !.aseqno = 0, !.fresh = TRUE]
  IN [v EXCEPT !.s[l] = numbers(moved([@ EXCEPT !.peercallno = peercallno]))]

(* rseqno and lastvnak keep their values from the call before. *)
CompleteTransfer(v, l, peercallno, xfr2peer, preserveSeq) ==
  StopTransfer(CompleteWithoutStop(v, l, peercallno, xfr2peer, preserveSeq), l)

(* mutant: the end is told its own call number *)
FinishWithOwn(v, l, newPeer) ==
  CompleteTransfer(Numbered(v, l, "TXREL", Nobody, v.s[l].peercallno, 0), l, newPeer, FALSE, TRUE)

(* The release of one leg: the TXREL is among the frames that complete_transfer
   then takes out of retransmission. *)
FinishTransfer(v, l, newPeer) ==
  CompleteTransfer(Numbered(v, l, "TXREL", Nobody, newPeer, 0), l, newPeer, FALSE, TRUE)

-----------------------------------------------------------------------------
(* Which session a datagram is for. *)

ForwardMatch(l, d) ==
  LET s == session[l] IN
  /\ d.dst = Callno(l)
  /\ \/ s.transferring # "NONE" /\ s.transfer = d.from
     \/ s.peer = d.from /\ s.peercallno = d.src

ReverseMatch(l, d) ==
  LET s == session[l] IN
  /\ d.src = s.peercallno
  /\ s.peer = d.from \/ (s.transferring # "NONE" /\ s.transfer = d.from)

(* A TXCNT from an address the bridge did not name: a router is in between. *)
TxcntMatch(l, d) ==
  LET s == session[l] IN
  d.cmd = "TXCNT" /\ s.transferring # "NONE" /\ Callno(l) = d.dst /\ s.transfercallno = d.src

FindSession(d) ==
  LET here == {l \in Legs : Host(l) = d.at}
      forward == {l \in here : ForwardMatch(l, d)}
      reverse == {l \in here : ReverseMatch(l, d)}
  IN IF forward # {} THEN forward
     ELSE IF reverse # {} THEN reverse
     ELSE {l \in here : TxcntMatch(l, d)}

-----------------------------------------------------------------------------
(* Receiving a full frame, in the order of iax_header_to_event. *)

(* The implicit acknowledgement, from the peer only. *)
Acknowledged(v, l, d) ==
  LET s == v.s[l] IN
  IF s.peer = d.from /\ Minus(d.iseqno, s.rseqno) <= Minus(s.oseqno, s.rseqno)
  THEN [v EXCEPT !.s[l].rseqno = d.iseqno,
                 !.q[l] = {IF Minus(f.oseqno, s.rseqno) < Minus(d.iseqno, s.rseqno)
                           THEN [f EXCEPT !.live = FALSE] ELSE f : f \in @}]
  ELSE v

UnnumberedAcks == {"ACK", "VNAK"}   \* mutant: a TXCNT or TXACC counts as received
Unnumbered == {"ACK", "VNAK", "TXCNT", "TXACC"}
OutOfOrder == {"ACK", "VNAK", "TXCNT", "TXACC", "TXREADY", "TXREL"}   \* handled whatever their number

InSequence(s, d) ==
  d.oseqno = s.iseqno \/ (s.iseqno = 0 /\ d.cmd \in OutOfOrder \ {"ACK", "VNAK"})

Counted(v, l, d) ==
  IF InSequence(v.s[l], d) /\ d.cmd \notin Unnumbered THEN [v EXCEPT !.s[l].iseqno = Succ(@)] ELSE v

(* Seen before: acknowledged again. *)
Repeated(v, l) == Immediate(v, l, "ACK")

(* Beyond the expected one: asked for, once for a number. *)
Missing(v, l) ==
  IF Minus(v.s[l].lastvnak, v.s[l].iseqno) < Half THEN v
  ELSE Immediate([v EXCEPT !.s[l].lastvnak = v.s[l].iseqno], l, "VNAK")

(* iax_handle_vnak looks at the schedule, where frames stay that are done with. *)
Resent(v, l, d) ==
  LET s == v.s[l] IN
  [v EXCEPT !.out = @ \cup UNION {Transmitted(l, s, f) :
     f \in {g \in v.q[l] : Minus(d.iseqno, s.rseqno) <= Minus(g.oseqno, s.rseqno)}}]

(* The bridge asks for the transfer; the full voice frame this forces is not
   modelled. *)
TxReq(v, l, d) ==
  ToTransfer([v EXCEPT !.s[l] = [@ EXCEPT !.transfer = d.addr, !.transfercallno = d.callno,
                                         !.transferring = "BEGIN"]], l, "TXCNT")

(* The other end tries the direct path; the answer goes where it came from. *)
TxCnt(v, l, d) ==
  IF v.s[l].transferring = "NONE" THEN v
  ELSE ToTransfer([v EXCEPT !.s[l].transfer = d.from], l, "TXACC")

(* The direct path works: the bridge is told, and all else is dropped. *)
TxAcc(v, l) ==
  IF v.s[l].transferring = "NONE" THEN v
  ELSE Numbered([StopTransfer(v, l) EXCEPT !.s[l].transferring = "READY"], l, "TXREADY",
                Nobody, Callno(l), 0)

(* The bridge takes itself out. *)
TxRel(v, l, d) ==
  LET a == Immediate(v, l, "ACK") IN
  IF a.s[l].transferring # "NONE" THEN CompleteTransfer(a, l, d.callno, TRUE, FALSE)
  ELSE CompleteTransfer(a, l, a.s[l].peercallno, FALSE, TRUE)

TxReject(v, l) ==
  [v EXCEPT !.s[l] = [@ EXCEPT !.transfer = Nobody, !.transferring = "NONE", !.transferpeer = 0]]

(* An end is ready; the bridge waits for both. *)
Ready(v, l) ==
  [CompleteTransfer(Immediate(v, l, "ACK"), l, v.s[l].peercallno, FALSE, TRUE)
     EXCEPT !.s[l].transferring = "REL"]

(* mutant: the bridge does not wait for the other end *)
OneReady(v, l) == v.s[l].transferpeer # 0

BothReady(v, l) ==
  \E o \in Legs : Host(o) = Host(l) /\ Callno(o) = v.s[l].transferpeer /\ v.s[o].transferring = "REL"

TxReady(v, l) ==
  LET r == Ready(v, l) IN
  IF ~BothReady(r, l) THEN r
  ELSE LET o == Other(l) IN
       FinishTransfer(FinishTransfer(r, l, r.s[o].peercallno), o, r.s[l].peercallno)

Handled(v, l, d) ==
  CASE d.cmd = "TXREQ" -> TxReq(v, l, d)
    [] d.cmd = "TXCNT" -> TxCnt(v, l, d)
    [] d.cmd = "TXACC" -> TxAcc(v, l)
    [] d.cmd = "TXREADY" -> TxReady(v, l)
    [] d.cmd = "TXREL" -> TxRel(v, l, d)
    [] d.cmd = "TXREJ" -> TxReject(v, l)
    [] d.cmd = "VNAK" -> Resent(v, l, d)
    [] OTHER -> v

(* What is left unacknowledged is acknowledged at the end. *)
Answered(v, l) == IF v.s[l].aseqno = v.s[l].iseqno THEN v ELSE Immediate(v, l, "ACK")

(* Everything a full frame changes at the session it is for. *)
Processed(l, d) ==
  LET v == Acknowledged(Current, l, d)
      s == v.s[l]
  IN IF InSequence(s, d) \/ d.cmd \in OutOfOrder
     THEN Answered(Handled(Counted(v, l, d), l, d), l)
     ELSE IF Minus(s.iseqno, d.oseqno) < Half THEN Repeated(v, l) ELSE Missing(v, l)

Took(l, d) == d.cmd = "data" /\ d.n > 0 /\ d.oseqno = session[l].iseqno

Becomes(v, used) ==
  /\ \A l \in Legs : v.s[l].oseqno <= plan.most[l]
  /\ session' = v.s
  /\ schedq' = v.q
  /\ net' = (IF plan.dup THEN net ELSE net \ used) \cup v.out

-----------------------------------------------------------------------------

(* The bridge asks both ends to try (iax_setup_transfer). *)
Setup ==
  /\ \A l \in Legs \ Ends : session[l].transferring = "NONE" /\ session[l].oseqno = 1
  /\ LET asked(v, l) ==
           LET o == Other(l) IN
           Numbered([v EXCEPT !.s[l] = [@ EXCEPT !.transfer = session[o].peer,
                                                 !.transfercallno = session[l].peercallno,
                                                 !.transferring = "BEGIN",
                                                 !.transferpeer = Callno(o)]],
                    l, "TXREQ", session[o].peer, session[o].peercallno, 0)
     IN Becomes(asked(asked(Current, ToPager), ToPhone), {})
  /\ UNCHANGED <<plan, sent, taken>>

Direct(e) == session[e].fresh

(* An end sends a frame of the call, with a window: it waits for answers. *)
Send(e) ==
  /\ sent[e] < plan.sends[e]
  /\ Cardinality({f \in schedq[e] : f.cmd = "data" /\ f.live}) < plan.window
  /\ sent' = [sent EXCEPT ![e] = @ + 1]
  /\ Becomes(Numbered(Current, e, "data", Nobody, 0, IF Direct(e) THEN session[e].oseqno + 1 ELSE 0), {})
  /\ UNCHANGED <<plan, taken>>

Receive(l) ==
  \E d \in net :
    /\ l \in FindSession(d)
    /\ d.cmd = "TXREADY" /\ session[l].transferring = "REL" /\ BothReady(Current, l) => plan.late
    /\ Becomes(Processed(l, d), {d})
    /\ taken' = IF Took(l, d) THEN [taken EXCEPT ![l] = Append(@, d.n)]
                ELSE IF l \in Ends /\ session'[l].fresh # session[l].fresh
                THEN [taken EXCEPT ![l] = << >>] ELSE taken
    /\ UNCHANGED <<plan, sent>>

(* A frame's timer: done with, sent again, or for a transfer frame given up. *)
Timer(l) ==
  \E f \in schedq[l] :
    /\ f.live
    /\ \/ plan.dup /\ Becomes([Current EXCEPT !.out = Transmitted(l, session[l], f)], {})
       \/ /\ f.transfer /\ plan.expire
          /\ Becomes(ToTransfer([Current EXCEPT !.q[l] = @ \ {f}], l, "TXREJ"), {})
    /\ UNCHANGED <<plan, sent, taken>>

Next == Setup \/ (\E e \in Ends : Send(e)) \/ (\E l \in Legs : Receive(l) \/ Timer(l))

Spec == Init /\ [][Next]_vars

-----------------------------------------------------------------------------

(* Each end is bridged, ready or direct, and one goes direct only when the other
   has agreed: no release by the bridge, however late, lost or repeated, and no
   timeout of a transfer frame leaves one end talking to another that never
   heard of it. *)
Agreement == INSTANCE Handover WITH
  status <- [e \in Ends |-> IF session[e].fresh THEN "direct"
                            ELSE IF session[e].transferring = "READY" THEN "ready" ELSE "bridged"]

HandoverImplemented == Agreement!HandoverSpec

(* What an end that was released sends is recognised by the other, released or
   not yet, behind a router or not: the address and the call number it was given
   are those the other knows it by (iax_net_process looks no further). *)
Recognised ==
  \A e \in Ends : Direct(e) =>
    \A d \in Transmitted(e, session[e], [cmd |-> "data", oseqno |-> 0, iseqno |-> 0,
                                         dst |-> session[e].peercallno, transfer |-> FALSE,
                                         addr |-> Nobody, callno |-> 0, n |-> 1]) :
      d.at = Other(e) /\ Other(e) \in FindSession(d)

(* complete_transfer wants to "dump anything we were going to (re)transmit": from
   its release on no timer of an end sends a frame of the call over the bridge.
   The frames stay in the schedule, where a VNAK still finds them; but with one
   frame under way at a time and no transfer frame given up none comes, and nothing
   passes between the ends but the frames of the direct call and what has no number. *)
OldFramesHeldBack ==
  /\ \A e \in Ends : \A f \in schedq[e] : f.live => f.fresh = session[e].fresh
  /\ plan.window = 1 /\ ~plan.expire =>
       \A d \in net : d.at \in Ends /\ d.from # Bridge =>
         \/ d.cmd \in Unnumbered \ {"VNAK"}
         \/ d.cmd = "data" /\ d.n = d.oseqno + 1

(* The direct call is a reliable channel although the ends change over at
   different times and rseqno is kept: frames are handled once and in order, and
   none is taken for acknowledged that was not handled.  One frame at a time: two
   can make the other end ask for one, and what was dumped is then sent. *)
DirectReliable ==
  plan.window = 1 /\ ~plan.expire =>
    \A e \in Ends :
      /\ \A i \in DOMAIN taken[e] : taken[e][i] = i
      /\ Direct(Other(e)) =>
           \A f \in schedq[Other(e)] : f.n > 0 /\ ~f.live => f.n \in {taken[e][i] : i \in DOMAIN taken[e]}

=============================================================================
