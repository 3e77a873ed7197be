---------------------------- MODULE TransferProofs ----------------------------
(***************************************************************************)
(* What is proved of Transfer, for every plan: any call numbers, any number *)
(* of frames, with a router or without, datagrams repeated or not, transfer *)
(* frames that time out or not.                                             *)
(*   TypeCorrect    - TypeOK                                                *)
(*   RecognisedSafe - Recognised, if Harmless                               *)
(*   HandoverSafe   - Transfer implements Handover                          *)
(*   HeldBack       - OldFramesHeldBack                                     *)
(*   DirectSafe     - DirectReliable                                        *)
(* The first three follow from IInv. Every action of a host is a few handlers*)
(* one after the other on a record of the sessions, the schedules and what  *)
(* is to be sent; the lemmas say of each handler that the record stays Good *)
(* and goes onward (Goes): what an end was told once is not taken back,     *)
(* only that host's session changes, and none is direct before both agreed. *)
(* The last two need DirectInv besides, in the last part of the module: what*)
(* an end has said and heard directly, and which of its frames are still    *)
(* sent again. Its lemmas go through the same handlers, with Calm for Goes. *)
(* DirectInv speaks of one frame under way at a time, no transfer frame     *)
(* given up, and counts that begin at 1 and stay below Half: this is what   *)
(* PlansAssumption and Straight ask, and nothing in the code enforces it.   *)
(***************************************************************************)
EXTENDS Transfer, TLAPS, FiniteSetTheorems

-----------------------------------------------------------------------------
(* The inductive invariant *)

Addresses == Hosts \cup {Outside}
Commands == {"data", "TXREQ", "TXCNT", "TXACC", "TXREADY", "TXREL", "TXREJ"}
Session ==
  [peer : Addresses, peercallno : Nat, transfer : Addresses \cup {Nobody}, transfercallno : Nat,
   transferpeer : Nat, transferring : {"NONE", "BEGIN", "READY", "REL"}, fresh : BOOLEAN,
   oseqno : Numbers, iseqno : Numbers, rseqno : Numbers, aseqno : Numbers, lastvnak : Numbers]
Datagram ==
  [at : Hosts, from : Addresses, src : Nat, dst : Nat, cmd : Commands \cup {"ACK", "VNAK"},
   oseqno : Numbers, iseqno : Numbers, addr : Addresses \cup {Nobody}, callno : Nat, n : Nat]

(* the bridge's session that is an end's, and back *)
Bridged == Legs \ Ends
EndOf(l) == IF l = ToPager THEN Pager ELSE Phone

(* an end has agreed to be switched over; from then on it keeps its word *)
Agreed(s, e) == s[e].fresh \/ s[e].transferring = "READY"
BothAgreed(s) == \A e \in Ends : Agreed(s, e)
BothDirect(s) == \A e \in Ends : s[e].fresh

(* the addresses under which an end may know the other *)
Known(e) == {Other(e)} \cup (IF plan.nat /\ e = Pager THEN {Outside} ELSE {})

(* the one that works *)
Right(s, e) == IF s[e].fresh THEN s[e].peer = Seen(Other(e), e)
               ELSE s[e].transferring # "NONE" /\ s[e].transfer = Seen(Other(e), e)

(* the condition under which a late TXREADY does no harm *)
Harmless == plan.late => Callno(Pager) = Callno(Phone)

EndInv(s, e) ==
  /\ s[e].transferpeer = 0
  /\ s[e].transfer \in Known(e) \cup {Nobody}
  /\ ~s[e].fresh =>
       /\ s[e].peer = Bridge /\ s[e].peercallno = Callno(Leg(e))
       /\ s[e].iseqno \in 1 .. Half
       /\ s[e].transferring \in {"NONE", "BEGIN", "READY"}
       /\ IF s[e].transferring = "NONE" THEN s[e].transfer = Nobody
          ELSE s[e].iseqno >= 2 /\ s[e].transfer \in Known(e)
  /\ s[e].fresh =>
       /\ s[e].peer \in Known(e) /\ (Harmless => s[e].peercallno = Callno(Other(e)))
       /\ Agreed(s, Other(e))
       /\ s[e].transferring # "NONE" => BothDirect(s)
  /\ Agreed(s, e) => Right(s, e)

LegInv(s, l) ==
  /\ s[l].peer = EndOf(l) /\ ~s[l].fresh
  /\ s[l].transferpeer \in {0, Callno(Other(l))}
  /\ s[l].transferring \in {"NONE", "BEGIN", "REL"}
  /\ s[l].transferring = "REL" => Agreed(s, EndOf(l))
  /\ s[l].peercallno \in {Callno(Pager), Callno(Phone)}
  /\ s[l].peercallno # Callno(EndOf(l)) => \A k \in Bridged : s[k].transferring = "REL"

SessionInv(s) == (\A e \in Ends : EndInv(s, e)) /\ (\A l \in Bridged : LegInv(s, l))

(* what an end is told, or may be told again *)
Request(e, f) == f.addr = Other(e) /\ f.oseqno = 1
Release(s, e, f) == BothAgreed(s) /\ (Harmless => f.callno = Callno(Other(e)))

FrameInv(s, l, f) ==
  /\ f.oseqno < Half
  /\ f.live => f.fresh = s[l].fresh
  /\ f.fresh => s[l].fresh
  /\ l \in Ends =>
       /\ f.cmd \in Commands \ {"TXREQ", "TXREL"}
       /\ f.transfer <=> f.cmd \in {"TXCNT", "TXACC", "TXREJ"}
       /\ f.cmd = "TXREJ" => f.oseqno = 0
       /\ f.cmd = "TXREADY" => Agreed(s, l) /\ (f.fresh => BothDirect(s))
       /\ ~f.fresh /\ ~f.transfer => f.dst = Callno(Leg(l))
       /\ f.cmd = "TXACC" => Right(s, Other(l))
  /\ l \in Bridged =>
       /\ f.cmd \in {"TXREQ", "TXREL"} /\ ~f.transfer
       /\ f.cmd = "TXREQ" => Request(EndOf(l), f)
       /\ f.cmd = "TXREL" => Release(s, EndOf(l), f)

DatagramInv(s, d) ==
  /\ d.oseqno < Half
  /\ d.at = Bridge =>
       /\ d.from \in Ends /\ d.src = Callno(d.from)
       /\ d.cmd \in {"data", "TXREADY", "ACK", "VNAK"}
       /\ d.cmd = "TXREADY" => Agreed(s, d.from) /\ d.dst = Callno(Leg(d.from))
  /\ d.at \in Ends /\ d.from = Bridge =>
       /\ d.cmd \in {"TXREQ", "TXREL", "ACK", "VNAK"}
       /\ d.cmd = "TXREQ" => Request(d.at, d)
       /\ d.cmd = "TXREL" => Release(s, d.at, d)
  /\ d.at \in Ends /\ d.from # Bridge =>
       /\ d.from = Seen(Other(d.at), d.at) /\ d.src = Callno(Other(d.at))
       /\ d.cmd \notin {"TXREQ", "TXREL"}
       /\ d.cmd = "TXREJ" => d.oseqno = 0
       /\ d.cmd = "VNAK" => s[Other(d.at)].fresh
       /\ d.cmd = "TXREADY" => BothDirect(s)
       /\ d.cmd = "TXCNT" => Right(s, Other(d.at))
       /\ d.cmd = "TXACC" => Right(s, d.at)

(* what a handler works on *)
Value == [s : [Legs -> Session], q : [Legs -> SUBSET Frame], out : SUBSET Datagram]

Good(v) ==
  /\ v \in Value
  /\ SessionInv(v.s)
  /\ \A l \in Legs : \A f \in v.q[l] : FrameInv(v.s, l, f)
  /\ \A d \in net \cup v.out : DatagramInv(v.s, d)

(* ... and between two actions *)
IInv ==
  /\ plan \in Plans /\ net \subseteq Datagram
  /\ sent \in [Ends -> Nat] /\ taken \in [Ends -> Seq(Nat)]
  /\ Good(Current)
  /\ \A l \in Legs : session[l].oseqno < Half

-----------------------------------------------------------------------------
(* The plan, the hosts and their addresses *)

LEMMA PlanFacts ==
  ASSUME plan \in Plans
  PROVE  /\ \A l \in Legs : Callno(l) \in Nat /\ Callno(l) # 0
         /\ Callno(ToPager) # Callno(ToPhone)
         /\ plan.nat \in BOOLEAN /\ plan.dup \in BOOLEAN
         /\ \A l \in Legs : plan.most[l] \in 1 .. Half - 1
         /\ M \in Nat /\ Half \in Nat /\ Half < M /\ 2 <= Half
<1>1. /\ plan.callno \in [Legs -> Nat \ {0}] /\ plan.callno[ToPager] # plan.callno[ToPhone]
      /\ plan.most \in [Legs -> 1 .. Half - 1] /\ plan.nat \in BOOLEAN /\ plan.dup \in BOOLEAN
  BY PlansAssumption
<1>2. M \in Nat /\ Half \in Nat /\ Half < M
  BY NumbersAssumption
<1>3. Pager \in Legs /\ plan.most[Pager] \in 1 .. Half - 1
  BY <1>1 DEF Legs, Ends
<1>4. 2 <= Half
  BY <1>2, <1>3
<1> QED BY <1>1, <1>2, <1>4 DEF Callno

LEMMA NumberFacts ==
  ASSUME plan \in Plans
  PROVE  /\ 0 \in Numbers /\ \A x \in Numbers : x \in Nat /\ Succ(x) \in Numbers
         /\ \A x \in Numbers : x < Half => Succ(x) = x + 1
<1>1. M \in Nat /\ Half \in Nat /\ Half < M /\ 2 <= Half
  BY PlanFacts
<1>2. ASSUME NEW x \in 0 .. M - 1
      PROVE  x \in Nat /\ (x + 1) % M \in 0 .. M - 1 /\ (x < Half => (x + 1) % M = x + 1)
  BY <1>1
<1> QED BY <1>1, <1>2 DEF Numbers, Succ

LEMMA Others ==
  /\ \A e \in Ends : /\ e \in Legs /\ e \in Hosts /\ e # Bridge /\ e # Outside /\ e # Nobody
                     /\ Other(e) \in Ends /\ Other(e) # e /\ Other(Other(e)) = e
                     /\ Leg(e) \in Bridged /\ Leg(e) \in Legs /\ EndOf(Leg(e)) = e /\ Host(e) = e
                     /\ e \notin Bridged /\ Ends = {e, Other(e)}
  /\ \A l \in Bridged : /\ l \in Legs /\ l \notin Ends /\ EndOf(l) \in Ends /\ Leg(EndOf(l)) = l
                        /\ Other(l) \in Bridged /\ Other(l) # l /\ Other(Other(l)) = l
                        /\ EndOf(Other(l)) = Other(EndOf(l)) /\ Host(l) = Bridge
                        /\ Bridged = {l, Other(l)}
  /\ Legs = Ends \cup Bridged /\ Hosts = Ends \cup {Bridge}
  /\ Ends = {Pager, Phone} /\ Pager # Phone /\ Bridged = {ToPager, ToPhone}
<1>1. Pager # Phone /\ ToPager # ToPhone /\ {Pager, Phone} \cap {ToPager, ToPhone} = {}
  BY HostsAssumption DEF Ends
<1>2. Ends = {Pager, Phone} /\ Bridged = {ToPager, ToPhone} /\ Legs = Ends \cup Bridged
  BY <1>1 DEF Ends, Bridged, Legs
<1>3. Hosts = Ends \cup {Bridge} /\ \A e \in Ends : e # Bridge /\ e # Outside /\ e # Nobody
  BY HostsAssumption DEF Ends, Hosts
<1>4. /\ Other(Pager) = Phone /\ Other(Phone) = Pager
      /\ Other(ToPager) = ToPhone /\ Other(ToPhone) = ToPager
  BY <1>1 DEF Other
<1>5. Leg(Pager) = ToPager /\ Leg(Phone) = ToPhone /\ EndOf(ToPager) = Pager /\ EndOf(ToPhone) = Phone
  BY <1>1 DEF Leg, EndOf
<1>6. /\ Host(Pager) = Pager /\ Host(Phone) = Phone /\ Host(ToPager) = Bridge /\ Host(ToPhone) = Bridge
  BY <1>1 DEF Host, Ends
<1> QED BY <1>1, <1>2, <1>3, <1>4, <1>5, <1>6

LEMMA BridgedCallno ==
  ASSUME plan \in Plans, NEW k \in Bridged, NEW l \in Bridged, Callno(k) = Callno(l)
  PROVE  k = l
BY PlanFacts, Others

LEMMA SeenFacts ==
  /\ \A e \in Ends : /\ Seen(e, Bridge) = e /\ Seen(Other(e), e) \in Known(e)
                     /\ Seen(Other(e), e) # Bridge
  /\ \A l \in Bridged : \A h : Seen(l, h) = Bridge
  /\ \A l \in Legs : \A h : Seen(l, h) \in Addresses
  /\ \A e \in Ends : Known(e) \subseteq Addresses /\ Bridge \notin Known(e) /\ Nobody \notin Known(e)
  /\ \A e \in Ends : Other(e) \in Known(e)
BY HostsAssumption, Others DEF Seen, Known, Host, Addresses, Hosts, Ends

(* Where datagrams arrive. *)
LEMMA ReachedFacts ==
  ASSUME plan \in Plans
  PROVE  /\ \A e \in Ends : Reached(e, Bridge) \subseteq {Bridge} /\ Reached(e, Nobody) = {}
         /\ \A e \in Ends : \A a \in Known(e) : \A h \in Reached(e, a) :
              h = Other(e) /\ a = Seen(Other(e), e)
         /\ \A l \in Bridged : Reached(l, EndOf(l)) \subseteq {EndOf(l)}
<1>1. plan.nat \in BOOLEAN
  BY PlanFacts
<1>2. ASSUME NEW e \in Ends
      PROVE  Reached(e, Bridge) \subseteq {Bridge} /\ Reached(e, Nobody) = {}
  BY HostsAssumption DEF Reached, Hosts, Ends
<1>3. ASSUME NEW e \in Ends, NEW a \in Known(e), NEW h \in Reached(e, a)
      PROVE  h = Other(e) /\ a = Seen(Other(e), e)
  <2>1. CASE e = Pager
    BY <1>1, <2>1, HostsAssumption DEF Reached, Hosts, Ends, Known, Other, Seen, Host
  <2>2. CASE e = Phone
    BY <1>1, <2>2, HostsAssumption DEF Reached, Hosts, Ends, Known, Other, Seen, Host
  <2> QED BY <2>1, <2>2 DEF Ends
<1>4. ASSUME NEW l \in Bridged
      PROVE  Reached(l, EndOf(l)) \subseteq {EndOf(l)}
  BY HostsAssumption, Others DEF Reached, Hosts, Ends
<1> QED BY <1>2, <1>3, <1>4

-----------------------------------------------------------------------------
(* Steps that leave the sessions' state alone, and steps that only go on *)

(* all but the numbers *)
Alike(x, r) ==
  /\ r.peer = x.peer /\ r.peercallno = x.peercallno
  /\ r.transfer = x.transfer /\ r.transfercallno = x.transfercallno
  /\ r.transferpeer = x.transferpeer /\ r.transferring = x.transferring /\ r.fresh = x.fresh

Counts(x, r) == r.iseqno = x.iseqno \/ (x.iseqno <= r.iseqno /\ r.iseqno <= Half)

(* what was told once stays true *)
Onward(s, t) ==
  \A e \in Ends : /\ s[e].fresh => t[e].fresh
                  /\ Agreed(s, e) => Agreed(t, e)
                  /\ Right(s, e) => Right(t, e)

(* Only the session l, its schedule and what is sent change. *)
Updates(v, w, l, r, Q, D) ==
  /\ w \in Value
  /\ \A k \in Legs \ {l} : w.s[k] = v.s[k] /\ w.q[k] = v.q[k]
  /\ w.s[l] = r /\ w.q[l] = Q /\ w.out = v.out \cup D

LEMMA AlikeOnward ==
  ASSUME NEW s, NEW t, \A k \in Legs : Alike(s[k], t[k])
  PROVE  /\ Onward(s, t)
         /\ \A e \in Ends : Agreed(s, e) <=> Agreed(t, e)
         /\ \A e \in Ends : Right(s, e) <=> Right(t, e)
         /\ BothAgreed(s) <=> BothAgreed(t)
         /\ BothDirect(s) <=> BothDirect(t)
<1>1. ASSUME NEW e \in Ends
      PROVE  s[e].fresh = t[e].fresh /\ (Agreed(s, e) <=> Agreed(t, e)) /\ (Right(s, e) <=> Right(t, e))
  <2>1. Alike(s[e], t[e])
    BY Others
  <2> QED BY <2>1 DEF Alike, Agreed, Right
<1> QED BY <1>1 DEF Onward, BothAgreed, BothDirect

LEMMA OnwardBoth ==
  ASSUME NEW s, NEW t, Onward(s, t)
  PROVE  (BothAgreed(s) => BothAgreed(t)) /\ (BothDirect(s) => BothDirect(t))
BY DEF Onward, BothAgreed, BothDirect

LEMMA AlikeSession ==
  ASSUME NEW s \in [Legs -> Session], NEW t \in [Legs -> Session], SessionInv(s),
         \A k \in Legs : Alike(s[k], t[k]) /\ Counts(s[k], t[k])
  PROVE  SessionInv(t)
<1>1. ASSUME NEW e \in Ends
      PROVE  EndInv(t, e)
  <2>1. EndInv(s, e) /\ Alike(s[e], t[e]) /\ Counts(s[e], t[e])
    BY Others DEF SessionInv
  <2>2. Agreed(s, e) <=> Agreed(t, e)
    BY AlikeOnward
  <2>3. Right(s, e) <=> Right(t, e)
    BY AlikeOnward
  <2>4. Agreed(s, Other(e)) <=> Agreed(t, Other(e))
    BY AlikeOnward, Others
  <2>5. BothDirect(s) <=> BothDirect(t)
    BY AlikeOnward
  <2>6. s[e].iseqno \in Nat /\ t[e].iseqno \in Nat /\ Half \in Nat
    BY NumbersAssumption, Others DEF Session, Numbers
  <2>7. ~t[e].fresh => /\ t[e].iseqno \in 1 .. Half
                       /\ t[e].transferring # "NONE" => t[e].iseqno >= 2
    BY <2>1, <2>6 DEF EndInv, Alike, Counts
  <2> QED BY <2>1, <2>2, <2>3, <2>4, <2>5, <2>7 DEF EndInv, Alike
<1>2. ASSUME NEW l \in Bridged
      PROVE  LegInv(t, l)
  <2>1. LegInv(s, l) /\ Alike(s[l], t[l])
    BY <1>2, Others DEF SessionInv
  <2>2. Agreed(s, EndOf(l)) <=> Agreed(t, EndOf(l))
    BY <1>2, AlikeOnward, Others
  <2>3. \A k \in Bridged : t[k].transferring = s[k].transferring
    BY Others DEF Alike
  <2> QED BY <2>1, <2>2, <2>3 DEF LegInv, Alike
<1> QED BY <1>1, <1>2 DEF SessionInv

LEMMA DatagramOnward ==
  ASSUME NEW s, NEW t, Onward(s, t), NEW d \in Datagram, DatagramInv(s, d)
  PROVE  DatagramInv(t, d)
<1>1. (BothAgreed(s) => BothAgreed(t)) /\ (BothDirect(s) => BothDirect(t))
  BY OnwardBoth
<1>2. d.from \in Ends => (Agreed(s, d.from) => Agreed(t, d.from))
  BY DEF Onward
<1>3. d.at \in Ends => /\ Right(s, d.at) => Right(t, d.at)
                       /\ Right(s, Other(d.at)) => Right(t, Other(d.at))
                       /\ s[Other(d.at)].fresh => t[Other(d.at)].fresh
  BY Others DEF Onward
<1>4. ASSUME NEW e, Release(s, e, d)
      PROVE  Release(t, e, d)
  BY <1>1, <1>4 DEF Release
<1> QED BY <1>1, <1>2, <1>3, <1>4 DEF DatagramInv

LEMMA FrameOnward ==
  ASSUME NEW s, NEW t, Onward(s, t), NEW l \in Legs, t[l].fresh = s[l].fresh,
         NEW f, FrameInv(s, l, f)
  PROVE  FrameInv(t, l, f)
<1>1. (BothAgreed(s) => BothAgreed(t)) /\ (BothDirect(s) => BothDirect(t))
  BY OnwardBoth
<1>2. l \in Ends => /\ Agreed(s, l) => Agreed(t, l)
                    /\ Right(s, Other(l)) => Right(t, Other(l))
  BY Others DEF Onward
<1>3. ASSUME NEW e, Release(s, e, f)
      PROVE  Release(t, e, f)
  BY <1>1, <1>3 DEF Release
<1> QED BY <1>1, <1>2, <1>3 DEF FrameInv

(* A frame that is not sent again outlives the release. *)
LEMMA DeadFrame ==
  ASSUME NEW s, NEW t, Onward(s, t), NEW l \in Legs, s[l].fresh => t[l].fresh,
         NEW f \in Frame, FrameInv(s, l, f)
  PROVE  /\ [f EXCEPT !.live = FALSE] \in Frame
         /\ FrameInv(t, l, [f EXCEPT !.live = FALSE])
<1> DEFINE g == [f EXCEPT !.live = FALSE]
<1>1. /\ g \in Frame /\ ~g.live /\ g.cmd = f.cmd /\ g.oseqno = f.oseqno /\ g.fresh = f.fresh
      /\ g.transfer = f.transfer /\ g.dst = f.dst /\ g.addr = f.addr /\ g.callno = f.callno
  BY DEF Frame
<1>2. (BothAgreed(s) => BothAgreed(t)) /\ (BothDirect(s) => BothDirect(t))
  BY OnwardBoth
<1>3. l \in Ends => /\ Agreed(s, l) => Agreed(t, l)
                    /\ Right(s, Other(l)) => Right(t, Other(l))
  BY Others DEF Onward
<1>4. ASSUME NEW e, Release(s, e, f)
      PROVE  Release(t, e, g)
  BY <1>1, <1>2, <1>4 DEF Release
<1>5. ASSUME NEW e, Request(e, f)
      PROVE  Request(e, g)
  BY <1>1, <1>5 DEF Request
<1> HIDE DEF g
<1>6. FrameInv(t, l, g)
  BY <1>1, <1>2, <1>3, <1>4, <1>5 DEF FrameInv
<1> QED BY <1>1, <1>6 DEF g

LEMMA UpdateGood ==
  ASSUME NEW v, NEW w, NEW l \in Legs, NEW r, NEW Q, NEW D, Good(v), Updates(v, w, l, r, Q, D),
         net \subseteq Datagram, SessionInv(w.s), Onward(v.s, w.s),
         \A f \in Q : FrameInv(w.s, l, f), \A d \in D : DatagramInv(w.s, d)
  PROVE  Good(w)
<1>1. v \in Value /\ w \in Value
  BY DEF Good, Updates
<1>2. ASSUME NEW k \in Legs, NEW f \in w.q[k]
      PROVE  FrameInv(w.s, k, f)
  <2>1. CASE k = l
    BY <1>2, <2>1 DEF Updates
  <2>2. CASE k # l
    <3>1. w.s[k] = v.s[k] /\ f \in v.q[k]
      BY <1>2, <2>2 DEF Updates
    <3>2. FrameInv(v.s, k, f)
      BY <3>1 DEF Good
    <3> QED BY <3>1, <3>2, FrameOnward
  <2> QED BY <2>1, <2>2
<1>3. ASSUME NEW d \in net \cup w.out
      PROVE  DatagramInv(w.s, d)
  <2>1. CASE d \in D
    BY <2>1
  <2>2. CASE d \in net \cup v.out
    <3>1. d \in Datagram
      BY <1>1, <2>2 DEF Value
    <3>2. DatagramInv(v.s, d)
      BY <2>2 DEF Good
    <3> QED BY <3>1, <3>2, DatagramOnward
  <2> QED BY <2>1, <2>2 DEF Updates
<1> QED BY <1>1, <1>2, <1>3 DEF Good

(* What handlers are made of. *)
Steady(v, w, K) ==
  /\ Good(w)
  /\ \A k \in Legs : Alike(v.s[k], w.s[k])
  /\ \A k \in Legs \ K : w.s[k].oseqno = v.s[k].oseqno

LEMMA UpdateSteady ==
  ASSUME plan \in Plans,
         NEW v, NEW w, NEW l \in Legs, NEW r, NEW Q, NEW D, Good(v), Updates(v, w, l, r, Q, D),
         net \subseteq Datagram, Alike(v.s[l], r), Counts(v.s[l], r),
         \A f \in Q : FrameInv(v.s, l, f), \A d \in D : DatagramInv(v.s, d), D \subseteq Datagram
  PROVE  /\ Steady(v, w, {l})
         /\ r.oseqno = v.s[l].oseqno => Steady(v, w, {})
<1>1. v.s \in [Legs -> Session] /\ w.s \in [Legs -> Session] /\ SessionInv(v.s)
  BY DEF Good, Updates, Value
<1>2. ASSUME NEW k \in Legs
      PROVE  Alike(v.s[k], w.s[k]) /\ Counts(v.s[k], w.s[k])
  <2>1. CASE k = l
    BY <2>1 DEF Updates
  <2>2. CASE k # l
    <3>1. w.s[k] = v.s[k]
      BY <2>2 DEF Updates
    <3> QED BY <3>1 DEF Alike, Counts
  <2> QED BY <2>1, <2>2
<1>3. SessionInv(w.s)
  BY <1>1, <1>2, AlikeSession
<1>4. Onward(v.s, w.s) /\ w.s[l].fresh = v.s[l].fresh
  BY <1>2, AlikeOnward DEF Alike
<1>5. \A f \in Q : FrameInv(w.s, l, f)
  BY <1>4, FrameOnward
<1>6. \A d \in D : DatagramInv(w.s, d)
  BY <1>4, DatagramOnward
<1>7. Good(w)
  BY <1>3, <1>4, <1>5, <1>6, UpdateGood
<1> QED BY <1>2, <1>7 DEF Steady, Updates

LEMMA SteadySteady ==
  ASSUME NEW u, NEW v, NEW w, NEW J, NEW K, Steady(u, v, J), Steady(v, w, K)
  PROVE  Steady(u, w, J \cup K)
<1>1. \A k \in Legs : Alike(u.s[k], v.s[k]) /\ Alike(v.s[k], w.s[k])
  BY DEF Steady
<1>2. \A k \in Legs : Alike(u.s[k], w.s[k])
  BY <1>1 DEF Alike
<1>3. \A k \in Legs \ (J \cup K) : w.s[k].oseqno = u.s[k].oseqno
  BY DEF Steady
<1> QED BY <1>2, <1>3 DEF Steady

-----------------------------------------------------------------------------
(* What a session sends *)

LEMMA Addressed ==
  ASSUME plan \in Plans, NEW s, SessionInv(s), NEW e \in Ends
  PROVE  /\ \A h \in Reached(e, s[e].peer) : IF s[e].fresh THEN h = Other(e) ELSE h = Bridge
         /\ \A h \in Reached(e, s[e].transfer) : h = Other(e) /\ Right(s, e)
<1>1. EndInv(s, e)
  BY DEF SessionInv
<1>2. /\ Reached(e, Bridge) \subseteq {Bridge} /\ Reached(e, Nobody) = {}
      /\ \A a \in Known(e) : \A h \in Reached(e, a) : h = Other(e) /\ a = Seen(Other(e), e)
  BY ReachedFacts
<1>3. ASSUME NEW h \in Reached(e, s[e].peer)
      PROVE  IF s[e].fresh THEN h = Other(e) ELSE h = Bridge
  BY <1>1, <1>2, <1>3 DEF EndInv
<1>4. ASSUME NEW h \in Reached(e, s[e].transfer)
      PROVE  h = Other(e) /\ Right(s, e)
  <2>1. s[e].transfer \in Known(e)
    BY <1>1, <1>2, <1>4 DEF EndInv
  <2>2. h = Other(e) /\ s[e].transfer = Seen(Other(e), e)
    BY <1>2, <1>4, <2>1
  <2>3. CASE s[e].fresh
    BY <1>1, <2>2, <2>3 DEF EndInv, Agreed
  <2>4. CASE ~s[e].fresh
    <3>1. s[e].transferring # "NONE"
      BY <1>1, <2>1, <2>4, SeenFacts DEF EndInv
    <3> QED BY <2>2, <2>4, <3>1 DEF Right
  <2> QED BY <2>2, <2>3, <2>4
<1> QED BY <1>3, <1>4

LEMMA DatagramType ==
  ASSUME plan \in Plans, NEW l \in Legs, NEW h \in Hosts, NEW f,
         f.dst \in Nat, f.cmd \in Commands \cup {"ACK", "VNAK"}, f.oseqno \in Numbers,
         f.iseqno \in Numbers, f.addr \in Addresses \cup {Nobody}, f.callno \in Nat, f.n \in Nat
  PROVE  [at |-> h, from |-> Seen(l, h), src |-> Callno(l), dst |-> f.dst, cmd |-> f.cmd,
          oseqno |-> f.oseqno, iseqno |-> f.iseqno, addr |-> f.addr, callno |-> f.callno, n |-> f.n]
           \in Datagram
BY PlanFacts, SeenFacts DEF Datagram

(* A frame of the schedule may be sent, now or again; TXREADY at an end that is
   released only when both are. *)
LEMMA FrameSent ==
  ASSUME plan \in Plans, NEW s, SessionInv(s), NEW l \in Legs, NEW f \in Frame, FrameInv(s, l, f),
         l \in Ends /\ s[l].fresh /\ f.cmd = "TXREADY" => BothDirect(s),
         NEW d \in Transmitted(l, s[l], f)
  PROVE  d \in Datagram /\ DatagramInv(s, d)
<1> DEFINE a == IF f.transfer THEN s[l].transfer ELSE s[l].peer
<1>1. PICK h \in Reached(l, a) :
        d = [at |-> h, from |-> Seen(l, h), src |-> Callno(l), dst |-> f.dst, cmd |-> f.cmd,
             oseqno |-> f.oseqno, iseqno |-> f.iseqno, addr |-> f.addr, callno |-> f.callno, n |-> f.n]
  BY DEF Transmitted
<1>2. h \in Hosts
  BY <1>1 DEF Reached
<1>3. d \in Datagram
  <2>1. /\ f.dst \in Nat /\ f.cmd \in Commands \cup {"ACK", "VNAK"} /\ f.oseqno \in Numbers
        /\ f.iseqno \in Numbers /\ f.addr \in Addresses \cup {Nobody} /\ f.callno \in Nat /\ f.n \in Nat
    BY DEF Frame, Commands, Addresses
  <2> HIDE DEF a
  <2> QED BY <1>1, <1>2, <2>1, DatagramType
<1>4. /\ d.at = h /\ d.from = Seen(l, h) /\ d.src = Callno(l) /\ d.dst = f.dst /\ d.cmd = f.cmd
      /\ d.oseqno = f.oseqno /\ d.addr = f.addr /\ d.callno = f.callno
  BY <1>1
<1>5. CASE l \in Bridged
  <2>1. /\ l \notin Ends /\ EndOf(l) \in Ends /\ EndOf(l) # Bridge /\ Seen(l, h) = Bridge
    BY <1>5, Others, SeenFacts
  <2>2. LegInv(s, l) /\ f.cmd \in {"TXREQ", "TXREL"} /\ ~f.transfer
    BY <1>5 DEF SessionInv, FrameInv
  <2>3. h = EndOf(l)
    BY <1>1, <1>5, <2>2, ReachedFacts DEF LegInv
  <2>4. /\ f.cmd = "TXREQ" => Request(h, f)
        /\ f.cmd = "TXREL" => Release(s, h, f)
    BY <1>5, <2>3 DEF FrameInv
  <2>5. /\ d.cmd = "TXREQ" => Request(h, d)
        /\ d.cmd = "TXREL" => Release(s, h, d)
    BY <1>4, <2>4 DEF Request, Release
  <2>6. d.oseqno < Half
    BY <1>4 DEF FrameInv
  <2> HIDE DEF a
  <2> QED BY <1>3, <1>4, <2>1, <2>2, <2>3, <2>5, <2>6 DEF DatagramInv
<1>6. CASE l \in Ends
  <2>1. /\ l # Bridge /\ Other(l) \in Ends /\ Other(l) # Bridge /\ Other(Other(l)) = l
        /\ Seen(l, Bridge) = l /\ Seen(l, Other(l)) # Bridge
    BY <1>6, Others, SeenFacts
  <2>2. /\ f.cmd \in Commands \ {"TXREQ", "TXREL"}
        /\ f.transfer <=> f.cmd \in {"TXCNT", "TXACC", "TXREJ"}
        /\ f.cmd = "TXREJ" => f.oseqno = 0
        /\ f.cmd = "TXREADY" => Agreed(s, l) /\ (f.fresh => BothDirect(s))
        /\ ~f.fresh /\ ~f.transfer => f.dst = Callno(Leg(l))
        /\ f.cmd = "TXACC" => Right(s, Other(l))
        /\ f.fresh => s[l].fresh
        /\ f.oseqno < Half
    BY <1>6 DEF FrameInv
  <2> HIDE DEF a
  <2>3. CASE f.transfer
    <3>1. h = Other(l) /\ Right(s, l)
      BY <1>1, <1>6, <2>3, Addressed DEF a
    <3> QED BY <1>3, <1>4, <2>1, <2>2, <2>3, <3>1 DEF DatagramInv
  <2>4. CASE ~f.transfer /\ s[l].fresh
    <3>1. h = Other(l)
      BY <1>1, <1>6, <2>4, Addressed DEF a
    <3> QED BY <1>3, <1>4, <1>6, <2>1, <2>2, <2>4, <3>1 DEF DatagramInv, Commands
  <2>5. CASE ~f.transfer /\ ~s[l].fresh
    <3>1. h = Bridge
      BY <1>1, <1>6, <2>5, Addressed DEF a
    <3>2. d.from = l /\ f.cmd \in {"data", "TXREADY"} /\ Bridge \notin Ends
      BY <1>4, <2>1, <2>2, <2>5, <3>1, Others DEF Commands
    <3> QED BY <1>3, <1>4, <1>6, <2>1, <2>2, <2>5, <3>1, <3>2 DEF DatagramInv
  <2> QED BY <2>3, <2>4, <2>5
<1> QED BY <1>5, <1>6, Others

(* So may an answer that is not numbered. *)
LEMMA AnswerSent ==
  ASSUME plan \in Plans, NEW s \in [Legs -> Session], SessionInv(s), NEW l \in Legs,
         NEW cmd \in {"ACK", "VNAK"}, NEW z \in Numbers, z < Half,
         NEW d \in Transmitted(l, s[l],
                               [cmd |-> cmd, oseqno |-> z, iseqno |-> s[l].iseqno,
                                dst |-> s[l].peercallno, transfer |-> FALSE, addr |-> Nobody,
                                callno |-> 0, n |-> 0])
  PROVE  d \in Datagram /\ DatagramInv(s, d)
<1> DEFINE f == [cmd |-> cmd, oseqno |-> z, iseqno |-> s[l].iseqno, dst |-> s[l].peercallno,
                 transfer |-> FALSE, addr |-> Nobody, callno |-> 0, n |-> 0]
<1>1. /\ f.cmd = cmd /\ f.oseqno = z /\ ~f.transfer
  OBVIOUS
<1>2. /\ f.dst \in Nat /\ f.cmd \in Commands \cup {"ACK", "VNAK"} /\ f.oseqno \in Numbers
      /\ f.iseqno \in Numbers /\ f.addr \in Addresses \cup {Nobody} /\ f.callno \in Nat /\ f.n \in Nat
  BY DEF Session
<1>3. d \in Transmitted(l, s[l], f)
  OBVIOUS
<1> HIDE DEF f
<1>4. PICK h \in Reached(l, s[l].peer) :
        d = [at |-> h, from |-> Seen(l, h), src |-> Callno(l), dst |-> f.dst, cmd |-> f.cmd,
             oseqno |-> f.oseqno, iseqno |-> f.iseqno, addr |-> f.addr, callno |-> f.callno, n |-> f.n]
  BY <1>1, <1>3 DEF Transmitted
<1>5. h \in Hosts
  BY <1>4 DEF Reached
<1>6. d \in Datagram
  BY <1>2, <1>4, <1>5, DatagramType
<1>7. /\ d.at = h /\ d.from = Seen(l, h) /\ d.src = Callno(l) /\ d.cmd = cmd /\ d.oseqno < Half
  BY <1>1, <1>4
<1>8. CASE l \in Bridged
  <2>1. LegInv(s, l) /\ EndOf(l) \in Ends /\ EndOf(l) # Bridge /\ Seen(l, h) = Bridge
    BY <1>8, Others, SeenFacts DEF SessionInv
  <2>2. h = EndOf(l)
    BY <1>4, <1>8, <2>1, ReachedFacts DEF LegInv
  <2> QED BY <1>6, <1>7, <2>1, <2>2 DEF DatagramInv
<1>9. CASE l \in Ends
  <2>1. /\ l # Bridge /\ Other(l) \in Ends /\ Other(l) # Bridge /\ Other(Other(l)) = l
        /\ Seen(l, Bridge) = l /\ Seen(l, Other(l)) # Bridge /\ Bridge \notin Ends
    BY <1>9, Others, SeenFacts
  <2>2. IF s[l].fresh THEN h = Other(l) ELSE h = Bridge
    BY <1>4, <1>9, Addressed
  <2> QED BY <1>6, <1>7, <1>9, <2>1, <2>2 DEF DatagramInv
<1> QED BY <1>8, <1>9, Others

-----------------------------------------------------------------------------
(* The calls handlers make *)

LEMMA ValueFacts ==
  ASSUME NEW v, Good(v)
  PROVE  /\ v \in Value /\ v.s \in [Legs -> Session] /\ v.q \in [Legs -> SUBSET Frame]
         /\ v.out \subseteq Datagram /\ SessionInv(v.s)
         /\ \A l \in Legs : v.s[l] \in Session /\ v.q[l] \subseteq Frame
         /\ \A l \in Legs : \A f \in v.q[l] : FrameInv(v.s, l, f)
BY DEF Good, Value

(* A value made anew from its parts. *)
LEMMA ValueUpdates ==
  ASSUME NEW v \in Value, NEW l \in Legs, NEW r \in Session, NEW Q \in SUBSET Frame,
         NEW D \in SUBSET Datagram
  PROVE  Updates(v, [s |-> [v.s EXCEPT ![l] = r], q |-> [v.q EXCEPT ![l] = Q], out |-> v.out \cup D],
                 l, r, Q, D)
<1> DEFINE w == [s |-> [v.s EXCEPT ![l] = r], q |-> [v.q EXCEPT ![l] = Q], out |-> v.out \cup D]
<1>1. v.s \in [Legs -> Session] /\ v.q \in [Legs -> SUBSET Frame] /\ v.out \subseteq Datagram
  BY DEF Value
<1>2. w.s = [v.s EXCEPT ![l] = r] /\ w.q = [v.q EXCEPT ![l] = Q] /\ w.out = v.out \cup D
  OBVIOUS
<1>3. w.s \in [Legs -> Session] /\ w.q \in [Legs -> SUBSET Frame] /\ w.out \subseteq Datagram
  BY <1>1, <1>2
<1>4. w \in Value
  BY <1>3 DEF Value
<1>5. w.s[l] = r /\ w.q[l] = Q
  BY <1>1, <1>2
<1>6. \A k \in Legs \ {l} : w.s[k] = v.s[k] /\ w.q[k] = v.q[k]
  BY <1>1, <1>2
<1> HIDE DEF w
<1>7. Updates(v, w, l, r, Q, D)
  BY <1>2, <1>4, <1>5, <1>6 DEF Updates
<1> QED BY <1>7 DEF w

LEMMA ScheduledSteady ==
  ASSUME plan \in Plans, net \subseteq Datagram, NEW v, Good(v), NEW l \in Legs, NEW f \in Frame,
         FrameInv(v.s, l, f), l \in Ends /\ v.s[l].fresh /\ f.cmd = "TXREADY" => BothDirect(v.s)
  PROVE  Steady(v, Scheduled(v, l, f), {})
<1> DEFINE r == [v.s[l] EXCEPT !.aseqno = v.s[l].iseqno]
           Q == v.q[l] \cup {f}
           D == Transmitted(l, v.s[l], f)
           w == [s |-> [v.s EXCEPT ![l] = r], q |-> [v.q EXCEPT ![l] = Q], out |-> v.out \cup D]
<1>1. v \in Value /\ v.s[l] \in Session /\ v.q[l] \subseteq Frame /\ SessionInv(v.s)
      /\ \A g \in v.q[l] : FrameInv(v.s, l, g)
  BY ValueFacts
<1>2. r \in Session /\ Q \in SUBSET Frame
  BY <1>1 DEF Session
<1>3. \A d \in D : d \in Datagram /\ DatagramInv(v.s, d)
  BY <1>1, FrameSent
<1>4. Alike(v.s[l], r) /\ Counts(v.s[l], r) /\ r.oseqno = v.s[l].oseqno
  BY <1>1 DEF Session, Alike, Counts
<1>5. Scheduled(v, l, f) = w
  BY DEF Scheduled
<1>6. D \in SUBSET Datagram
  BY <1>3
<1>7. \A g \in Q : FrameInv(v.s, l, g)
  BY <1>1
<1> HIDE DEF r, Q, D
<1>8. Updates(v, w, l, r, Q, D)
  BY <1>1, <1>2, <1>6, ValueUpdates
<1> HIDE DEF w
<1>9. Steady(v, w, {})
  BY <1>1, <1>3, <1>4, <1>6, <1>7, <1>8, UpdateSteady
<1> QED BY <1>5, <1>9

LEMMA NumberedSteady ==
  ASSUME plan \in Plans, net \subseteq Datagram, NEW v, Good(v), NEW l \in Legs,
         v.s[l].oseqno < Half, NEW cmd \in Commands \ {"TXCNT", "TXACC", "TXREJ"},
         NEW addr \in Addresses \cup {Nobody}, NEW callno \in Nat, NEW n \in Nat,
         l \in Ends => /\ cmd \in {"data", "TXREADY"}
                       /\ cmd = "TXREADY" => Agreed(v.s, l) /\ (v.s[l].fresh => BothDirect(v.s)),
         l \in Bridged => \/ cmd = "TXREQ" /\ addr = Other(EndOf(l)) /\ v.s[l].oseqno = 1
                          \/ /\ cmd = "TXREL" /\ BothAgreed(v.s)
                             /\ Harmless => callno = Callno(Other(EndOf(l)))
  PROVE  Steady(v, Numbered(v, l, cmd, addr, callno, n), {l})
<1> DEFINE s == v.s[l]
           f == [cmd |-> cmd, oseqno |-> s.oseqno, iseqno |-> s.iseqno, dst |-> s.peercallno,
                 transfer |-> FALSE, addr |-> addr, callno |-> callno, n |-> n, live |-> TRUE,
                 fresh |-> s.fresh]
           r == [s EXCEPT !.oseqno = Succ(s.oseqno)]
           u == [v EXCEPT !.s[l].oseqno = Succ(@)]
           z == {}
<1>1. v \in Value /\ s \in Session /\ SessionInv(v.s) /\ v.q[l] \subseteq Frame
      /\ v.s \in [Legs -> Session] /\ v.q \in [Legs -> SUBSET Frame] /\ v.out \subseteq Datagram
      /\ \A g \in v.q[l] : FrameInv(v.s, l, g)
  BY ValueFacts
<1>2. r \in Session /\ Alike(s, r) /\ Counts(s, r)
  BY <1>1, NumberFacts DEF Session, Alike, Counts
<1>3. Updates(v, u, l, r, v.q[l], z)
  <2>1. u.s = [v.s EXCEPT ![l] = r] /\ u.q = v.q /\ u.out = v.out
    BY <1>1 DEF Value
  <2>2. u \in Value
    <3>1. u.s \in [Legs -> Session]
      BY <1>1, <1>2, <2>1
    <3>2. u = [s |-> u.s, q |-> u.q, out |-> u.out]
      BY <1>1 DEF Value
    <3> QED BY <1>1, <2>1, <3>1, <3>2 DEF Value
  <2>3. u.s[l] = r /\ \A k \in Legs \ {l} : u.s[k] = v.s[k]
    BY <1>1, <2>1
  <2> QED BY <2>1, <2>2, <2>3 DEF Updates
<1>4. Steady(v, u, {l})
  <2>1. \A d \in z : DatagramInv(v.s, d)
    OBVIOUS
  <2>2. z \subseteq Datagram
    OBVIOUS
  <2> HIDE DEF r, u, z
  <2> QED BY <1>1, <1>2, <1>3, <2>1, <2>2, UpdateSteady
<1>5. f \in Frame
  BY <1>1 DEF Frame, Session, Commands, Addresses
<1>6. FrameInv(v.s, l, f)
  <2>1. /\ f.cmd = cmd /\ f.oseqno = v.s[l].oseqno /\ f.dst = v.s[l].peercallno /\ ~f.transfer
        /\ f.addr = addr /\ f.callno = callno /\ f.live /\ f.fresh = v.s[l].fresh
    BY <1>1 DEF Session
  <2> HIDE DEF f
  <2>2. CASE l \in Ends
    <3>1. ~v.s[l].fresh => v.s[l].peercallno = Callno(Leg(l))
      BY <1>1, <2>2 DEF SessionInv, EndInv
    <3>2. l \notin Bridged /\ cmd \in {"data", "TXREADY"}
      BY <2>2, Others
    <3> QED BY <2>1, <2>2, <3>1, <3>2 DEF FrameInv, Commands
  <2>3. CASE l \in Bridged
    <3>1. l \notin Ends /\ ~v.s[l].fresh
      BY <1>1, <2>3, Others DEF SessionInv, LegInv
    <3> QED BY <2>1, <2>3, <3>1 DEF FrameInv, Request, Release
  <2> QED BY <2>2, <2>3, Others
<1>7. Onward(v.s, u.s) /\ u.s[l].fresh = v.s[l].fresh /\ (BothDirect(v.s) <=> BothDirect(u.s))
  BY <1>4, AlikeOnward DEF Steady, Alike
<1>8. f.cmd = cmd
  OBVIOUS
<1>9. Numbered(v, l, cmd, addr, callno, n) = Scheduled(u, l, f)
  BY DEF Numbered
<1> HIDE DEF f, r, u
<1>10. FrameInv(u.s, l, f)
  BY <1>6, <1>7, FrameOnward
<1>11. Good(u)
  BY <1>4 DEF Steady
<1>12. Steady(u, Scheduled(u, l, f), {})
  BY <1>5, <1>7, <1>8, <1>10, <1>11, ScheduledSteady
<1> QED BY <1>4, <1>9, <1>12, SteadySteady

LEMMA ToTransferSteady ==
  ASSUME plan \in Plans, net \subseteq Datagram, NEW v, Good(v), NEW l \in Ends,
         NEW cmd \in {"TXCNT", "TXACC", "TXREJ"}, cmd = "TXACC" => Right(v.s, Other(l))
  PROVE  Steady(v, ToTransfer(v, l, cmd), {})
<1> DEFINE f == [cmd |-> cmd, oseqno |-> 0, iseqno |-> 0, dst |-> v.s[l].transfercallno,
                 transfer |-> TRUE, addr |-> Nobody, callno |-> 0, n |-> 0, live |-> TRUE,
                 fresh |-> v.s[l].fresh]
<1>1. v.s[l] \in Session /\ l \in Legs /\ l \notin Bridged
  BY ValueFacts, Others
<1>2. f \in Frame
  BY <1>1, NumberFacts DEF Frame, Session
<1>3. /\ f.cmd = cmd /\ f.oseqno = 0 /\ f.transfer = TRUE /\ f.live /\ f.fresh = v.s[l].fresh
  OBVIOUS
<1>4. ToTransfer(v, l, cmd) = Scheduled(v, l, f)
  BY DEF ToTransfer
<1>5. 0 < Half /\ v.s[l].fresh \in BOOLEAN
  BY <1>1, NumbersAssumption DEF Session
<1> HIDE DEF f
<1>6. FrameInv(v.s, l, f)
  BY <1>1, <1>3, <1>5 DEF FrameInv, Commands
<1>7. Steady(v, Scheduled(v, l, f), {})
  BY <1>1, <1>2, <1>3, <1>6, ScheduledSteady
<1> QED BY <1>4, <1>7

(* A value of which parts are replaced. *)
LEMMA ExceptUpdates ==
  ASSUME NEW v \in Value, NEW l \in Legs, NEW r \in Session, NEW Q \in SUBSET Frame,
         NEW D \in SUBSET Datagram, NEW w,
         w = [s |-> w.s, q |-> w.q, out |-> w.out],
         w.s = [v.s EXCEPT ![l] = r], w.q = [v.q EXCEPT ![l] = Q], w.out = v.out \cup D
  PROVE  Updates(v, w, l, r, Q, D)
<1>1. w = [s |-> [v.s EXCEPT ![l] = r], q |-> [v.q EXCEPT ![l] = Q], out |-> v.out \cup D]
  OBVIOUS
<1>2. Updates(v, [s |-> [v.s EXCEPT ![l] = r], q |-> [v.q EXCEPT ![l] = Q], out |-> v.out \cup D],
              l, r, Q, D)
  BY ValueUpdates
<1> QED BY <1>1, <1>2

LEMMA ImmediateSteady ==
  ASSUME plan \in Plans, net \subseteq Datagram, NEW v, Good(v), NEW l \in Legs,
         NEW cmd \in {"ACK", "VNAK"}
  PROVE  Steady(v, Immediate(v, l, cmd), {})
<1> DEFINE x == v.s[l]
           z == 0
           r == [x EXCEPT !.aseqno = x.iseqno]
           f == [cmd |-> cmd, oseqno |-> z, iseqno |-> x.iseqno, dst |-> x.peercallno,
                 transfer |-> FALSE, addr |-> Nobody, callno |-> 0, n |-> 0]
           D == Transmitted(l, x, f)
           w == Immediate(v, l, cmd)
<1>1. /\ v \in Value /\ x \in Session /\ SessionInv(v.s) /\ v.q[l] \subseteq Frame
      /\ v.s \in [Legs -> Session] /\ v.q \in [Legs -> SUBSET Frame]
      /\ \A g \in v.q[l] : FrameInv(v.s, l, g)
  BY ValueFacts
<1>2. r \in Session /\ Alike(x, r) /\ Counts(x, r) /\ r.oseqno = x.oseqno
  BY <1>1 DEF Session, Alike, Counts
<1>3. z \in Numbers /\ z < Half
  BY NumberFacts, NumbersAssumption
<1>4. w.s = [v.s EXCEPT ![l] = r] /\ w.q = v.q /\ w.out = v.out \cup D
      /\ w = [s |-> w.s, q |-> w.q, out |-> w.out]
  <2>1. w = [v EXCEPT !.s[l].aseqno = v.s[l].iseqno, !.out = @ \cup D]
    BY DEF Immediate
  <2> HIDE DEF D, w
  <2> QED BY <1>1, <2>1 DEF Value
<1>5. \A d \in D : d \in Datagram /\ DatagramInv(v.s, d)
  <2> HIDE DEF z
  <2> QED BY <1>1, <1>3, AnswerSent
<1>6. w.q = [v.q EXCEPT ![l] = v.q[l]]
  BY <1>1, <1>4
<1>7. D \in SUBSET Datagram /\ v.q[l] \in SUBSET Frame
  BY <1>1, <1>5
<1> HIDE DEF w, r, D
<1>8. Updates(v, w, l, r, v.q[l], D)
  BY <1>1, <1>2, <1>4, <1>6, <1>7, ExceptUpdates
<1>9. Steady(v, w, {})
  BY <1>1, <1>2, <1>5, <1>7, <1>8, UpdateSteady
<1> QED BY <1>9 DEF w

(* Frames that are not sent again, and those that still are. *)
LEMMA Dead ==
  ASSUME NEW s, NEW l \in Legs, NEW f \in Frame, FrameInv(s, l, f)
  PROVE  [f EXCEPT !.live = FALSE] \in Frame /\ FrameInv(s, l, [f EXCEPT !.live = FALSE])
<1>1. Onward(s, s)
  BY DEF Onward
<1> QED BY <1>1, DeadFrame

LEMMA StopSteady ==
  ASSUME plan \in Plans, net \subseteq Datagram, NEW v, Good(v), NEW l \in Legs
  PROVE  Steady(v, StopTransfer(v, l), {})
<1> DEFINE x == v.s[l]
           Q == {[f EXCEPT !.live = FALSE] : f \in v.q[l]}
           D == {}
           w == StopTransfer(v, l)
<1>1. /\ v \in Value /\ x \in Session /\ v.q[l] \subseteq Frame
      /\ v.s \in [Legs -> Session] /\ v.q \in [Legs -> SUBSET Frame]
      /\ \A g \in v.q[l] : FrameInv(v.s, l, g)
  BY ValueFacts
<1>2. \A g \in Q : g \in Frame /\ FrameInv(v.s, l, g)
  BY <1>1, Dead
<1>3. w.s = v.s /\ w.q = [v.q EXCEPT ![l] = Q] /\ w.out = v.out \cup D
      /\ w = [s |-> w.s, q |-> w.q, out |-> w.out]
  <2>1. w = [v EXCEPT !.q[l] = Q]
    BY DEF StopTransfer
  <2> HIDE DEF Q, w
  <2> QED BY <1>1, <2>1 DEF Value
<1>4. w.s = [v.s EXCEPT ![l] = x]
  BY <1>1, <1>3
<1>5. Alike(x, x) /\ Counts(x, x)
  BY DEF Alike, Counts
<1>6. D \in SUBSET Datagram /\ Q \in SUBSET Frame /\ \A d \in D : DatagramInv(v.s, d)
  BY <1>2
<1> HIDE DEF w, x, Q, D
<1>7. Updates(v, w, l, x, Q, D)
  BY <1>1, <1>3, <1>4, <1>6, ExceptUpdates
<1>8. Steady(v, w, {})
  BY <1>1, <1>2, <1>5, <1>6, <1>7, UpdateSteady DEF x
<1> QED BY <1>8 DEF w

LEMMA AcknowledgedSteady ==
  ASSUME plan \in Plans, net \subseteq Datagram, NEW v, Good(v), NEW l \in Legs, NEW d \in Datagram
  PROVE  Steady(v, Acknowledged(v, l, d), {})
<1> DEFINE x == v.s[l]
           new == x.peer = d.from /\ Minus(d.iseqno, x.rseqno) <= Minus(x.oseqno, x.rseqno)
           r == [x EXCEPT !.rseqno = d.iseqno]
           done(f) == Minus(f.oseqno, x.rseqno) < Minus(d.iseqno, x.rseqno)
           Q == {IF done(f) THEN [f EXCEPT !.live = FALSE] ELSE f : f \in v.q[l]}
           D == {}
           w == [v EXCEPT !.s[l].rseqno = d.iseqno, !.q[l] = Q]
<1>1. /\ v \in Value /\ x \in Session /\ v.q[l] \subseteq Frame
      /\ v.s \in [Legs -> Session] /\ v.q \in [Legs -> SUBSET Frame]
      /\ \A g \in v.q[l] : FrameInv(v.s, l, g)
  BY ValueFacts
<1>2. r \in Session /\ Alike(x, r) /\ Counts(x, r) /\ r.oseqno = x.oseqno
  BY <1>1 DEF Session, Alike, Counts, Datagram
<1>3. \A g \in Q : g \in Frame /\ FrameInv(v.s, l, g)
  BY <1>1, Dead
<1>4. w.s = [v.s EXCEPT ![l] = r] /\ w.q = [v.q EXCEPT ![l] = Q] /\ w.out = v.out \cup D
      /\ w = [s |-> w.s, q |-> w.q, out |-> w.out]
  <2> HIDE DEF Q
  <2> DEFINE z == d.iseqno
  <2> HIDE DEF z
  <2>1. w.q = [v.q EXCEPT ![l] = Q]
    BY <1>1 DEF Value
  <2>2. w.s = [v.s EXCEPT ![l] = r]
    BY <1>1 DEF Value
  <2>3. w.out = v.out
    BY <1>1 DEF Value
  <2>4. w = [s |-> w.s, q |-> w.q, out |-> w.out]
    <3> DEFINE u == [v EXCEPT !.s[l].rseqno = z]
    <3>1. u = [s |-> u.s, q |-> u.q, out |-> u.out]
      BY <1>1 DEF Value
    <3>2. w = [u EXCEPT !.q[l] = Q]
      BY DEF z
    <3> HIDE DEF u, w
    <3> QED BY <3>1, <3>2
  <2> HIDE DEF w, r
  <2> QED BY <2>1, <2>2, <2>3, <2>4
<1>5. Acknowledged(v, l, d) = IF new THEN w ELSE v
  BY DEF Acknowledged
<1>6. D \in SUBSET Datagram /\ Q \in SUBSET Frame /\ \A e \in D : DatagramInv(v.s, e)
  BY <1>3
<1>7. Steady(v, v, {})
  BY DEF Steady, Alike
<1> HIDE DEF w, r, Q, D, new
<1>8. Updates(v, w, l, r, Q, D)
  BY <1>1, <1>2, <1>4, <1>6, ExceptUpdates
<1>9. Steady(v, w, {})
  BY <1>1, <1>2, <1>3, <1>6, <1>8, UpdateSteady
<1> QED BY <1>5, <1>7, <1>9

LEMMA CountedSteady ==
  ASSUME plan \in Plans, net \subseteq Datagram, NEW v, Good(v), NEW l \in Legs,
         NEW d \in Datagram, d.oseqno < Half
  PROVE  /\ Steady(v, Counted(v, l, d), {})
         /\ InSequence(v.s[l], d) /\ d.cmd \notin Unnumbered
              => Counted(v, l, d).s[l].iseqno = Succ(v.s[l].iseqno)
<1> DEFINE x == v.s[l]
           new == InSequence(x, d) /\ d.cmd \notin Unnumbered
           r == [x EXCEPT !.iseqno = Succ(x.iseqno)]
           D == {}
           w == [v EXCEPT !.s[l].iseqno = Succ(@)]
<1>1. /\ v \in Value /\ x \in Session /\ v.q[l] \in SUBSET Frame
      /\ v.s \in [Legs -> Session] /\ v.q \in [Legs -> SUBSET Frame]
      /\ \A g \in v.q[l] : FrameInv(v.s, l, g)
  BY ValueFacts
<1>2. r \in Session /\ Alike(x, r) /\ r.oseqno = x.oseqno /\ r.iseqno = Succ(x.iseqno)
  BY <1>1, NumberFacts DEF Session, Alike
<1>3. ASSUME new
      PROVE  Counts(x, r)
  <2>1. x.iseqno \in Numbers /\ d.oseqno \in Numbers /\ x.iseqno \in Nat /\ Half \in Nat /\ 0 < Half
    BY <1>1, NumberFacts, NumbersAssumption DEF Session, Datagram
  <2>2. x.iseqno < Half
    BY <1>3, <2>1 DEF InSequence
  <2>3. r.iseqno = x.iseqno + 1
    BY <1>2, <2>1, <2>2, NumberFacts
  <2> QED BY <2>1, <2>2, <2>3 DEF Counts
<1>4. w.s = [v.s EXCEPT ![l] = r] /\ w.q = v.q /\ w.out = v.out \cup D
      /\ w = [s |-> w.s, q |-> w.q, out |-> w.out]
  BY <1>1 DEF Value
<1>5. w.q = [v.q EXCEPT ![l] = v.q[l]]
  BY <1>1, <1>4
<1>6. Counted(v, l, d) = IF new THEN w ELSE v
  BY DEF Counted
<1>7. D \in SUBSET Datagram /\ \A e \in D : DatagramInv(v.s, e)
  OBVIOUS
<1>8. Steady(v, v, {})
  BY DEF Steady, Alike
<1> HIDE DEF w, r, D, new
<1>9. Updates(v, w, l, r, v.q[l], D)
  BY <1>1, <1>2, <1>4, <1>5, <1>7, ExceptUpdates
<1>10. new => Steady(v, w, {})
  BY <1>1, <1>2, <1>3, <1>7, <1>9, UpdateSteady
<1>11. w.s[l].iseqno = Succ(v.s[l].iseqno)
  BY <1>1, <1>2, <1>4
<1> QED BY <1>6, <1>8, <1>10, <1>11 DEF new

(* All that is in the schedule may be sent again when both ends are released, or
   the session is not. *)
LEMMA ResentSteady ==
  ASSUME plan \in Plans, net \subseteq Datagram, NEW v, Good(v), NEW l \in Legs, NEW d \in Datagram,
         l \in Ends /\ v.s[l].fresh => BothDirect(v.s)
  PROVE  Steady(v, Resent(v, l, d), {})
<1> DEFINE x == v.s[l]
           old == {g \in v.q[l] : Minus(d.iseqno, x.rseqno) <= Minus(g.oseqno, x.rseqno)}
           D == UNION {Transmitted(l, x, f) : f \in old}
           w == Resent(v, l, d)
<1>1. /\ v \in Value /\ x \in Session /\ SessionInv(v.s) /\ v.q[l] \in SUBSET Frame
      /\ v.s \in [Legs -> Session] /\ v.q \in [Legs -> SUBSET Frame]
      /\ \A g \in v.q[l] : FrameInv(v.s, l, g)
  BY ValueFacts
<1>2. \A e \in D : e \in Datagram /\ DatagramInv(v.s, e)
  <2> TAKE e \in D
  <2>1. PICK f \in v.q[l] : e \in Transmitted(l, v.s[l], f)
    OBVIOUS
  <2>2. f \in Frame /\ FrameInv(v.s, l, f)
    BY <1>1
  <2> QED BY <1>1, <2>1, <2>2, FrameSent
<1>3. w = [v EXCEPT !.out = @ \cup D]
  BY DEF Resent
<1> HIDE DEF w, D
<1>4. w.s = v.s /\ w.q = v.q /\ w.out = v.out \cup D /\ w = [s |-> w.s, q |-> w.q, out |-> w.out]
  BY <1>1, <1>3 DEF Value
<1>5. w.s = [v.s EXCEPT ![l] = x] /\ w.q = [v.q EXCEPT ![l] = v.q[l]]
  BY <1>1, <1>4
<1>6. Alike(x, x) /\ Counts(x, x) /\ D \in SUBSET Datagram
  BY <1>2 DEF Alike, Counts
<1> HIDE DEF x
<1>7. Updates(v, w, l, x, v.q[l], D)
  BY <1>1, <1>4, <1>5, <1>6, ExceptUpdates
<1>8. Steady(v, w, {})
  BY <1>1, <1>2, <1>6, <1>7, UpdateSteady DEF x
<1> QED BY <1>8 DEF w

LEMMA MissingSteady ==
  ASSUME plan \in Plans, net \subseteq Datagram, NEW v, Good(v), NEW l \in Legs
  PROVE  Steady(v, Missing(v, l), {})
<1> DEFINE x == v.s[l]
           r == [x EXCEPT !.lastvnak = x.iseqno]
           D == {}
           u == [v EXCEPT !.s[l].lastvnak = v.s[l].iseqno]
<1>1. /\ v \in Value /\ x \in Session /\ SessionInv(v.s) /\ v.q[l] \in SUBSET Frame
      /\ v.s \in [Legs -> Session] /\ v.q \in [Legs -> SUBSET Frame]
      /\ \A g \in v.q[l] : FrameInv(v.s, l, g)
  BY ValueFacts
<1>2. r \in Session /\ Alike(x, r) /\ Counts(x, r) /\ r.oseqno = x.oseqno
  BY <1>1 DEF Session, Alike, Counts
<1>3. u.s = [v.s EXCEPT ![l] = r] /\ u.q = v.q /\ u.out = v.out \cup D
      /\ u = [s |-> u.s, q |-> u.q, out |-> u.out]
  BY <1>1 DEF Value
<1>4. u.q = [v.q EXCEPT ![l] = v.q[l]]
  BY <1>1, <1>3
<1>5. D \in SUBSET Datagram /\ \A e \in D : DatagramInv(v.s, e)
  OBVIOUS
<1>6. Steady(v, v, {})
  BY DEF Steady, Alike
<1>7. \/ Missing(v, l) = v
      \/ Missing(v, l) = Immediate(u, l, "VNAK")
  BY DEF Missing
<1> HIDE DEF u, r, D
<1>8. Updates(v, u, l, r, v.q[l], D)
  BY <1>1, <1>2, <1>3, <1>4, <1>5, ExceptUpdates
<1>9. Steady(v, u, {})
  BY <1>1, <1>2, <1>5, <1>8, UpdateSteady
<1>10. Good(u)
  BY <1>9 DEF Steady
<1>11. Steady(u, Immediate(u, l, "VNAK"), {})
  BY <1>10, ImmediateSteady
<1>12. Steady(v, Immediate(u, l, "VNAK"), {} \cup {})
  BY <1>9, <1>11, SteadySteady
<1> QED BY <1>6, <1>7, <1>12

LEMMA AnsweredSteady ==
  ASSUME plan \in Plans, net \subseteq Datagram, NEW v, Good(v), NEW l \in Legs
  PROVE  Steady(v, Answered(v, l), {}) /\ Steady(v, Repeated(v, l), {})
<1>1. Steady(v, v, {})
  BY DEF Steady, Alike
<1>2. Steady(v, Immediate(v, l, "ACK"), {})
  BY ImmediateSteady
<1> QED BY <1>1, <1>2 DEF Answered, Repeated

-----------------------------------------------------------------------------
(* The handlers *)

(* What a handler of the session l may do to the ends. *)
Goes(v, w, l) ==
  /\ Good(w) /\ Onward(v.s, w.s)
  /\ \A e \in Ends \ {l} : Alike(v.s[e], w.s[e])
  /\ \A e \in Ends : w.s[e].fresh => v.s[e].fresh \/ BothAgreed(v.s)

LEMMA SteadyGoes ==
  ASSUME NEW v, NEW w, NEW K, NEW l, Steady(v, w, K)
  PROVE  Goes(v, w, l)
<1>1. \A k \in Legs : Alike(v.s[k], w.s[k])
  BY DEF Steady
<1>2. Onward(v.s, w.s)
  BY <1>1, AlikeOnward
<1>3. \A e \in Ends : w.s[e].fresh = v.s[e].fresh /\ Alike(v.s[e], w.s[e])
  BY <1>1, Others DEF Alike
<1> QED BY <1>2, <1>3 DEF Goes, Steady

LEMMA GoesGoes ==
  ASSUME NEW u, NEW v, NEW w, NEW l, Goes(u, v, l), Goes(v, w, l),
         (BothAgreed(v.s) => BothAgreed(u.s)) \/ \A e \in Ends : w.s[e].fresh => v.s[e].fresh
  PROVE  Goes(u, w, l)
<1>1. Onward(u.s, w.s)
  BY DEF Goes, Onward
<1>2. \A e \in Ends \ {l} : Alike(u.s[e], w.s[e])
  BY DEF Goes, Alike
<1>3. \A e \in Ends : w.s[e].fresh => u.s[e].fresh \/ BothAgreed(u.s)
  BY DEF Goes
<1> QED BY <1>1, <1>2, <1>3 DEF Goes

LEMMA SteadyThenGoes ==
  ASSUME NEW u, NEW v, NEW w, NEW K, NEW l, Steady(u, v, K), Goes(v, w, l)
  PROVE  Goes(u, w, l)
<1>1. Goes(u, v, l)
  BY SteadyGoes
<1>2. BothAgreed(v.s) => BothAgreed(u.s)
  BY AlikeOnward DEF Steady
<1> QED BY <1>1, <1>2, GoesGoes

LEMMA GoesThenSteady ==
  ASSUME NEW u, NEW v, NEW w, NEW K, NEW l, Goes(u, v, l), Steady(v, w, K)
  PROVE  Goes(u, w, l)
<1>1. Goes(v, w, l)
  BY SteadyGoes
<1>2. \A e \in Ends : w.s[e].fresh => v.s[e].fresh
  BY Others DEF Steady, Alike
<1> QED BY <1>1, <1>2, GoesGoes

(* One end changes, or one of the bridge's sessions. *)
LEMMA EndChange ==
  ASSUME NEW s, NEW t, NEW e \in Ends, \A k \in Legs \ {e} : t[k] = s[k],
         SessionInv(s), Onward(s, t), EndInv(t, e)
  PROVE  SessionInv(t)
<1>1. ASSUME NEW o \in Ends
      PROVE  EndInv(t, o)
  <2>1. CASE o = e
    BY <2>1
  <2>2. CASE o # e
    <3>1. o = Other(e) /\ t[o] = s[o] /\ Other(o) = e
      BY <2>2, Others
    <3>2. EndInv(s, o)
      BY DEF SessionInv
    <3>3. /\ Agreed(s, o) <=> Agreed(t, o)
          /\ Right(s, o) <=> Right(t, o)
      BY <3>1 DEF Agreed, Right
    <3>4. /\ Agreed(s, Other(o)) => Agreed(t, Other(o))
          /\ BothDirect(s) => BothDirect(t)
      BY Others, OnwardBoth DEF Onward
    <3> QED BY <3>1, <3>2, <3>3, <3>4 DEF EndInv
  <2> QED BY <2>1, <2>2
<1>2. ASSUME NEW l \in Bridged
      PROVE  LegInv(t, l)
  <2>1. \A k \in Bridged : t[k] = s[k]
    BY Others
  <2>2. Agreed(s, EndOf(l)) => Agreed(t, EndOf(l))
    BY Others DEF Onward
  <2>3. LegInv(s, l)
    BY DEF SessionInv
  <2> QED BY <2>1, <2>2, <2>3 DEF LegInv
<1> QED BY <1>1, <1>2 DEF SessionInv

LEMMA LegChange ==
  ASSUME NEW s, NEW t, NEW l \in Bridged, \A k \in Legs \ {l} : t[k] = s[k],
         SessionInv(s), LegInv(t, l), s[l].transferring = "REL" => t[l].transferring = "REL"
  PROVE  /\ SessionInv(t) /\ Onward(s, t) /\ \A e \in Ends : t[e] = s[e]
         /\ BothAgreed(t) <=> BothAgreed(s)
<1>1. \A e \in Ends : t[e] = s[e]
  BY Others
<1>2. \A e \in Ends : (Agreed(t, e) <=> Agreed(s, e)) /\ (Right(t, e) <=> Right(s, e))
  BY <1>1 DEF Agreed, Right
<1>3. (BothAgreed(t) <=> BothAgreed(s)) /\ (BothDirect(t) <=> BothDirect(s)) /\ Onward(s, t)
  BY <1>1, <1>2 DEF BothAgreed, BothDirect, Onward
<1>4. ASSUME NEW e \in Ends
      PROVE  EndInv(t, e)
  <2>1. EndInv(s, e) /\ Other(e) \in Ends
    BY Others DEF SessionInv
  <2> QED BY <1>1, <1>2, <1>3, <2>1 DEF EndInv
<1>5. ASSUME NEW k \in Bridged
      PROVE  LegInv(t, k)
  <2>1. CASE k = l
    BY <2>1
  <2>2. CASE k # l
    <3>1. t[k] = s[k] /\ LegInv(s, k) /\ EndOf(k) \in Ends
      BY <2>2, Others DEF SessionInv
    <3>2. \A j \in Bridged : s[j].transferring = "REL" => t[j].transferring = "REL"
      BY Others
    <3> QED BY <1>2, <3>1, <3>2 DEF LegInv
  <2> QED BY <2>1, <2>2
<1> QED BY <1>1, <1>3, <1>4, <1>5 DEF SessionInv

LEMMA EndGoes ==
  ASSUME net \subseteq Datagram, NEW v, NEW w, NEW e \in Ends, NEW r, NEW Q, NEW D, D = {}, Good(v),
         Updates(v, w, e, r, Q, D), EndInv(w.s, e), Onward(v.s, w.s),
         \A f \in Q : FrameInv(w.s, e, f), r.fresh => v.s[e].fresh \/ BothAgreed(v.s)
  PROVE  Goes(v, w, e)
<1>1. e \in Legs /\ SessionInv(v.s)
  BY Others, ValueFacts
<1>2. \A k \in Legs \ {e} : w.s[k] = v.s[k]
  BY DEF Updates
<1>3. SessionInv(w.s)
  BY <1>1, <1>2, EndChange
<1>4. Good(w)
  BY <1>1, <1>3, UpdateGood
<1>5. \A k \in Ends \ {e} : w.s[k] = v.s[k]
  BY <1>2, Others
<1>6. w.s[e].fresh => v.s[e].fresh \/ BothAgreed(v.s)
  BY DEF Updates
<1> QED BY <1>4, <1>5, <1>6 DEF Goes, Alike

LEMMA LegGoes ==
  ASSUME net \subseteq Datagram, NEW v, NEW w, NEW l \in Bridged, NEW r, NEW Q, NEW D, D = {}, Good(v),
         Updates(v, w, l, r, Q, D), LegInv(w.s, l), v.s[l].transferring = "REL" => r.transferring = "REL",
         \A f \in Q : FrameInv(v.s, l, f)
  PROVE  Goes(v, w, l)
<1>1. l \in Legs /\ SessionInv(v.s)
  BY Others, ValueFacts
<1>2. (\A k \in Legs \ {l} : w.s[k] = v.s[k]) /\ w.s[l] = r
  BY DEF Updates
<1>3. SessionInv(w.s) /\ Onward(v.s, w.s) /\ \A e \in Ends : w.s[e] = v.s[e]
  BY <1>1, <1>2, LegChange
<1>4. w.s[l].fresh = v.s[l].fresh
  <2>1. ~v.s[l].fresh /\ ~w.s[l].fresh
    BY <1>1, <1>3 DEF SessionInv, LegInv
  <2>2. v.s[l] \in Session /\ w.s[l] \in Session
    BY <1>1, ValueFacts DEF Updates, Value
  <2> QED BY <2>1, <2>2 DEF Session
<1>5. \A f \in Q : FrameInv(w.s, l, f)
  BY <1>1, <1>3, <1>4, FrameOnward
<1>6. Good(w)
  BY <1>1, <1>3, <1>5, UpdateGood
<1> QED BY <1>3, <1>6 DEF Goes, Alike

LEMMA TxReqGoes ==
  ASSUME plan \in Plans, net \subseteq Datagram, NEW v, Good(v), NEW l \in Ends, NEW d \in Datagram,
         ~v.s[l].fresh, v.s[l].transferring = "NONE", v.s[l].iseqno >= 2, d.addr = Other(l)
  PROVE  Goes(v, TxReq(v, l, d), l)
<1> DEFINE x == v.s[l]
           r == [x EXCEPT !.transfer = d.addr, !.transfercallno = d.callno, !.transferring = "BEGIN"]
           D == {}
           u == [v EXCEPT !.s[l] = [@ EXCEPT !.transfer = d.addr, !.transfercallno = d.callno,
                                             !.transferring = "BEGIN"]]
<1>1. /\ v \in Value /\ x \in Session /\ SessionInv(v.s) /\ v.q[l] \in SUBSET Frame
      /\ v.s \in [Legs -> Session] /\ v.q \in [Legs -> SUBSET Frame] /\ l \in Legs
      /\ \A g \in v.q[l] : FrameInv(v.s, l, g)
  BY ValueFacts, Others
<1>2. /\ r \in Session /\ r.transfer = Other(l) /\ r.transferring = "BEGIN" /\ r.fresh = x.fresh
      /\ r.peer = x.peer /\ r.peercallno = x.peercallno /\ r.iseqno = x.iseqno
      /\ r.transferpeer = x.transferpeer
  BY <1>1 DEF Session, Datagram
<1>3. u.s = [v.s EXCEPT ![l] = r] /\ u.q = v.q /\ u.out = v.out \cup D
      /\ u = [s |-> u.s, q |-> u.q, out |-> u.out]
  BY <1>1 DEF Value
<1>4. u.q = [v.q EXCEPT ![l] = v.q[l]]
  BY <1>1, <1>3
<1>5. D \in SUBSET Datagram /\ D = {}
  OBVIOUS
<1>6. TxReq(v, l, d) = ToTransfer(u, l, "TXCNT")
  BY DEF TxReq
<1> HIDE DEF u, r, D
<1>7. Updates(v, u, l, r, v.q[l], D)
  BY <1>1, <1>2, <1>3, <1>4, <1>5, ExceptUpdates
<1>8. u.s[l] = r /\ \A k \in Legs \ {l} : u.s[k] = v.s[k]
  BY <1>7 DEF Updates
<1>9. Onward(v.s, u.s) /\ u.s[l].fresh = v.s[l].fresh
  <2>1. ASSUME NEW e \in Ends
        PROVE  /\ v.s[e].fresh => u.s[e].fresh
               /\ Agreed(v.s, e) => Agreed(u.s, e)
               /\ Right(v.s, e) => Right(u.s, e)
    <3>1. CASE e = l
      BY <1>2, <1>8, <3>1 DEF Agreed, Right
    <3>2. CASE e # l
      <4>1. u.s[e] = v.s[e]
        BY <1>8, <3>2, Others
      <4> QED BY <4>1 DEF Agreed, Right
    <3> QED BY <3>1, <3>2
  <2> QED BY <1>2, <1>8, <2>1 DEF Onward
<1>10. EndInv(u.s, l)
  <2>1. EndInv(v.s, l) /\ Other(l) \in Known(l)
    BY <1>1, SeenFacts DEF SessionInv
  <2>2. ~Agreed(u.s, l)
    BY <1>2, <1>8 DEF Agreed
  <2> QED BY <1>2, <1>8, <2>1, <2>2 DEF EndInv
<1>11. \A f \in v.q[l] : FrameInv(u.s, l, f)
  BY <1>1, <1>9, FrameOnward
<1>12. Goes(v, u, l)
  BY <1>2, <1>5, <1>7, <1>9, <1>10, <1>11, EndGoes
<1>13. Good(u)
  BY <1>12 DEF Goes
<1>14. Steady(u, ToTransfer(u, l, "TXCNT"), {})
  BY <1>13, ToTransferSteady
<1> QED BY <1>6, <1>12, <1>14, GoesThenSteady

LEMMA TxCntGoes ==
  ASSUME plan \in Plans, net \subseteq Datagram, NEW v, Good(v), NEW l \in Ends, NEW d \in Datagram,
         d.from = Seen(Other(l), l), Right(v.s, Other(l))
  PROVE  Goes(v, TxCnt(v, l, d), l)
<1> DEFINE x == v.s[l]
           r == [x EXCEPT !.transfer = d.from]
           D == {}
           u == [v EXCEPT !.s[l].transfer = d.from]
<1>1. /\ v \in Value /\ x \in Session /\ SessionInv(v.s) /\ v.q[l] \in SUBSET Frame
      /\ v.s \in [Legs -> Session] /\ v.q \in [Legs -> SUBSET Frame] /\ l \in Legs
      /\ \A g \in v.q[l] : FrameInv(v.s, l, g)
  BY ValueFacts, Others
<1>2. CASE x.transferring = "NONE"
  <2>1. TxCnt(v, l, d) = v
    BY <1>2 DEF TxCnt
  <2>2. Steady(v, v, {})
    BY DEF Steady, Alike
  <2> QED BY <2>1, <2>2, SteadyGoes
<1>3. CASE x.transferring # "NONE"
  <2>1. /\ r \in Session /\ r.transfer = d.from /\ r.transferring = x.transferring /\ r.fresh = x.fresh
        /\ r.peer = x.peer /\ r.peercallno = x.peercallno /\ r.iseqno = x.iseqno
        /\ r.transferpeer = x.transferpeer
    BY <1>1 DEF Session, Datagram
  <2>2. u.s = [v.s EXCEPT ![l] = r] /\ u.q = v.q /\ u.out = v.out \cup D
        /\ u = [s |-> u.s, q |-> u.q, out |-> u.out]
    BY <1>1 DEF Value
  <2>3. u.q = [v.q EXCEPT ![l] = v.q[l]]
    BY <1>1, <2>2
  <2>4. D \in SUBSET Datagram /\ D = {}
    OBVIOUS
  <2>5. TxCnt(v, l, d) = ToTransfer(u, l, "TXACC")
    BY <1>3 DEF TxCnt
  <2> HIDE DEF u, r, D
  <2>6. Updates(v, u, l, r, v.q[l], D)
    BY <1>1, <2>1, <2>2, <2>3, <2>4, ExceptUpdates
  <2>7. u.s[l] = r /\ \A k \in Legs \ {l} : u.s[k] = v.s[k]
    BY <2>6 DEF Updates
  <2>8. ASSUME NEW e \in Ends
        PROVE  /\ v.s[e].fresh => u.s[e].fresh
               /\ Agreed(v.s, e) <=> Agreed(u.s, e)
               /\ Right(v.s, e) => Right(u.s, e)
    <3>1. CASE e = l
      BY <2>1, <2>7, <3>1 DEF Agreed, Right
    <3>2. CASE e # l
      <4>1. u.s[e] = v.s[e]
        BY <2>7, <3>2, Others
      <4> QED BY <4>1 DEF Agreed, Right
    <3> QED BY <3>1, <3>2
  <2>9. Onward(v.s, u.s) /\ u.s[l].fresh = v.s[l].fresh
    BY <2>1, <2>7, <2>8 DEF Onward
  <2>10. EndInv(u.s, l)
    <3>1. EndInv(v.s, l) /\ d.from \in Known(l) /\ d.from # Nobody
      BY <1>1, SeenFacts DEF SessionInv
    <3>2. BothDirect(v.s) => BothDirect(u.s)
      BY <2>9, OnwardBoth
    <3>3. (Agreed(v.s, Other(l)) => Agreed(u.s, Other(l))) /\ (Agreed(u.s, l) => Right(u.s, l))
      BY <2>8, <3>1, Others DEF EndInv
    <3> QED BY <1>3, <2>1, <2>7, <3>1, <3>2, <3>3 DEF EndInv
  <2>11. \A f \in v.q[l] : FrameInv(u.s, l, f)
    BY <1>1, <2>9, FrameOnward
  <2>12. Goes(v, u, l)
    BY <2>1, <2>4, <2>6, <2>9, <2>10, <2>11, EndGoes
  <2>13. Good(u) /\ Right(u.s, Other(l))
    BY <2>8, <2>12, Others DEF Goes
  <2>14. Steady(u, ToTransfer(u, l, "TXACC"), {})
    BY <2>13, ToTransferSteady
  <2> QED BY <2>5, <2>12, <2>14, GoesThenSteady
<1> QED BY <1>2, <1>3

LEMMA TxAccGoes ==
  ASSUME plan \in Plans, net \subseteq Datagram, NEW v, Good(v), NEW l \in Ends,
         v.s[l].oseqno < Half, Right(v.s, l)
  PROVE  Goes(v, TxAcc(v, l), l)
<1> DEFINE y == StopTransfer(v, l)
           x == y.s[l]
           r == [x EXCEPT !.transferring = "READY"]
           D == {}
           u == [y EXCEPT !.s[l].transferring = "READY"]
<1>1. CASE v.s[l].transferring = "NONE"
  <2>1. TxAcc(v, l) = v
    BY <1>1 DEF TxAcc
  <2>2. Steady(v, v, {})
    BY DEF Steady, Alike
  <2> QED BY <2>1, <2>2, SteadyGoes
<1>2. CASE v.s[l].transferring # "NONE"
  <2>1. Steady(v, y, {}) /\ l \in Legs /\ l \notin Bridged
    BY StopSteady, Others
  <2>2. Good(y) /\ y.s[l].oseqno < Half /\ y.s[l].transferring # "NONE" /\ Right(y.s, l)
    BY <1>2, <2>1, AlikeOnward DEF Steady, Alike
  <2>3. TxAcc(v, l) = Numbered(u, l, "TXREADY", Nobody, Callno(l), 0)
    BY <1>2 DEF TxAcc
  <2> HIDE DEF y
  <2>4. /\ y \in Value /\ x \in Session /\ SessionInv(y.s) /\ y.q[l] \in SUBSET Frame
        /\ y.s \in [Legs -> Session] /\ y.q \in [Legs -> SUBSET Frame]
        /\ \A g \in y.q[l] : FrameInv(y.s, l, g)
    BY <2>1, <2>2, ValueFacts
  <2>5. /\ r \in Session /\ r.transfer = x.transfer /\ r.transferring = "READY" /\ r.fresh = x.fresh
        /\ r.peer = x.peer /\ r.peercallno = x.peercallno /\ r.iseqno = x.iseqno
        /\ r.transferpeer = x.transferpeer /\ r.oseqno = x.oseqno
    BY <2>4 DEF Session
  <2>6. u.s = [y.s EXCEPT ![l] = r] /\ u.q = y.q /\ u.out = y.out \cup D
        /\ u = [s |-> u.s, q |-> u.q, out |-> u.out]
    BY <2>4 DEF Value
  <2>7. u.q = [y.q EXCEPT ![l] = y.q[l]]
    BY <2>4, <2>6
  <2>8. D \in SUBSET Datagram /\ D = {}
    OBVIOUS
  <2> HIDE DEF u, r, D
  <2>9. Updates(y, u, l, r, y.q[l], D)
    BY <2>1, <2>4, <2>5, <2>6, <2>7, <2>8, ExceptUpdates
  <2>10. u.s[l] = r /\ \A k \in Legs \ {l} : u.s[k] = y.s[k]
    BY <2>9 DEF Updates
  <2>11. ASSUME NEW e \in Ends
         PROVE  /\ y.s[e].fresh => u.s[e].fresh
                /\ Agreed(y.s, e) => Agreed(u.s, e)
                /\ Right(y.s, e) => Right(u.s, e)
    <3>1. CASE e = l
      BY <2>5, <2>10, <3>1 DEF Agreed, Right
    <3>2. CASE e # l
      <4>1. u.s[e] = y.s[e]
        BY <2>10, <3>2, Others
      <4> QED BY <4>1 DEF Agreed, Right
    <3> QED BY <3>1, <3>2
  <2>12. Onward(y.s, u.s) /\ u.s[l].fresh = y.s[l].fresh
    BY <2>5, <2>10, <2>11 DEF Onward
  <2>13. EndInv(u.s, l)
    <3>1. EndInv(y.s, l)
      BY <2>4 DEF SessionInv
    <3>2. BothDirect(y.s) => BothDirect(u.s)
      BY <2>12, OnwardBoth
    <3>3. (Agreed(y.s, Other(l)) => Agreed(u.s, Other(l))) /\ Right(u.s, l)
      BY <2>2, <2>11, Others
    <3> QED BY <2>2, <2>5, <2>10, <3>1, <3>2, <3>3 DEF EndInv
  <2>14. \A f \in y.q[l] : FrameInv(u.s, l, f)
    BY <2>1, <2>4, <2>12, FrameOnward
  <2>15. Goes(y, u, l)
    BY <2>2, <2>5, <2>8, <2>9, <2>12, <2>13, <2>14, EndGoes
  <2>16. Good(u) /\ u.s[l].oseqno < Half /\ Agreed(u.s, l) /\ (u.s[l].fresh => BothDirect(u.s))
    <3>1. u.s[l].transferring = "READY"
      BY <2>5, <2>10
    <3>2. u.s[l].fresh => BothDirect(u.s)
      BY <2>13, <3>1 DEF EndInv
    <3> QED BY <2>2, <2>5, <2>10, <2>15, <3>1, <3>2 DEF Goes, Agreed
  <2>17. Steady(u, Numbered(u, l, "TXREADY", Nobody, Callno(l), 0), {l})
    BY <2>1, <2>16, PlanFacts, NumberedSteady DEF Commands
  <2> QED BY <2>1, <2>3, <2>15, <2>17, SteadyThenGoes, GoesThenSteady
<1> QED BY <1>1, <1>2

(* What complete_transfer changes: of one session, and its schedule. *)
Stopped(v, l) == {[f EXCEPT !.live = FALSE] : f \in v.q[l]}

LEMMA StoppedFrames ==
  ASSUME NEW v, Good(v), NEW l \in Legs
  PROVE  /\ Stopped(v, l) \in SUBSET Frame
         /\ \A f \in Stopped(v, l) : FrameInv(v.s, l, f)
         /\ \A t : Onward(v.s, t) /\ (v.s[l].fresh => t[l].fresh)
                     => \A f \in Stopped(v, l) : FrameInv(t, l, f)
<1>1. v.q[l] \subseteq Frame /\ \A f \in v.q[l] : FrameInv(v.s, l, f)
  BY ValueFacts
<1>2. ASSUME NEW g \in Stopped(v, l)
      PROVE  /\ g \in Frame /\ FrameInv(v.s, l, g)
             /\ \A t : Onward(v.s, t) /\ (v.s[l].fresh => t[l].fresh) => FrameInv(t, l, g)
  <2>1. PICK f \in v.q[l] : g = [f EXCEPT !.live = FALSE]
    BY DEF Stopped
  <2>2. f \in Frame /\ FrameInv(v.s, l, f)
    BY <1>1
  <2>3. g \in Frame /\ FrameInv(v.s, l, g)
    BY <2>1, <2>2, Dead
  <2>4. ASSUME NEW t, Onward(v.s, t), v.s[l].fresh => t[l].fresh
        PROVE  FrameInv(t, l, g)
    BY <2>1, <2>2, <2>4, DeadFrame
  <2> QED BY <2>3, <2>4
<1> QED BY <1>2

LEMMA CompleteUpdates ==
  ASSUME NEW v, Good(v), NEW l \in Legs, NEW p \in Nat, NEW D, D = {}
  PROVE  Updates(v, CompleteTransfer(v, l, p, FALSE, TRUE), l, [v.s[l] EXCEPT !.peercallno = p],
                 Stopped(v, l), D)
<1> DEFINE r == [v.s[l] EXCEPT !.peercallno = p]
           u == [v EXCEPT !.s[l] = [@ EXCEPT !.peercallno = p]]
           Q == Stopped(v, l)
           w == [u EXCEPT !.q[l] = {[f EXCEPT !.live = FALSE] : f \in @}]
<1>1. /\ v \in Value /\ v.s[l] \in Session
      /\ v.s \in [Legs -> Session] /\ v.q \in [Legs -> SUBSET Frame]
  BY ValueFacts
<1>2. r \in Session
  BY <1>1 DEF Session
<1>3. CompleteTransfer(v, l, p, FALSE, TRUE) = w
  BY DEF CompleteTransfer, CompleteWithoutStop, StopTransfer
<1>4. u.s = [v.s EXCEPT ![l] = r] /\ u.q = v.q /\ u.out = v.out /\ u = [s |-> u.s, q |-> u.q, out |-> u.out]
  BY <1>1 DEF Value
<1> HIDE DEF u, r
<1>5. w = [u EXCEPT !.q[l] = Q]
  <2>1. {[f EXCEPT !.live = FALSE] : f \in u.q[l]} = Q
    BY <1>4 DEF Stopped
  <2> QED BY <2>1
<1>6. Q \in SUBSET Frame
  BY StoppedFrames
<1> HIDE DEF w, Q
<1>7. w.s = [v.s EXCEPT ![l] = r] /\ w.q = [v.q EXCEPT ![l] = Q] /\ w.out = v.out \cup D
      /\ w = [s |-> w.s, q |-> w.q, out |-> w.out]
  BY <1>4, <1>5
<1>8. Updates(v, w, l, r, Q, D)
  BY <1>1, <1>2, <1>6, <1>7, ExceptUpdates
<1> QED BY <1>3, <1>8 DEF r, Q

(* The session when it is released. *)
Switched(x, p) ==
  LET y == [x EXCEPT !.peercallno = p]
      z == [y EXCEPT !.peer = y.transfer, !.transfer = Nobody, !.transferring = "NONE",
                     !.transferpeer = 0]
  IN [z EXCEPT !.oseqno = 0, !.iseqno = 0, !.aseqno = 0, !.fresh = TRUE]

LEMMA SwitchedFacts ==
  ASSUME plan \in Plans, NEW x \in Session, x.transfer \in Addresses, NEW p \in Nat
  PROVE  /\ Switched(x, p) \in Session
         /\ Switched(x, p).peer = x.transfer /\ Switched(x, p).peercallno = p
         /\ Switched(x, p).transfer = Nobody /\ Switched(x, p).transferring = "NONE"
         /\ Switched(x, p).transferpeer = 0 /\ Switched(x, p).fresh = TRUE
<1> DEFINE y == [x EXCEPT !.peercallno = p]
           z == [y EXCEPT !.peer = y.transfer, !.transfer = Nobody, !.transferring = "NONE",
                          !.transferpeer = 0]
           r == [z EXCEPT !.oseqno = 0, !.iseqno = 0, !.aseqno = 0, !.fresh = TRUE]
<1>1. y \in Session /\ y.transfer = x.transfer /\ y.peercallno = p
  BY DEF Session
<1> HIDE DEF y
<1>2. z \in Session /\ z.peer = x.transfer /\ z.peercallno = p /\ z.transfer = Nobody
      /\ z.transferring = "NONE" /\ z.transferpeer = 0
  BY <1>1 DEF Session
<1> HIDE DEF z
<1>3. r \in Session /\ r.peer = x.transfer /\ r.peercallno = p /\ r.transfer = Nobody
      /\ r.transferring = "NONE" /\ r.transferpeer = 0 /\ r.fresh = TRUE
  BY <1>2, NumberFacts DEF Session
<1>4. Switched(x, p) = r
  BY DEF Switched, y, z
<1> QED BY <1>3, <1>4

LEMMA SwitchUpdates ==
  ASSUME plan \in Plans, NEW v, Good(v), NEW l \in Legs, v.s[l].transfer \in Addresses,
         NEW p \in Nat, NEW D, D = {}
  PROVE  Updates(v, CompleteTransfer(v, l, p, TRUE, FALSE), l,
                 Switched(v.s[l], p), Stopped(v, l), D)
<1> DEFINE x == [v.s[l] EXCEPT !.peercallno = p]
           y == [x EXCEPT !.peer = x.transfer, !.transfer = Nobody, !.transferring = "NONE",
                          !.transferpeer = 0]
           r == Switched(v.s[l], p)
           k == [y EXCEPT !.oseqno = 0, !.iseqno = 0, !.aseqno = 0, !.fresh = TRUE]
           u == [v EXCEPT !.s[l] = k]
           Q == Stopped(v, l)
           w == [u EXCEPT !.q[l] = {[f EXCEPT !.live = FALSE] : f \in @}]
<1>1. /\ v \in Value /\ v.s[l] \in Session
      /\ v.s \in [Legs -> Session] /\ v.q \in [Legs -> SUBSET Frame]
  BY ValueFacts
<1>2. k = r /\ r \in Session
  BY <1>1, SwitchedFacts DEF Switched
<1>3. CompleteTransfer(v, l, p, TRUE, FALSE) = w
  BY DEF CompleteTransfer, CompleteWithoutStop, StopTransfer
<1> HIDE DEF k, r
<1>4. u.s = [v.s EXCEPT ![l] = r] /\ u.q = v.q /\ u.out = v.out /\ u = [s |-> u.s, q |-> u.q, out |-> u.out]
  BY <1>1, <1>2 DEF Value
<1> HIDE DEF u
<1>5. w = [u EXCEPT !.q[l] = Q]
  <2>1. {[f EXCEPT !.live = FALSE] : f \in u.q[l]} = Q
    BY <1>4 DEF Stopped
  <2> QED BY <2>1
<1>6. Q \in SUBSET Frame
  BY StoppedFrames
<1> HIDE DEF w, Q
<1>7. w.s = [v.s EXCEPT ![l] = r] /\ w.q = [v.q EXCEPT ![l] = Q] /\ w.out = v.out \cup D
      /\ w = [s |-> w.s, q |-> w.q, out |-> w.out]
  BY <1>4, <1>5
<1>8. Updates(v, w, l, r, Q, D)
  BY <1>1, <1>2, <1>6, <1>7, ExceptUpdates
<1> QED BY <1>3, <1>8 DEF r, Q

LEMMA TxRelGoes ==
  ASSUME plan \in Plans, net \subseteq Datagram, NEW v, Good(v), NEW l \in Ends, NEW d \in Datagram,
         ~v.s[l].fresh, BothAgreed(v.s), Harmless => d.callno = Callno(Other(l))
  PROVE  Goes(v, TxRel(v, l, d), l)
<1> DEFINE a == Immediate(v, l, "ACK")
           x == a.s[l]
           r == Switched(x, d.callno)
           D == {}
           w == CompleteTransfer(a, l, d.callno, TRUE, FALSE)
<1>1. Steady(v, a, {}) /\ l \in Legs
  BY Others, ImmediateSteady
<1>2. Good(a) /\ Alike(v.s[l], a.s[l]) /\ BothAgreed(a.s)
  <2> HIDE DEF a
  <2>1. Good(a) /\ \A k \in Legs : Alike(v.s[k], a.s[k])
    BY <1>1 DEF Steady
  <2> QED BY <1>1, <2>1, AlikeOnward
<1>3. /\ a \in Value /\ x \in Session /\ SessionInv(a.s)
      /\ \A g \in a.q[l] : FrameInv(a.s, l, g)
  BY <1>1, <1>2, ValueFacts
<1>4. EndInv(a.s, l) /\ ~x.fresh /\ Agreed(a.s, l) /\ Agreed(a.s, Other(l))
  BY <1>2, <1>3, Others DEF SessionInv, Alike, BothAgreed
<1>5. x.transferring = "READY" /\ x.transfer = Seen(Other(l), l)
  BY <1>4 DEF Agreed, EndInv, Right
<1>6. TxRel(v, l, d) = w
  BY <1>5 DEF TxRel
<1>7. x.transfer \in Known(l) /\ x.transfer \in Addresses
  BY <1>5, SeenFacts
<1>8. d.callno \in Nat /\ D = {}
  BY DEF Datagram
<1>9. Updates(a, w, l, r, Stopped(a, l), D)
  BY <1>1, <1>2, <1>7, <1>8, SwitchUpdates
<1>10. /\ r.peer = Seen(Other(l), l) /\ r.peercallno = d.callno /\ r.transfer = Nobody
       /\ r.transferring = "NONE" /\ r.transferpeer = 0 /\ r.fresh = TRUE
  BY <1>3, <1>5, <1>7, <1>8, SwitchedFacts
<1> HIDE DEF a, r, D, w
<1>11. w.s[l] = r /\ \A k \in Legs \ {l} : w.s[k] = a.s[k]
  BY <1>9 DEF Updates
<1>12. ASSUME NEW e \in Ends
       PROVE  /\ a.s[e].fresh => w.s[e].fresh
              /\ Agreed(a.s, e) => Agreed(w.s, e)
              /\ Right(a.s, e) => Right(w.s, e)
  <2>1. CASE e = l
    BY <1>10, <1>11, <2>1 DEF Agreed, Right
  <2>2. CASE e # l
    <3>1. w.s[e] = a.s[e]
      BY <1>11, <2>2, Others
    <3> QED BY <3>1 DEF Agreed, Right
  <2> QED BY <2>1, <2>2
<1>13. Onward(a.s, w.s) /\ w.s[l].fresh
  BY <1>10, <1>11, <1>12 DEF Onward
<1>14. EndInv(w.s, l)
  <2>1. Agreed(w.s, Other(l)) /\ Right(w.s, l)
    BY <1>4, <1>10, <1>11, <1>12, Others DEF Right
  <2> QED BY <1>5, <1>7, <1>10, <1>11, <2>1 DEF EndInv
<1>15. \A f \in Stopped(a, l) : FrameInv(w.s, l, f)
  BY <1>1, <1>2, <1>13, StoppedFrames
<1>16. Goes(a, w, l)
  BY <1>2, <1>8, <1>9, <1>13, <1>14, <1>15, EndGoes
<1> QED BY <1>1, <1>6, <1>16, SteadyThenGoes

(* Only a session that is released handles a TXREJ: its number is 0. *)
LEMMA TxRejectGoes ==
  ASSUME plan \in Plans, net \subseteq Datagram, NEW v, Good(v), NEW l \in Ends, v.s[l].fresh
  PROVE  Goes(v, TxReject(v, l), l)
<1> DEFINE x == v.s[l]
           r == [x EXCEPT !.transfer = Nobody, !.transferring = "NONE", !.transferpeer = 0]
           D == {}
           w == TxReject(v, l)
<1>1. /\ v \in Value /\ x \in Session /\ SessionInv(v.s) /\ v.q[l] \in SUBSET Frame
      /\ v.s \in [Legs -> Session] /\ v.q \in [Legs -> SUBSET Frame] /\ l \in Legs
      /\ \A g \in v.q[l] : FrameInv(v.s, l, g)
  BY ValueFacts, Others
<1>2. /\ r \in Session /\ r.peer = x.peer /\ r.peercallno = x.peercallno /\ r.transfer = Nobody
      /\ r.transferring = "NONE" /\ r.transferpeer = 0 /\ r.fresh = x.fresh
  BY <1>1 DEF Session
<1>3. w.s = [v.s EXCEPT ![l] = r] /\ w.q = v.q /\ w.out = v.out \cup D
      /\ w = [s |-> w.s, q |-> w.q, out |-> w.out]
  BY <1>1 DEF Value, TxReject
<1>4. w.q = [v.q EXCEPT ![l] = v.q[l]]
  BY <1>1, <1>3
<1>5. D \in SUBSET Datagram /\ D = {}
  OBVIOUS
<1> HIDE DEF w, r, D
<1>6. Updates(v, w, l, r, v.q[l], D)
  BY <1>1, <1>2, <1>3, <1>4, <1>5, ExceptUpdates
<1>7. w.s[l] = r /\ \A k \in Legs \ {l} : w.s[k] = v.s[k]
  BY <1>6 DEF Updates
<1>8. ASSUME NEW e \in Ends
      PROVE  /\ v.s[e].fresh => w.s[e].fresh
             /\ Agreed(v.s, e) => Agreed(w.s, e)
             /\ Right(v.s, e) => Right(w.s, e)
  <2>1. CASE e = l
    BY <1>2, <1>7, <2>1 DEF Agreed, Right
  <2>2. CASE e # l
    <3>1. w.s[e] = v.s[e]
      BY <1>7, <2>2, Others
    <3> QED BY <3>1 DEF Agreed, Right
  <2> QED BY <2>1, <2>2
<1>9. Onward(v.s, w.s) /\ w.s[l].fresh = v.s[l].fresh
  BY <1>2, <1>7, <1>8 DEF Onward
<1>10. EndInv(w.s, l)
  <2>1. EndInv(v.s, l)
    BY <1>1 DEF SessionInv
  <2>2. (Agreed(v.s, Other(l)) => Agreed(w.s, Other(l))) /\ (Right(v.s, l) => Right(w.s, l))
    BY <1>8, Others
  <2>3. Agreed(v.s, l)
    BY DEF Agreed
  <2> QED BY <1>2, <1>7, <2>1, <2>2, <2>3 DEF EndInv
<1>11. \A f \in v.q[l] : FrameInv(w.s, l, f)
  BY <1>1, <1>9, FrameOnward
<1>12. Goes(v, w, l)
  BY <1>2, <1>5, <1>6, <1>9, <1>10, <1>11, EndGoes
<1> QED BY <1>12 DEF w

LEMMA ReadyUpdates ==
  ASSUME plan \in Plans, net \subseteq Datagram, NEW v, Good(v), NEW l \in Legs, NEW D, D = {}
  PROVE  \E a, r, Q : /\ Steady(v, a, {}) /\ Updates(a, Ready(v, l), l, r, Q, D)
                      /\ r.transferring = "REL" /\ r.oseqno = v.s[l].oseqno
                      /\ r.peer = v.s[l].peer /\ r.peercallno = v.s[l].peercallno
                      /\ r.transfer = v.s[l].transfer /\ r.transferpeer = v.s[l].transferpeer
                      /\ r.fresh = v.s[l].fresh
                      /\ \A f \in Q : FrameInv(a.s, l, f)
<1> DEFINE a == Immediate(v, l, "ACK")
           p == v.s[l].peercallno
           c == CompleteTransfer(a, l, p, FALSE, TRUE)
           x == [a.s[l] EXCEPT !.peercallno = p]
           r == [x EXCEPT !.transferring = "REL"]
           Q == Stopped(a, l)
           w == [c EXCEPT !.s[l].transferring = "REL"]
<1>1. Steady(v, a, {})
  BY ImmediateSteady
<1>2. Good(a) /\ Alike(v.s[l], a.s[l]) /\ a.s[l].oseqno = v.s[l].oseqno
  BY <1>1 DEF Steady
<1>3. a.s[l] \in Session /\ v.s[l] \in Session /\ p \in Nat
  <2>1. a.s[l] \in Session /\ v.s[l] \in Session
    BY <1>2, ValueFacts
  <2> QED BY <2>1 DEF Session
<1>4. Ready(v, l) = w
  BY DEF Ready
<1> HIDE DEF a, p
<1>5. Updates(a, c, l, x, Q, D)
  BY <1>2, <1>3, CompleteUpdates
<1>6. /\ x \in Session /\ r \in Session /\ r.transferring = "REL"
      /\ r.oseqno = a.s[l].oseqno /\ r.peer = a.s[l].peer /\ r.peercallno = p
      /\ r.transfer = a.s[l].transfer /\ r.transferpeer = a.s[l].transferpeer
      /\ r.fresh = a.s[l].fresh
  BY <1>3 DEF Session
<1> HIDE DEF c, x
<1>7. /\ c \in Value /\ c.s[l] = x /\ c.s \in [Legs -> Session] /\ c.q \in [Legs -> SUBSET Frame]
      /\ c.out = a.out \cup D /\ c.out \subseteq Datagram
  BY <1>5 DEF Updates, Value
<1> HIDE DEF Q
<1>8. w.s = [c.s EXCEPT ![l] = r] /\ w.q = c.q /\ w.out = c.out /\ w = [s |-> w.s, q |-> w.q, out |-> w.out]
  BY <1>7 DEF Value
<1> HIDE DEF w, r
<1>9. w \in Value
  <2>1. w.s \in [Legs -> Session]
    BY <1>6, <1>7, <1>8
  <2> QED BY <1>7, <1>8, <2>1 DEF Value
<1>10. w.s[l] = r /\ \A k \in Legs \ {l} : w.s[k] = c.s[k]
  BY <1>7, <1>8
<1>11. Updates(a, w, l, r, Q, D)
  BY <1>5, <1>7, <1>8, <1>9, <1>10 DEF Updates
<1>12. \A f \in Q : FrameInv(a.s, l, f)
  BY <1>2, StoppedFrames DEF Q
<1>13. r.peercallno = v.s[l].peercallno /\ r.oseqno = v.s[l].oseqno
  BY <1>2, <1>6 DEF p
<1> QED BY <1>1, <1>2, <1>4, <1>6, <1>11, <1>12, <1>13 DEF Alike

(* An end is told that the other is ready only when both are released. *)
LEMMA TxReadyEnd ==
  ASSUME plan \in Plans, net \subseteq Datagram, NEW v, Good(v), NEW l \in Ends, BothDirect(v.s)
  PROVE  Goes(v, TxReady(v, l), l)
<1> DEFINE D == {}
           w == Ready(v, l)
<1>1. l \in Legs /\ D = {} /\ v.s[l].fresh
  BY Others DEF BothDirect
<1> HIDE DEF D
<1>2. PICK a, r, Q : /\ Steady(v, a, {}) /\ Updates(a, w, l, r, Q, D)
                     /\ r.transferring = "REL" /\ r.oseqno = v.s[l].oseqno
                     /\ r.peer = v.s[l].peer /\ r.peercallno = v.s[l].peercallno
                     /\ r.transfer = v.s[l].transfer /\ r.transferpeer = v.s[l].transferpeer
                     /\ r.fresh = v.s[l].fresh
                     /\ \A f \in Q : FrameInv(a.s, l, f)
  BY <1>1, ReadyUpdates
<1>3. Good(a) /\ Alike(v.s[l], a.s[l]) /\ BothDirect(a.s)
  BY <1>1, <1>2, AlikeOnward DEF Steady
<1> HIDE DEF w
<1>4. w.s[l] = r /\ \A k \in Legs \ {l} : w.s[k] = a.s[k]
  BY <1>2 DEF Updates
<1>5. ASSUME NEW e \in Ends
      PROVE  /\ w.s[e].fresh = a.s[e].fresh /\ w.s[e].peer = a.s[e].peer
             /\ Agreed(a.s, e) => Agreed(w.s, e)
             /\ Right(a.s, e) => Right(w.s, e)
  <2>1. CASE e = l
    BY <1>1, <1>2, <1>3, <1>4, <2>1 DEF Agreed, Right, Alike
  <2>2. CASE e # l
    <3>1. w.s[e] = a.s[e]
      BY <1>4, <2>2, Others
    <3> QED BY <3>1 DEF Agreed, Right
  <2> QED BY <2>1, <2>2
<1>6. Onward(a.s, w.s) /\ w.s[l].fresh = a.s[l].fresh
  BY <1>5 DEF Onward
<1>7. SessionInv(a.s)
  BY <1>3, ValueFacts
<1>8. EndInv(w.s, l)
  <2>1. EndInv(a.s, l) /\ BothDirect(w.s) /\ Agreed(a.s, l)
    BY <1>1, <1>3, <1>6, <1>7, OnwardBoth DEF SessionInv, Agreed, Alike
  <2>2. (Agreed(a.s, Other(l)) => Agreed(w.s, Other(l))) /\ (Right(a.s, l) => Right(w.s, l))
    BY <1>5, Others
  <2> QED BY <1>1, <1>2, <1>3, <1>4, <2>1, <2>2 DEF EndInv, Alike
<1>9. \A f \in Q : FrameInv(w.s, l, f)
  BY <1>1, <1>2, <1>6, FrameOnward
<1>10. Goes(a, w, l)
  BY <1>1, <1>2, <1>3, <1>6, <1>8, <1>9, EndGoes DEF Alike
<1>11. ~BothReady(w, l)
  <2>1. r.transferpeer = 0
    <3>1. EndInv(a.s, l)
      BY <1>7 DEF SessionInv
    <3> QED BY <1>2, <1>3, <3>1 DEF EndInv, Alike
  <2>2. \A o \in Legs : Callno(o) # 0
    BY PlanFacts
  <2> QED BY <1>4, <2>1, <2>2 DEF BothReady
<1>12. TxReady(v, l) = w
  BY <1>11 DEF TxReady, w
<1> QED BY <1>2, <1>10, <1>12, SteadyThenGoes

(* The release of one of the bridge's sessions. *)
LEMMA FinishGoes ==
  ASSUME plan \in Plans, net \subseteq Datagram, NEW v, Good(v), NEW l \in Bridged,
         v.s[l].oseqno < Half, \A k \in Bridged : v.s[k].transferring = "REL",
         NEW p \in {Callno(Pager), Callno(Phone)}, Harmless => p = Callno(Other(EndOf(l)))
  PROVE  /\ Goes(v, FinishTransfer(v, l, p), l)
         /\ \A k \in Bridged : FinishTransfer(v, l, p).s[k].transferring = "REL"
         /\ FinishTransfer(v, l, p).s[Other(l)].oseqno = v.s[Other(l)].oseqno
<1> DEFINE D == {}
           a == Numbered(v, l, "TXREL", Nobody, p, 0)
           w == CompleteTransfer(a, l, p, FALSE, TRUE)
           r == [a.s[l] EXCEPT !.peercallno = p]
<1>1. l \in Legs /\ l \notin Ends /\ p \in Nat /\ D = {} /\ Other(l) \in Legs \ {l}
  BY Others, PlanFacts
<1>2. BothAgreed(v.s)
  <2>1. \A k \in Bridged : Agreed(v.s, EndOf(k))
    BY ValueFacts DEF SessionInv, LegInv
  <2> QED BY <2>1, Others DEF BothAgreed
<1>3. Steady(v, a, {l})
  <2>1. "TXREL" \in Commands \ {"TXCNT", "TXACC", "TXREJ"} /\ 0 \in Nat
    BY DEF Commands
  <2> QED BY <1>1, <1>2, <2>1, NumberedSteady
<1>4. /\ Good(a) /\ Alike(v.s[l], a.s[l]) /\ \A k \in Bridged : a.s[k].transferring = "REL"
      /\ a.s[Other(l)].oseqno = v.s[Other(l)].oseqno
  BY <1>1, <1>3, Others DEF Steady, Alike
<1>5. FinishTransfer(v, l, p) = w
  BY DEF FinishTransfer
<1> HIDE DEF a, D
<1>6. Updates(a, w, l, r, Stopped(a, l), D)
  BY <1>1, <1>4, CompleteUpdates
<1>7. a.s[l] \in Session /\ SessionInv(a.s)
  BY <1>1, <1>4, ValueFacts
<1>8. /\ r.peercallno = p /\ r.peer = a.s[l].peer /\ r.fresh = a.s[l].fresh
      /\ r.transferpeer = a.s[l].transferpeer /\ r.transferring = a.s[l].transferring
  BY <1>7 DEF Session
<1> HIDE DEF r, w
<1>9. w.s[l] = r /\ \A k \in Legs \ {l} : w.s[k] = a.s[k]
  BY <1>6 DEF Updates
<1>10. \A k \in Bridged : w.s[k].transferring = "REL"
  BY <1>4, <1>8, <1>9, Others
<1>11. LegInv(w.s, l)
  <2>1. LegInv(a.s, l) /\ EndOf(l) \in Ends /\ EndOf(l) \in Legs \ {l}
    BY <1>1, <1>7, Others DEF SessionInv
  <2>2. w.s[EndOf(l)] = a.s[EndOf(l)]
    BY <1>9, <2>1
  <2>3. Agreed(w.s, EndOf(l)) <=> Agreed(a.s, EndOf(l))
    BY <2>2 DEF Agreed
  <2> QED BY <1>8, <1>9, <1>10, <2>1, <2>3 DEF LegInv
<1>12. \A f \in Stopped(a, l) : FrameInv(a.s, l, f)
  BY <1>1, <1>4, StoppedFrames
<1>13. Goes(a, w, l)
  BY <1>1, <1>4, <1>6, <1>8, <1>11, <1>12, LegGoes
<1>14. w.s[Other(l)].oseqno = v.s[Other(l)].oseqno
  BY <1>1, <1>4, <1>9
<1> QED BY <1>3, <1>5, <1>10, <1>13, <1>14, SteadyThenGoes

LEMMA LegGoesEither ==
  ASSUME NEW v, NEW w, NEW k \in Bridged, NEW l \in Bridged, Goes(v, w, k)
  PROVE  Goes(v, w, l)
<1>1. k \notin Ends /\ l \notin Ends
  BY Others
<1> QED BY <1>1 DEF Goes

(* The bridge hears of an end that is ready, for the first time or, when that does
   no harm, again. *)
LEMMA TxReadyLeg ==
  ASSUME plan \in Plans, net \subseteq Datagram, NEW v, Good(v), NEW l \in Bridged,
         Agreed(v.s, EndOf(l)), \A k \in Bridged : v.s[k].oseqno < Half,
         v.s[l].transferring = "REL" /\ BothReady(v, l) => plan.late
  PROVE  Goes(v, TxReady(v, l), l)
<1> DEFINE D == {}
           o == Other(l)
           w == Ready(v, l)
<1>1. /\ l \in Legs /\ o \in Legs /\ o \in Bridged /\ o # l /\ Bridged = {l, o} /\ D = {}
      /\ Host(l) = Bridge /\ Host(o) = Bridge /\ \A e \in Ends : e \in Legs \ {l} /\ Host(e) # Bridge
      /\ Other(o) = l /\ EndOf(o) = Other(EndOf(l)) /\ Other(EndOf(o)) = EndOf(l) /\ EndOf(l) \in Ends
      /\ EndOf(o) \in Ends
  BY Others
<1> HIDE DEF D, o
<1>2. PICK a, r, Q : /\ Steady(v, a, {}) /\ Updates(a, w, l, r, Q, D)
                     /\ r.transferring = "REL" /\ r.oseqno = v.s[l].oseqno
                     /\ r.peer = v.s[l].peer /\ r.peercallno = v.s[l].peercallno
                     /\ r.transfer = v.s[l].transfer /\ r.transferpeer = v.s[l].transferpeer
                     /\ r.fresh = v.s[l].fresh
                     /\ \A f \in Q : FrameInv(a.s, l, f)
  BY <1>1, ReadyUpdates
<1>3. Good(a) /\ \A k \in Legs : Alike(v.s[k], a.s[k]) /\ a.s[k].oseqno = v.s[k].oseqno
  BY <1>2 DEF Steady
<1> HIDE DEF w
<1>4. w.s[l] = r /\ \A k \in Legs \ {l} : w.s[k] = a.s[k]
  BY <1>2 DEF Updates
<1>5. Agreed(a.s, EndOf(l)) /\ Agreed(w.s, EndOf(l))
  <2>1. Alike(v.s[EndOf(l)], a.s[EndOf(l)]) /\ w.s[EndOf(l)] = a.s[EndOf(l)]
    BY <1>1, <1>3, <1>4
  <2> QED BY <2>1 DEF Agreed, Alike
<1>6. LegInv(v.s, l) /\ LegInv(v.s, o)
  BY <1>1, ValueFacts DEF SessionInv
<1>7. LegInv(w.s, l)
  <2>1. \A k \in Bridged : v.s[k].transferring = "REL" => w.s[k].transferring = "REL"
    BY <1>1, <1>2, <1>3, <1>4 DEF Alike
  <2> QED BY <1>2, <1>4, <1>5, <1>6, <2>1 DEF LegInv
<1>8. Goes(a, w, l)
  BY <1>1, <1>2, <1>3, <1>7, LegGoes
<1>9. Goes(v, w, l) /\ Good(w)
  BY <1>2, <1>8, SteadyThenGoes DEF Goes
<1>10. CASE ~BothReady(w, l)
  <2>1. TxReady(v, l) = w
    BY <1>10 DEF TxReady, w
  <2> QED BY <1>9, <2>1
<1>11. CASE BothReady(w, l)
  <2> DEFINE p == w.s[o].peercallno
             q == w.s[l].peercallno
             x == FinishTransfer(w, l, p)
             y == FinishTransfer(x, o, q)
  <2>1. /\ w.s[o].transferring = "REL" /\ w.s[l].transferpeer = Callno(o)
    <3>1. PICK k \in Legs : Host(k) = Host(l) /\ Callno(k) = w.s[l].transferpeer
                            /\ w.s[k].transferring = "REL"
      BY <1>11 DEF BothReady
    <3>2. k \in Bridged
      BY <1>1, <3>1, Others
    <3>3. Callno(k) # 0 /\ w.s[l].transferpeer \in {0, Callno(o)}
      BY <1>7, <3>1, PlanFacts DEF LegInv, o
    <3>4. k = o
      BY <1>1, <3>1, <3>2, <3>3, BridgedCallno
    <3> QED BY <3>1, <3>4
  <2>2. \A k \in Bridged : w.s[k].transferring = "REL"
    BY <1>1, <1>2, <1>4, <2>1
  <2>3. /\ q = v.s[l].peercallno /\ p = v.s[o].peercallno /\ v.s[o].transferring = "REL"
        /\ v.s[l].transferpeer = Callno(o)
    BY <1>1, <1>2, <1>3, <1>4, <2>1 DEF Alike
  <2>4. BothReady(v, l)
    BY <1>1, <2>3 DEF BothReady
  <2>5. p \in {Callno(Pager), Callno(Phone)} /\ q \in {Callno(Pager), Callno(Phone)}
    BY <1>6, <2>3 DEF LegInv
  <2>6. ASSUME Harmless
        PROVE  p = Callno(EndOf(o)) /\ q = Callno(EndOf(l))
    <3>1. CASE plan.late
      <4>1. Callno(Pager) = Callno(Phone) /\ EndOf(o) \in {Pager, Phone} /\ EndOf(l) \in {Pager, Phone}
        BY <1>1, <2>6, <3>1, Others DEF Harmless
      <4> QED BY <2>5, <4>1
    <3>2. CASE ~plan.late
      <4>1. v.s[l].transferring # "REL"
        BY <2>4, <3>2
      <4> QED BY <1>1, <1>6, <2>3, <4>1 DEF LegInv
    <3> QED BY <3>1, <3>2
  <2>7. w.s[l].oseqno < Half /\ w.s[o].oseqno < Half
    BY <1>1, <1>2, <1>3, <1>4
  <2>8. TxReady(v, l) = y
    BY <1>11 DEF TxReady, w, o
  <2> HIDE DEF p, q
  <2>9. /\ Goes(w, x, l) /\ x.s[o].oseqno = w.s[o].oseqno
        /\ \A k \in Bridged : x.s[k].transferring = "REL"
    BY <1>1, <1>9, <2>2, <2>5, <2>6, <2>7, FinishGoes DEF o
  <2> HIDE DEF x
  <2>10. Good(x)
    BY <2>9 DEF Goes
  <2>11. Goes(x, y, o)
    BY <1>1, <2>5, <2>6, <2>7, <2>9, <2>10, FinishGoes
  <2>12. Goes(x, y, l)
    BY <1>1, <2>11, LegGoesEither
  <2> HIDE DEF y
  <2>13. Goes(v, y, l)
    <3>1. \A e \in Ends : w.s[e].fresh = v.s[e].fresh /\ x.s[e].fresh = w.s[e].fresh
                         /\ y.s[e].fresh = x.s[e].fresh
      BY <1>1, <1>9, <2>9, <2>12 DEF Goes, Alike
    <3>2. Goes(w, y, l)
      BY <2>9, <2>12, <3>1, GoesGoes
    <3>3. \A e \in Ends : y.s[e].fresh => w.s[e].fresh
      BY <3>1
    <3> QED BY <1>9, <3>2, <3>3, GoesGoes
  <2> QED BY <2>8, <2>13
<1> QED BY <1>10, <1>11

-----------------------------------------------------------------------------
(* The actions *)

(* Which session a datagram is for says what it may be told. *)
LEMMA Matched ==
  ASSUME plan \in Plans, Good(Current), NEW d \in net, NEW l \in FindSession(d)
  PROVE  /\ l \in Legs
         /\ l \in Ends => d.at = l /\ (d.from = Bridge => ~session[l].fresh)
         /\ l \in Bridged => /\ d.at = Bridge
                             /\ d.cmd = "TXREADY" => Agreed(session, EndOf(l))
<1>1. Current.s = session /\ SessionInv(session) /\ DatagramInv(session, d)
  <2>1. Current.s = session
    BY DEF Current
  <2> QED BY <2>1 DEF Good
<1>2. l \in Legs /\ Host(l) = d.at /\ (ForwardMatch(l, d) \/ ReverseMatch(l, d) \/ TxcntMatch(l, d))
  BY DEF FindSession
<1>3. ASSUME l \in Ends, d.from = Bridge, session[l].fresh
      PROVE  FALSE
  <2>1. EndInv(session, l) /\ Bridge \notin Known(l) /\ Bridge # Nobody /\ l = d.at /\ Bridge \notin Ends
    BY <1>1, <1>2, <1>3, SeenFacts, Others, HostsAssumption DEF SessionInv, Hosts
  <2>2. session[l].peer # Bridge /\ session[l].transfer # Bridge
    BY <1>3, <2>1 DEF EndInv
  <2>3. d.cmd # "TXCNT"
    BY <1>1, <1>3, <2>1 DEF DatagramInv
  <2> QED BY <1>2, <1>3, <2>2, <2>3 DEF ForwardMatch, ReverseMatch, TxcntMatch
<1>4. ASSUME l \in Bridged, d.cmd = "TXREADY"
      PROVE  Agreed(session, EndOf(l))
  <2>1. d.at = Bridge /\ d.from \in Ends /\ d.src = Callno(d.from) /\ Agreed(session, d.from)
        /\ d.dst = Callno(Leg(d.from))
    BY <1>1, <1>2, <1>4, Others DEF DatagramInv
  <2>2. LegInv(session, l)
    BY <1>1, <1>4 DEF SessionInv
  <2>3. CASE \A k \in Bridged : session[k].transferring = "REL"
    BY <1>4, <2>2, <2>3 DEF LegInv
  <2>4. CASE ~\A k \in Bridged : session[k].transferring = "REL"
    <3> DEFINE k == Leg(d.from)
    <3>1. k \in Bridged /\ k \in Legs /\ EndOf(k) = d.from /\ Host(k) = Bridge
      BY <2>1, Others
    <3> HIDE DEF k
    <3>2. session[k].peer = d.from /\ session[k].peercallno = d.src
      BY <1>1, <2>1, <2>4, <3>1 DEF SessionInv, LegInv
    <3>3. ForwardMatch(k, d)
      BY <2>1, <3>1, <3>2 DEF ForwardMatch, k
    <3>4. ForwardMatch(l, d)
      BY <2>1, <3>1, <3>3 DEF FindSession
    <3>5. Callno(l) = Callno(k)
      BY <2>1, <3>4 DEF ForwardMatch, k
    <3> QED BY <1>4, <2>1, <3>1, <3>5, BridgedCallno
  <2> QED BY <2>3, <2>4
<1> QED BY <1>2, <1>3, <1>4, Others

LEMMA ProcessedGoes ==
  ASSUME plan \in Plans, net \subseteq Datagram, Good(Current), \A k \in Legs : session[k].oseqno < Half,
         NEW d \in net, NEW l \in FindSession(d),
         d.cmd = "TXREADY" /\ session[l].transferring = "REL" /\ BothReady(Current, l) => plan.late
  PROVE  Goes(Current, Processed(l, d), l)
<1> DEFINE c == Current
           v == Acknowledged(c, l, d)
           w == Counted(v, l, d)
           x == Handled(w, l, d)
<1>1. /\ l \in Legs /\ d \in Datagram /\ Current.s = session
      /\ l \in Ends => d.at = l /\ (d.from = Bridge => ~session[l].fresh)
      /\ l \in Bridged => /\ d.at = Bridge
                          /\ d.cmd = "TXREADY" => Agreed(session, EndOf(l))
  BY Matched DEF Current
<1>2. Steady(c, v, {})
  BY <1>1, AcknowledgedSteady
<1>3. Good(v)
  BY <1>2 DEF Steady
<1>4. Processed(l, d) = IF InSequence(v.s[l], d) \/ d.cmd \in OutOfOrder
                        THEN Answered(x, l)
                        ELSE IF Minus(v.s[l].iseqno, d.oseqno) < Half THEN Repeated(v, l) ELSE Missing(v, l)
  BY DEF Processed
<1> HIDE DEF v
<1>5. CASE ~(InSequence(v.s[l], d) \/ d.cmd \in OutOfOrder)
  <2>1. Processed(l, d) = Repeated(v, l) \/ Processed(l, d) = Missing(v, l)
    BY <1>4, <1>5
  <2>2. Steady(v, Repeated(v, l), {}) /\ Steady(v, Missing(v, l), {})
    BY <1>1, <1>3, AnsweredSteady, MissingSteady
  <2>3. Goes(v, Processed(l, d), l)
    BY <2>1, <2>2, SteadyGoes
  <2> QED BY <1>2, <2>3, SteadyThenGoes
<1>6. CASE InSequence(v.s[l], d) \/ d.cmd \in OutOfOrder
  <2>1. DatagramInv(session, d) /\ d.oseqno < Half
    BY <1>1 DEF Good, DatagramInv
  <2>2. Steady(v, w, {}) /\ (InSequence(v.s[l], d) /\ d.cmd \notin Unnumbered
                               => w.s[l].iseqno = Succ(v.s[l].iseqno))
    BY <1>1, <1>3, <2>1, CountedSteady
  <2> HIDE DEF w
  <2>3. Steady(c, w, {} \cup {})
    BY <1>2, <2>2, SteadySteady
  <2>4. /\ Good(w) /\ DatagramInv(w.s, d)
        /\ \A k \in Legs : Alike(session[k], w.s[k]) /\ w.s[k].oseqno = session[k].oseqno
        /\ \A k \in Legs : w.s[k].oseqno < Half
    BY <1>1, <2>3 DEF Steady, Good
  <2>5. Alike(session[l], v.s[l])
    BY <1>1, <1>2 DEF Steady
  <2>6. /\ l \in Ends => d.at = l /\ (d.from = Bridge => ~w.s[l].fresh)
        /\ l \in Ends => l # Bridge /\ Bridge \notin Ends
        /\ l \in Bridged => d.at = Bridge
    BY <1>1, <2>4, Others DEF Alike
  <2>7. ASSUME d.cmd = "TXREQ"
        PROVE  Goes(w, x, l)
    <3>1. l \in Ends /\ d.from = Bridge /\ Request(l, d)
      BY <1>1, <2>4, <2>6, <2>7, Others DEF DatagramInv
    <3>2. InSequence(v.s[l], d) /\ d.cmd \notin Unnumbered
      BY <1>6, <2>7 DEF OutOfOrder, Unnumbered
    <3>3. EndInv(v.s, l) /\ ~v.s[l].fresh
      <4>1. EndInv(v.s, l)
        BY <1>3, <3>1, ValueFacts DEF SessionInv
      <4>2. v.s[l].fresh = w.s[l].fresh
        BY <1>1, <2>4, <2>5 DEF Alike
      <4> QED BY <2>6, <3>1, <4>1, <4>2
    <3>4. v.s[l].iseqno = 1
      BY <2>7, <3>1, <3>2, <3>3, NumbersAssumption DEF InSequence, EndInv, Request
    <3>5. v.s[l].transferring = "NONE"
      BY <3>3, <3>4 DEF EndInv
    <3>6. w.s[l].iseqno = 2
      <4>1. Succ(1) = 2
        <5>1. 1 \in Numbers /\ 1 < Half
          BY PlanFacts DEF Numbers
        <5> QED BY <5>1, NumberFacts
      <4> QED BY <2>2, <3>2, <3>4, <4>1
    <3>7. ~w.s[l].fresh /\ w.s[l].transferring = "NONE" /\ d.addr = Other(l)
      BY <1>1, <2>4, <2>5, <2>6, <3>1, <3>5 DEF Alike, Request
    <3>8. x = TxReq(w, l, d)
      BY <2>7 DEF Handled
    <3> HIDE DEF x
    <3> QED BY <1>1, <2>4, <3>1, <3>6, <3>7, <3>8, TxReqGoes
  <2>8. ASSUME d.cmd = "TXCNT"
        PROVE  Goes(w, x, l)
    <3>1. l \in Ends /\ d.from = Seen(Other(l), l) /\ Right(w.s, Other(l))
      BY <1>1, <2>4, <2>6, <2>8, Others DEF DatagramInv
    <3>2. x = TxCnt(w, l, d)
      BY <2>8 DEF Handled
    <3> HIDE DEF x
    <3> QED BY <1>1, <2>4, <3>1, <3>2, TxCntGoes
  <2>9. ASSUME d.cmd = "TXACC"
        PROVE  Goes(w, x, l)
    <3>1. l \in Ends /\ Right(w.s, l)
      BY <1>1, <2>4, <2>6, <2>9, Others DEF DatagramInv
    <3>2. x = TxAcc(w, l)
      BY <2>9 DEF Handled
    <3> HIDE DEF x
    <3> QED BY <1>1, <2>4, <3>1, <3>2, TxAccGoes
  <2>10. ASSUME d.cmd = "TXREADY"
         PROVE  Goes(w, x, l)
    <3>1. x = TxReady(w, l)
      BY <2>10 DEF Handled
    <3> HIDE DEF x
    <3>2. CASE l \in Ends
      <4>1. BothDirect(w.s)
        BY <2>4, <2>6, <2>10, <3>2 DEF DatagramInv
      <4> QED BY <2>4, <3>1, <3>2, <4>1, TxReadyEnd
    <3>3. CASE l \in Bridged
      <4>1. Agreed(w.s, EndOf(l))
        <5>1. Agreed(session, EndOf(l)) /\ EndOf(l) \in Legs
          BY <1>1, <2>10, <3>3, Others
        <5> QED BY <2>4, <5>1 DEF Agreed, Alike
      <4>2. w.s[l].transferring = "REL" /\ BothReady(w, l) => plan.late
        <5>1. w.s[l].transferring = session[l].transferring /\ w.s[l].transferpeer = session[l].transferpeer
          BY <1>1, <2>4 DEF Alike
        <5>2. \A o \in Legs : w.s[o].transferring = session[o].transferring
          BY <2>4 DEF Alike
        <5>3. BothReady(w, l) => BothReady(Current, l)
          BY <1>1, <5>1, <5>2 DEF BothReady
        <5> QED BY <2>10, <5>1, <5>3
      <4>3. \A k \in Bridged : w.s[k].oseqno < Half
        BY <2>4, Others
      <4> QED BY <2>4, <3>1, <3>3, <4>1, <4>2, <4>3, TxReadyLeg
    <3> QED BY <1>1, <3>2, <3>3, Others
  <2>11. ASSUME d.cmd = "TXREL"
         PROVE  Goes(w, x, l)
    <3>1. l \in Ends /\ d.from = Bridge /\ Release(w.s, l, d)
      BY <1>1, <2>4, <2>6, <2>11, Others DEF DatagramInv
    <3>2. ~w.s[l].fresh /\ BothAgreed(w.s) /\ (Harmless => d.callno = Callno(Other(l)))
      BY <2>6, <3>1 DEF Release
    <3>3. x = TxRel(w, l, d)
      BY <2>11 DEF Handled
    <3> HIDE DEF x
    <3> QED BY <1>1, <2>4, <3>1, <3>2, <3>3, TxRelGoes
  <2>12. ASSUME d.cmd = "TXREJ"
         PROVE  Goes(w, x, l)
    <3>1. l \in Ends /\ d.oseqno = 0
      BY <1>1, <2>4, <2>6, <2>12, Others DEF DatagramInv
    <3>2. v.s[l].iseqno = 0
      BY <1>6, <2>12, <3>1 DEF OutOfOrder, InSequence
    <3>3. EndInv(v.s, l)
      BY <1>3, <3>1, ValueFacts DEF SessionInv
    <3>4. v.s[l].fresh
      BY <3>2, <3>3, NumbersAssumption DEF EndInv
    <3>5. w.s[l].fresh
      BY <1>1, <2>4, <2>5, <3>4 DEF Alike
    <3>6. x = TxReject(w, l)
      BY <2>12 DEF Handled
    <3> HIDE DEF x
    <3> QED BY <1>1, <2>4, <3>1, <3>5, <3>6, TxRejectGoes
  <2>13. ASSUME d.cmd = "VNAK"
         PROVE  Goes(w, x, l)
    <3>1. x = Resent(w, l, d)
      BY <2>13 DEF Handled
    <3>2. ASSUME l \in Ends, w.s[l].fresh
          PROVE  BothDirect(w.s)
      <4>1. w.s[Other(l)].fresh
        BY <2>4, <2>6, <2>13, <3>2 DEF DatagramInv
      <4> QED BY <3>2, <4>1, Others DEF BothDirect
    <3> HIDE DEF x
    <3>3. Steady(w, x, {})
      BY <1>1, <2>4, <3>1, <3>2, ResentSteady
    <3> QED BY <3>3, SteadyGoes
  <2>14. ASSUME d.cmd \notin {"TXREQ", "TXCNT", "TXACC", "TXREADY", "TXREL", "TXREJ", "VNAK"}
         PROVE  Goes(w, x, l)
    <3>1. x = w
      BY <2>14 DEF Handled
    <3>2. Steady(w, w, {})
      BY <2>4 DEF Steady, Alike
    <3> QED BY <3>1, <3>2, SteadyGoes
  <2>15. Goes(w, x, l)
    BY <2>7, <2>8, <2>9, <2>10, <2>11, <2>12, <2>13, <2>14
  <2> HIDE DEF x
  <2>16. Good(x)
    BY <2>15 DEF Goes
  <2>17. Steady(x, Answered(x, l), {})
    BY <1>1, <2>16, AnsweredSteady
  <2>18. Goes(w, Answered(x, l), l)
    BY <2>15, <2>17, GoesThenSteady
  <2>19. Goes(c, Answered(x, l), l)
    BY <2>3, <2>18, SteadyThenGoes
  <2> QED BY <1>4, <1>6, <2>19
<1> QED BY <1>5, <1>6

(* What an action does to the sessions is what some handler may do. *)
Moves == \E w : \E l \in Legs : \E used : Goes(Current, w, l) /\ Becomes(w, used)

LEMMA ReceiveMoves ==
  ASSUME IInv, NEW l \in Legs, Receive(l)
  PROVE  Moves
<1>1. PICK d \in net :
        /\ l \in FindSession(d)
        /\ d.cmd = "TXREADY" /\ session[l].transferring = "REL" /\ BothReady(Current, l) => plan.late
        /\ Becomes(Processed(l, d), {d})
  BY DEF Receive
<1>2. Goes(Current, Processed(l, d), l)
  BY <1>1, ProcessedGoes DEF IInv
<1> QED BY <1>1, <1>2 DEF Moves

LEMMA SendMoves ==
  ASSUME IInv, NEW e \in Ends, Send(e)
  PROVE  Moves
<1> DEFINE n == IF Direct(e) THEN session[e].oseqno + 1 ELSE 0
           w == Numbered(Current, e, "data", Nobody, 0, n)
           c == Current
           z == 0
<1>1. Becomes(w, {})
  BY DEF Send
<1>2. c.s = session /\ plan \in Plans /\ net \subseteq Datagram /\ Good(c) /\ e \in Legs /\ e \notin Bridged
  BY Others DEF IInv, Current
<1>3. c.s[e].oseqno < Half
  BY <1>2 DEF IInv
<1>4. n \in Nat /\ z \in Nat
  <2>1. session[e].oseqno \in Numbers
    BY <1>2, ValueFacts DEF Session
  <2>2. session[e].oseqno \in Nat
    BY <1>2, <2>1, NumberFacts
  <2> QED BY <2>2
<1>5. "data" \in Commands \ {"TXCNT", "TXACC", "TXREJ"}
  BY DEF Commands
<1>6. Steady(c, Numbered(c, e, "data", Nobody, z, n), {e})
  <2> HIDE DEF c, n, z
  <2> QED BY <1>2, <1>3, <1>4, <1>5, NumberedSteady
<1>7. Goes(c, w, e)
  BY <1>6, SteadyGoes
<1> HIDE DEF w, n
<1> QED BY <1>1, <1>2, <1>7 DEF Moves

LEMMA TimerMoves ==
  ASSUME IInv, NEW l \in Legs, Timer(l)
  PROVE  Moves
<1> DEFINE c == Current
<1>1. /\ c.s = session /\ c.q = schedq /\ c.out = {} /\ plan \in Plans /\ net \subseteq Datagram /\ Good(c)
      /\ c = [s |-> c.s, q |-> c.q, out |-> c.out]
  BY DEF IInv, Current
<1> HIDE DEF c
<1>2. PICK f \in schedq[l] :
        /\ f.live
        /\ \/ Becomes([c EXCEPT !.out = Transmitted(l, session[l], f)], {})
           \/ /\ f.transfer
              /\ Becomes(ToTransfer([c EXCEPT !.q[l] = @ \ {f}], l, "TXREJ"), {})
  BY DEF Timer, c
<1>3. /\ c \in Value /\ SessionInv(c.s) /\ c.s[l] \in Session /\ c.q[l] \in SUBSET Frame
      /\ c.s \in [Legs -> Session] /\ c.q \in [Legs -> SUBSET Frame]
      /\ \A g \in c.q[l] : g \in Frame /\ FrameInv(c.s, l, g)
  BY <1>1, ValueFacts
<1>4. Alike(c.s[l], c.s[l]) /\ Counts(c.s[l], c.s[l])
  BY DEF Alike, Counts
<1>5. CASE Becomes([c EXCEPT !.out = Transmitted(l, session[l], f)], {})
  <2> DEFINE D == Transmitted(l, c.s[l], f)
             w == [c EXCEPT !.out = D]
  <2>1. f \in Frame /\ FrameInv(c.s, l, f)
    BY <1>1, <1>3
  <2>2. ASSUME l \in Ends, c.s[l].fresh, f.cmd = "TXREADY"
        PROVE  BothDirect(c.s)
    BY <1>2, <2>1, <2>2 DEF FrameInv
  <2>3. \A d \in D : d \in Datagram /\ DatagramInv(c.s, d)
    BY <1>1, <1>3, <2>1, <2>2, FrameSent
  <2>4. Becomes(w, {})
    BY <1>1, <1>5
  <2> HIDE DEF D
  <2>5. w.s = c.s /\ w.q = c.q /\ w.out = c.out \cup D /\ w = [s |-> w.s, q |-> w.q, out |-> w.out]
    BY <1>1
  <2>6. w.s = [c.s EXCEPT ![l] = c.s[l]] /\ w.q = [c.q EXCEPT ![l] = c.q[l]]
    BY <1>3, <2>5
  <2>7. D \in SUBSET Datagram
    BY <2>3
  <2> HIDE DEF w
  <2>8. Updates(c, w, l, c.s[l], c.q[l], D)
    BY <1>3, <2>5, <2>6, <2>7, ExceptUpdates
  <2>9. Steady(c, w, {})
    BY <1>1, <1>3, <1>4, <2>3, <2>7, <2>8, UpdateSteady
  <2>10. Goes(c, w, l)
    BY <2>9, SteadyGoes
  <2> QED BY <2>4, <2>10 DEF Moves, c
<1>6. CASE f.transfer /\ Becomes(ToTransfer([c EXCEPT !.q[l] = @ \ {f}], l, "TXREJ"), {})
  <2> DEFINE Q == c.q[l] \ {f}
             D == {}
             w == [c EXCEPT !.q[l] = Q]
  <2>1. Becomes(ToTransfer(w, l, "TXREJ"), {})
    BY <1>6
  <2>2. l \in Ends
    <3>1. FrameInv(c.s, l, f)
      BY <1>1, <1>3
    <3> QED BY <1>6, <3>1, Others DEF FrameInv
  <2>3. D \in SUBSET Datagram /\ (\A d \in D : DatagramInv(c.s, d)) /\ Q \in SUBSET Frame
        /\ \A g \in Q : FrameInv(c.s, l, g)
    BY <1>3
  <2> HIDE DEF Q
  <2>4. w.s = c.s /\ w.q = [c.q EXCEPT ![l] = Q] /\ w.out = c.out \cup D
        /\ w = [s |-> w.s, q |-> w.q, out |-> w.out]
    BY <1>1
  <2>5. w.s = [c.s EXCEPT ![l] = c.s[l]]
    BY <1>3, <2>4
  <2> HIDE DEF w, D
  <2>6. Updates(c, w, l, c.s[l], Q, D)
    BY <1>3, <2>3, <2>4, <2>5, ExceptUpdates
  <2>7. Steady(c, w, {})
    BY <1>1, <1>3, <1>4, <2>3, <2>6, UpdateSteady
  <2>8. Good(w)
    BY <2>7 DEF Steady
  <2>9. Steady(w, ToTransfer(w, l, "TXREJ"), {})
    BY <1>1, <2>2, <2>8, ToTransferSteady
  <2>10. Steady(c, ToTransfer(w, l, "TXREJ"), {} \cup {})
    BY <2>7, <2>9, SteadySteady
  <2>11. Goes(c, ToTransfer(w, l, "TXREJ"), l)
    BY <2>10, SteadyGoes
  <2> QED BY <2>1, <2>11 DEF Moves, c
<1> QED BY <1>2, <1>5, <1>6

(* One end is asked to try the direct path. *)
Asked(v, l, a, b, c) ==
  Numbered([v EXCEPT !.s[l] = [@ EXCEPT !.transfer = a, !.transfercallno = b,
                                        !.transferring = "BEGIN",
                                        !.transferpeer = Callno(Other(l))]],
           l, "TXREQ", a, c, 0)

LEMMA AskedGoes ==
  ASSUME plan \in Plans, net \subseteq Datagram, NEW v, Good(v), NEW l \in Bridged,
         v.s[l].oseqno = 1, v.s[l].transferring = "NONE",
         NEW a, a = EndOf(Other(l)), NEW b \in Nat, NEW c \in Nat, NEW w, w = Asked(v, l, a, b, c)
  PROVE  /\ Goes(v, w, l)
         /\ Alike(v.s[Other(l)], w.s[Other(l)]) /\ w.s[Other(l)].oseqno = v.s[Other(l)].oseqno
<1> DEFINE x == v.s[l]
           r == [x EXCEPT !.transfer = a, !.transfercallno = b, !.transferring = "BEGIN",
                          !.transferpeer = Callno(Other(l))]
           D == {}
           u == [v EXCEPT !.s[l] = [@ EXCEPT !.transfer = a, !.transfercallno = b,
                                             !.transferring = "BEGIN",
                                             !.transferpeer = Callno(Other(l))]]
<1>1. /\ l \in Legs /\ l \notin Ends /\ Other(l) \in Legs \ {l} /\ a \in Ends /\ a = Other(EndOf(l))
      /\ EndOf(l) \in Ends /\ Ends \subseteq Addresses /\ Other(l) \in Bridged
  BY Others DEF Addresses
<1>2. /\ v \in Value /\ x \in Session /\ SessionInv(v.s) /\ v.q[l] \in SUBSET Frame
      /\ v.s \in [Legs -> Session] /\ v.q \in [Legs -> SUBSET Frame]
      /\ \A g \in v.q[l] : FrameInv(v.s, l, g)
  BY <1>1, ValueFacts
<1>3. Callno(Other(l)) \in Nat
  BY <1>1, PlanFacts
<1>4. /\ r \in Session /\ r.peer = x.peer /\ r.peercallno = x.peercallno /\ r.fresh = x.fresh
      /\ r.transferring = "BEGIN" /\ r.transferpeer = Callno(Other(l)) /\ r.oseqno = x.oseqno
  BY <1>1, <1>2, <1>3 DEF Session
<1>5. u.s = [v.s EXCEPT ![l] = r] /\ u.q = v.q /\ u.out = v.out \cup D
      /\ u = [s |-> u.s, q |-> u.q, out |-> u.out]
  BY <1>2 DEF Value
<1>6. u.q = [v.q EXCEPT ![l] = v.q[l]]
  BY <1>2, <1>5
<1>7. D \in SUBSET Datagram /\ D = {}
  OBVIOUS
<1>8. w = Numbered(u, l, "TXREQ", a, c, 0)
  BY DEF Asked
<1> HIDE DEF u, r, D
<1>9. Updates(v, u, l, r, v.q[l], D)
  BY <1>1, <1>2, <1>4, <1>5, <1>6, <1>7, ExceptUpdates
<1>10. u.s[l] = r /\ \A k \in Legs \ {l} : u.s[k] = v.s[k]
  BY <1>9 DEF Updates
<1>11. LegInv(u.s, l)
  <2>1. LegInv(v.s, l)
    BY <1>2 DEF SessionInv
  <2>2. x.peercallno = Callno(EndOf(l))
    BY <2>1 DEF LegInv
  <2> QED BY <1>4, <1>10, <2>1, <2>2 DEF LegInv
<1>12. Goes(v, u, l)
  BY <1>2, <1>4, <1>7, <1>9, <1>11, LegGoes
<1>13. Good(u) /\ u.s[l].oseqno = 1
  BY <1>4, <1>10, <1>12 DEF Goes
<1>14. Steady(u, w, {l})
  <2>1. "TXREQ" \in Commands \ {"TXCNT", "TXACC", "TXREJ"} /\ 0 \in Nat /\ 1 < Half
    BY PlanFacts DEF Commands
  <2> QED BY <1>1, <1>8, <1>13, <2>1, NumberedSteady
<1>15. Goes(v, w, l)
  BY <1>12, <1>14, GoesThenSteady
<1>16. u.s[Other(l)] = v.s[Other(l)]
  BY <1>1, <1>10
<1> QED BY <1>1, <1>14, <1>15, <1>16 DEF Steady

LEMMA SetupMoves ==
  ASSUME IInv, Setup
  PROVE  Moves
<1> DEFINE c == Current
           asked(v, l) ==
             LET o == Other(l) IN
             Numbered([v EXCEPT !.s[l] = [@ EXCEPT !.transfer = session[o].peer,
                                                   !.transfercallno = session[l].peercallno,
                                                   !.transferring = "BEGIN",
                                                   !.transferpeer = Callno(o)]],
                      l, "TXREQ", session[o].peer, session[o].peercallno, 0)
           v == asked(c, ToPager)
           w == asked(v, ToPhone)
<1>1. /\ c.s = session /\ plan \in Plans /\ net \subseteq Datagram /\ Good(c)
      /\ \A l \in Legs \ Ends : session[l].transferring = "NONE" /\ session[l].oseqno = 1
      /\ Becomes(w, {})
  BY DEF IInv, Current, Setup
<1>2. /\ ToPager \in Bridged /\ ToPhone \in Bridged /\ Other(ToPager) = ToPhone /\ Other(ToPhone) = ToPager
      /\ ToPager \in Legs /\ ToPhone \in Legs /\ ToPager \notin Ends
  <2>1. Bridged = {ToPager, ToPhone} /\ ToPager # ToPhone
    BY Others
  <2>2. Other(ToPager) \in Bridged \ {ToPager} /\ Other(ToPhone) \in Bridged \ {ToPhone}
        /\ ToPager \in Legs /\ ToPhone \in Legs /\ ToPager \notin Ends
    BY <2>1, Others
  <2> QED BY <2>1, <2>2
<1>3. \A l \in Bridged : session[l].peer = EndOf(l) /\ session[l].peercallno \in Nat
                         /\ session[l].transferring = "NONE" /\ session[l].oseqno = 1
  <2> TAKE l \in Bridged
  <2>1. LegInv(session, l) /\ session[l] \in Session
    BY <1>1, Others, ValueFacts DEF SessionInv
  <2> QED BY <1>1, <2>1 DEF LegInv, Session, Bridged
<1> HIDE DEF c
<1>4. v = Asked(c, ToPager, session[ToPhone].peer, session[ToPager].peercallno, session[ToPhone].peercallno)
  BY <1>2 DEF Asked
<1>5. w = Asked(v, ToPhone, session[ToPager].peer, session[ToPhone].peercallno, session[ToPager].peercallno)
  BY <1>2 DEF Asked
<1> HIDE DEF v, w
<1>6. /\ Goes(c, v, ToPager)
      /\ Alike(c.s[ToPhone], v.s[ToPhone]) /\ v.s[ToPhone].oseqno = c.s[ToPhone].oseqno
  BY <1>1, <1>2, <1>3, <1>4, AskedGoes
<1>7. v.s[ToPhone].oseqno = 1 /\ v.s[ToPhone].transferring = "NONE" /\ Good(v)
  BY <1>1, <1>2, <1>3, <1>6 DEF Goes, Alike
<1>8. Goes(v, w, ToPhone)
  BY <1>1, <1>2, <1>3, <1>7, <1>5, AskedGoes
<1>9. Goes(v, w, ToPager)
  BY <1>2, <1>8, LegGoesEither
<1>10. Goes(c, w, ToPager)
  <2>1. \A e \in Ends : w.s[e].fresh => v.s[e].fresh
    BY <1>2, <1>9 DEF Goes, Alike
  <2> QED BY <1>6, <1>9, <2>1, GoesGoes
<1> QED BY <1>1, <1>2, <1>10 DEF Moves, c

LEMMA NextMoves ==
  ASSUME IInv, Next
  PROVE  Moves /\ plan' = plan
<1>1. CASE Setup
  BY <1>1, SetupMoves DEF Setup
<1>2. ASSUME NEW e \in Ends, Send(e)
      PROVE  Moves /\ plan' = plan
  BY <1>2, SendMoves DEF Send
<1>3. ASSUME NEW l \in Legs, Receive(l)
      PROVE  Moves /\ plan' = plan
  BY <1>3, ReceiveMoves DEF Receive
<1>4. ASSUME NEW l \in Legs, Timer(l)
      PROVE  Moves /\ plan' = plan
  BY <1>4, TimerMoves DEF Timer
<1> QED BY <1>1, <1>2, <1>3, <1>4 DEF Next

(* What is counted of the frames between the ends. *)
LEMMA CountsKept ==
  ASSUME IInv, Next
  PROVE  sent' \in [Ends -> Nat] /\ taken' \in [Ends -> Seq(Nat)]
<1>1. sent \in [Ends -> Nat] /\ taken \in [Ends -> Seq(Nat)]
  BY DEF IInv
<1>2. CASE Setup
  BY <1>1, <1>2 DEF Setup
<1>3. ASSUME NEW e \in Ends, Send(e)
      PROVE  sent' \in [Ends -> Nat] /\ taken' = taken
  BY <1>1, <1>3 DEF Send
<1>4. ASSUME NEW l \in Legs, Timer(l)
      PROVE  sent' = sent /\ taken' = taken
  BY <1>4 DEF Timer
<1>5. ASSUME NEW l \in Legs, Receive(l)
      PROVE  sent' = sent /\ taken' \in [Ends -> Seq(Nat)]
  <2>1. PICK d \in net :
          /\ taken' = IF Took(l, d) THEN [taken EXCEPT ![l] = Append(@, d.n)]
                      ELSE IF l \in Ends /\ session'[l].fresh # session[l].fresh
                      THEN [taken EXCEPT ![l] = << >>] ELSE taken
          /\ sent' = sent
    BY <1>5 DEF Receive
  <2>2. d.n \in Nat
    BY DEF IInv, Datagram
  <2>3. CASE l \notin Ends
    <3>1. [taken EXCEPT ![l] = Append(@, d.n)] = taken
      BY <1>1, <2>3
    <3> QED BY <1>1, <2>1, <2>3, <3>1
  <2>4. CASE l \in Ends
    <3>1. taken[l] \in Seq(Nat)
      BY <1>1, <2>4
    <3>2. Append(taken[l], d.n) \in Seq(Nat) /\ << >> \in Seq(Nat)
      BY <2>2, <3>1
    <3> QED BY <1>1, <2>1, <2>4, <3>2
  <2> QED BY <2>1, <2>3, <2>4
<1> QED BY <1>1, <1>2, <1>3, <1>4, <1>5 DEF Next

(* What is said of sessions depends on the plan alone, which stays. *)
LEMMA PlanKept ==
  ASSUME plan' = plan
  PROVE  /\ SessionInv(session)' <=> SessionInv(session')
         /\ \A l \in Legs : \A f : FrameInv(session, l, f)' <=> FrameInv(session', l, f)
         /\ \A d : DatagramInv(session, d)' <=> DatagramInv(session', d)
<1>1. ASSUME NEW e \in Ends
      PROVE  EndInv(session, e)' <=> EndInv(session', e)
  BY DEF EndInv, Agreed, Right, BothDirect, Harmless, Known, Seen, Callno
<1>2. ASSUME NEW l \in Bridged
      PROVE  LegInv(session, l)' <=> LegInv(session', l)
  BY DEF LegInv, Agreed, Callno
<1>3. ASSUME NEW l \in Legs, NEW f
      PROVE  FrameInv(session, l, f)' <=> FrameInv(session', l, f)
  BY DEF FrameInv, Request, Release, Agreed, Right, BothDirect, BothAgreed, Harmless, Seen, Callno
<1>4. ASSUME NEW d
      PROVE  DatagramInv(session, d)' <=> DatagramInv(session', d)
  BY DEF DatagramInv, Request, Release, Agreed, Right, BothDirect, BothAgreed, Harmless, Seen, Callno
<1> QED BY <1>1, <1>2, <1>3, <1>4 DEF SessionInv

LEMMA NextIInv == IInv /\ [Next]_vars => IInv'
<1> SUFFICES ASSUME IInv, [Next]_vars
             PROVE  IInv'
  OBVIOUS
<1>1. CASE UNCHANGED vars
  BY <1>1, PlanKept DEF IInv, vars, Good, Current, Callno, SessionInv
<1>2. CASE Next
  <2>1. PICK w : \E l \in Legs : \E used : Goes(Current, w, l) /\ Becomes(w, used)
    BY <1>2, NextMoves DEF Moves
  <2>2. Good(w) /\ w.s = session' /\ w.q = schedq' /\ net' \subseteq net \cup w.out
        /\ \A l \in Legs : w.s[l].oseqno <= plan.most[l]
    BY <2>1 DEF Goes, Becomes
  <2>3. plan' = plan /\ plan \in Plans /\ net \subseteq Datagram
    BY <1>2, NextMoves DEF IInv
  <2>4. sent' \in [Ends -> Nat] /\ taken' \in [Ends -> Seq(Nat)]
    BY <1>2, CountsKept
  <2>5. net' \subseteq Datagram
    BY <2>2, <2>3, ValueFacts
  <2>6. Current' \in Value
    <3>1. session' \in [Legs -> Session] /\ schedq' \in [Legs -> SUBSET Frame]
      BY <2>2, ValueFacts
    <3> QED BY <3>1 DEF Current, Value
  <2>7. SessionInv(session)'
    BY <2>2, <2>3, PlanKept, ValueFacts
  <2>8. \A l \in Legs : \A f \in schedq'[l] : FrameInv(session, l, f)'
    BY <2>2, <2>3, PlanKept DEF Good
  <2>9. \A d \in net' : DatagramInv(session, d)'
    BY <2>2, <2>3, PlanKept DEF Good
  <2>10. Good(Current)'
    <3>1. Current.s' = session' /\ Current.q' = schedq' /\ Current.out' = {}
      BY DEF Current
    <3> QED BY <2>6, <2>7, <2>8, <2>9, <3>1 DEF Good
  <2>11. \A l \in Legs : session'[l].oseqno < Half
    <3> TAKE l \in Legs
    <3>1. session'[l].oseqno \in Nat
      BY <2>2, <2>3, ValueFacts, NumberFacts DEF Session
    <3>2. session'[l].oseqno <= plan.most[l] /\ plan.most[l] \in 1 .. Half - 1 /\ Half \in Nat
      BY <2>2, <2>3, PlanFacts
    <3> QED BY <3>1, <3>2
  <2> QED BY <2>3, <2>4, <2>5, <2>10, <2>11 DEF IInv
<1> QED BY <1>1, <1>2

LEMMA InitIInv == Init => IInv
<1> SUFFICES ASSUME Init
             PROVE  IInv
  OBVIOUS
<1>1. plan \in Plans /\ net = {} /\ schedq = [l \in Legs |-> {}]
  BY DEF Init
<1>2. \A e \in Ends : session[e] = InCall(Bridge, Callno(Leg(e)))
  BY Others DEF Init
<1>3. \A l \in Bridged : session[l] = InCall(EndOf(l), Callno(EndOf(l)))
  <2> TAKE l \in Bridged
  <2>1. l \in Legs /\ l \notin Ends /\ EndOf(l) \in Ends /\ Leg(EndOf(l)) = l
    BY Others
  <2>2. \A x \in Ends : Leg(x) = l => x = EndOf(l)
    BY Others
  <2>3. (CHOOSE x \in Ends : Leg(x) = l) = EndOf(l)
    BY <2>1, <2>2
  <2> QED BY <2>1, <2>3 DEF Init
<1>4. /\ 1 \in Numbers /\ M - 1 \in Numbers /\ 0 \in Nat /\ 1 < Half /\ Half \in Nat
      /\ \A l \in Legs : Callno(l) \in Nat
  BY <1>1, PlanFacts DEF Numbers
<1> DEFINE Started(x, p, c) ==
      /\ x \in Session /\ x.peer = p /\ x.peercallno = c /\ x.transfer = Nobody
      /\ x.transferpeer = 0 /\ x.transferring = "NONE" /\ x.fresh = FALSE
      /\ x.oseqno = 1 /\ x.iseqno = 1
<1>5. ASSUME NEW p \in Addresses, NEW c \in Nat
      PROVE  Started(InCall(p, c), p, c)
  <2>1. InCall(p, c) \in Session
    BY <1>4 DEF InCall, Session
  <2> QED BY <2>1 DEF InCall
<1> HIDE DEF Started
<1>6. /\ \A e \in Ends : Started(session[e], Bridge, Callno(Leg(e)))
      /\ \A l \in Bridged : Started(session[l], EndOf(l), Callno(EndOf(l)))
  <2>1. Bridge \in Addresses /\ Ends \subseteq Addresses
    BY Others DEF Addresses
  <2>2. /\ \A e \in Ends : Callno(Leg(e)) \in Nat
        /\ \A l \in Bridged : Callno(EndOf(l)) \in Nat /\ EndOf(l) \in Addresses
    BY <1>4, <2>1, Others
  <2> QED BY <1>2, <1>3, <1>5, <2>1, <2>2
<1>7. ASSUME NEW e \in Ends
      PROVE  EndInv(session, e)
  <2>1. Started(session[e], Bridge, Callno(Leg(e)))
    BY <1>6
  <2> QED BY <1>4, <2>1 DEF EndInv, Agreed, Started
<1>8. ASSUME NEW l \in Bridged
      PROVE  LegInv(session, l)
  <2>1. Started(session[l], EndOf(l), Callno(EndOf(l))) /\ EndOf(l) \in {Pager, Phone}
    BY <1>6, Others
  <2> QED BY <2>1 DEF LegInv, Started
<1>9. Good(Current)
  <2>1. session \in [Legs -> Session]
    <3>1. \A l \in Legs : session[l] \in Session
      BY <1>6, Others DEF Started
    <3>2. DOMAIN session = Legs /\ session = [l \in Legs |-> session[l]]
      BY DEF Init
    <3> QED BY <3>1, <3>2
  <2>2. Current.s = session /\ Current.q = schedq /\ Current.out = {} /\ Current \in Value
    BY <1>1, <2>1 DEF Current, Value
  <2> QED BY <1>1, <1>7, <1>8, <2>2 DEF Good, SessionInv
<1>10. \A l \in Legs : session[l].oseqno < Half
  BY <1>4, <1>6, Others DEF Started
<1>11. sent \in [Ends -> Nat] /\ taken \in [Ends -> Seq(Nat)]
  BY DEF Init
<1> QED BY <1>1, <1>9, <1>10, <1>11 DEF IInv

LEMMA Invariant == Spec => []IInv
BY InitIInv, NextIInv, PTL DEF Spec

-----------------------------------------------------------------------------
(* What follows from the invariant *)

LEMMA InvariantParts ==
  ASSUME IInv
  PROVE  /\ plan \in Plans /\ session \in [Legs -> Session] /\ schedq \in [Legs -> SUBSET Frame]
         /\ SessionInv(session) /\ \A l \in Legs : \A f \in schedq[l] : FrameInv(session, l, f)
<1>1. Current.s = session /\ Current.q = schedq /\ Good(Current) /\ plan \in Plans
  BY DEF IInv, Current
<1> QED BY <1>1, ValueFacts

(* Every variable keeps its type. *)
THEOREM TypeCorrect == Spec => []TypeOK
<1>1. IInv => TypeOK
  <2> SUFFICES ASSUME IInv
               PROVE  TypeOK
    OBVIOUS
  <2>1. ASSUME NEW l \in Legs
        PROVE  /\ session[l].peer \in Hosts \cup {Outside}
               /\ session[l].transfer \in Hosts \cup {Outside, Nobody}
               /\ session[l].transferring \in {"NONE", "BEGIN", "READY", "REL"}
               /\ \A x \in {session[l].oseqno, session[l].iseqno, session[l].rseqno,
                            session[l].aseqno, session[l].lastvnak} : x \in Numbers
               /\ schedq[l] \subseteq Frame
    <3>1. session[l] \in Session /\ schedq[l] \subseteq Frame
      BY InvariantParts
    <3> QED BY <3>1 DEF Session, Addresses
  <2>2. \A d \in net : d.at \in Hosts /\ d.oseqno \in Numbers /\ d.iseqno \in Numbers
    BY DEF IInv, Datagram
  <2> QED BY <2>1, <2>2 DEF IInv, TypeOK
<1> QED BY <1>1, Invariant, PTL

(* An end that was released is recognised by the other, whatever each of them has
   seen of the transfer; for a bridge that is told once that an end is ready, or
   whose ends have the same call number. *)
THEOREM RecognisedSafe == Spec => [](Harmless => Recognised)
<1>1. IInv => (Harmless => Recognised)
  <2> SUFFICES ASSUME IInv, Harmless, NEW e \in Ends, session[e].fresh,
                      NEW d \in Transmitted(e, session[e],
                                            [cmd |-> "data", oseqno |-> 0, iseqno |-> 0,
                                             dst |-> session[e].peercallno, transfer |-> FALSE,
                                             addr |-> Nobody, callno |-> 0, n |-> 1])
               PROVE  d.at = Other(e) /\ Other(e) \in FindSession(d)
    BY DEF Recognised, Direct
  <2> DEFINE o == Other(e)
  <2>1. plan \in Plans /\ SessionInv(session)
    BY InvariantParts
  <2>2. o \in Ends /\ o \in Legs /\ Other(o) = e /\ Host(o) = o
    BY Others
  <2> HIDE DEF o
  <2>3. EndInv(session, e) /\ EndInv(session, o)
    BY <2>1, <2>2 DEF SessionInv
  <2>4. d.at = o /\ d.from = Seen(e, o) /\ d.src = Callno(e) /\ d.dst = Callno(o) /\ d.cmd = "data"
    <3>1. PICK h \in Reached(e, session[e].peer) :
            /\ d.at = h /\ d.from = Seen(e, h) /\ d.src = Callno(e)
            /\ d.dst = session[e].peercallno /\ d.cmd = "data"
      BY DEF Transmitted
    <3>2. h = o
      BY <2>1, <3>1, Addressed DEF o
    <3>3. session[e].peercallno = Callno(o)
      BY <2>3 DEF EndInv, o
    <3> QED BY <3>1, <3>2, <3>3
  <2>5. Agreed(session, o) /\ Right(session, o)
    BY <2>3 DEF EndInv, o
  <2>6. ForwardMatch(o, d)
    <3>1. CASE session[o].fresh
      <4>1. session[o].peer = d.from /\ session[o].peercallno = d.src
        BY <2>2, <2>3, <2>4, <2>5, <3>1 DEF Right, EndInv
      <4> QED BY <2>4, <4>1 DEF ForwardMatch
    <3>2. CASE ~session[o].fresh
      <4>1. session[o].transferring # "NONE" /\ session[o].transfer = d.from
        BY <2>2, <2>4, <2>5, <3>2 DEF Right
      <4> QED BY <2>4, <4>1 DEF ForwardMatch
    <3> QED BY <3>1, <3>2
  <2> QED BY <2>2, <2>4, <2>6 DEF FindSession, o
<1> QED BY <1>1, Invariant, PTL

(* the status of the ends as Handover sees it *)
StatusOf(s) ==
  [e \in Ends |-> IF s[e].fresh THEN "direct" ELSE IF s[e].transferring = "READY" THEN "ready" ELSE "bridged"]

LEMMA StatusFacts ==
  ASSUME NEW s, NEW e \in Ends
  PROVE  /\ StatusOf(s)[e] \in {"direct", "ready", "bridged"}
         /\ StatusOf(s)[e] = "direct" <=> s[e].fresh
         /\ StatusOf(s)[e] # "bridged" <=> Agreed(s, e)
BY DEF StatusOf, Agreed

(* Whatever the bridge, the network and the timers do, an end changes its status as
   Handover allows. *)
LEMMA GoesHandsOver ==
  ASSUME NEW w, NEW l \in Legs, Goes(Current, w, l), w.s = session'
  PROVE  \/ StatusOf(session') = StatusOf(session)
         \/ /\ l \in Ends /\ StatusOf(session)[l] = "bridged"
            /\ StatusOf(session') = [StatusOf(session) EXCEPT ![l] = "ready"]
         \/ /\ l \in Ends /\ StatusOf(session)[l] = "ready"
            /\ \A o \in Ends : StatusOf(session)[o] # "bridged"
            /\ StatusOf(session') = [StatusOf(session) EXCEPT ![l] = "direct"]
<1> DEFINE p == StatusOf(session)
           q == StatusOf(session')
<1>1. Current.s = session
  BY DEF Current
<1>2. \A e \in Ends \ {l} : q[e] = p[e]
  BY <1>1 DEF Goes, Alike, StatusOf
<1>3. p = [e \in Ends |-> p[e]] /\ q = [e \in Ends |-> q[e]]
  BY DEF StatusOf
<1>4. CASE l \notin Ends
  BY <1>2, <1>3, <1>4
<1>5. CASE l \in Ends
  <2>1. /\ p[l] \in {"direct", "ready", "bridged"} /\ q[l] \in {"direct", "ready", "bridged"}
        /\ p[l] = "direct" => q[l] = "direct"
        /\ p[l] # "bridged" => q[l] # "bridged"
        /\ q[l] = "direct" => p[l] = "direct" \/ \A o \in Ends : p[o] # "bridged"
    BY <1>1, <1>5, StatusFacts DEF Goes, Onward, BothAgreed
  <2> HIDE DEF p, q
  <2>2. q = [p EXCEPT ![l] = q[l]]
    BY <1>2, <1>3, <1>5
  <2>3. q[l] = p[l] => q = p
    BY <1>2, <1>3, <1>5
  <2>4. CASE q[l] = p[l]
    BY <2>3, <2>4 DEF p, q
  <2>5. CASE p[l] = "bridged" /\ q[l] = "ready"
    BY <1>5, <2>2, <2>5 DEF p, q
  <2>6. CASE p[l] = "ready" /\ q[l] = "direct"
    BY <1>5, <2>1, <2>2, <2>6 DEF p, q
  <2>7. ~(p[l] = "bridged" /\ q[l] = "direct")
    BY <1>5, <2>1
  <2> QED BY <2>1, <2>4, <2>5, <2>6, <2>7
<1> QED BY <1>4, <1>5

(* The four sessions implement Handover: an end agrees, never takes its word back,
   and is switched over only when both have agreed. *)
THEOREM HandoverSafe == Spec => HandoverImplemented
<1>1. Init => Agreement!Bridged
  <2>1. \A s : StatusOf(s) = [e \in Ends |-> IF s[e].fresh THEN "direct"
                              ELSE IF s[e].transferring = "READY" THEN "ready" ELSE "bridged"]
    BY DEF StatusOf
  <2>2. Init => \A e \in Ends : session[e].fresh = FALSE /\ session[e].transferring = "NONE"
    BY Others DEF Init, InCall
  <2> QED BY <2>2 DEF Agreement!Bridged
<1>2. IInv /\ [Next]_vars
        => [\E e \in Ends : Agreement!Agree(e) \/ Agreement!Withdraw(e) \/ Agreement!Switch(e)]_(StatusOf(session))
  <2> SUFFICES ASSUME IInv, [Next]_vars, StatusOf(session)' # StatusOf(session)
               PROVE  \E e \in Ends : Agreement!Agree(e) \/ Agreement!Switch(e)
    OBVIOUS
  <2>1. Next
    BY DEF vars, StatusOf
  <2>2. PICK w : \E l \in Legs : \E used : Goes(Current, w, l) /\ Becomes(w, used)
    BY <2>1, NextMoves DEF Moves
  <2>3. PICK l \in Legs : Goes(Current, w, l) /\ w.s = session'
    BY <2>2 DEF Becomes
  <2>4. StatusOf(session)' = StatusOf(session')
    BY DEF StatusOf
  <2>5. CASE /\ l \in Ends /\ StatusOf(session)[l] = "bridged"
             /\ StatusOf(session') = [StatusOf(session) EXCEPT ![l] = "ready"]
    BY <2>5 DEF StatusOf, Agreement!Agree
  <2>6. CASE /\ l \in Ends /\ StatusOf(session)[l] = "ready"
             /\ \A o \in Ends : StatusOf(session)[o] # "bridged"
             /\ StatusOf(session') = [StatusOf(session) EXCEPT ![l] = "direct"]
    BY <2>6 DEF StatusOf, Agreement!Switch
  <2> QED BY <2>3, <2>4, <2>5, <2>6, GoesHandsOver
<1> QED BY <1>1, <1>2, Invariant, PTL DEF Spec, HandoverImplemented, Agreement!HandoverSpec, StatusOf

-----------------------------------------------------------------------------
(* The direct call, if an end has one frame under way at a time and gives up none
   of the transfer *)
Straight == plan.window = 1 /\ ~plan.expire

(* how many frames an end has sent directly, and how many it has taken so *)
Said(x) == IF x.fresh THEN x.oseqno ELSE 0
Heard(x) == IF x.fresh THEN x.iseqno ELSE 0

(* A frame of the end x, whose other end is y: those of the direct call are
   numbered from 1, the last of them may be sent again, and any that is not was taken. *)
Regular(f, x, y) ==
  /\ f.transfer => f.cmd \in {"TXCNT", "TXACC"} /\ f.iseqno = 0 /\ f.n = 0
  /\ f.n > 0 => /\ f.cmd = "data" /\ f.n = f.oseqno + 1 /\ f.n <= Said(x) /\ f.iseqno <= Heard(x)
                /\ IF f.live THEN f.n = Said(x) ELSE f.n <= Heard(y)
  /\ x.fresh /\ f.live => f.n > 0

(* whom an end sends to *)
Faced(x, e) ==
  /\ x.transfer \in Known(e) \cup {Nobody}
  /\ IF x.fresh THEN x.peer \in Known(e) /\ x.transferring = "NONE" ELSE x.peer = Bridge

(* the schedule of an end *)
Aligned(x, y, Q, e) ==
  /\ Faced(x, e) /\ Heard(x) <= Said(y)
  /\ IsFiniteSet(Q)
  /\ \A k \in 1 .. Said(x) : \E f \in Q : f.n = k
  /\ \A f \in Q : Regular(f, x, y)

(* what the end x may have sent to the other one *)
Due(x, d) ==
  /\ d.cmd \in {"TXCNT", "TXACC", "data", "ACK"}
  /\ d.iseqno \in 0 .. Heard(x)
  /\ d.cmd = "data" => d.n = d.oseqno + 1 /\ d.n \in 1 .. Said(x)

Between(d) == d.at \in Ends /\ d.from # Bridge
Posted(l, x, D) == \A d \in D : Between(d) => l \in Ends /\ d.at = Other(l) /\ Due(x, d)

Shaped(v) ==
  /\ v = [s |-> v.s, q |-> v.q, out |-> v.out]
  /\ v.s \in [Legs -> Session] /\ v.q \in [Legs -> SUBSET Frame]

Orderly(v) ==
  /\ Shaped(v)
  /\ \A e \in Ends : Aligned(v.s[e], v.s[Other(e)], v.q[e], e)
  /\ \A d \in net \cup v.out : Between(d) => Due(v.s[Other(d.at)], d)

Level(x, r) == Said(r) = Said(x) /\ Heard(r) = Heard(x)
Rises(x, r) == Said(x) <= Said(r) /\ Heard(x) <= Heard(r)

LEMMA SaidFacts ==
  ASSUME plan \in Plans, NEW x \in Session
  PROVE  Said(x) \in Nat /\ Heard(x) \in Nat /\ x.oseqno \in Nat /\ x.iseqno \in Nat
BY NumberFacts DEF Session, Said, Heard

LEMMA OrderlyParts ==
  ASSUME plan \in Plans, NEW v, Orderly(v), NEW l \in Legs
  PROVE  /\ v.s[l] \in Session /\ v.q[l] \in SUBSET Frame /\ Shaped(v)
         /\ v.s \in [Legs -> Session] /\ v.q \in [Legs -> SUBSET Frame]
         /\ l \in Ends => Aligned(v.s[l], v.s[Other(l)], v.q[l], l) /\ v.s[Other(l)] \in Session
BY Others DEF Orderly, Shaped

(* Only one session, its schedule and what is sent change, and no count goes back. *)
LEMMA OrderlyChange ==
  ASSUME plan \in Plans, NEW v, Orderly(v), NEW l \in Legs, NEW r \in Session,
         NEW Q \in SUBSET Frame, NEW D, NEW w, w = [s |-> w.s, q |-> w.q, out |-> w.out],
         w.s = [v.s EXCEPT ![l] = r], w.q = [v.q EXCEPT ![l] = Q], w.out = v.out \cup D,
         l \in Ends => Rises(v.s[l], r) /\ Aligned(r, v.s[Other(l)], Q, l),
         Posted(l, r, D)
  PROVE  Orderly(w) /\ \A e \in Ends \ {l} : Level(v.s[e], w.s[e])
<1>1. v.s \in [Legs -> Session] /\ v.q \in [Legs -> SUBSET Frame]
  BY OrderlyParts
<1>2. Shaped(w)
  BY <1>1 DEF Shaped
<1>3. w.s[l] = r /\ w.q[l] = Q /\ \A k \in Legs \ {l} : w.s[k] = v.s[k] /\ w.q[k] = v.q[k]
  BY <1>1
<1>4. \A e \in Ends :
        /\ Said(v.s[e]) \in Nat /\ Said(w.s[e]) \in Nat /\ Said(v.s[e]) <= Said(w.s[e])
        /\ Heard(v.s[e]) \in Nat /\ Heard(w.s[e]) \in Nat /\ Heard(v.s[e]) <= Heard(w.s[e])
  <2> TAKE e \in Ends
  <2>1. e \in Legs /\ v.s[e] \in Session /\ w.s[e] \in Session
    BY <1>1, <1>2, Others DEF Shaped
  <2>2. /\ Said(v.s[e]) \in Nat /\ Said(w.s[e]) \in Nat
        /\ Heard(v.s[e]) \in Nat /\ Heard(w.s[e]) \in Nat
    BY <2>1, SaidFacts
  <2>3. CASE e = l
    BY <1>3, <2>2, <2>3 DEF Rises
  <2>4. CASE e # l
    BY <1>3, <2>1, <2>2, <2>4
  <2> QED BY <2>3, <2>4
<1>5. ASSUME NEW e \in Ends
      PROVE  Aligned(w.s[e], w.s[Other(e)], w.q[e], e)
  <2>1. CASE e = l
    <3>1. w.s[Other(e)] = v.s[Other(e)]
      BY <1>3, <2>1, Others
    <3> QED BY <1>3, <2>1, <3>1
  <2>2. CASE e # l
    <3>1. w.s[e] = v.s[e] /\ w.q[e] = v.q[e] /\ Other(e) \in Ends
      BY <1>3, <2>2, Others
    <3> DEFINE y == v.s[Other(e)]
               z == w.s[Other(e)]
    <3>2. /\ Said(y) \in Nat /\ Said(z) \in Nat /\ Said(y) <= Said(z)
          /\ Heard(y) \in Nat /\ Heard(z) \in Nat /\ Heard(y) <= Heard(z)
      BY <1>4, <3>1
    <3>3. Aligned(v.s[e], y, v.q[e], e) /\ v.q[e] \in SUBSET Frame /\ Heard(v.s[e]) \in Nat
      BY <1>1, <1>4, Others DEF Orderly
    <3> HIDE DEF y, z
    <3>4. Aligned(v.s[e], z, v.q[e], e)
      <4>1. \A f \in v.q[e] : f.n \in Nat /\ Regular(f, v.s[e], y)
        BY <3>3 DEF Frame, Aligned
      <4>2. \A f \in v.q[e] : Regular(f, v.s[e], z)
        BY <3>2, <4>1 DEF Regular
      <4>3. Heard(v.s[e]) <= Said(z)
        BY <3>2, <3>3 DEF Aligned
      <4> QED BY <3>3, <4>2, <4>3 DEF Aligned
    <3> QED BY <3>1, <3>4 DEF z
  <2> QED BY <2>1, <2>2
<1>6. ASSUME NEW d \in net \cup w.out, Between(d)
      PROVE  Due(w.s[Other(d.at)], d)
  <2>1. Other(d.at) \in Ends /\ Other(Other(d.at)) = d.at
    BY <1>6, Others DEF Between
  <2>2. CASE d \in D
    <3>1. l \in Ends /\ d.at = Other(l) /\ Due(r, d)
      BY <1>6, <2>2 DEF Posted
    <3>2. Other(d.at) = l
      BY <3>1, Others
    <3> QED BY <1>3, <3>1, <3>2
  <2>3. CASE d \in net \cup v.out
    <3>1. Due(v.s[Other(d.at)], d)
      BY <1>6, <2>3 DEF Orderly
    <3> DEFINE y == v.s[Other(d.at)]
               z == w.s[Other(d.at)]
    <3>2. /\ Said(y) \in Nat /\ Said(z) \in Nat /\ Said(y) <= Said(z)
          /\ Heard(y) \in Nat /\ Heard(z) \in Nat /\ Heard(y) <= Heard(z)
      BY <1>4, <2>1
    <3> HIDE DEF y, z
    <3>3. Due(z, d)
      BY <3>1, <3>2 DEF Due, y
    <3> QED BY <3>3 DEF z
  <2> QED BY <2>2, <2>3
<1>7. \A e \in Ends \ {l} : Level(v.s[e], w.s[e])
  BY <1>3, Others DEF Level
<1> QED BY <1>2, <1>5, <1>6, <1>7 DEF Orderly

(* What may be sent by a session x that is none or not yet released, and by one that
   is. *)
Sendable(f, x) ==
  /\ f.transfer => f.cmd \in {"TXCNT", "TXACC"} /\ f.iseqno = 0
  /\ x.fresh => /\ ~f.transfer /\ f.cmd \in {"data", "ACK"} /\ f.iseqno \in 0 .. Heard(x)
                /\ f.cmd = "data" => f.n = f.oseqno + 1 /\ f.n \in 1 .. Said(x)

LEMMA SentPosted ==
  ASSUME plan \in Plans, NEW l \in Legs, NEW x \in Session, NEW f,
         l \in Ends => Faced(x, l) /\ Sendable(f, x)
  PROVE  Posted(l, x, Transmitted(l, x, f))
<1> SUFFICES ASSUME NEW d \in Transmitted(l, x, f), Between(d)
             PROVE  l \in Ends /\ d.at = Other(l) /\ Due(x, d)
  BY DEF Posted
<1> DEFINE a == IF f.transfer THEN x.transfer ELSE x.peer
<1>1. PICK h \in Reached(l, a) :
        /\ d.at = h /\ d.from = Seen(l, h) /\ d.cmd = f.cmd
        /\ d.oseqno = f.oseqno /\ d.iseqno = f.iseqno /\ d.n = f.n
  BY DEF Transmitted
<1>2. l \in Ends
  BY <1>1, SeenFacts, Others DEF Between
<1>3. /\ Reached(l, Bridge) \subseteq {Bridge} /\ Reached(l, Nobody) = {}
      /\ \A b \in Known(l) : \A k \in Reached(l, b) : k = Other(l)
  BY <1>2, ReachedFacts
<1>4. Bridge \notin Ends
  BY <1>2, Others
<1>5. CASE f.transfer
  <2>1. ~x.fresh /\ f.cmd \in {"TXCNT", "TXACC"} /\ f.iseqno = 0 /\ a = x.transfer
    BY <1>2, <1>5 DEF Sendable
  <2>2. h = Other(l)
    BY <1>1, <1>2, <1>3, <2>1 DEF Faced
  <2>3. Due(x, d)
    BY <1>1, <2>1 DEF Due, Heard
  <2> QED BY <1>1, <1>2, <2>2, <2>3
<1>6. CASE ~f.transfer /\ ~x.fresh
  <2>1. a = Bridge
    BY <1>2, <1>6 DEF Faced
  <2>2. h = Bridge
    BY <1>1, <1>3, <2>1
  <2> QED BY <1>1, <1>4, <2>2 DEF Between
<1>7. CASE ~f.transfer /\ x.fresh
  <2>1. a \in Known(l) /\ f.cmd \in {"data", "ACK"} /\ f.iseqno \in 0 .. Heard(x)
        /\ (f.cmd = "data" => f.n = f.oseqno + 1 /\ f.n \in 1 .. Said(x))
    BY <1>2, <1>7 DEF Faced, Sendable
  <2>2. h = Other(l)
    BY <1>1, <1>3, <2>1
  <2>3. Due(x, d)
    BY <1>1, <2>1 DEF Due
  <2> QED BY <1>1, <1>2, <2>2, <2>3
<1> QED BY <1>5, <1>6, <1>7

LEMMA PostedLevel ==
  ASSUME NEW l, NEW x, NEW r, NEW D, Posted(l, x, D), l \in Ends => Level(x, r)
  PROVE  Posted(l, r, D)
BY DEF Posted, Due, Level

LEMMA PostedNone ==
  ASSUME NEW l, NEW x, NEW D, D = {}
  PROVE  Posted(l, x, D)
BY DEF Posted

(* ... and the counts of the ends stay, and which of them is released. *)
Calm(v, w) ==
  /\ Orderly(w)
  /\ \A e \in Ends : Level(v.s[e], w.s[e]) /\ w.s[e].fresh = v.s[e].fresh

LEMMA CalmCalm ==
  ASSUME NEW u, NEW v, NEW w, Calm(u, v), Calm(v, w)
  PROVE  Calm(u, w)
BY DEF Calm, Level

LEMMA CalmSelf ==
  ASSUME NEW v, Orderly(v)
  PROVE  Calm(v, v)
BY DEF Calm, Level

LEMMA CalmChange ==
  ASSUME plan \in Plans, NEW v, Orderly(v), NEW l \in Legs, NEW r \in Session,
         NEW Q \in SUBSET Frame, NEW D, NEW w, w = [s |-> w.s, q |-> w.q, out |-> w.out],
         w.s = [v.s EXCEPT ![l] = r], w.q = [v.q EXCEPT ![l] = Q], w.out = v.out \cup D,
         l \in Ends => /\ Level(v.s[l], r) /\ Aligned(r, v.s[Other(l)], Q, l)
                       /\ r.fresh = v.s[l].fresh,
         Posted(l, r, D)
  PROVE  Calm(v, w)
<1>1. Orderly(w)
  <2>1. Level(v.s[l], r) => Rises(v.s[l], r)
    BY OrderlyParts, SaidFacts DEF Level, Rises
  <2> QED BY <2>1, OrderlyChange
<1>2. v.s \in [Legs -> Session]
  BY OrderlyParts
<1>3. ASSUME NEW e \in Ends
      PROVE  Level(v.s[e], w.s[e]) /\ w.s[e].fresh = v.s[e].fresh
  <2>1. CASE e = l
    BY <1>2, <2>1
  <2>2. CASE e # l
    BY <1>2, <2>2, Others DEF Level
  <2> QED BY <2>1, <2>2
<1> QED BY <1>1, <1>3 DEF Calm

(* The session alone changes. *)
LEMMA AlignedLevel ==
  ASSUME NEW x, NEW y, NEW Q, NEW e, Aligned(x, y, Q, e), NEW r, Level(x, r), r.fresh = x.fresh,
         Faced(r, e)
  PROVE  Aligned(r, y, Q, e)
BY DEF Aligned, Regular, Level

LEMMA SessionCalm ==
  ASSUME plan \in Plans, NEW v, Orderly(v), NEW l \in Legs, NEW r \in Session, NEW D, NEW w,
         w = [s |-> w.s, q |-> w.q, out |-> w.out],
         w.s = [v.s EXCEPT ![l] = r], w.q = v.q, w.out = v.out \cup D,
         l \in Ends => Level(v.s[l], r) /\ Faced(r, l) /\ r.fresh = v.s[l].fresh,
         Posted(l, r, D)
  PROVE  Calm(v, w)
<1>1. v.q[l] \in SUBSET Frame /\ w.q = [v.q EXCEPT ![l] = v.q[l]]
  BY OrderlyParts
<1>2. l \in Ends => Aligned(r, v.s[Other(l)], v.q[l], l)
  BY OrderlyParts, AlignedLevel
<1> QED BY <1>1, <1>2, CalmChange

(* The calls handlers make *)
LEMMA ImmediateCalm ==
  ASSUME plan \in Plans, NEW v, Orderly(v), NEW l \in Legs, NEW cmd \in {"ACK", "VNAK"},
         l \in Ends /\ v.s[l].fresh => cmd = "ACK"
  PROVE  Calm(v, Immediate(v, l, cmd))
<1> DEFINE x == v.s[l]
           r == [x EXCEPT !.aseqno = x.iseqno]
           f == [cmd |-> cmd, oseqno |-> 0, iseqno |-> x.iseqno, dst |-> x.peercallno,
                 transfer |-> FALSE, addr |-> Nobody, callno |-> 0, n |-> 0]
           D == Transmitted(l, x, f)
           w == Immediate(v, l, cmd)
<1>1. /\ x \in Session /\ Shaped(v) /\ v.s \in [Legs -> Session]
      /\ l \in Ends => Faced(x, l)
  BY OrderlyParts DEF Aligned
<1>2. /\ r \in Session /\ Level(x, r) /\ r.fresh = x.fresh
      /\ l \in Ends => Faced(r, l)
  BY <1>1 DEF Session, Level, Said, Heard, Faced
<1>3. f.cmd = cmd /\ f.transfer = FALSE /\ f.iseqno = x.iseqno
  OBVIOUS
<1>4. w.s = [v.s EXCEPT ![l] = r] /\ w.q = v.q /\ w.out = v.out \cup D
      /\ w = [s |-> w.s, q |-> w.q, out |-> w.out]
  <2>1. w = [v EXCEPT !.s[l].aseqno = v.s[l].iseqno, !.out = @ \cup D]
    BY DEF Immediate
  <2> HIDE DEF D, w
  <2> QED BY <1>1, <2>1 DEF Shaped
<1> HIDE DEF f
<1>5. l \in Ends => Sendable(f, x)
  <2>1. x.iseqno \in Nat
    BY <1>1, SaidFacts
  <2> QED BY <1>3, <2>1 DEF Sendable, Heard
<1>6. Posted(l, x, D)
  BY <1>1, <1>5, SentPosted
<1> HIDE DEF w, r, D
<1>7. Posted(l, r, D)
  BY <1>2, <1>6, PostedLevel
<1>8. Calm(v, w)
  BY <1>1, <1>2, <1>4, <1>7, SessionCalm
<1> QED BY <1>8 DEF w

LEMMA ScheduledCalm ==
  ASSUME plan \in Plans, NEW v, Orderly(v), NEW l \in Legs, NEW f \in Frame,
         l \in Ends => ~v.s[l].fresh /\ Regular(f, v.s[l], v.s[Other(l)])
  PROVE  Calm(v, Scheduled(v, l, f))
<1> DEFINE x == v.s[l]
           r == [x EXCEPT !.aseqno = x.iseqno]
           Q == v.q[l] \cup {f}
           D == Transmitted(l, x, f)
           w == Scheduled(v, l, f)
<1>1. /\ x \in Session /\ Shaped(v) /\ v.s \in [Legs -> Session] /\ v.q[l] \in SUBSET Frame
      /\ l \in Ends => Aligned(x, v.s[Other(l)], v.q[l], l) /\ Faced(x, l)
  BY OrderlyParts DEF Aligned
<1>2. /\ r \in Session /\ Level(x, r) /\ r.fresh = x.fresh
      /\ l \in Ends => Faced(r, l)
  BY <1>1 DEF Session, Level, Said, Heard, Faced
<1>3. w.s = [v.s EXCEPT ![l] = r] /\ w.q = [v.q EXCEPT ![l] = Q] /\ w.out = v.out \cup D
      /\ w = [s |-> w.s, q |-> w.q, out |-> w.out]
  <2> HIDE DEF D
  <2> QED BY <1>1 DEF Shaped, Scheduled, D
<1>4. l \in Ends => Sendable(f, x)
  BY DEF Sendable, Regular
<1>5. Posted(l, r, D)
  BY <1>1, <1>2, <1>4, SentPosted, PostedLevel
<1>6. l \in Ends => Aligned(r, v.s[Other(l)], Q, l)
  <2> SUFFICES ASSUME l \in Ends
               PROVE  Aligned(r, v.s[Other(l)], Q, l)
    OBVIOUS
  <2>1. Aligned(r, v.s[Other(l)], v.q[l], l)
    BY <1>1, <1>2, AlignedLevel
  <2>2. IsFiniteSet(Q)
    BY <2>1, FS_AddElement DEF Aligned
  <2>3. Regular(f, r, v.s[Other(l)])
    BY <1>2 DEF Regular, Level
  <2> HIDE DEF r
  <2> QED BY <2>1, <2>2, <2>3 DEF Aligned
<1>7. Q \in SUBSET Frame
  BY <1>1
<1> HIDE DEF w, r, D, Q
<1>8. Calm(v, w)
  BY <1>1, <1>2, <1>3, <1>5, <1>6, <1>7, CalmChange
<1> QED BY <1>8 DEF w

LEMMA ToTransferCalm ==
  ASSUME plan \in Plans, NEW v, Orderly(v), NEW l \in Ends, ~v.s[l].fresh,
         NEW cmd \in {"TXCNT", "TXACC"}
  PROVE  Calm(v, ToTransfer(v, l, cmd))
<1> DEFINE f == [cmd |-> cmd, oseqno |-> 0, iseqno |-> 0, dst |-> v.s[l].transfercallno,
                 transfer |-> TRUE, addr |-> Nobody, callno |-> 0, n |-> 0, live |-> TRUE,
                 fresh |-> v.s[l].fresh]
<1>1. v.s[l] \in Session /\ l \in Legs
  BY OrderlyParts, Others
<1>2. f \in Frame
  BY <1>1, NumberFacts DEF Frame, Session
<1>3. f.cmd = cmd /\ f.iseqno = 0 /\ f.n = 0
  OBVIOUS
<1>4. ToTransfer(v, l, cmd) = Scheduled(v, l, f)
  BY DEF ToTransfer
<1> HIDE DEF f
<1>5. Regular(f, v.s[l], v.s[Other(l)])
  BY <1>3 DEF Regular
<1> QED BY <1>1, <1>2, <1>4, <1>5, ScheduledCalm

(* A session of the bridge or an end that is not released sends a frame to its peer. *)
LEMMA NumberedCalm ==
  ASSUME plan \in Plans, NEW v, Orderly(v), NEW l \in Legs, l \in Ends => ~v.s[l].fresh,
         NEW cmd \in Commands, NEW addr \in Addresses \cup {Nobody}, NEW callno \in Nat,
         NEW n, n = 0
  PROVE  Calm(v, Numbered(v, l, cmd, addr, callno, n))
<1> DEFINE x == v.s[l]
           f == [cmd |-> cmd, oseqno |-> x.oseqno, iseqno |-> x.iseqno, dst |-> x.peercallno,
                 transfer |-> FALSE, addr |-> addr, callno |-> callno, n |-> n, live |-> TRUE,
                 fresh |-> x.fresh]
           r == [x EXCEPT !.oseqno = Succ(x.oseqno)]
           u == [v EXCEPT !.s[l].oseqno = Succ(@)]
           D == {}
<1>1. /\ x \in Session /\ Shaped(v) /\ v.s \in [Legs -> Session]
      /\ l \in Ends => Faced(x, l)
  BY OrderlyParts DEF Aligned
<1>2. /\ r \in Session /\ r.fresh = x.fresh
      /\ l \in Ends => Faced(r, l) /\ Level(x, r)
  BY <1>1, NumberFacts DEF Session, Level, Said, Heard, Faced
<1>3. u.s = [v.s EXCEPT ![l] = r] /\ u.q = v.q /\ u.out = v.out \cup D
      /\ u = [s |-> u.s, q |-> u.q, out |-> u.out]
  BY <1>1 DEF Shaped
<1>4. f \in Frame
  BY <1>1 DEF Frame, Session, Commands, Addresses
<1>5. f.transfer = FALSE /\ f.n = 0
  OBVIOUS
<1>6. Numbered(v, l, cmd, addr, callno, n) = Scheduled(u, l, f)
  BY DEF Numbered
<1>7. Posted(l, r, D)
  BY PostedNone
<1> HIDE DEF f, r, u, D
<1>8. Calm(v, u)
  BY <1>1, <1>2, <1>3, <1>7, SessionCalm
<1>9. Orderly(u) /\ (l \in Ends => ~u.s[l].fresh)
  BY <1>8 DEF Calm
<1>10. l \in Ends => Regular(f, u.s[l], u.s[Other(l)])
  BY <1>5, <1>9 DEF Regular
<1>11. Calm(u, Scheduled(u, l, f))
  BY <1>4, <1>9, <1>10, ScheduledCalm
<1> QED BY <1>6, <1>8, <1>11, CalmCalm

Mapped(g, S) == {g[f] : f \in S}
Deadened(Q, R) == {IF f \in R THEN [f EXCEPT !.live = FALSE] ELSE f : f \in Q}

LEMMA MappedFinite ==
  ASSUME NEW S, IsFiniteSet(S), NEW T, NEW g \in [S -> T]
  PROVE  IsFiniteSet(Mapped(g, S))
<1> DEFINE I == Mapped(g, S)
<1>1. g \in Surjection(S, I)
  BY DEF Surjection, Mapped
<1> QED BY <1>1, FS_Surjection

(* Frames of which some are not sent again: those of the direct call that were taken. *)
LEMMA DeadAligned ==
  ASSUME NEW x, NEW y, NEW Q \in SUBSET Frame, NEW e, Aligned(x, y, Q, e), NEW R,
         \A f \in R : f.n > 0 => f.n <= Heard(y)
  PROVE  Deadened(Q, R) \in SUBSET Frame /\ Aligned(x, y, Deadened(Q, R), e)
<1> DEFINE g == [f \in Q |-> IF f \in R THEN [f EXCEPT !.live = FALSE] ELSE f]
           P == Deadened(Q, R)
<1>1. ASSUME NEW f \in Q
      PROVE  g[f] \in Frame /\ g[f].n = f.n /\ Regular(g[f], x, y)
  <2>1. f \in Frame /\ Regular(f, x, y)
    BY DEF Aligned
  <2>2. CASE f \in R
    <3> DEFINE h == [f EXCEPT !.live = FALSE]
    <3>1. /\ h \in Frame /\ ~h.live /\ h.n = f.n /\ h.cmd = f.cmd /\ h.oseqno = f.oseqno
          /\ h.iseqno = f.iseqno /\ h.transfer = f.transfer
      BY <2>1 DEF Frame
    <3>2. g[f] = h
      BY <2>2
    <3> HIDE DEF g, h
    <3>3. Regular(h, x, y)
      BY <2>1, <2>2, <3>1 DEF Regular
    <3> QED BY <3>1, <3>2, <3>3
  <2>3. CASE f \notin R
    <3>1. g[f] = f
      BY <2>3
    <3> QED BY <2>1, <3>1
  <2> QED BY <2>2, <2>3
<1>2. P = Mapped(g, Q) /\ g \in [Q -> Frame]
  BY <1>1 DEF Mapped, Deadened
<1>3. IsFiniteSet(P)
  <2>1. IsFiniteSet(Q)
    BY DEF Aligned
  <2> HIDE DEF g, P
  <2> QED BY <1>2, <2>1, MappedFinite
<1>4. \A k \in 1 .. Said(x) : \E f \in P : f.n = k
  <2> TAKE k \in 1 .. Said(x)
  <2>1. PICK f \in Q : f.n = k
    BY DEF Aligned
  <2> HIDE DEF g, P
  <2> QED BY <1>1, <1>2, <2>1 DEF Mapped
<1>5. \A h \in P : h \in Frame /\ Regular(h, x, y)
  <2> HIDE DEF g, P
  <2> QED BY <1>1, <1>2 DEF Mapped
<1> HIDE DEF g, P
<1>6. P \in SUBSET Frame /\ Aligned(x, y, P, e)
  BY <1>3, <1>4, <1>5 DEF Aligned
<1> QED BY <1>6 DEF P

(* At an end that is not released no frame is numbered for the other end. *)
LEMMA Unnumbering ==
  ASSUME plan \in Plans, NEW x, ~x.fresh, NEW y, NEW Q \in SUBSET Frame, NEW e, Aligned(x, y, Q, e)
  PROVE  \A f \in Q : f.n = 0
<1> TAKE f \in Q
<1>1. f.n \in Nat /\ Regular(f, x, y)
  BY DEF Aligned, Frame
<1> QED BY <1>1 DEF Regular, Said

LEMMA StoppedAligned ==
  ASSUME plan \in Plans, NEW v, Orderly(v), NEW l \in Ends, ~v.s[l].fresh
  PROVE  Stopped(v, l) \in SUBSET Frame /\ Aligned(v.s[l], v.s[Other(l)], Stopped(v, l), l)
<1> DEFINE Q == v.q[l]
           P == Deadened(Q, Q)
<1>1. Q \in SUBSET Frame /\ Aligned(v.s[l], v.s[Other(l)], Q, l)
  BY OrderlyParts, Others
<1>2. \A f \in Q : f.n = 0
  BY <1>1, Unnumbering
<1>3. P = Stopped(v, l)
  BY DEF Stopped, Deadened
<1> HIDE DEF Q
<1>4. P \in SUBSET Frame /\ Aligned(v.s[l], v.s[Other(l)], P, l)
  BY <1>1, <1>2, DeadAligned
<1> QED BY <1>3, <1>4

LEMMA StopCalm ==
  ASSUME plan \in Plans, NEW v, Orderly(v), NEW l \in Ends, ~v.s[l].fresh
  PROVE  Calm(v, StopTransfer(v, l))
<1> DEFINE x == v.s[l]
           Q == Stopped(v, l)
           D == {}
           w == StopTransfer(v, l)
<1>1. l \in Legs /\ Shaped(v) /\ v.s \in [Legs -> Session] /\ x \in Session
  BY OrderlyParts, Others
<1>2. w.s = v.s /\ w.q = [v.q EXCEPT ![l] = Q] /\ w.out = v.out \cup D
      /\ w = [s |-> w.s, q |-> w.q, out |-> w.out]
  <2>1. w = [v EXCEPT !.q[l] = Q]
    BY DEF StopTransfer, Stopped
  <2> HIDE DEF Q, w
  <2> QED BY <1>1, <2>1 DEF Shaped
<1>3. w.s = [v.s EXCEPT ![l] = x] /\ Level(v.s[l], x) /\ x.fresh = v.s[l].fresh
  BY <1>1, <1>2 DEF Level
<1>4. Posted(l, x, D)
  BY PostedNone
<1>5. Q \in SUBSET Frame /\ Aligned(x, v.s[Other(l)], Q, l)
  BY StoppedAligned
<1> HIDE DEF w, x, Q, D
<1>6. Calm(v, w)
  BY <1>1, <1>2, <1>3, <1>4, <1>5, CalmChange
<1> QED BY <1>6 DEF w

(* A frame that is counted as acknowledged is the last one only if all were taken,
   wherever the count began that the session remembers. *)
LEMMA AckedLast ==
  ASSUME plan \in Plans, NEW k \in Nat, NEW j \in Numbers, NEW r \in Numbers, k + 1 \in Numbers,
         Minus(k, r) < Minus(j, r), Minus(j, r) <= Minus(k + 1, r)
  PROVE  j = k + 1
<1>1. M \in Nat /\ 2 < M + 1
  BY PlanFacts
<1>2. ASSUME NEW a \in 0 .. M - 1, NEW b \in 0 .. M - 1
      PROVE  (a - b) % M = IF b <= a THEN a - b ELSE a - b + M
  BY <1>1, <1>2
<1>3. k \in 0 .. M - 1 /\ k + 1 \in 0 .. M - 1 /\ j \in 0 .. M - 1 /\ r \in 0 .. M - 1
  BY <1>1 DEF Numbers
<1>4. /\ Minus(k, r) = IF r <= k THEN k - r ELSE k - r + M
      /\ Minus(j, r) = IF r <= j THEN j - r ELSE j - r + M
      /\ Minus(k + 1, r) = IF r <= k + 1 THEN k + 1 - r ELSE k + 1 - r + M
  BY <1>2, <1>3 DEF Minus
<1> QED BY <1>1, <1>3, <1>4

LEMMA AcknowledgedCalm ==
  ASSUME plan \in Plans, NEW v, Orderly(v), NEW l \in Legs, NEW d \in Datagram,
         l \in Ends => /\ d.at = l /\ (d.from = Bridge => ~v.s[l].fresh)
                       /\ d.from # Bridge => Due(v.s[Other(l)], d)
  PROVE  Calm(v, Acknowledged(v, l, d))
<1> DEFINE x == v.s[l]
           y == v.s[Other(l)]
           new == x.peer = d.from /\ Minus(d.iseqno, x.rseqno) <= Minus(x.oseqno, x.rseqno)
           R == {f \in v.q[l] : Minus(f.oseqno, x.rseqno) < Minus(d.iseqno, x.rseqno)}
           r == [x EXCEPT !.rseqno = d.iseqno]
           Q == Deadened(v.q[l], R)
           D == {}
           w == [v EXCEPT !.s[l].rseqno = d.iseqno, !.q[l] = Q]
<1>1. /\ x \in Session /\ v.q[l] \in SUBSET Frame /\ Shaped(v)
      /\ v.s \in [Legs -> Session] /\ v.q \in [Legs -> SUBSET Frame]
      /\ l \in Ends => Aligned(x, y, v.q[l], l) /\ Faced(x, l) /\ y \in Session
  BY OrderlyParts DEF Aligned
<1>2. /\ r \in Session /\ Level(x, r) /\ r.fresh = x.fresh
      /\ l \in Ends => Faced(r, l)
  BY <1>1 DEF Session, Level, Said, Heard, Faced, Datagram
<1>3. Acknowledged(v, l, d) = IF new THEN w ELSE v
  <2>1. Q = {IF Minus(f.oseqno, x.rseqno) < Minus(d.iseqno, x.rseqno)
             THEN [f EXCEPT !.live = FALSE] ELSE f : f \in v.q[l]}
    BY DEF Deadened
  <2> HIDE DEF Q, R
  <2> QED BY <2>1 DEF Acknowledged
<1>4. CASE ~new
  BY <1>3, <1>4, CalmSelf
<1>5. CASE new
  <2>1. w.s = [v.s EXCEPT ![l] = r] /\ w.q = [v.q EXCEPT ![l] = Q] /\ w.out = v.out \cup D
        /\ w = [s |-> w.s, q |-> w.q, out |-> w.out]
    <3> HIDE DEF Q, R
    <3> DEFINE z == d.iseqno
               u == [v EXCEPT !.s[l].rseqno = z]
    <3> HIDE DEF z
    <3>1. u.s = [v.s EXCEPT ![l] = [x EXCEPT !.rseqno = z]] /\ u.q = v.q /\ u.out = v.out
          /\ u = [s |-> u.s, q |-> u.q, out |-> u.out]
      BY <1>1 DEF Shaped
    <3>2. w = [u EXCEPT !.q[l] = Q]
      BY DEF z
    <3>3. r = [x EXCEPT !.rseqno = z]
      BY DEF z
    <3> HIDE DEF u, w, x, r
    <3> QED BY <3>1, <3>2, <3>3
  <2>2. ASSUME l \in Ends, NEW f \in R, f.n > 0
        PROVE  f.n <= Heard(y)
    <3>1. /\ f \in Frame /\ Regular(f, x, y) /\ Said(x) \in Nat /\ Heard(y) \in Nat /\ f.n \in Nat
          /\ f.oseqno \in Nat /\ x.oseqno \in Numbers
      <4>1. f \in Frame /\ Regular(f, x, y)
        BY <1>1, <2>2 DEF Aligned
      <4>2. f.n \in Nat /\ f.oseqno \in Nat /\ x.oseqno \in Numbers
        BY <1>1, <4>1, NumberFacts DEF Frame, Session
      <4> QED BY <1>1, <2>2, <4>1, <4>2, SaidFacts
    <3>2. x.fresh
      BY <2>2, <3>1 DEF Regular, Said
    <3>3. d.from # Bridge /\ Due(y, d)
      BY <2>2, <3>2
    <3>4. CASE ~f.live
      BY <2>2, <3>1, <3>4 DEF Regular
    <3>5. CASE f.live
      <4>1. f.n = x.oseqno /\ f.n = f.oseqno + 1
        BY <2>2, <3>1, <3>2, <3>5 DEF Regular, Said
      <4>2. /\ Minus(f.oseqno, x.rseqno) < Minus(d.iseqno, x.rseqno)
            /\ Minus(d.iseqno, x.rseqno) <= Minus(f.oseqno + 1, x.rseqno)
        BY <1>5, <4>1
      <4>3. d.iseqno \in Numbers /\ x.rseqno \in Numbers /\ f.oseqno + 1 \in Numbers
        BY <1>1, <3>1, <4>1 DEF Session, Datagram
      <4>4. d.iseqno = f.oseqno + 1
        BY <3>1, <4>2, <4>3, AckedLast
      <4> QED BY <3>1, <3>3, <4>1, <4>4 DEF Due
    <3> QED BY <3>4, <3>5
  <2>3. l \in Ends => Q \in SUBSET Frame /\ Aligned(x, y, Q, l)
    <3> HIDE DEF R
    <3> QED BY <1>1, <2>2, DeadAligned
  <2>4. Q \in SUBSET Frame
    <3>1. \A f \in Frame : [f EXCEPT !.live = FALSE] \in Frame
      BY DEF Frame
    <3> HIDE DEF R
    <3> QED BY <1>1, <3>1 DEF Deadened
  <2>5. Posted(l, r, D)
    BY PostedNone
  <2> HIDE DEF w, r, Q, D, R, x, y
  <2>6. l \in Ends => Aligned(r, y, Q, l)
    BY <1>2, <2>3, AlignedLevel
  <2>7. Calm(v, w)
    BY <1>1, <1>2, <2>1, <2>4, <2>5, <2>6, CalmChange DEF x, y
  <2> QED BY <1>3, <1>5, <2>7
<1> QED BY <1>4, <1>5

(* What is counted at a session that is not released. *)
LEMMA CountedCalm ==
  ASSUME plan \in Plans, NEW v, Orderly(v), NEW l \in Legs, NEW d,
         l \in Ends /\ v.s[l].fresh => d.cmd \in Unnumbered
  PROVE  Calm(v, Counted(v, l, d))
<1> DEFINE x == v.s[l]
           new == InSequence(x, d) /\ d.cmd \notin Unnumbered
           r == [x EXCEPT !.iseqno = Succ(x.iseqno)]
           D == {}
           w == [v EXCEPT !.s[l].iseqno = Succ(@)]
<1>1. /\ x \in Session /\ Shaped(v) /\ v.s \in [Legs -> Session]
      /\ l \in Ends => Faced(x, l)
  BY OrderlyParts DEF Aligned
<1>2. Counted(v, l, d) = IF new THEN w ELSE v
  BY DEF Counted
<1>3. CASE ~new
  BY <1>2, <1>3, CalmSelf
<1>4. CASE new
  <2>1. l \in Ends => ~x.fresh
    BY <1>4
  <2>2. /\ r \in Session /\ r.fresh = x.fresh
        /\ l \in Ends => Faced(r, l) /\ Level(x, r)
    BY <1>1, <2>1, NumberFacts DEF Session, Level, Said, Heard, Faced
  <2>3. w.s = [v.s EXCEPT ![l] = r] /\ w.q = v.q /\ w.out = v.out \cup D
        /\ w = [s |-> w.s, q |-> w.q, out |-> w.out]
    BY <1>1 DEF Shaped
  <2>4. Posted(l, r, D)
    BY PostedNone
  <2> HIDE DEF w, r, D
  <2>5. Calm(v, w)
    BY <1>1, <2>2, <2>3, <2>4, SessionCalm
  <2> QED BY <1>2, <1>4, <2>5
<1> QED BY <1>3, <1>4

(* What an end takes that is released. *)
LEMMA CountedTakes ==
  ASSUME plan \in Plans, NEW v, Orderly(v), NEW l \in Ends, v.s[l].fresh, v.s[l].iseqno < Half,
         NEW d \in Datagram, d.cmd = "data", d.oseqno = v.s[l].iseqno, Due(v.s[Other(l)], d)
  PROVE  /\ Orderly(Counted(v, l, d)) /\ d.n = Heard(v.s[l]) + 1
         /\ Said(Counted(v, l, d).s[l]) = Said(v.s[l])
         /\ Heard(Counted(v, l, d).s[l]) = Heard(v.s[l]) + 1
         /\ Counted(v, l, d).s[l].fresh
         /\ Level(v.s[Other(l)], Counted(v, l, d).s[Other(l)])
<1> DEFINE x == v.s[l]
           y == v.s[Other(l)]
           r == [x EXCEPT !.iseqno = Succ(x.iseqno)]
           D == {}
           w == [v EXCEPT !.s[l].iseqno = Succ(@)]
<1>1. /\ l \in Legs /\ x \in Session /\ Shaped(v) /\ v.s \in [Legs -> Session] /\ v.q[l] \in SUBSET Frame
      /\ v.q \in [Legs -> SUBSET Frame] /\ Aligned(x, y, v.q[l], l) /\ y \in Session
  BY OrderlyParts, Others
<1>2. /\ x.iseqno \in Nat /\ Succ(x.iseqno) = x.iseqno + 1 /\ Succ(x.iseqno) \in Numbers
      /\ Said(x) \in Nat /\ Heard(x) = x.iseqno
  BY <1>1, NumberFacts, SaidFacts DEF Session, Heard
<1>3. r \in Session /\ r.fresh = x.fresh /\ Said(r) = Said(x) /\ Heard(r) = Heard(x) + 1
      /\ r.peer = x.peer /\ r.transfer = x.transfer /\ r.transferring = x.transferring
  BY <1>1, <1>2 DEF Session, Said, Heard
<1>4. w.s = [v.s EXCEPT ![l] = r] /\ w.q = v.q /\ w.out = v.out \cup D
      /\ w = [s |-> w.s, q |-> w.q, out |-> w.out]
  BY <1>1 DEF Shaped
<1>5. Counted(v, l, d) = w
  BY DEF Counted, InSequence, Unnumbered
<1>6. d.n = Heard(x) + 1 /\ d.n <= Said(y)
  BY <1>2 DEF Due
<1>7. Posted(l, r, D)
  BY PostedNone
<1> HIDE DEF r, w, D, y
<1>8. Aligned(r, y, v.q[l], l)
  <2>1. \A f \in v.q[l] : f.n \in Nat /\ f.iseqno \in Nat /\ Regular(f, x, y)
    BY <1>1, NumberFacts DEF Frame, Aligned
  <2>2. \A f \in v.q[l] : Regular(f, r, y)
    BY <1>2, <1>3, <2>1 DEF Regular
  <2>3. Faced(r, l)
    BY <1>1, <1>3 DEF Aligned, Faced
  <2> QED BY <1>1, <1>3, <1>6, <2>2, <2>3 DEF Aligned
<1>9. Rises(x, r)
  BY <1>2, <1>3 DEF Rises
<1>10. w.q = [v.q EXCEPT ![l] = v.q[l]]
  BY <1>1, <1>4
<1>11. Orderly(w) /\ \A e \in Ends \ {l} : Level(v.s[e], w.s[e])
  BY <1>1, <1>3, <1>4, <1>7, <1>8, <1>9, <1>10, OrderlyChange DEF y
<1>12. w.s[l] = r
  BY <1>1, <1>4
<1> QED BY <1>3, <1>5, <1>6, <1>11, <1>12, Others

LEMMA ResentCalm ==
  ASSUME plan \in Plans, NEW v, Orderly(v), NEW l \in Legs, l \in Ends => ~v.s[l].fresh, NEW d
  PROVE  Calm(v, Resent(v, l, d))
<1> DEFINE x == v.s[l]
           old == {g \in v.q[l] : Minus(d.iseqno, x.rseqno) <= Minus(g.oseqno, x.rseqno)}
           D == UNION {Transmitted(l, x, f) : f \in old}
           w == Resent(v, l, d)
<1>1. /\ x \in Session /\ Shaped(v) /\ v.s \in [Legs -> Session] /\ v.q[l] \in SUBSET Frame
      /\ l \in Ends => Faced(x, l) /\ \A f \in v.q[l] : Regular(f, x, v.s[Other(l)])
  BY OrderlyParts DEF Aligned
<1>2. Posted(l, x, D)
  <2> SUFFICES ASSUME NEW e \in D, Between(e)
               PROVE  l \in Ends /\ e.at = Other(l) /\ Due(x, e)
    BY DEF Posted
  <2>1. PICK f \in v.q[l] : e \in Transmitted(l, x, f)
    OBVIOUS
  <2>2. l \in Ends => Sendable(f, x)
    BY <1>1 DEF Regular, Sendable
  <2>3. Posted(l, x, Transmitted(l, x, f))
    BY <1>1, <2>2, SentPosted
  <2> QED BY <2>1, <2>3 DEF Posted
<1>3. w = [v EXCEPT !.out = @ \cup D]
  BY DEF Resent
<1> HIDE DEF w, D
<1>4. w.s = v.s /\ w.q = v.q /\ w.out = v.out \cup D /\ w = [s |-> w.s, q |-> w.q, out |-> w.out]
  BY <1>1, <1>3 DEF Shaped
<1>5. w.s = [v.s EXCEPT ![l] = x] /\ Level(x, x)
  BY <1>1, <1>4 DEF Level
<1> HIDE DEF x
<1>6. Calm(v, w)
  BY <1>1, <1>2, <1>4, <1>5, SessionCalm DEF x
<1> QED BY <1>6 DEF w

LEMMA MissingCalm ==
  ASSUME plan \in Plans, NEW v, Orderly(v), NEW l \in Legs, l \in Ends => ~v.s[l].fresh
  PROVE  Calm(v, Missing(v, l))
<1> DEFINE x == v.s[l]
           r == [x EXCEPT !.lastvnak = x.iseqno]
           D == {}
           u == [v EXCEPT !.s[l].lastvnak = v.s[l].iseqno]
<1>1. /\ x \in Session /\ Shaped(v) /\ v.s \in [Legs -> Session]
      /\ l \in Ends => Faced(x, l)
  BY OrderlyParts DEF Aligned
<1>2. /\ r \in Session /\ r.fresh = x.fresh /\ Level(x, r)
      /\ l \in Ends => Faced(r, l)
  BY <1>1 DEF Session, Level, Said, Heard, Faced
<1>3. u.s = [v.s EXCEPT ![l] = r] /\ u.q = v.q /\ u.out = v.out \cup D
      /\ u = [s |-> u.s, q |-> u.q, out |-> u.out]
  BY <1>1 DEF Shaped
<1>4. Posted(l, r, D)
  BY PostedNone
<1>5. \/ Missing(v, l) = v
      \/ Missing(v, l) = Immediate(u, l, "VNAK")
  BY DEF Missing
<1> HIDE DEF u, r, D
<1>6. Calm(v, u)
  BY <1>1, <1>2, <1>3, <1>4, SessionCalm
<1>7. Orderly(u) /\ (l \in Ends => ~u.s[l].fresh)
  BY <1>6 DEF Calm
<1>8. Calm(u, Immediate(u, l, "VNAK"))
  BY <1>7, ImmediateCalm
<1> QED BY <1>5, <1>6, <1>8, CalmSelf, CalmCalm

LEMMA AnsweredCalm ==
  ASSUME plan \in Plans, NEW v, Orderly(v), NEW l \in Legs
  PROVE  Calm(v, Answered(v, l)) /\ Calm(v, Repeated(v, l))
<1>1. Calm(v, v) /\ Calm(v, Immediate(v, l, "ACK"))
  BY CalmSelf, ImmediateCalm
<1> QED BY <1>1 DEF Answered, Repeated

(* The handlers of the bridge *)
Completed(v, w, l, p) ==
  /\ w.s = [v.s EXCEPT ![l] = [v.s[l] EXCEPT !.peercallno = p]]
  /\ w.q = [v.q EXCEPT ![l] = Stopped(v, l)] /\ w.out = v.out
  /\ w = [s |-> w.s, q |-> w.q, out |-> w.out]

LEMMA CompleteParts ==
  ASSUME NEW v, Shaped(v), NEW l \in Legs, NEW p \in Nat
  PROVE  Completed(v, CompleteTransfer(v, l, p, FALSE, TRUE), l, p)
<1> DEFINE r == [v.s[l] EXCEPT !.peercallno = p]
           u == [v EXCEPT !.s[l] = [@ EXCEPT !.peercallno = p]]
           w == CompleteTransfer(v, l, p, FALSE, TRUE)
<1>1. w = [u EXCEPT !.q[l] = {[f EXCEPT !.live = FALSE] : f \in @}]
  BY DEF CompleteTransfer, CompleteWithoutStop, StopTransfer, w
<1>2. u.s = [v.s EXCEPT ![l] = r] /\ u.q = v.q /\ u.out = v.out /\ u = [s |-> u.s, q |-> u.q, out |-> u.out]
  BY DEF Shaped
<1> HIDE DEF u, r, w
<1>3. w = [u EXCEPT !.q[l] = Stopped(v, l)]
  <2>1. {[f EXCEPT !.live = FALSE] : f \in u.q[l]} = Stopped(v, l)
    BY <1>2 DEF Stopped
  <2> QED BY <1>1, <2>1
<1>4. w.s = u.s /\ w.q = [u.q EXCEPT ![l] = Stopped(v, l)] /\ w.out = u.out
      /\ w = [s |-> w.s, q |-> w.q, out |-> w.out]
  BY <1>2, <1>3
<1> QED BY <1>2, <1>4 DEF r, w, Completed

LEMMA StoppedType ==
  ASSUME NEW v, Shaped(v), NEW l \in Legs
  PROVE  Stopped(v, l) \in SUBSET Frame
<1> SUFFICES ASSUME NEW f \in v.q[l]
             PROVE  [f EXCEPT !.live = FALSE] \in Frame
  BY DEF Stopped
<1>1. f \in Frame
  BY DEF Shaped
<1> QED BY <1>1 DEF Frame

LEMMA CompleteCalm ==
  ASSUME plan \in Plans, NEW v, Orderly(v), NEW l \in Bridged, NEW p \in Nat
  PROVE  Calm(v, CompleteTransfer(v, l, p, FALSE, TRUE))
<1> DEFINE r == [v.s[l] EXCEPT !.peercallno = p]
           w == CompleteTransfer(v, l, p, FALSE, TRUE)
           D == {}
<1>1. l \in Legs /\ l \notin Ends
  BY Others
<1>2. v.s[l] \in Session /\ Shaped(v)
  BY <1>1, OrderlyParts
<1>3. r \in Session
  BY <1>2 DEF Session
<1>4. Stopped(v, l) \in SUBSET Frame
  BY <1>1, <1>2, StoppedType
<1>5. Posted(l, r, D)
  BY PostedNone
<1> HIDE DEF w
<1>6. /\ w.s = [v.s EXCEPT ![l] = r] /\ w.q = [v.q EXCEPT ![l] = Stopped(v, l)] /\ w.out = v.out
      /\ w = [s |-> w.s, q |-> w.q, out |-> w.out]
  <2>1. Completed(v, w, l, p)
    BY <1>1, <1>2, CompleteParts DEF w
  <2> QED BY <2>1 DEF Completed
<1>8. w.out = v.out \cup D
  BY <1>6
<1> HIDE DEF r, D
<1>7. Calm(v, w)
  BY <1>1, <1>3, <1>4, <1>5, <1>6, <1>8, CalmChange
<1> QED BY <1>7 DEF w

LEMMA FinishCalm ==
  ASSUME plan \in Plans, NEW v, Orderly(v), NEW l \in Bridged, NEW p \in Nat
  PROVE  Calm(v, FinishTransfer(v, l, p))
<1> DEFINE a == Numbered(v, l, "TXREL", Nobody, p, 0)
<1>1. l \in Legs /\ l \notin Ends /\ "TXREL" \in Commands
  BY Others DEF Commands
<1>2. Calm(v, a)
  BY <1>1, NumberedCalm
<1>3. FinishTransfer(v, l, p) = CompleteTransfer(a, l, p, FALSE, TRUE)
  BY DEF FinishTransfer
<1> HIDE DEF a
<1>4. Calm(a, CompleteTransfer(a, l, p, FALSE, TRUE))
  BY <1>2, CompleteCalm DEF Calm
<1> QED BY <1>2, <1>3, <1>4, CalmCalm

LEMMA ReadyCalm ==
  ASSUME plan \in Plans, NEW v, Orderly(v), NEW l \in Bridged
  PROVE  Calm(v, Ready(v, l))
<1> DEFINE a == Immediate(v, l, "ACK")
           p == v.s[l].peercallno
           c == CompleteTransfer(a, l, p, FALSE, TRUE)
           r == [c.s[l] EXCEPT !.transferring = "REL"]
           w == [c EXCEPT !.s[l].transferring = "REL"]
           D == {}
<1>1. l \in Legs /\ l \notin Ends
  BY Others
<1>2. Calm(v, a)
  BY <1>1, ImmediateCalm
<1>3. p \in Nat
  <2>1. v.s[l] \in Session
    BY <1>1, OrderlyParts
  <2> QED BY <2>1 DEF Session
<1>4. Ready(v, l) = w
  BY DEF Ready
<1> HIDE DEF a, p
<1>5. Calm(a, c)
  BY <1>2, <1>3, CompleteCalm DEF Calm
<1> HIDE DEF c
<1>6. Orderly(c) /\ c.s[l] \in Session /\ Shaped(c) /\ c.s \in [Legs -> Session]
  BY <1>1, <1>5, OrderlyParts DEF Calm
<1>7. r \in Session
  BY <1>6 DEF Session
<1>8. w.s = [c.s EXCEPT ![l] = r] /\ w.q = c.q /\ w.out = c.out \cup D
      /\ w = [s |-> w.s, q |-> w.q, out |-> w.out]
  BY <1>6 DEF Shaped
<1>9. Posted(l, r, D)
  BY PostedNone
<1> HIDE DEF w, r, D
<1>10. Calm(c, w)
  BY <1>1, <1>6, <1>7, <1>8, <1>9, SessionCalm
<1> QED BY <1>2, <1>4, <1>5, <1>10, CalmCalm

LEMMA TxReadyCalm ==
  ASSUME plan \in Plans, NEW v, Orderly(v), NEW l \in Bridged
  PROVE  Calm(v, TxReady(v, l))
<1> DEFINE w == Ready(v, l)
           o == Other(l)
           p == w.s[o].peercallno
           q == w.s[l].peercallno
           x == FinishTransfer(w, l, p)
           y == FinishTransfer(x, o, q)
<1>1. o \in Bridged /\ o \in Legs /\ l \in Legs
  BY Others
<1>2. Calm(v, w)
  BY ReadyCalm
<1>3. TxReady(v, l) = IF ~BothReady(w, l) THEN w ELSE y
  BY DEF TxReady
<1> HIDE DEF w, o
<1>4. Orderly(w) /\ p \in Nat /\ q \in Nat
  <2>1. Orderly(w)
    BY <1>2 DEF Calm
  <2>2. w.s[l] \in Session /\ w.s[o] \in Session
    BY <1>1, <2>1, OrderlyParts
  <2> QED BY <2>1, <2>2 DEF Session
<1> HIDE DEF p, q
<1>5. Calm(w, x)
  BY <1>4, FinishCalm
<1> HIDE DEF x
<1>6. Calm(x, y)
  BY <1>1, <1>4, <1>5, FinishCalm DEF Calm
<1> HIDE DEF y
<1> QED BY <1>2, <1>3, <1>5, <1>6, CalmCalm


(* The handlers of an end *)
LEMMA TxReqCalm ==
  ASSUME plan \in Plans, NEW v, Orderly(v), NEW l \in Ends, ~v.s[l].fresh,
         NEW d \in Datagram, d.addr = Other(l)
  PROVE  Calm(v, TxReq(v, l, d))
<1> DEFINE x == v.s[l]
           r == [x EXCEPT !.transfer = d.addr, !.transfercallno = d.callno, !.transferring = "BEGIN"]
           D == {}
           u == [v EXCEPT !.s[l] = [@ EXCEPT !.transfer = d.addr, !.transfercallno = d.callno,
                                             !.transferring = "BEGIN"]]
<1>1. /\ l \in Legs /\ x \in Session /\ Shaped(v) /\ v.s \in [Legs -> Session] /\ Faced(x, l)
  BY OrderlyParts, Others DEF Aligned
<1>2. /\ r \in Session /\ r.fresh = x.fresh /\ r.transfer = Other(l) /\ r.peer = x.peer
  BY <1>1 DEF Session, Datagram
<1>3. Level(x, r) /\ Faced(r, l)
  <2>1. Other(l) \in Known(l)
    BY SeenFacts
  <2> HIDE DEF r
  <2> QED BY <1>1, <1>2, <2>1 DEF Level, Said, Heard, Faced
<1>4. u.s = [v.s EXCEPT ![l] = r] /\ u.q = v.q /\ u.out = v.out \cup D
      /\ u = [s |-> u.s, q |-> u.q, out |-> u.out]
  BY <1>1 DEF Shaped
<1>5. TxReq(v, l, d) = ToTransfer(u, l, "TXCNT")
  BY DEF TxReq
<1>6. Posted(l, r, D)
  BY PostedNone
<1> HIDE DEF u, r, D
<1>7. Calm(v, u)
  BY <1>1, <1>2, <1>3, <1>4, <1>6, SessionCalm
<1>8. Orderly(u) /\ ~u.s[l].fresh
  BY <1>7 DEF Calm
<1>9. Calm(u, ToTransfer(u, l, "TXCNT"))
  BY <1>8, ToTransferCalm
<1> QED BY <1>5, <1>7, <1>9, CalmCalm

LEMMA TxCntCalm ==
  ASSUME plan \in Plans, NEW v, Orderly(v), NEW l \in Ends, NEW d \in Datagram,
         d.from = Seen(Other(l), l)
  PROVE  Calm(v, TxCnt(v, l, d))
<1> DEFINE x == v.s[l]
           r == [x EXCEPT !.transfer = d.from]
           D == {}
           u == [v EXCEPT !.s[l].transfer = d.from]
<1>1. /\ l \in Legs /\ x \in Session /\ Shaped(v) /\ v.s \in [Legs -> Session] /\ Faced(x, l)
  BY OrderlyParts, Others DEF Aligned
<1>2. CASE x.transferring = "NONE"
  <2>1. TxCnt(v, l, d) = v
    BY <1>2 DEF TxCnt
  <2> QED BY <2>1, CalmSelf
<1>3. CASE x.transferring # "NONE"
  <2>1. ~x.fresh
    BY <1>1, <1>3 DEF Faced
  <2>2. r \in Session /\ r.fresh = x.fresh /\ r.transfer = d.from /\ r.peer = x.peer
    BY <1>1 DEF Session, Datagram
  <2>3. Level(x, r) /\ Faced(r, l)
    <3>1. d.from \in Known(l)
      BY SeenFacts
    <3> HIDE DEF r
    <3> QED BY <1>1, <2>1, <2>2, <3>1 DEF Level, Said, Heard, Faced
  <2>4. u.s = [v.s EXCEPT ![l] = r] /\ u.q = v.q /\ u.out = v.out \cup D
        /\ u = [s |-> u.s, q |-> u.q, out |-> u.out]
    BY <1>1 DEF Shaped
  <2>5. TxCnt(v, l, d) = ToTransfer(u, l, "TXACC")
    BY <1>3 DEF TxCnt
  <2>6. Posted(l, r, D)
    BY PostedNone
  <2> HIDE DEF u, r, D
  <2>7. Calm(v, u)
    BY <1>1, <2>2, <2>3, <2>4, <2>6, SessionCalm
  <2>8. Orderly(u) /\ ~u.s[l].fresh
    BY <2>1, <2>7 DEF Calm
  <2>9. Calm(u, ToTransfer(u, l, "TXACC"))
    BY <2>8, ToTransferCalm
  <2> QED BY <2>5, <2>7, <2>9, CalmCalm
<1> QED BY <1>2, <1>3

LEMMA TxAccCalm ==
  ASSUME plan \in Plans, NEW v, Orderly(v), NEW l \in Ends
  PROVE  Calm(v, TxAcc(v, l))
<1> DEFINE y == StopTransfer(v, l)
           x == y.s[l]
           r == [x EXCEPT !.transferring = "READY"]
           D == {}
           u == [y EXCEPT !.s[l].transferring = "READY"]
<1>1. l \in Legs /\ Faced(v.s[l], l)
  BY OrderlyParts, Others DEF Aligned
<1>2. CASE v.s[l].transferring = "NONE"
  <2>1. TxAcc(v, l) = v
    BY <1>2 DEF TxAcc
  <2> QED BY <2>1, CalmSelf
<1>3. CASE v.s[l].transferring # "NONE"
  <2>1. ~v.s[l].fresh
    BY <1>1, <1>3 DEF Faced
  <2>2. Calm(v, y)
    BY <2>1, StopCalm
  <2>3. TxAcc(v, l) = Numbered(u, l, "TXREADY", Nobody, Callno(l), 0)
    BY <1>3 DEF TxAcc
  <2> HIDE DEF y
  <2>4. Orderly(y) /\ ~x.fresh
    BY <2>1, <2>2 DEF Calm
  <2>5. /\ x \in Session /\ Shaped(y) /\ y.s \in [Legs -> Session] /\ Faced(x, l)
    BY <1>1, <2>4, OrderlyParts DEF Aligned
  <2>6. r \in Session /\ r.fresh = x.fresh /\ r.transfer = x.transfer /\ r.peer = x.peer
    BY <2>5 DEF Session
  <2>7. Level(x, r) /\ Faced(r, l)
    <3> HIDE DEF r
    <3> QED BY <2>4, <2>5, <2>6 DEF Level, Said, Heard, Faced
  <2>8. u.s = [y.s EXCEPT ![l] = r] /\ u.q = y.q /\ u.out = y.out \cup D
        /\ u = [s |-> u.s, q |-> u.q, out |-> u.out]
    BY <1>1, <2>5 DEF Shaped
  <2>9. Posted(l, r, D)
    BY PostedNone
  <2> HIDE DEF u, r, D, x
  <2>10. Calm(y, u)
    BY <1>1, <2>4, <2>6, <2>7, <2>8, <2>9, SessionCalm DEF x
  <2>11. Orderly(u) /\ ~u.s[l].fresh
    BY <2>4, <2>10 DEF Calm, x
  <2>12. "TXREADY" \in Commands /\ Callno(l) \in Nat
    BY <1>1, PlanFacts DEF Commands
  <2> DEFINE c == Callno(l)
             z == 0
  <2> HIDE DEF c
  <2>13. Calm(u, Numbered(u, l, "TXREADY", Nobody, c, z))
    <3> HIDE DEF z
    <3>1. z = 0
      BY DEF z
    <3> QED BY <1>1, <2>11, <2>12, <3>1, NumberedCalm DEF c
  <2>14. Calm(v, u)
    BY <2>2, <2>10, CalmCalm
  <2> QED BY <2>3, <2>13, <2>14, CalmCalm DEF c
<1> QED BY <1>2, <1>3

(* The counts of the ends stay; one may be released. *)
Even(v, w) == Orderly(w) /\ \A e \in Ends : Level(v.s[e], w.s[e])

LEMMA CalmEven ==
  ASSUME NEW u, NEW v, NEW w
  PROVE  /\ Calm(v, w) => Even(v, w)
         /\ Even(u, v) /\ Even(v, w) => Even(u, w)
BY DEF Calm, Even, Level

(* No frame that is done with was numbered for the other end: the count starts. *)
LEMMA StartAligned ==
  ASSUME NEW x, NEW y \in Session, plan \in Plans, NEW Q \in SUBSET Frame, NEW l, ~x.fresh, Aligned(x, y, Q, l),
         \A f \in Q : ~f.live,
         NEW r, r.fresh, r.oseqno = 0, r.iseqno = 0, r.peer \in Known(l), r.transfer = Nobody,
         r.transferring = "NONE"
  PROVE  Aligned(r, y, Q, l)
<1>1. \A f \in Q : f.n = 0 /\ ~f.live
  BY Unnumbering
<1>2. Said(r) = 0 /\ Heard(r) = 0 /\ Said(y) \in Nat
  BY SaidFacts DEF Said, Heard
<1>3. Faced(r, l)
  BY DEF Faced
<1>4. \A f \in Q : Regular(f, r, y)
  BY <1>1 DEF Aligned, Regular
<1> QED BY <1>2, <1>3, <1>4 DEF Aligned

LEMMA TxRelEven ==
  ASSUME plan \in Plans, net \subseteq Datagram, NEW v, Good(v), Orderly(v), NEW l \in Ends,
         NEW d \in Datagram, ~v.s[l].fresh, v.s[l].transferring = "READY", v.s[l].transfer \in Known(l)
  PROVE  Even(v, TxRel(v, l, d))
<1> DEFINE a == Immediate(v, l, "ACK")
           x == a.s[l]
           r == Switched(x, d.callno)
           D == {}
           Q == Stopped(a, l)
           w == CompleteTransfer(a, l, d.callno, TRUE, FALSE)
<1>1. Steady(v, a, {}) /\ l \in Legs /\ Calm(v, a)
  BY Others, ImmediateSteady, ImmediateCalm
<1>2. Good(a) /\ Orderly(a) /\ ~x.fresh /\ x.transferring = "READY" /\ x.transfer \in Known(l)
  BY <1>1 DEF Steady, Alike, Calm
<1>3. TxRel(v, l, d) = w
  BY <1>2 DEF TxRel
<1> HIDE DEF a
<1>4. x.transfer \in Addresses /\ d.callno \in Nat /\ D = {} /\ x \in Session /\ a.s[Other(l)] \in Session
      /\ a.s \in [Legs -> Session] /\ a.q \in [Legs -> SUBSET Frame]
  BY <1>1, <1>2, SeenFacts, OrderlyParts DEF Datagram
<1>5. Updates(a, w, l, r, Q, D)
  BY <1>1, <1>2, <1>4, SwitchUpdates
<1>6. /\ r \in Session /\ r.peer = x.transfer /\ r.transfer = Nobody /\ r.transferring = "NONE" /\ r.fresh
      /\ r.oseqno = 0 /\ r.iseqno = 0
  <2>1. r.oseqno = 0 /\ r.iseqno = 0
    <3> HIDE DEF x
    <3> DEFINE p == d.callno
    <3> HIDE DEF p
    <3>1. Switched(x, p) = r
      BY DEF p
    <3> DEFINE y == [x EXCEPT !.peercallno = p]
               z == [y EXCEPT !.peer = y.transfer, !.transfer = Nobody, !.transferring = "NONE",
                              !.transferpeer = 0]
               k == [z EXCEPT !.oseqno = 0, !.iseqno = 0, !.aseqno = 0, !.fresh = TRUE]
    <3>2. y \in Session
      BY <1>4 DEF Session, x, p
    <3> HIDE DEF y
    <3>3. z \in Session
      BY <1>4, <3>2 DEF Session, x, y
    <3> HIDE DEF z
    <3>4. k.oseqno = 0 /\ k.iseqno = 0
      BY <3>3 DEF Session
    <3>5. Switched(x, p) = k
      BY DEF Switched, y, z
    <3> QED BY <3>1, <3>4, <3>5
  <2> QED BY <1>4, <2>1, SwitchedFacts
<1> HIDE DEF w, r
<1>7. Q \in SUBSET Frame /\ Aligned(x, a.s[Other(l)], Q, l) /\ \A f \in Q : ~f.live
  <2>1. \A f \in a.q[l] : f \in Frame
    BY <1>1, <1>4
  <2>2. \A f \in Q : ~f.live
    BY <2>1 DEF Stopped, Frame
  <2> QED BY <1>2, <2>2, StoppedAligned
<1> HIDE DEF Q
<1>8. Aligned(r, a.s[Other(l)], Q, l)
  BY <1>2, <1>4, <1>6, <1>7, StartAligned
<1>9. Level(x, r) /\ Rises(x, r)
  BY <1>2, <1>6 DEF Level, Rises, Said, Heard
<1>10. Posted(l, r, D)
  BY PostedNone
<1> HIDE DEF D
<1>11. /\ w = [s |-> w.s, q |-> w.q, out |-> w.out] /\ w.out = a.out \cup D
       /\ w.s = [a.s EXCEPT ![l] = r] /\ w.q = [a.q EXCEPT ![l] = Q]
  <2>1. w.s \in [Legs -> Session] /\ w.q \in [Legs -> SUBSET Frame] /\ w = [s |-> w.s, q |-> w.q, out |-> w.out]
    BY <1>5 DEF Updates, Value
  <2>2. /\ \A k \in Legs \ {l} : w.s[k] = a.s[k] /\ w.q[k] = a.q[k]
        /\ w.s[l] = r /\ w.q[l] = Q /\ w.out = a.out \cup D
    BY <1>5 DEF Updates
  <2> QED BY <1>1, <1>4, <2>1, <2>2
<1>12. Orderly(w) /\ \A e \in Ends \ {l} : Level(a.s[e], w.s[e])
  BY <1>1, <1>2, <1>6, <1>7, <1>8, <1>9, <1>10, <1>11, OrderlyChange
<1>13. w.s[l] = r
  BY <1>1, <1>4, <1>11
<1>14. Even(a, w)
  BY <1>9, <1>12, <1>13 DEF Even
<1> QED BY <1>1, <1>3, <1>14, CalmEven

(* An end is at most one frame ahead of what the other has taken: those before the
   last are not sent again. *)
LEMMA OneAhead ==
  ASSUME plan \in Plans, NEW v, Orderly(v), NEW e \in Ends
  PROVE  Said(v.s[e]) <= Heard(v.s[Other(e)]) + 1
<1> DEFINE x == v.s[e]
           y == v.s[Other(e)]
<1>1. e \in Legs /\ x \in Session /\ y \in Session /\ v.q[e] \in SUBSET Frame /\ Aligned(x, y, v.q[e], e)
  BY OrderlyParts, Others
<1> HIDE DEF x, y
<1>2. Said(x) \in Nat /\ Heard(y) \in Nat
  BY <1>1, SaidFacts
<1>3. CASE Said(x) <= 1
  BY <1>2, <1>3 DEF x, y
<1>4. CASE Said(x) > 1
  <2>1. PICK f \in v.q[e] : f.n = Said(x) - 1
    <3>1. Said(x) - 1 \in 1 .. Said(x)
      BY <1>2, <1>4
    <3> QED BY <1>1, <3>1 DEF Aligned
  <2>2. Regular(f, x, y)
    BY <1>1 DEF Aligned
  <2>3. f.n <= Heard(y)
    BY <1>2, <1>4, <2>1, <2>2 DEF Regular
  <2> QED BY <1>2, <2>1, <2>3 DEF x, y
<1> QED BY <1>2, <1>3, <1>4


LEMMA CurrentParts ==
  ASSUME IInv
  PROVE  /\ plan \in Plans /\ net \subseteq Datagram /\ Good(Current) /\ SessionInv(session)
         /\ Current.s = session /\ Current.q = schedq /\ Current.out = {}
         /\ Current = [s |-> Current.s, q |-> Current.q, out |-> Current.out]
         /\ \A l \in Legs : session[l].oseqno < Half
         /\ \A d \in net : DatagramInv(session, d)
BY DEF IInv, Current, Good

(* What is known of a datagram that an end receives. *)
LEMMA Delivered ==
  ASSUME IInv, Orderly(Current), NEW d \in net, NEW l \in FindSession(d), l \in Ends
  PROVE  /\ d.at = l /\ l \in Legs
         /\ d.from = Bridge => ~session[l].fresh /\ d.cmd \in {"TXREQ", "TXREL", "ACK", "VNAK"}
         /\ d.from # Bridge => Due(session[Other(l)], d) /\ d.from = Seen(Other(l), l)
<1>1. d.at = l /\ (d.from = Bridge => ~session[l].fresh) /\ l \in Legs
  BY CurrentParts, Matched
<1>2. d.from # Bridge => Due(session[Other(l)], d)
  BY <1>1, CurrentParts DEF Orderly, Between
<1> QED BY <1>1, <1>2, CurrentParts DEF DatagramInv

(* At an end that is released a frame is the next one, or one taken before. *)
LEMMA NextOrBefore ==
  ASSUME IInv, Orderly(Current), NEW d \in net, NEW l \in FindSession(d), l \in Ends, session[l].fresh
  PROVE  /\ d.cmd \in {"TXCNT", "TXACC", "data", "ACK"} /\ session[l].iseqno < Half
         /\ Due(session[Other(l)], d)
         /\ d.cmd = "data" => d.n > 0 /\ Minus(session[l].iseqno, d.oseqno) < Half
<1> DEFINE x == session[l]
           y == session[Other(l)]
<1>1. l \in Legs /\ Due(y, d) /\ Other(l) \in Ends /\ Other(Other(l)) = l /\ Other(l) \in Legs
  BY Delivered, Others
<1>2. plan \in Plans /\ Current.s = session /\ y.oseqno < Half /\ d \in Datagram
  BY <1>1, CurrentParts
<1>3. /\ x \in Session /\ y \in Session /\ Heard(x) <= Said(y) /\ Said(y) <= Heard(x) + 1
  <2>1. x \in Session /\ y \in Session /\ Heard(x) <= Said(y)
    BY <1>1, <1>2, OrderlyParts DEF Aligned
  <2>2. Said(y) <= Heard(x) + 1
    BY <1>1, <1>2, OneAhead
  <2> QED BY <2>1, <2>2
<1>4. Heard(x) = x.iseqno /\ x.iseqno \in Nat /\ Said(y) \in Nat
  BY <1>2, <1>3, SaidFacts DEF Heard
<1>5. Half \in Nat /\ M \in Nat /\ Half < M /\ 2 <= Half
  BY <1>2, PlanFacts
<1>6. Said(y) < Half
  BY <1>2, <1>5 DEF Said
<1>7. d.oseqno \in Nat
  BY <1>2, NumberFacts DEF Datagram
<1> HIDE DEF x, y
<1>8. x.iseqno < Half
  BY <1>3, <1>4, <1>5, <1>6
<1>9. ASSUME d.cmd = "data"
      PROVE  d.n > 0 /\ Minus(x.iseqno, d.oseqno) < Half
  <2>1. d.n = d.oseqno + 1 /\ d.n \in 1 .. Said(y)
    BY <1>1, <1>9 DEF Due
  <2>2. d.oseqno <= x.iseqno
    BY <1>3, <1>4, <1>7, <2>1
  <2>3. ASSUME NEW a \in Nat, NEW b \in Nat, b <= a, a < Half
        PROVE  (a - b) % M = a - b
    BY <1>5, <2>3
  <2>4. Minus(x.iseqno, d.oseqno) = x.iseqno - d.oseqno
    BY <1>4, <1>7, <1>8, <2>2, <2>3 DEF Minus
  <2> QED BY <1>4, <1>5, <1>7, <1>8, <2>1, <2>2, <2>4
<1> QED BY <1>1, <1>8, <1>9 DEF x, y, Due

(* Before it is released an end takes none. *)
LEMMA TakesNone ==
  ASSUME IInv, Orderly(Current), NEW d \in net, NEW l \in FindSession(d), l \in Ends, ~session[l].fresh
  PROVE  ~Took(l, d)
<1> SUFFICES ASSUME d.cmd = "data", d.n > 0, d.oseqno = session[l].iseqno
             PROVE  FALSE
  BY DEF Took
<1> DEFINE x == session[l]
           y == session[Other(l)]
<1>1. Due(y, d) /\ Other(l) \in Ends /\ Other(Other(l)) = l /\ Other(l) \in Legs
  BY Delivered, Others
<1>2. plan \in Plans /\ Current.s = session /\ d \in Datagram
  BY CurrentParts
<1>3. y \in Session /\ Said(y) <= Heard(x) + 1
  BY <1>1, <1>2, OrderlyParts, OneAhead
<1>4. Said(y) \in Nat /\ Heard(x) = 0
  BY <1>2, <1>3, SaidFacts DEF Heard
<1>5. d.oseqno \in Nat
  BY <1>2, NumberFacts DEF Datagram
<1>6. d.n = d.oseqno + 1 /\ d.n \in 1 .. Said(y)
  BY <1>1 DEF Due
<1>7. x.iseqno >= 1
  <2>1. EndInv(session, l)
    BY CurrentParts DEF SessionInv
  <2> QED BY <2>1, NumbersAssumption DEF EndInv
<1> HIDE DEF x, y
<1>8. d.oseqno = 0
  BY <1>3, <1>4, <1>5, <1>6
<1> QED BY <1>7, <1>8 DEF x

(* What is received changes no count of the ends, or is numbered for the end. *)
Takes(v, w, l, d) ==
  /\ Orderly(w) /\ d.n = Heard(v.s[l]) + 1 /\ Heard(w.s[l]) = Heard(v.s[l]) + 1
  /\ \A e \in Ends \ {l} : Heard(w.s[e]) = Heard(v.s[e])

LEMMA HandledEven ==
  ASSUME IInv, Orderly(Current), NEW d \in net, NEW l \in FindSession(d),
         NEW v, Good(v), Orderly(v), \A k \in Legs : Alike(session[k], v.s[k])
  PROVE  Even(v, Handled(v, l, d))
<1>1. /\ plan \in Plans /\ net \subseteq Datagram /\ d \in Datagram /\ DatagramInv(session, d) /\ l \in Legs
      /\ l \in Bridged => d.at = Bridge
  BY CurrentParts, Matched
<1>2. ASSUME l \in Ends
      PROVE  /\ d.from = Bridge => ~v.s[l].fresh /\ d.cmd \in {"TXREQ", "TXREL", "ACK", "VNAK"}
             /\ d.from # Bridge => /\ d.cmd \in {"TXCNT", "TXACC", "data", "ACK"}
                                   /\ d.from = Seen(Other(l), l)
  BY <1>1, <1>2, Delivered DEF Due, Alike
<1>3. l \in Bridged => d.cmd \in {"data", "TXREADY", "ACK", "VNAK"}
  BY <1>1 DEF DatagramInv
<1>4. l \in Ends <=> l \notin Bridged
  BY <1>1, Others
<1>5. CASE d.cmd = "TXREQ"
  <2>1. l \in Ends /\ d.from = Bridge
    BY <1>1, <1>2, <1>3, <1>4, <1>5
  <2>2. d.addr = Other(l)
    BY <1>1, <1>5, <2>1, Delivered DEF DatagramInv, Request
  <2>3. Handled(v, l, d) = TxReq(v, l, d)
    BY <1>5 DEF Handled
  <2> QED BY <1>1, <1>2, <2>1, <2>2, <2>3, TxReqCalm, CalmEven
<1>6. CASE d.cmd = "TXCNT"
  <2>1. l \in Ends /\ d.from = Seen(Other(l), l)
    BY <1>1, <1>2, <1>3, <1>4, <1>6
  <2>2. Handled(v, l, d) = TxCnt(v, l, d)
    BY <1>6 DEF Handled
  <2> QED BY <1>1, <2>1, <2>2, TxCntCalm, CalmEven
<1>7. CASE d.cmd = "TXACC"
  <2>1. l \in Ends
    BY <1>1, <1>3, <1>4, <1>7
  <2>2. Handled(v, l, d) = TxAcc(v, l)
    BY <1>7 DEF Handled
  <2> QED BY <1>1, <2>1, <2>2, TxAccCalm, CalmEven
<1>8. CASE d.cmd = "TXREADY"
  <2>1. l \in Bridged
    BY <1>1, <1>2, <1>4, <1>8
  <2>2. Handled(v, l, d) = TxReady(v, l)
    BY <1>8 DEF Handled
  <2> QED BY <1>1, <2>1, <2>2, TxReadyCalm, CalmEven
<1>9. CASE d.cmd = "TXREL"
  <2>1. l \in Ends /\ d.from = Bridge /\ ~v.s[l].fresh /\ d.at = l
    BY <1>1, <1>2, <1>3, <1>4, <1>9, Delivered
  <2>2. Agreed(session, l)
    BY <1>1, <1>9, <2>1 DEF DatagramInv, Release, BothAgreed
  <2>3. EndInv(v.s, l) /\ Agreed(v.s, l)
    BY <1>1, <2>1, <2>2, ValueFacts DEF Agreed, Alike, SessionInv
  <2>4. v.s[l].transferring = "READY" /\ v.s[l].transfer \in Known(l)
    BY <2>1, <2>3 DEF Agreed, EndInv
  <2>5. Handled(v, l, d) = TxRel(v, l, d)
    BY <1>9 DEF Handled
  <2> QED BY <1>1, <2>1, <2>4, <2>5, TxRelEven
<1>10. CASE d.cmd = "TXREJ"
  BY <1>1, <1>2, <1>3, <1>4, <1>10
<1>11. CASE d.cmd = "VNAK"
  <2>1. l \in Ends => ~v.s[l].fresh
    BY <1>2, <1>11
  <2>2. Handled(v, l, d) = Resent(v, l, d)
    BY <1>11 DEF Handled
  <2> QED BY <1>1, <2>1, <2>2, ResentCalm, CalmEven
<1>12. CASE d.cmd \notin {"TXREQ", "TXCNT", "TXACC", "TXREADY", "TXREL", "TXREJ", "VNAK"}
  <2>1. Handled(v, l, d) = v
    BY <1>12 DEF Handled
  <2> QED BY <2>1, CalmSelf, CalmEven
<1> QED BY <1>5, <1>6, <1>7, <1>8, <1>9, <1>10, <1>11, <1>12

LEMMA ProcessedOrderly ==
  ASSUME IInv, Orderly(Current), NEW d \in net, NEW l \in FindSession(d)
  PROVE  IF l \in Ends /\ Took(l, d) THEN Takes(Current, Processed(l, d), l, d)
         ELSE Even(Current, Processed(l, d))
<1> DEFINE c == Current
           v == Acknowledged(c, l, d)
           w == Counted(v, l, d)
           x == Handled(w, l, d)
<1>1. /\ l \in Legs /\ d \in Datagram /\ c.s = session /\ plan \in Plans /\ net \subseteq Datagram /\ Good(c)
      /\ d.oseqno < Half
  BY CurrentParts, Matched DEF DatagramInv
<1>2. Steady(c, v, {}) /\ Calm(c, v) /\ v.s[l].iseqno = session[l].iseqno
  <2>1. Steady(c, v, {})
    BY <1>1, AcknowledgedSteady
  <2>2. l \in Ends => /\ d.at = l /\ (d.from = Bridge => ~c.s[l].fresh)
                      /\ d.from # Bridge => Due(c.s[Other(l)], d)
    BY <1>1, Delivered
  <2>3. Calm(c, v)
    <3> HIDE DEF c
    <3> QED BY <1>1, <2>2, AcknowledgedCalm DEF c
  <2>4. v.s[l].iseqno = session[l].iseqno
    <3>1. c.s \in [Legs -> Session]
      BY <1>1, ValueFacts
    <3> HIDE DEF c
    <3> QED BY <1>1, <3>1 DEF Acknowledged
  <2> QED BY <2>1, <2>3, <2>4
<1>3. Good(v) /\ Orderly(v) /\ \A k \in Legs : Alike(session[k], v.s[k])
  BY <1>1, <1>2 DEF Steady, Calm
<1>4. Processed(l, d) = IF InSequence(v.s[l], d) \/ d.cmd \in OutOfOrder
                        THEN Answered(x, l)
                        ELSE IF Minus(v.s[l].iseqno, d.oseqno) < Half THEN Repeated(v, l) ELSE Missing(v, l)
  BY DEF Processed
<1>5. l \in Ends => /\ session[l].fresh => /\ d.cmd \in {"TXCNT", "TXACC", "data", "ACK"}
                                           /\ session[l].iseqno < Half /\ Due(session[Other(l)], d)
                                           /\ d.cmd = "data" => /\ d.n > 0
                                                                /\ Minus(session[l].iseqno, d.oseqno) < Half
                    /\ ~session[l].fresh => ~Took(l, d)
  BY NextOrBefore, TakesNone
<1>6. v.s[l].fresh = session[l].fresh
  BY <1>1, <1>3 DEF Alike
<1> HIDE DEF v, c
<1>7. CASE ~(InSequence(v.s[l], d) \/ d.cmd \in OutOfOrder)
  <2>1. ~Took(l, d)
    BY <1>2, <1>7 DEF Took, InSequence
  <2>2. CASE Minus(v.s[l].iseqno, d.oseqno) < Half
    <3>1. Processed(l, d) = Repeated(v, l)
      BY <1>4, <1>7, <2>2
    <3> QED BY <1>1, <1>2, <1>3, <2>1, <3>1, AnsweredCalm, CalmCalm, CalmEven DEF c
  <2>3. CASE ~(Minus(v.s[l].iseqno, d.oseqno) < Half)
    <3>1. Processed(l, d) = Missing(v, l)
      BY <1>4, <1>7, <2>3
    <3>2. ASSUME l \in Ends, v.s[l].fresh
          PROVE  FALSE
      BY <1>2, <1>5, <1>6, <1>7, <2>3, <3>2 DEF OutOfOrder, Unnumbered
    <3> QED BY <1>1, <1>2, <1>3, <2>1, <3>1, <3>2, MissingCalm, CalmCalm, CalmEven DEF c
  <2> QED BY <2>2, <2>3
<1>8. CASE InSequence(v.s[l], d) \/ d.cmd \in OutOfOrder
  <2>1. Steady(v, w, {})
    BY <1>1, <1>3, CountedSteady
  <2>2. Good(w) /\ \A k \in Legs : Alike(session[k], w.s[k])
    <3>1. Good(w) /\ \A k \in Legs : Alike(v.s[k], w.s[k])
      BY <2>1 DEF Steady
    <3> QED BY <1>3, <3>1 DEF Alike
  <2>3. ASSUME Orderly(w)
        PROVE  Even(w, Processed(l, d))
    <3> HIDE DEF w
    <3>1. Even(w, x)
      BY <2>2, <2>3, HandledEven
    <3> HIDE DEF x
    <3>2. Calm(x, Answered(x, l))
      BY <1>1, <3>1, AnsweredCalm DEF Even
    <3>3. Processed(l, d) = Answered(x, l)
      BY <1>4, <1>8
    <3> QED BY <3>1, <3>2, <3>3, CalmEven
  <2>4. CASE l \in Ends /\ Took(l, d)
    <3>1. session[l].fresh /\ d.cmd = "data" /\ d.oseqno = v.s[l].iseqno /\ v.s[l].fresh
          /\ v.s[l].iseqno < Half
      BY <1>2, <1>5, <1>6, <2>4 DEF Took
    <3>2. Due(v.s[Other(l)], d)
      <4>1. Due(session[Other(l)], d)
        BY <1>5, <2>4, <3>1
      <4>2. Level(session[Other(l)], v.s[Other(l)])
        BY <1>1, <1>2, <2>4, Others DEF Calm
      <4> QED BY <4>1, <4>2 DEF Due, Level
    <3>3. /\ Orderly(w) /\ d.n = Heard(v.s[l]) + 1 /\ Heard(w.s[l]) = Heard(v.s[l]) + 1
          /\ Level(v.s[Other(l)], w.s[Other(l)])
      BY <1>1, <1>3, <2>4, <3>1, <3>2, CountedTakes
    <3> HIDE DEF w
    <3>4. Even(w, Processed(l, d))
      BY <2>3, <3>3
    <3>5. \A e \in Ends \ {l} : e = Other(l)
      BY <2>4, Others
    <3> DEFINE p == Processed(l, d)
    <3> HIDE DEF p
    <3>6. Takes(c, p, l, d)
      <4>1. Orderly(p) /\ \A e \in Ends : Level(w.s[e], p.s[e])
        BY <3>4 DEF Even, p
      <4>2. \A e \in Ends : Level(c.s[e], v.s[e])
        BY <1>2 DEF Calm
      <4>3. d.n = Heard(c.s[l]) + 1 /\ Heard(p.s[l]) = Heard(c.s[l]) + 1
        BY <2>4, <3>3, <4>1, <4>2 DEF Level
      <4>4. \A e \in Ends \ {l} : Heard(p.s[e]) = Heard(c.s[e])
        BY <3>3, <3>5, <4>1, <4>2 DEF Level
      <4> QED BY <4>1, <4>3, <4>4 DEF Takes
    <3> QED BY <2>4, <3>6 DEF p, c
  <2>5. CASE ~(l \in Ends /\ Took(l, d))
    <3>1. l \in Ends /\ v.s[l].fresh => d.cmd \in Unnumbered
      BY <1>2, <1>5, <1>6, <1>8, <2>5 DEF Took, InSequence, OutOfOrder, Unnumbered
    <3>2. Calm(v, w)
      BY <1>1, <1>3, <3>1, CountedCalm
    <3> HIDE DEF w
    <3>3. Orderly(w)
      BY <3>2 DEF Calm
    <3>4. Even(w, Processed(l, d)) /\ Even(v, w) /\ Even(c, v)
      BY <1>2, <2>3, <3>2, <3>3, CalmEven
    <3>5. Even(c, Processed(l, d))
      BY <3>4, CalmEven
    <3> QED BY <2>5, <3>5 DEF c
  <2> QED BY <2>4, <2>5
<1> QED BY <1>7, <1>8


(* What the other actions do: nothing they do is counted as taken. *)
Untaken(v, w) == Orderly(w) /\ \A e \in Ends : Heard(w.s[e]) = Heard(v.s[e])

LEMMA EvenUntaken ==
  ASSUME NEW v, NEW w
  PROVE  (Calm(v, w) => Untaken(v, w)) /\ (Even(v, w) => Untaken(v, w))
BY DEF Calm, Even, Untaken, Level

(* An end that is released, and to which all is answered, sends the next frame. *)
LEMMA NextSent ==
  ASSUME plan \in Plans, NEW v, Orderly(v), NEW l \in Ends, v.s[l].fresh, v.s[l].oseqno < Half,
         \A g \in v.q[l] : ~g.live, NEW n, n = v.s[l].oseqno + 1
  PROVE  Untaken(v, Numbered(v, l, "data", Nobody, 0, n))
<1> DEFINE x == v.s[l]
           y == v.s[Other(l)]
           z == 0
           f == [cmd |-> "data", oseqno |-> x.oseqno, iseqno |-> x.iseqno, dst |-> x.peercallno,
                 transfer |-> FALSE, addr |-> Nobody, callno |-> z, n |-> n, live |-> TRUE,
                 fresh |-> x.fresh]
           r == [x EXCEPT !.oseqno = Succ(x.oseqno)]
           p == [r EXCEPT !.aseqno = r.iseqno]
           u == [v EXCEPT !.s[l].oseqno = Succ(@)]
           Q == v.q[l] \cup {f}
           D == Transmitted(l, r, f)
           w == Scheduled(u, l, f)
<1>1. /\ l \in Legs /\ x \in Session /\ y \in Session /\ Shaped(v) /\ v.s \in [Legs -> Session]
      /\ v.q \in [Legs -> SUBSET Frame] /\ Aligned(x, y, v.q[l], l)
  BY OrderlyParts, Others
<1>2. /\ x.oseqno \in Nat /\ x.iseqno \in Nat /\ Succ(x.oseqno) = x.oseqno + 1 /\ n \in Nat
      /\ Succ(x.oseqno) \in Numbers /\ Said(x) = x.oseqno /\ Heard(x) = x.iseqno
  <2>1. x.oseqno \in Numbers /\ x.iseqno \in Numbers
    BY <1>1 DEF Session
  <2> QED BY <2>1, NumberFacts DEF Said, Heard
<1>3. r \in Session /\ r.fresh = x.fresh /\ r.oseqno = n /\ r.iseqno = x.iseqno
      /\ r.peer = x.peer /\ r.transfer = x.transfer /\ r.transferring = x.transferring
  BY <1>1, <1>2 DEF Session
<1>4. p \in Session /\ p.fresh = x.fresh /\ p.oseqno = n /\ p.iseqno = x.iseqno
      /\ p.peer = x.peer /\ p.transfer = x.transfer /\ p.transferring = x.transferring
  <2> HIDE DEF r
  <2> QED BY <1>3 DEF Session
<1>5. f \in Frame
  BY <1>1, <1>2 DEF Frame, Session
<1>6. f.cmd = "data" /\ f.oseqno = x.oseqno /\ f.iseqno = x.iseqno /\ f.n = n /\ f.transfer = FALSE /\ f.live = TRUE
  OBVIOUS
<1>7. w.s = [v.s EXCEPT ![l] = p] /\ w.q = [v.q EXCEPT ![l] = Q] /\ w.out = v.out \cup D
      /\ w = [s |-> w.s, q |-> w.q, out |-> w.out]
  <2> HIDE DEF f, D
  <2>1. u.s = [v.s EXCEPT ![l] = r] /\ u.q = v.q /\ u.out = v.out
    BY <1>1 DEF Shaped
  <2> HIDE DEF u, r
  <2>2. u.s[l] = r
    BY <1>1, <2>1
  <2> QED BY <1>1, <2>1, <2>2 DEF Scheduled, D
<1>8. Numbered(v, l, "data", Nobody, 0, n) = w
  BY DEF Numbered
<1> HIDE DEF f, u, p, r, w
<1>9. Said(r) = n /\ Heard(r) = Heard(x) /\ Said(p) = n /\ Heard(p) = Heard(x)
  BY <1>2, <1>3, <1>4 DEF Said, Heard
<1>10. Faced(r, l) /\ Faced(p, l)
  BY <1>1, <1>3, <1>4 DEF Aligned, Faced
<1>11. Posted(l, p, D)
  <2>1. Sendable(f, r)
    BY <1>2, <1>3, <1>6, <1>9 DEF Sendable
  <2>2. Posted(l, r, D)
    BY <1>1, <1>3, <1>10, <2>1, SentPosted
  <2> HIDE DEF D
  <2> QED BY <1>9, <2>2, PostedLevel DEF Level
<1>12. Q \in SUBSET Frame /\ Aligned(p, y, Q, l)
  <2>1. IsFiniteSet(Q)
    BY <1>1, FS_AddElement DEF Aligned
  <2>2. ASSUME NEW k \in 1 .. Said(p)
        PROVE  \E g \in Q : g.n = k
    <3>1. CASE k = n
      BY <1>6, <3>1
    <3>2. CASE k # n
      <4>1. k \in 1 .. Said(x)
        BY <1>2, <1>9, <3>2
      <4> QED BY <1>1, <4>1 DEF Aligned
    <3> QED BY <3>1, <3>2
  <2>3. ASSUME NEW g \in v.q[l]
        PROVE  Regular(g, p, y)
    <3>1. g \in Frame /\ Regular(g, x, y) /\ ~g.live
      BY <1>1 DEF Aligned
    <3>2. g.n \in Nat
      BY <3>1 DEF Frame
    <3> QED BY <1>2, <1>9, <3>1, <3>2 DEF Regular
  <2>4. Regular(f, p, y)
    BY <1>2, <1>6, <1>9 DEF Regular
  <2>5. Heard(p) <= Said(y)
    BY <1>1, <1>9 DEF Aligned
  <2> QED BY <1>1, <1>5, <1>10, <2>1, <2>2, <2>3, <2>4, <2>5 DEF Aligned
<1>13. Rises(x, p)
  BY <1>2, <1>9 DEF Rises
<1> HIDE DEF Q, D
<1>14. Orderly(w) /\ \A e \in Ends \ {l} : Level(v.s[e], w.s[e])
  BY <1>1, <1>4, <1>7, <1>11, <1>12, <1>13, OrderlyChange
<1>15. w.s[l] = p
  BY <1>1, <1>7
<1>16. Untaken(v, w)
  BY <1>9, <1>14, <1>15 DEF Untaken, Level
<1> QED BY <1>8, <1>16

LEMMA SendOrderly ==
  ASSUME IInv, Straight, Orderly(Current), NEW e \in Ends, Send(e)
  PROVE  \E w : Untaken(Current, w) /\ Becomes(w, {}) /\ taken' = taken
<1> DEFINE n == IF Direct(e) THEN session[e].oseqno + 1 ELSE 0
           w == Numbered(Current, e, "data", Nobody, 0, n)
           L == {f \in schedq[e] : f.cmd = "data" /\ f.live}
<1>1. Becomes(w, {}) /\ taken' = taken /\ Cardinality(L) < 1
  BY DEF Send, Straight
<1>2. e \in Legs /\ plan \in Plans /\ Current.s = session /\ Current.q = schedq /\ session[e].oseqno < Half
  BY CurrentParts, Others
<1>3. CASE Direct(e)
  <2>1. Aligned(session[e], session[Other(e)], schedq[e], e)
    BY <1>2, OrderlyParts
  <2>2. IsFiniteSet(L)
    BY <2>1, FS_Subset DEF Aligned
  <2>3. L = {}
    <3> HIDE DEF L
    <3> QED BY <1>1, <2>2, FS_CardinalityType, FS_EmptySet
  <2>4. \A g \in schedq[e] : ~g.live
    BY <1>3, <2>1, <2>3 DEF Aligned, Regular, Direct
  <2>5. n = session[e].oseqno + 1 /\ session[e].fresh
    BY <1>3 DEF Direct
  <2> HIDE DEF n
  <2>6. Untaken(Current, w)
    BY <1>2, <2>4, <2>5, NextSent
  <2> QED BY <1>1, <2>6
<1>4. CASE ~Direct(e)
  <2>1. n = 0 /\ ~session[e].fresh /\ "data" \in Commands
    BY <1>4 DEF Direct, Commands
  <2> HIDE DEF n
  <2>2. Calm(Current, w)
    <3> DEFINE z == 0
    <3>1. z \in Nat
      OBVIOUS
    <3> HIDE DEF z
    <3>2. Calm(Current, Numbered(Current, e, "data", Nobody, z, n))
      BY <1>2, <2>1, <3>1, NumberedCalm
    <3> QED BY <3>2 DEF z
  <2> QED BY <1>1, <2>2, EvenUntaken
<1> QED BY <1>3, <1>4

LEMMA TimerOrderly ==
  ASSUME IInv, Straight, Orderly(Current), NEW l \in Legs, Timer(l)
  PROVE  \E w : Untaken(Current, w) /\ Becomes(w, {}) /\ taken' = taken
<1> DEFINE c == Current
           x == c.s[l]
<1>1. /\ c.s = session /\ c.q = schedq /\ c.out = {} /\ plan \in Plans
      /\ c = [s |-> c.s, q |-> c.q, out |-> c.out]
  BY CurrentParts
<1>2. PICK f \in schedq[l] : /\ f.live
                             /\ Becomes([c EXCEPT !.out = Transmitted(l, x, f)], {})
                             /\ taken' = taken
  BY <1>1 DEF Timer, Straight
<1> HIDE DEF c
<1> DEFINE D == Transmitted(l, x, f)
           w == [c EXCEPT !.out = D]
<1>3. /\ x \in Session /\ Shaped(c) /\ c.s \in [Legs -> Session] /\ c.q[l] \in SUBSET Frame
      /\ l \in Ends => Faced(x, l) /\ \A g \in c.q[l] : Regular(g, x, c.s[Other(l)])
  BY <1>1, OrderlyParts DEF Aligned, c
<1>4. l \in Ends => Sendable(f, x)
  <2> SUFFICES ASSUME l \in Ends
               PROVE  Sendable(f, x)
    OBVIOUS
  <2>1. f \in Frame /\ Regular(f, x, c.s[Other(l)])
    BY <1>1, <1>3
  <2>2. f.iseqno \in Nat /\ f.n \in Nat /\ f.transfer \in BOOLEAN
    BY <1>1, <2>1, NumberFacts DEF Frame
  <2> HIDE DEF x
  <2> QED BY <1>2, <2>1, <2>2 DEF Regular, Sendable
<1>5. Posted(l, x, D)
  BY <1>1, <1>3, <1>4, SentPosted
<1> HIDE DEF D
<1>6. w.s = c.s /\ w.q = c.q /\ w.out = c.out \cup D /\ w = [s |-> w.s, q |-> w.q, out |-> w.out]
  BY <1>1
<1>7. w.s = [c.s EXCEPT ![l] = x] /\ Level(x, x)
  BY <1>3, <1>6 DEF Level
<1>8. Becomes(w, {})
  BY <1>2 DEF D
<1> HIDE DEF x, w
<1>9. Calm(c, w)
  BY <1>1, <1>3, <1>5, <1>6, <1>7, SessionCalm DEF x, c
<1> QED BY <1>2, <1>8, <1>9, EvenUntaken DEF c

LEMMA AskedCalm ==
  ASSUME plan \in Plans, NEW v, Orderly(v), NEW l \in Bridged, NEW a \in Addresses, NEW b \in Nat,
         NEW c \in Nat
  PROVE  Calm(v, Asked(v, l, a, b, c))
<1> DEFINE x == v.s[l]
           r == [x EXCEPT !.transfer = a, !.transfercallno = b, !.transferring = "BEGIN",
                          !.transferpeer = Callno(Other(l))]
           u == [v EXCEPT !.s[l] = [@ EXCEPT !.transfer = a, !.transfercallno = b,
                                             !.transferring = "BEGIN",
                                             !.transferpeer = Callno(Other(l))]]
           D == {}
           z == 0
<1>1. l \in Legs /\ l \notin Ends /\ Other(l) \in Legs /\ "TXREQ" \in Commands
  BY Others DEF Commands
<1>2. x \in Session /\ Shaped(v) /\ v.s \in [Legs -> Session]
  BY <1>1, OrderlyParts
<1>3. r \in Session
  <2>1. Callno(Other(l)) \in Nat
    BY <1>1, PlanFacts
  <2> QED BY <1>2, <2>1 DEF Session
<1>4. u.s = [v.s EXCEPT ![l] = r] /\ u.q = v.q /\ u.out = v.out \cup D
      /\ u = [s |-> u.s, q |-> u.q, out |-> u.out]
  BY <1>2 DEF Shaped
<1>5. Posted(l, r, D)
  BY PostedNone
<1>6. Asked(v, l, a, b, c) = Numbered(u, l, "TXREQ", a, c, z) /\ z = 0
  BY DEF Asked
<1> HIDE DEF u, r, D, z
<1>7. Calm(v, u)
  BY <1>1, <1>3, <1>4, <1>5, SessionCalm
<1>8. Calm(u, Numbered(u, l, "TXREQ", a, c, z))
  BY <1>1, <1>6, <1>7, NumberedCalm DEF Calm
<1> QED BY <1>6, <1>7, <1>8, CalmCalm

LEMMA SetupOrderly ==
  ASSUME IInv, Orderly(Current), Setup
  PROVE  \E w : Untaken(Current, w) /\ Becomes(w, {}) /\ taken' = taken
<1> DEFINE c == Current
           asked(v, l) ==
             LET o == Other(l) IN
             Numbered([v EXCEPT !.s[l] = [@ EXCEPT !.transfer = session[o].peer,
                                                   !.transfercallno = session[l].peercallno,
                                                   !.transferring = "BEGIN",
                                                   !.transferpeer = Callno(o)]],
                      l, "TXREQ", session[o].peer, session[o].peercallno, 0)
           v == asked(c, ToPager)
           w == asked(v, ToPhone)
<1>1. plan \in Plans /\ Orderly(c) /\ Becomes(w, {}) /\ taken' = taken
  BY CurrentParts DEF Setup
<1>2. /\ ToPager \in Bridged /\ ToPhone \in Bridged /\ Other(ToPager) = ToPhone /\ Other(ToPhone) = ToPager
      /\ ToPager \in Legs /\ ToPhone \in Legs
  <2>1. Bridged = {ToPager, ToPhone} /\ ToPager # ToPhone
    BY Others
  <2>2. Other(ToPager) \in Bridged \ {ToPager} /\ Other(ToPhone) \in Bridged \ {ToPhone}
        /\ ToPager \in Legs /\ ToPhone \in Legs
    BY <2>1, Others
  <2> QED BY <2>1, <2>2
<1>3. \A l \in Legs : session[l].peer \in Addresses /\ session[l].peercallno \in Nat
  BY InvariantParts DEF Session
<1> HIDE DEF c
<1>4. v = Asked(c, ToPager, session[ToPhone].peer, session[ToPager].peercallno, session[ToPhone].peercallno)
  BY <1>2 DEF Asked
<1>5. w = Asked(v, ToPhone, session[ToPager].peer, session[ToPhone].peercallno, session[ToPager].peercallno)
  BY <1>2 DEF Asked
<1> HIDE DEF v, w
<1>6. Calm(c, v)
  BY <1>1, <1>2, <1>3, <1>4, AskedCalm
<1>7. Calm(v, w)
  BY <1>1, <1>2, <1>3, <1>5, <1>6, AskedCalm DEF Calm
<1> QED BY <1>1, <1>6, <1>7, CalmCalm, EvenUntaken DEF c


-----------------------------------------------------------------------------
(* The invariant of the direct call *)

(* What an end has taken is what the other has said, from the first frame on. *)
Heeded == \A e \in Ends : /\ Len(taken[e]) = Heard(session[e])
                          /\ \A i \in 1 .. Len(taken[e]) : taken[e][i] = i

DirectInv == Straight => Orderly(Current) /\ Heeded

LEMMA ReceiveHeeded ==
  ASSUME IInv, Orderly(Current), Heeded, NEW l \in Legs, Receive(l)
  PROVE  \E w : \E used : Orderly(w) /\ Becomes(w, used) /\ Heeded'
<1>1. PICK d \in net :
        /\ l \in FindSession(d) /\ Becomes(Processed(l, d), {d})
        /\ taken' = IF Took(l, d) THEN [taken EXCEPT ![l] = Append(@, d.n)]
                    ELSE IF l \in Ends /\ session'[l].fresh # session[l].fresh
                    THEN [taken EXCEPT ![l] = << >>] ELSE taken
  BY DEF Receive
<1> DEFINE w == Processed(l, d)
<1>2. IF l \in Ends /\ Took(l, d) THEN Takes(Current, w, l, d) ELSE Even(Current, w)
  BY <1>1, ProcessedOrderly
<1>3. session' = w.s /\ Current.s = session /\ plan \in Plans /\ taken \in [Ends -> Seq(Nat)] /\ d \in Datagram
  BY <1>1, CurrentParts DEF Becomes, IInv
<1>4. Orderly(w)
  BY <1>2 DEF Takes, Even
<1> HIDE DEF w
<1>5. CASE l \in Ends /\ Took(l, d)
  <2>1. taken' = [taken EXCEPT ![l] = Append(taken[l], d.n)]
    BY <1>1, <1>5
  <2>2. d.n = Heard(session[l]) + 1 /\ Heard(session'[l]) = Heard(session[l]) + 1
        /\ \A e \in Ends \ {l} : Heard(session'[e]) = Heard(session[e])
    BY <1>2, <1>3, <1>5 DEF Takes
  <2>3. taken[l] \in Seq(Nat) /\ d.n \in Nat
    BY <1>3, <1>5 DEF Datagram
  <2>4. Len(taken[l]) = Heard(session[l]) /\ \A i \in 1 .. Len(taken[l]) : taken[l][i] = i
    BY <1>5 DEF Heeded
  <2> DEFINE s == Append(taken[l], d.n)
  <2>5. Len(s) = Heard(session'[l]) /\ \A i \in 1 .. Len(s) : s[i] = i
    BY <2>2, <2>3, <2>4
  <2> HIDE DEF s
  <2>6. ASSUME NEW e \in Ends
        PROVE  /\ Len(taken'[e]) = Heard(session'[e])
               /\ \A i \in 1 .. Len(taken'[e]) : taken'[e][i] = i
    <3>1. CASE e = l
      <4>1. taken'[e] = s
        BY <1>3, <2>1, <3>1 DEF s
      <4> QED BY <2>5, <3>1, <4>1
    <3>2. CASE e # l
      <4>1. taken'[e] = taken[e]
        BY <1>3, <2>1, <3>2
      <4> QED BY <2>2, <3>2, <4>1 DEF Heeded
    <3> QED BY <3>1, <3>2
  <2>7. Heeded'
    BY <2>6 DEF Heeded, Heard
  <2> QED BY <1>1, <1>4, <2>7 DEF w
<1>6. CASE ~(l \in Ends /\ Took(l, d))
  <2>1. \A e \in Ends : Heard(session'[e]) = Heard(session[e])
    BY <1>2, <1>3, <1>6 DEF Even, Level
  <2>2. ASSUME NEW e \in Ends
        PROVE  taken'[e] = taken[e] \/ (taken'[e] = << >> /\ Heard(session'[e]) = 0)
    <3>1. CASE Took(l, d)
      BY <1>1, <1>3, <1>6, <3>1
    <3>2. CASE ~Took(l, d) /\ l = e /\ session'[l].fresh # session[l].fresh
      <4>1. taken'[e] = << >>
        BY <1>1, <1>3, <3>2
      <4>2. session'[e].fresh \in BOOLEAN /\ session[e].fresh \in BOOLEAN
        <5>1. session'[e] \in Session /\ session[e] \in Session
          BY <1>3, <1>4, OrderlyParts, Others
        <5> QED BY <5>1 DEF Session
      <4>3. Heard(session'[e]) = 0
        BY <2>1, <3>2, <4>2 DEF Heard
      <4> QED BY <4>1, <4>3
    <3>3. CASE ~Took(l, d) /\ ~(l = e /\ session'[l].fresh # session[l].fresh)
      BY <1>1, <1>3, <3>3
    <3> QED BY <3>1, <3>2, <3>3
  <2>3. \A e \in Ends : Len(taken[e]) = Heard(session[e]) /\ \A i \in 1 .. Len(taken[e]) : taken[e][i] = i
    BY DEF Heeded
  <2>4. ASSUME NEW e \in Ends
        PROVE  /\ Len(taken'[e]) = Heard(session'[e])
               /\ \A i \in 1 .. Len(taken'[e]) : taken'[e][i] = i
    BY <2>1, <2>2, <2>3
  <2>5. Heeded'
    BY <2>4 DEF Heeded, Heard
  <2> QED BY <1>1, <1>4, <2>5 DEF w
<1> QED BY <1>5, <1>6

LEMMA NextOrderly ==
  ASSUME IInv, Straight, Orderly(Current), Heeded, Next
  PROVE  \E w : \E used : Orderly(w) /\ Becomes(w, used) /\ Heeded'
<1>1. ASSUME NEW w, Untaken(Current, w), Becomes(w, {}), taken' = taken
      PROVE  Orderly(w) /\ Becomes(w, {}) /\ Heeded'
  <2>1. \A e \in Ends : Heard(session'[e]) = Heard(session[e])
    BY <1>1, CurrentParts DEF Untaken, Becomes
  <2>2. \A e \in Ends : /\ Len(taken'[e]) = Heard(session'[e])
                        /\ \A i \in 1 .. Len(taken'[e]) : taken'[e][i] = i
    BY <1>1, <2>1 DEF Heeded
  <2>3. Heeded'
    BY <2>2 DEF Heeded, Heard
  <2> QED BY <1>1, <2>3 DEF Untaken
<1>2. CASE Setup
  BY <1>1, <1>2, SetupOrderly
<1>3. ASSUME NEW e \in Ends, Send(e)
      PROVE  \E w : \E used : Orderly(w) /\ Becomes(w, used) /\ Heeded'
  BY <1>1, <1>3, SendOrderly
<1>4. ASSUME NEW l \in Legs, Receive(l)
      PROVE  \E w : \E used : Orderly(w) /\ Becomes(w, used) /\ Heeded'
  BY <1>4, ReceiveHeeded
<1>5. ASSUME NEW l \in Legs, Timer(l)
      PROVE  \E w : \E used : Orderly(w) /\ Becomes(w, used) /\ Heeded'
  BY <1>1, <1>5, TimerOrderly
<1> QED BY <1>2, <1>3, <1>4, <1>5 DEF Next

(* Whom an end may face depends on the plan alone, which stays. *)
LEMMA OrderKept ==
  ASSUME plan' = plan, NEW w, Orderly(w), session' = w.s, schedq' = w.q, net' \subseteq net \cup w.out
  PROVE  Orderly(Current)'
<1>1. Current.s' = session' /\ Current.q' = schedq' /\ Current.out' = {}
      /\ Current' = [s |-> session', q |-> schedq', out |-> {}]
  BY DEF Current
<1>2. Shaped(Current)'
  BY <1>1 DEF Orderly, Shaped
<1>3. ASSUME NEW e \in Ends
      PROVE  Aligned(session[e], session[Other(e)], schedq[e], e)'
  <2>1. Aligned(session'[e], session'[Other(e)], schedq'[e], e)
    BY <1>3 DEF Orderly
  <2> QED BY <2>1 DEF Aligned, Faced, Known, Regular, Said, Heard
<1>4. ASSUME NEW d \in net', Between(d)
      PROVE  Due(session'[Other(d.at)], d)
  BY <1>4 DEF Orderly
<1>5. \A d \in net' : Between(d) => Due(session[Other(d.at)], d)'
  BY <1>4 DEF Due, Said, Heard
<1>6. \A e \in Ends : Aligned(Current.s[e], Current.s[Other(e)], Current.q[e], e)'
  BY <1>1, <1>3
<1> QED BY <1>1, <1>2, <1>5, <1>6 DEF Orderly, Between

LEMMA NextDirectInv == IInv /\ DirectInv /\ [Next]_vars => DirectInv'
<1> SUFFICES ASSUME IInv, DirectInv, [Next]_vars, Straight'
             PROVE  Orderly(Current)' /\ Heeded'
  BY DEF DirectInv
<1>1. plan' = plan
  BY NextMoves DEF vars
<1>2. Straight /\ Orderly(Current) /\ Heeded
  BY <1>1 DEF Straight, DirectInv
<1>3. CASE Next
  <2>1. PICK w : \E used : Orderly(w) /\ Becomes(w, used) /\ Heeded'
    BY <1>2, <1>3, NextOrderly
  <2>2. Orderly(w) /\ session' = w.s /\ schedq' = w.q /\ net' \subseteq net \cup w.out
    BY <2>1 DEF Becomes
  <2> QED BY <1>1, <2>1, <2>2, OrderKept
<1>4. CASE UNCHANGED vars
  <2>1. session' = Current.s /\ schedq' = Current.q /\ net' \subseteq net \cup Current.out /\ taken' = taken
    BY <1>4 DEF vars, Current
  <2>2. Heeded'
    BY <1>2, <1>4 DEF Heeded, Heard, vars
  <2> QED BY <1>1, <1>2, <2>1, <2>2, OrderKept
<1> QED BY <1>3, <1>4

LEMMA InitDirectInv == Init => DirectInv
<1> SUFFICES ASSUME Init
             PROVE  Orderly(Current) /\ Heeded
  BY DEF DirectInv
<1>1. IInv
  BY InitIInv
<1>2. net = {} /\ schedq = [l \in Legs |-> {}] /\ taken = [e \in Ends |-> << >>]
  BY DEF Init
<1>3. \A e \in Ends : ~session[e].fresh /\ session[e].peer = Bridge /\ session[e].transfer = Nobody
  <2>1. \A e \in Ends : session[e] = InCall(Bridge, Callno(Leg(e)))
    BY Others DEF Init
  <2>2. \A a, c : /\ InCall(a, c).fresh = FALSE /\ InCall(a, c).peer = a
                  /\ InCall(a, c).transfer = Nobody
    BY DEF InCall
  <2> QED BY <2>1, <2>2
<1>4. \A e \in Ends : Said(session[e]) = 0 /\ Heard(session[e]) = 0 /\ Faced(session[e], e)
  BY <1>3 DEF Said, Heard, Faced
<1>5. ASSUME NEW e \in Ends
      PROVE  Aligned(session[e], session[Other(e)], schedq[e], e)
  <2>1. schedq[e] = {} /\ Other(e) \in Ends
    BY <1>2, Others
  <2>2. IsFiniteSet(schedq[e])
    BY <2>1, FS_EmptySet
  <2> QED BY <1>4, <2>1, <2>2 DEF Aligned
<1>6. Shaped(Current)
  BY <1>1, InvariantParts, CurrentParts DEF Shaped
<1>7. Orderly(Current)
  BY <1>1, <1>2, <1>5, <1>6, CurrentParts DEF Orderly
<1>8. Heeded
  BY <1>2, <1>4 DEF Heeded
<1> QED BY <1>7, <1>8

(* No timer of a released end sends a frame of the call over the bridge to its new
   peer, in every plan.  An answer to a VNAK may (iax_handle_vnak looks at no retries):
   that nothing else than frames of the direct call and unnumbered ones passes
   between the ends is proved for one frame under way at a time and no transfer
   frame given up, when no VNAK comes. *)
THEOREM HeldBack == Spec => []OldFramesHeldBack
<1>1. IInv /\ DirectInv => OldFramesHeldBack
  <2> SUFFICES ASSUME IInv, DirectInv
               PROVE  OldFramesHeldBack
    OBVIOUS
  <2>1. \A e \in Ends : \A f \in schedq[e] : f.live => f.fresh = session[e].fresh
    BY InvariantParts, Others DEF FrameInv
  <2>2. ASSUME Straight, NEW d \in net, Between(d)
        PROVE  d.cmd \in Unnumbered \ {"VNAK"} \/ (d.cmd = "data" /\ d.n = d.oseqno + 1)
    <3>1. Due(session[Other(d.at)], d)
      BY <2>2, CurrentParts DEF DirectInv, Orderly
    <3> QED BY <3>1 DEF Due, Unnumbered
  <2> QED BY <2>1, <2>2 DEF OldFramesHeldBack, Straight, Between
<1> QED BY <1>1, Invariant, InitDirectInv, NextDirectInv, PTL DEF Spec

(* Frames of the direct call are handled once each and in the order sent, and none
   is taken for acknowledged that was not handled, although the two ends change over
   at different times and rseqno keeps its value: with one frame under way at a time,
   no transfer frame given up and the counts of the call over the bridge from 1 to
   below Half, whatever is lost, repeated or overtaken.  A count that had wrapped to
   0 before the release would let a frame be taken before and after it. *)
THEOREM DirectSafe == Spec => []DirectReliable
<1>1. IInv /\ DirectInv => DirectReliable
  <2> SUFFICES ASSUME IInv, Straight, Orderly(Current), Heeded, NEW e \in Ends
               PROVE  /\ \A i \in DOMAIN taken[e] : taken[e][i] = i
                      /\ Direct(Other(e)) =>
                           \A f \in schedq[Other(e)] :
                             f.n > 0 /\ ~f.live => f.n \in {taken[e][i] : i \in DOMAIN taken[e]}
    BY DEF DirectInv, DirectReliable, Straight
  <2>1. taken[e] \in Seq(Nat) /\ DOMAIN taken[e] = 1 .. Len(taken[e])
    BY DEF IInv
  <2>2. Len(taken[e]) = Heard(session[e]) /\ \A i \in 1 .. Len(taken[e]) : taken[e][i] = i
    BY DEF Heeded
  <2>3. ASSUME NEW f \in schedq[Other(e)], f.n > 0, ~f.live
        PROVE  f.n \in {taken[e][i] : i \in DOMAIN taken[e]}
    <3>1. Other(e) \in Ends /\ Other(e) \in Legs /\ Other(Other(e)) = e
      BY Others
    <3>2. f \in Frame /\ Regular(f, session[Other(e)], session[e])
      BY <3>1, CurrentParts, OrderlyParts DEF Aligned
    <3>3. f.n \in 1 .. Heard(session[e])
      <4>1. f.n \in Nat
        BY <3>2 DEF Frame
      <4>2. Heard(session[e]) \in Nat
        BY <2>1, <2>2
      <4> QED BY <2>3, <3>2, <4>1, <4>2 DEF Regular
    <3> QED BY <2>1, <2>2, <3>3
  <2> QED BY <2>1, <2>2, <2>3
<1> QED BY <1>1, Invariant, InitDirectInv, NextDirectInv, PTL DEF Spec


=============================================================================
