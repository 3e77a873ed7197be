--------------------------- MODULE TransportProofs ---------------------------
(***************************************************************************)
(* What is proved of Transport, for every number of retries and frames and   *)
(* every M, Window and Lifetime that its assumptions allow:                  *)
(*   - TypeCorrect: the type invariant;                                      *)
(*   - Delivers: Transport implements ReliableChannel;                       *)
(*   - Remembers: no frame is forgotten before it arrived.                   *)
(* The numbers on the wire wrap.  Everything rests on the invariant          *)
(* Numbering: each of them is the remainder of the number it stands for, and *)
(* the true numbers are so close together that comparing remainders compares *)
(* them.                                                                     *)
(***************************************************************************)
EXTENDS Transport, SequenceTheorems, TLAPS

-----------------------------------------------------------------------------
(* The inductive invariant *)

(* the number on the wire that stands for x *)
Wrap(x) == x % M

(* the sequence numbers of a session are those of what it sent, accepted and
   knows to have arrived, and at most Window frames are on their way *)
Counting(n) ==
  /\ session[n].oseqno = Wrap(sent[n])
  /\ session[n].iseqno = Wrap(Len(got[n]))
  /\ session[n].rseqno = Wrap(acked[n])
  /\ acked[n] <= Len(got[Peer(n)])
  /\ Len(got[Peer(n)]) <= sent[n]
  /\ sent[n] <= acked[n] + Window

(* a frame in the schedule of n *)
TrueFrame(n, f) ==
  /\ f.oseqno = Wrap(f.n) /\ f.n < sent[n]
  /\ f.iseqno = Wrap(f.a) /\ f.a <= Len(got[n])

(* a datagram that the peer of n sent to it *)
TrueDatagram(n, m) ==
  /\ m.iseqno = Wrap(m.a) /\ m.a <= Len(got[Peer(n)])
  /\ m.kind = "data" => m.oseqno = Wrap(m.n) /\ m.n < sent[Peer(n)]

Numbering ==
  \A n \in Nodes :
    /\ Counting(n)
    /\ \A f \in schedq[n] : TrueFrame(n, f)
    /\ \A m \in net[n] : TrueDatagram(n, m)

IInv == TypeOK /\ Numbering /\ NothingForgotten

-----------------------------------------------------------------------------
(* Remainders *)

(* Division with remainder, for the M of the constants. *)
LEMMA Remainder ==
  \A x \in Int : x % M \in 0 .. M - 1 /\ x \div M \in Int /\ x = M * (x \div M) + (x % M)
BY NumbersAssumption

(* Quotient and remainder are unique. *)
LEMMA RemainderUnique ==
  ASSUME NEW q \in Int, NEW r \in 0 .. M - 1, NEW p \in Int, NEW s \in 0 .. M - 1,
         M * q + r = M * p + s
  PROVE  r = s
<1>1. CASE q > p
  <2>1. q >= p + 1
    BY <1>1
  <2>2. M * q >= M * (p + 1)
    BY <2>1, NumbersAssumption
  <2> QED
    BY <2>2, NumbersAssumption
<1>2. CASE q < p
  <2>1. p >= q + 1
    BY <1>2
  <2>2. M * p >= M * (q + 1)
    BY <2>1, NumbersAssumption
  <2> QED
    BY <2>2, NumbersAssumption
<1> QED
  BY <1>1, <1>2, NumbersAssumption

(* Multiples of M leave the remainder as it is. *)
LEMMA Shift ==
  ASSUME NEW x \in Int, NEW k \in Int
  PROVE  (x - M * k) % M = x % M
<1> DEFINE y == x - M * k
<1>1. y \in Int
  BY NumbersAssumption
<1>2. x = M * (x \div M) + (x % M) /\ x \div M \in Int /\ x % M \in 0 .. M - 1
  BY Remainder
<1>3. y = M * (y \div M) + (y % M) /\ y \div M \in Int /\ y % M \in 0 .. M - 1
  BY Remainder, <1>1
<1>4. M * ((x \div M) - k) = M * (x \div M) - M * k
  BY <1>2, NumbersAssumption
<1>5. M * ((x \div M) - k) + (x % M) = M * (y \div M) + (y % M)
  BY <1>4, <1>3, <1>2, NumbersAssumption
<1>6. (x \div M) - k \in Int
  BY <1>2
<1> HIDE DEF y
<1>7. x % M = y % M
  BY <1>5, <1>6, <1>2, <1>3, RemainderUnique
<1> QED
  BY <1>7 DEF y

(* A number below M is its own remainder. *)
LEMMA Small ==
  ASSUME NEW x \in 0 .. M - 1
  PROVE  x % M = x
<1>1. x \in Int /\ x % M \in 0 .. M - 1 /\ x \div M \in Int /\ x = M * (x \div M) + (x % M)
  BY Remainder
<1>2. M * 0 + x = M * (x \div M) + (x % M)
  BY <1>1, NumbersAssumption
<1> QED
  BY <1>1, <1>2, RemainderUnique

(* The byte arithmetic of the code, (unsigned char)(x - y), on the remainders
   of two numbers that differ by less than M. *)
LEMMA Distance ==
  ASSUME NEW x \in Nat, NEW y \in Nat
  PROVE  /\ y <= x /\ x < y + M => Minus(Wrap(x), Wrap(y)) = x - y
         /\ x < y /\ y < x + M => Minus(Wrap(x), Wrap(y)) = M - (y - x)
<1> DEFINE p == x \div M
           q == y \div M
           d == (x % M) - (y % M)
           e == (x - y) + M
<1>1. x = M * p + (x % M) /\ p \in Int /\ x % M \in 0 .. M - 1
  BY Remainder
<1>2. y = M * q + (y % M) /\ q \in Int /\ y % M \in 0 .. M - 1
  BY Remainder
<1>3. d \in Int /\ p - q \in Int
  BY <1>1, <1>2
<1>4. d = (x - y) - M * (p - q)
  BY <1>1, <1>2, NumbersAssumption
<1>5. d % M = (x - y) % M
  BY <1>4, <1>3, Shift
<1>6. (x - y) % M = e % M
  <2>1. e - M * 1 = x - y /\ e \in Int
    BY NumbersAssumption
  <2> HIDE DEF e
  <2>2. (e - M * 1) % M = e % M
    BY <2>1, Shift
  <2> QED
    BY <2>1, <2>2
<1>7. Minus(Wrap(x), Wrap(y)) = (x - y) % M
  BY <1>5 DEF Minus, Wrap
<1>8. y <= x /\ x < y + M => (x - y) % M = x - y
  BY Small, NumbersAssumption
<1>9. x < y /\ y < x + M => e % M = M - (y - x)
  BY Small, NumbersAssumption
<1> QED
  BY <1>6, <1>7, <1>8, <1>9, NumbersAssumption

(* What is on the wire is a byte. *)
LEMMA WrapType ==
  \A x \in Nat : Wrap(x) \in Numbers
BY Remainder DEF Wrap, Numbers

(* Numbers that differ by less than M and have the same remainder are equal. *)
LEMMA SameNumber ==
  ASSUME NEW x \in Nat, NEW y \in Nat, Wrap(x) = Wrap(y), x < y + M, y < x + M
  PROVE  x = y
<1>1. Minus(Wrap(x), Wrap(y)) = Minus(Wrap(y), Wrap(y))
  OBVIOUS
<1>2. Minus(Wrap(y), Wrap(y)) = y - y
  BY Distance, NumbersAssumption
<1> QED
  BY <1>1, <1>2, Distance, NumbersAssumption

(* The byte that is incremented is the remainder of the next number. *)
LEMMA WrapSucc ==
  ASSUME NEW x \in Nat
  PROVE  Succ(Wrap(x)) = Wrap(x + 1)
<1>1. x = M * (x \div M) + (x % M) /\ x \div M \in Int /\ x % M \in Int
  BY Remainder
<1>2. (x % M) + 1 = (x + 1) - M * (x \div M)
  BY <1>1, NumbersAssumption
<1> QED
  BY <1>1, <1>2, Shift DEF Succ, Wrap

-----------------------------------------------------------------------------
(* Implicit acknowledgement *)

(* how many of its frames n knows to have arrived after it has read m *)
Learnt(n, m) == IF acked[n] <= m.a THEN m.a ELSE acked[n]

(* There are two ends, and each is the peer of the other. *)
LEMMA Peers ==
  \A n \in Nodes : /\ Peer(n) \in Nodes /\ Peer(n) # n /\ Peer(Peer(n)) = n
                   /\ \A k \in Nodes : k = n \/ k = Peer(n)
BY EndsAssumption DEF Nodes, Peer

(* What the types say of the counters of an end and of a datagram. *)
LEMMA Counters ==
  ASSUME TypeOK, NEW n \in Nodes
  PROVE  /\ sent[n] \in Nat /\ acked[n] \in Nat
         /\ got[n] \in Seq(Nat) /\ Len(got[n]) \in Nat
         /\ session[n] \in Session
         /\ schedq[n] \subseteq Frame /\ net[n] \subseteq Datagram
<1>1. sent[n] \in Nat /\ acked[n] \in Nat /\ got[n] \in Seq(Nat) /\ session[n] \in Session
  BY DEF TypeOK
<1>2. Len(got[n]) \in Nat
  BY <1>1, LenProperties
<1>3. schedq[n] \subseteq Frame /\ net[n] \subseteq Datagram
  BY DEF TypeOK
<1> QED
  BY <1>1, <1>2, <1>3

(* The comparison that decides whether an acknowledgement is taken, and what it
   is taken for: an old one changes nothing, and a new one is believed exactly. *)
LEMMA Absorb ==
  ASSUME TypeOK, Numbering, NEW n \in Nodes, NEW m \in net[n], Fresh(n, m)
  PROVE  /\ Learnt(n, m) \in acked[n] .. Len(got[Peer(n)])
         /\ InWindow(session[n], m.iseqno) <=> acked[n] <= m.a
         /\ Acknowledge(session[n], m) = [session[n] EXCEPT !.rseqno = Wrap(Learnt(n, m))]
         /\ acked[n] + Minus(Acknowledge(session[n], m).rseqno, session[n].rseqno) = Learnt(n, m)
<1>1. Peer(n) \in Nodes
  BY Peers
<1>2. acked[n] \in Nat /\ sent[n] \in Nat /\ session[n] \in Session /\ Len(got[Peer(n)]) \in Nat
  BY <1>1, Counters
<1>3. m.a \in Nat
  BY Counters DEF Datagram
<1>4. /\ session[n].oseqno = Wrap(sent[n]) /\ session[n].rseqno = Wrap(acked[n])
      /\ acked[n] <= Len(got[Peer(n)]) /\ Len(got[Peer(n)]) <= sent[n]
      /\ sent[n] <= acked[n] + Window
  BY DEF Numbering, Counting
<1>5. m.iseqno = Wrap(m.a) /\ m.a <= Len(got[Peer(n)])
  BY DEF Numbering, TrueDatagram
<1>6. m.a + Lifetime >= acked[n]
  BY DEF Fresh
<1>7. Minus(session[n].oseqno, session[n].rseqno) = sent[n] - acked[n]
  BY <1>2, <1>4, Distance, NumbersAssumption
<1>8. Minus(session[n].rseqno, session[n].rseqno) = 0
  <2>1. Minus(Wrap(acked[n]), Wrap(acked[n])) = acked[n] - acked[n]
    BY <1>2, Distance, NumbersAssumption
  <2> QED
    BY <2>1, <1>2, <1>4
<1>9. CASE acked[n] <= m.a
  <2>1. Minus(m.iseqno, session[n].rseqno) = m.a - acked[n]
    BY <1>2, <1>3, <1>4, <1>5, <1>9, Distance, NumbersAssumption
  <2>2. InWindow(session[n], m.iseqno)
    BY <1>2, <1>3, <1>4, <1>5, <1>7, <2>1 DEF InWindow
  <2>3. Learnt(n, m) = m.a
    BY <1>9 DEF Learnt
  <2>4. Acknowledge(session[n], m) = [session[n] EXCEPT !.rseqno = m.iseqno]
    BY <2>2 DEF Acknowledge
  <2>5. Acknowledge(session[n], m).rseqno = m.iseqno
    BY <2>4, <1>2 DEF Session
  <2> QED
    BY <1>2, <1>3, <1>4, <1>5, <1>9, <2>1, <2>2, <2>3, <2>4, <2>5
<1>10. CASE m.a < acked[n]
  <2>1. Minus(m.iseqno, session[n].rseqno) = M - (acked[n] - m.a)
    BY <1>2, <1>3, <1>4, <1>5, <1>6, <1>10, Distance, NumbersAssumption
  <2>2. ~InWindow(session[n], m.iseqno)
    BY <1>2, <1>3, <1>4, <1>6, <1>7, <2>1, NumbersAssumption, SMTT(30) DEF InWindow
  <2>3. Learnt(n, m) = acked[n]
    BY <1>2, <1>3, <1>10 DEF Learnt
  <2>4. Acknowledge(session[n], m) = session[n]
    BY <2>2 DEF Acknowledge
  <2>5. session[n] = [session[n] EXCEPT !.rseqno = Wrap(acked[n])]
    BY <1>2, <1>4 DEF Session
  <2> QED
    BY <1>2, <1>3, <1>4, <1>8, <1>10, <2>2, <2>3, <2>4, <2>5
<1> QED
  BY <1>2, <1>3, <1>9, <1>10

(* The schedule after an implicit acknowledgement: exactly the frames below the
   new limit are done. *)
LEMMA Settles ==
  ASSUME TypeOK, Numbering, NothingForgotten, NEW n \in Nodes, NEW m \in net[n], Fresh(n, m)
  PROVE  Settle(schedq[n], session[n], m)
           = {IF f.n < Learnt(n, m) THEN [f EXCEPT !.retries = -1] ELSE f : f \in schedq[n]}
<1> DEFINE s == session[n]
           Done(f) == [f EXCEPT !.retries = -1]
<1>1. acked[n] \in Nat /\ sent[n] \in Nat /\ s \in Session /\ schedq[n] \subseteq Frame
  BY Counters
<1>2. m.a \in Nat
  BY Counters DEF Datagram
<1>3. /\ s.rseqno = Wrap(acked[n]) /\ sent[n] <= acked[n] + Window
      /\ m.iseqno = Wrap(m.a) /\ m.a <= sent[n]
  <2>1. m.a <= Len(got[Peer(n)]) /\ Len(got[Peer(n)]) <= sent[n] /\ Len(got[Peer(n)]) \in Nat
    BY Peers, Counters DEF Numbering, Counting, TrueDatagram
  <2> QED
    BY <1>1, <1>2, <2>1 DEF Numbering, Counting, TrueDatagram
<1>4. ASSUME NEW f \in schedq[n]
      PROVE  /\ f \in Frame /\ f.n \in Nat /\ f.oseqno = Wrap(f.n) /\ f.n < sent[n]
             /\ f.n < acked[n] => Done(f) = f
  <2>1. f \in Frame /\ f.n \in Nat
    BY <1>1 DEF Frame
  <2>2. f.oseqno = Wrap(f.n) /\ f.n < sent[n]
    BY DEF Numbering, TrueFrame
  <2>3. f.n < acked[n] => f.retries = -1
    BY DEF NothingForgotten
  <2>4. f.retries = -1 => Done(f) = f
    BY <2>1 DEF Frame
  <2> QED
    BY <2>1, <2>2, <2>3, <2>4
<1>5. CASE acked[n] <= m.a
  <2>1. InWindow(s, m.iseqno) /\ Learnt(n, m) = m.a
    BY <1>5, Absorb DEF Learnt
  <2>2. Minus(m.iseqno, s.rseqno) = m.a - acked[n]
    BY <1>1, <1>2, <1>3, <1>5, Distance, NumbersAssumption
  <2>3. ASSUME NEW f \in schedq[n]
        PROVE  (IF Covers(s, m.iseqno, f.oseqno) THEN Done(f) ELSE f)
                 = (IF f.n < m.a THEN Done(f) ELSE f)
    <3>1. CASE f.n < acked[n]
      BY <3>1, <1>4
    <3>2. CASE acked[n] <= f.n
      <4>1. Minus(f.oseqno, s.rseqno) = f.n - acked[n]
        BY <1>1, <1>3, <1>4, <3>2, Distance, NumbersAssumption
      <4>2. Covers(s, m.iseqno, f.oseqno) <=> f.n < m.a
        BY <1>1, <1>2, <1>4, <2>2, <4>1 DEF Covers
      <4> QED
        BY <4>2
    <3> QED
      BY <1>1, <1>4, <3>1, <3>2
  <2>4. Settle(schedq[n], s, m)
          = {IF Covers(s, m.iseqno, f.oseqno) THEN Done(f) ELSE f : f \in schedq[n]}
    BY <2>1 DEF Settle
  <2> HIDE DEF s, Done
  <2>5. Settle(schedq[n], s, m) = {IF f.n < m.a THEN Done(f) ELSE f : f \in schedq[n]}
    BY <2>3, <2>4
  <2> QED
    BY <2>1, <2>5 DEF s, Done
<1>6. CASE m.a < acked[n]
  <2>1. ~(acked[n] <= m.a)
    BY <1>1, <1>2, <1>6
  <2>2. ~InWindow(s, m.iseqno) /\ Learnt(n, m) = acked[n]
    BY <2>1, Absorb DEF Learnt
  <2>3. Settle(schedq[n], s, m) = schedq[n]
    BY <2>2 DEF Settle
  <2>4. \A f \in schedq[n] : (IF f.n < acked[n] THEN Done(f) ELSE f) = f
    BY <1>4
  <2> HIDE DEF s, Done
  <2>5. schedq[n] = {IF f.n < acked[n] THEN Done(f) ELSE f : f \in schedq[n]}
    BY <2>4
  <2> QED
    BY <2>2, <2>3, <2>5 DEF s, Done
<1> QED
  BY <1>1, <1>2, <1>5, <1>6

-----------------------------------------------------------------------------
(* One step of one end *)

(* what a step of n leaves as it is: the other end, and the datagrams on their
   way to n *)
Elsewhere(n) ==
  /\ load' = load
  /\ net'[n] = net[n]
  /\ LET p == Peer(n)
     IN /\ session'[p] = session[p] /\ schedq'[p] = schedq[p]
        /\ sent'[p] = sent[p] /\ got'[p] = got[p] /\ acked'[p] = acked[p]
        /\ timedOut'[p] = timedOut[p] /\ closed'[p] = closed[p]

(* n keeps its own account, and numbers what it schedules and sends with it *)
Account(n) ==
  /\ Counting(n)
  /\ \A f \in schedq[n] : TrueFrame(n, f)

(* the counters of n only grow, and n accepts only what was sent *)
Grows(n) ==
  /\ sent[n] <= sent'[n]
  /\ Len(got[n]) <= Len(got'[n]) /\ Len(got'[n]) <= sent[Peer(n)]

(* What was true of a frame or a datagram stays true, for the counters grow. *)
LEMMA StaysTrue ==
  ASSUME TypeOK, TypeOK', NEW n \in Nodes, Grows(n)
  PROVE  /\ \A f \in Frame : TrueFrame(n, f) => TrueFrame(n, f)'
         /\ \A m \in Datagram : TrueDatagram(Peer(n), m) => TrueDatagram(Peer(n), m)'
<1>1. Peer(n) \in Nodes /\ Peer(Peer(n)) = n
  BY Peers
<1>2. sent[n] \in Nat /\ sent'[n] \in Nat /\ Len(got[n]) \in Nat /\ Len(got'[n]) \in Nat
  <2>1. sent'[n] \in Nat /\ got'[n] \in Seq(Nat)
    BY DEF TypeOK
  <2>2. Len(got'[n]) \in Nat
    BY <2>1, LenProperties
  <2> QED
    BY <2>1, <2>2, Counters
<1>3. sent[n] <= sent'[n] /\ Len(got[n]) <= Len(got'[n])
  BY DEF Grows
<1>4. ASSUME NEW f \in Frame, TrueFrame(n, f)
      PROVE  TrueFrame(n, f)'
  BY <1>2, <1>3, <1>4 DEF TrueFrame, Frame
<1>5. ASSUME NEW m \in Datagram, TrueDatagram(Peer(n), m)
      PROVE  TrueDatagram(Peer(n), m)'
  <2>1. m.a \in Nat /\ (m.kind = "data" => m.n \in Nat)
    BY DEF Datagram
  <2> QED
    BY <1>1, <1>2, <1>3, <1>5, <2>1 DEF TrueDatagram
<1> QED
  BY <1>4, <1>5

(* A step of n that keeps the account of n and sends true datagrams keeps the
   whole numbering. *)
LEMMA NumberingStep ==
  ASSUME TypeOK, TypeOK', Numbering, NEW n \in Nodes, Elsewhere(n), Grows(n), Account(n)',
         \A m \in net'[Peer(n)] : m \in net[Peer(n)] \/ TrueDatagram(Peer(n), m)'
  PROVE  Numbering'
<1> DEFINE p == Peer(n)
<1>1. p \in Nodes /\ p # n /\ Peer(p) = n /\ \A k \in Nodes : k = n \/ k = p
  BY Peers
<1>2. /\ acked[p] \in Nat /\ sent[p] \in Nat /\ Len(got[n]) \in Nat /\ Len(got'[n]) \in Nat
      /\ net[p] \subseteq Datagram
  <2>1. got'[n] \in Seq(Nat)
    BY DEF TypeOK
  <2>2. Len(got'[n]) \in Nat
    BY <2>1, LenProperties
  <2> QED
    BY <1>1, <2>1, <2>2, Counters
<1>3. Counting(p)'
  <2>1. Counting(p)
    BY <1>1 DEF Numbering
  <2>2. acked[p] <= Len(got'[n]) /\ Len(got'[n]) <= sent[p]
    BY <1>1, <1>2, <2>1 DEF Counting, Grows
  <2> QED
    BY <1>1, <2>1, <2>2 DEF Counting, Elsewhere
<1>4. ASSUME NEW f \in schedq'[p]
      PROVE  TrueFrame(p, f)'
  <2>1. TrueFrame(p, f)
    BY <1>1 DEF Elsewhere, Numbering
  <2> QED
    BY <2>1 DEF TrueFrame, Elsewhere
<1>5. ASSUME NEW m \in net'[n]
      PROVE  TrueDatagram(n, m)'
  <2>1. TrueDatagram(n, m)
    BY DEF Elsewhere, Numbering
  <2> QED
    BY <2>1 DEF TrueDatagram, Elsewhere
<1>6. ASSUME NEW m \in net'[p]
      PROVE  TrueDatagram(p, m)'
  <2>1. CASE m \in net[p]
    BY <1>1, <1>2, <2>1, StaysTrue DEF Numbering
  <2> QED
    BY <2>1
<1>7. ASSUME NEW k \in Nodes
      PROVE  /\ Counting(k)'
             /\ \A f \in schedq'[k] : TrueFrame(k, f)'
             /\ \A m \in net'[k] : TrueDatagram(k, m)'
  BY <1>1, <1>3, <1>4, <1>5, <1>6 DEF Account
<1> QED
  BY <1>7 DEF Numbering

(* what NothingForgotten says of one end *)
Kept(n) ==
  /\ closed[n] \/ Remembered(n)
  /\ \A f \in schedq[n] : f.n < acked[n] => f.retries = -1

(* ... and a step of n can only disturb it for n. *)
LEMMA KeptStep ==
  ASSUME NothingForgotten, NEW n \in Nodes, Elsewhere(n), Kept(n)'
  PROVE  NothingForgotten'
<1> DEFINE p == Peer(n)
<1>1. p \in Nodes /\ p # n /\ \A k \in Nodes : k = n \/ k = p
  BY Peers
<1>2. Kept(p)
  BY <1>1 DEF NothingForgotten, Kept
<1>3. Kept(p)'
  BY <1>2 DEF Kept, Remembered, Elsewhere
<1>4. \A k \in Nodes : Kept(k)'
  BY <1>1, <1>3
<1> QED
  BY <1>4 DEF NothingForgotten, Kept

-----------------------------------------------------------------------------
(* Sending *)

(* The frame iax_send makes, the datagram it is sent as, and the datagram of an
   ACK or a VNAK carry what their types allow. *)
LEMMA Made ==
  ASSUME TypeOK, NEW n \in Nodes, NEW s \in Session, NEW a \in Nat
  PROVE  /\ NewFrame(n, s, a) \in Frame
         /\ NewFrame(n, s, a).oseqno = s.oseqno /\ NewFrame(n, s, a).iseqno = s.iseqno
         /\ NewFrame(n, s, a).n = sent[n] /\ NewFrame(n, s, a).a = a
         /\ NewFrame(n, s, a).retries = load.retries /\ load.retries \in Nat
         /\ \A kind \in {"ack", "vnak"} : Control(kind, s, a) \in Datagram
<1>1. load.retries \in Nat
  BY LoadsAssumption DEF TypeOK
<1>2. load.retries \in -1 .. load.retries
  BY <1>1
<1>3. sent[n] \in Nat
  BY Counters
<1>4. NewFrame(n, s, a) \in Frame
  BY <1>1, <1>2, <1>3 DEF NewFrame, Frame, Session
<1>5. \A kind \in {"ack", "vnak"} : Control(kind, s, a) \in Datagram
  BY DEF Control, Datagram, Session
<1> QED
  BY <1>1, <1>4, <1>5 DEF NewFrame

(* The datagram of a frame says what the frame says. *)
LEMMA SentAs ==
  ASSUME NEW f \in Frame
  PROVE  /\ Data(f) \in Datagram /\ Data(f).kind = "data"
         /\ Data(f).oseqno = f.oseqno /\ Data(f).iseqno = f.iseqno
         /\ Data(f).n = f.n /\ Data(f).a = f.a
BY DEF Data, Frame, Datagram

(* A datagram that a true frame of n is sent as is a true one for its peer. *)
LEMMA TrueAsSent ==
  ASSUME NEW n \in Nodes, NEW f \in Frame, TrueFrame(n, f)
  PROVE  TrueDatagram(Peer(n), Data(f))
BY SentAs, Peers DEF TrueFrame, TrueDatagram

(* The session after a frame with a number of its own is sent. *)
LEMMA NumberedType ==
  ASSUME NEW s \in Session, NEW x \in Nat, s.oseqno = Wrap(x)
  PROVE  /\ Numbered(s) \in Session
         /\ Numbered(s).oseqno = Wrap(x + 1)
         /\ Numbered(s).iseqno = s.iseqno /\ Numbered(s).rseqno = s.rseqno
<1>1. Succ(s.oseqno) = Wrap(x + 1) /\ Wrap(x + 1) \in Numbers
  BY WrapSucc, WrapType
<1> QED
  BY <1>1 DEF Numbered, Session

(* send_command: the new frame carries the next number and the window still
   holds. *)
LEMMA SendKeeps ==
  ASSUME IInv, NEW n \in Nodes, Send(n)
  PROVE  IInv'
<1> USE DEF IInv
<1> DEFINE p == Peer(n)
<1>1. p \in Nodes /\ p # n /\ Peer(p) = n /\ \A k \in Nodes : k = n \/ k = p
  BY Peers
<1>2. /\ sent[n] \in Nat /\ acked[n] \in Nat /\ Len(got[n]) \in Nat /\ session[n] \in Session
      /\ schedq[n] \subseteq Frame /\ net[p] \subseteq Datagram /\ Len(got[p]) \in Nat
  BY <1>1, Counters
<1>3. PICK f : f = NewFrame(n, session[n], Len(got[n]))
  OBVIOUS
<1>4. /\ f \in Frame /\ f.oseqno = session[n].oseqno /\ f.iseqno = session[n].iseqno
      /\ f.n = sent[n] /\ f.a = Len(got[n]) /\ f.retries = load.retries /\ load.retries \in Nat
      /\ Data(f) \in Datagram
  BY <1>2, <1>3, Made, SentAs
<1>5. /\ schedq' = [schedq EXCEPT ![n] = @ \cup {f}]
      /\ net' = [net EXCEPT ![p] = @ \cup {Data(f)}]
      /\ session' = [session EXCEPT ![n] = Numbered(@)]
      /\ sent' = [sent EXCEPT ![n] = @ + 1]
      /\ ~closed[n] /\ sent[n] < acked[n] + Window
      /\ UNCHANGED <<load, got, acked, timedOut, closed, missed>>
  BY <1>3 DEF Send, MaySend
<1>6. Counting(n) /\ Counting(p) /\ acked[n] <= sent[n]
  BY <1>1, <1>2 DEF Numbering, Counting
<1>7. /\ Numbered(session[n]) \in Session
      /\ Numbered(session[n]).oseqno = Wrap(sent[n] + 1)
      /\ Numbered(session[n]).iseqno = session[n].iseqno
      /\ Numbered(session[n]).rseqno = session[n].rseqno
  BY <1>2, <1>6, NumberedType DEF Counting
<1>8. TypeOK'
  BY <1>1, <1>2, <1>4, <1>5, <1>7 DEF TypeOK, Frame
<1>9. Elsewhere(n)
  BY <1>1, <1>5 DEF Elsewhere, TypeOK
<1>10. /\ session'[n] = Numbered(session[n]) /\ sent'[n] = sent[n] + 1
       /\ schedq'[n] = schedq[n] \cup {f} /\ net'[p] = net[p] \cup {Data(f)}
       /\ got' = got /\ acked' = acked /\ closed' = closed /\ timedOut' = timedOut
  BY <1>1, <1>5 DEF TypeOK
<1>11. Grows(n)
  BY <1>1, <1>2, <1>6, <1>10 DEF Grows, Counting
<1>12. Account(n)'
  <2>1. Counting(n)'
    BY <1>1, <1>2, <1>5, <1>6, <1>7, <1>10, NumbersAssumption DEF Counting
  <2>2. TrueFrame(n, f)'
    BY <1>2, <1>4, <1>6, <1>10 DEF TrueFrame, Counting
  <2>3. \A g \in schedq[n] : TrueFrame(n, g)'
    BY <1>2, <1>8, <1>11, StaysTrue DEF Numbering
  <2> QED
    BY <1>10, <2>1, <2>2, <2>3 DEF Account
<1>13. TrueDatagram(p, Data(f))'
  BY <1>1, <1>4, <1>12, <1>10, SentAs DEF TrueDatagram, Account, TrueFrame
<1>14. Numbering'
  BY <1>8, <1>9, <1>10, <1>11, <1>12, <1>13, NumberingStep
<1>15. NothingForgotten'
  <2>1. Kept(n)
    BY DEF NothingForgotten, Kept
  <2>2. \A k \in acked[n] .. (sent[n] + 1) - 1 : k \in acked[n] .. sent[n] - 1 \/ k = sent[n]
    BY <1>2
  <2>3. Remembered(n)'
    BY <1>2, <1>4, <1>5, <1>6, <1>10, <2>1, <2>2 DEF Kept, Remembered
  <2>4. \A g \in schedq[n] \cup {f} : g.n < acked[n] => g.retries = -1
    BY <1>2, <1>4, <1>6, <2>1 DEF Kept
  <2>5. Kept(n)'
    BY <1>10, <2>3, <2>4 DEF Kept
  <2> QED
    BY <1>9, <2>5, KeptStep
<1> QED
  BY <1>8, <1>14, <1>15

(* A frame that is marked, or whose retries are counted, says what it said. *)
LEMMA Remarked ==
  ASSUME TypeOK, NEW f \in Frame, NEW r \in -1 .. load.retries
  PROVE  LET g == [f EXCEPT !.retries = r]
         IN  /\ g \in Frame /\ g.retries = r /\ g.n = f.n
             /\ \A n \in Nodes : TrueFrame(n, f) => TrueFrame(n, g)
             /\ \A n \in Nodes : TrueFrame(n, f)' => TrueFrame(n, g)'
BY DEF Frame, TrueFrame

(* -1 is a number of retries. *)
LEMMA DoneRetries ==
  ASSUME TypeOK
  PROVE  load.retries \in Nat /\ -1 \in -1 .. load.retries
<1>1. load.retries \in Nat
  BY LoadsAssumption DEF TypeOK
<1> QED
  BY <1>1

(* send_command_final: every frame of the session is done, which is all that is
   asked of a session that is gone. *)
LEMMA HangUpKeeps ==
  ASSUME IInv, NEW n \in Nodes, HangUp(n)
  PROVE  IInv'
<1> USE DEF IInv
<1> DEFINE p == Peer(n)
           Done(g) == [g EXCEPT !.retries = -1]
<1>1. p \in Nodes /\ p # n /\ Peer(p) = n /\ \A k \in Nodes : k = n \/ k = p
  BY Peers
<1>2. /\ sent[n] \in Nat /\ acked[n] \in Nat /\ Len(got[n]) \in Nat /\ session[n] \in Session
      /\ schedq[n] \subseteq Frame /\ net[p] \subseteq Datagram /\ Len(got[p]) \in Nat
  BY <1>1, Counters
<1>3. PICK f : f = NewFrame(n, session[n], Len(got[n]))
  OBVIOUS
<1>4. /\ f \in Frame /\ f.oseqno = session[n].oseqno /\ f.iseqno = session[n].iseqno
      /\ f.n = sent[n] /\ f.a = Len(got[n]) /\ Data(f) \in Datagram
  BY <1>2, <1>3, Made, SentAs
<1>5. /\ schedq' = [schedq EXCEPT ![n] = {Done(g) : g \in @ \cup {f}}]
      /\ net' = [net EXCEPT ![p] = @ \cup {Data(f)}]
      /\ session' = [session EXCEPT ![n] = Numbered(@)]
      /\ sent' = [sent EXCEPT ![n] = @ + 1]
      /\ closed' = [closed EXCEPT ![n] = TRUE]
      /\ sent[n] < acked[n] + Window
      /\ UNCHANGED <<load, got, acked, timedOut, missed>>
  BY <1>3 DEF HangUp, MaySend
<1>6. Counting(n) /\ Counting(p)
  BY <1>1 DEF Numbering
<1>7. /\ Numbered(session[n]) \in Session
      /\ Numbered(session[n]).oseqno = Wrap(sent[n] + 1)
      /\ Numbered(session[n]).iseqno = session[n].iseqno
      /\ Numbered(session[n]).rseqno = session[n].rseqno
  BY <1>2, <1>6, NumberedType DEF Counting
<1>8. \A g \in schedq[n] \cup {f} : g \in Frame /\ Done(g) \in Frame /\ Done(g).retries = -1
  BY <1>2, <1>4, Remarked, DoneRetries
<1> HIDE DEF Done
<1>9. {Done(g) : g \in schedq[n] \cup {f}} \subseteq Frame
  BY <1>8
<1>10. Frame' = Frame
  BY <1>5 DEF Frame
<1>11. TypeOK'
  BY <1>1, <1>2, <1>4, <1>5, <1>7, <1>9, <1>10 DEF TypeOK
<1>12. Elsewhere(n)
  BY <1>1, <1>5 DEF Elsewhere, TypeOK
<1>13. /\ session'[n] = Numbered(session[n]) /\ sent'[n] = sent[n] + 1 /\ closed'[n] = TRUE
       /\ schedq'[n] = {Done(g) : g \in schedq[n] \cup {f}} /\ net'[p] = net[p] \cup {Data(f)}
       /\ got' = got /\ acked' = acked
  BY <1>1, <1>5 DEF TypeOK
<1>14. Grows(n)
  BY <1>1, <1>2, <1>6, <1>13 DEF Grows, Counting
<1>15. TrueFrame(n, f)'
  BY <1>2, <1>4, <1>6, <1>13 DEF TrueFrame, Counting
<1>16. Account(n)'
  <2>1. Counting(n)'
    BY <1>1, <1>2, <1>5, <1>6, <1>7, <1>13, NumbersAssumption DEF Counting
  <2>2. \A g \in schedq[n] \cup {f} : g \in Frame /\ TrueFrame(n, g)'
    BY <1>2, <1>4, <1>11, <1>14, <1>15, StaysTrue DEF Numbering
  <2>3. \A g \in schedq[n] \cup {f} : TrueFrame(n, Done(g))'
    BY <2>2, Remarked, DoneRetries DEF Done
  <2> QED
    BY <1>13, <2>1, <2>3 DEF Account
<1>17. TrueDatagram(p, Data(f))'
  BY <1>1, <1>4, <1>15, <1>13, SentAs DEF TrueDatagram, TrueFrame
<1>18. Numbering'
  BY <1>11, <1>12, <1>13, <1>14, <1>16, <1>17, NumberingStep
<1>19. NothingForgotten'
  <2>1. Kept(n)'
    BY <1>8, <1>13 DEF Kept
  <2> QED
    BY <1>12, <2>1, KeptStep
<1> QED
  BY <1>11, <1>18, <1>19

(* The timer of a frame: one that is done was acknowledged, one whose retries
   are used up is a timeout, and any other is still there afterwards. *)
LEMMA TimerKeeps ==
  ASSUME IInv, NEW n \in Nodes, NEW f \in schedq[n], Retry(n, f)
  PROVE  IInv'
<1> USE DEF IInv
<1> DEFINE p == Peer(n)
<1>1. p \in Nodes /\ p # n /\ Peer(p) = n /\ \A k \in Nodes : k = n \/ k = p
  BY Peers
<1>2. /\ sent[n] \in Nat /\ acked[n] \in Nat /\ Len(got[n]) \in Nat /\ session[n] \in Session
      /\ schedq[n] \subseteq Frame /\ net[p] \subseteq Datagram /\ Len(got[p]) \in Nat
  BY <1>1, Counters
<1>3. /\ f \in Frame /\ f.retries \in Int /\ f.retries <= load.retries /\ Data(f) \in Datagram
      /\ load.retries \in Nat /\ f.n \in Nat
  BY <1>2, SentAs, DoneRetries DEF Frame
<1>4. PICK g : g = [f EXCEPT !.retries = @ - 1]
  OBVIOUS
<1>5. f.retries > 0 => /\ g \in Frame /\ g.retries >= 0 /\ g.n = f.n
                       /\ TrueFrame(n, f) => TrueFrame(n, g)
  BY <1>3, <1>4, Remarked
<1>6. /\ UNCHANGED <<load, session, sent, got, acked, closed, missed>>
      /\ schedq' = [schedq EXCEPT ![n] = schedq'[n]]
      /\ net' = [net EXCEPT ![p] = net'[p]]
      /\ timedOut' = [timedOut EXCEPT ![n] = timedOut'[n]]
      /\ \/ /\ f.retries = -1 /\ schedq'[n] = schedq[n] \ {f}
            /\ net'[p] = net[p] /\ timedOut'[n] = timedOut[n]
         \/ /\ f.retries = 0 /\ schedq'[n] = schedq[n] \ {f}
            /\ net'[p] = net[p] /\ timedOut'[n] = TRUE
         \/ /\ f.retries > 0 /\ schedq'[n] = (schedq[n] \ {f}) \cup {g}
            /\ net'[p] = net[p] \cup {Data(f)} /\ timedOut'[n] = timedOut[n]
  BY <1>1, <1>4 DEF Retry, TypeOK
<1>7. TypeOK'
  <2>1. Frame' = Frame
    BY <1>6 DEF Frame
  <2>2. schedq'[n] \subseteq Frame /\ net'[p] \subseteq Datagram /\ timedOut'[n] \in BOOLEAN
    BY <1>2, <1>3, <1>5, <1>6 DEF TypeOK
  <2> HIDE DEF IInv
  <2>3. TypeOK
    BY DEF IInv
  <2> QED
    BY <1>1, <1>6, <2>1, <2>2, <2>3 DEF TypeOK
<1>8. Elsewhere(n)
  BY <1>1, <1>6 DEF Elsewhere, TypeOK
<1>9. Counting(n) /\ Counting(p) /\ TrueFrame(n, f)
  BY <1>1 DEF Numbering
<1>10. Grows(n)
  BY <1>1, <1>2, <1>6, <1>9 DEF Grows, Counting
<1>11. \A h \in Frame : TrueFrame(n, h) => TrueFrame(n, h)'
  BY <1>7, <1>10, StaysTrue
<1>12. Account(n)'
  <2>1. Counting(n)'
    BY <1>6, <1>9 DEF Counting
  <2>2. \A h \in schedq'[n] : h \in Frame /\ TrueFrame(n, h)
    BY <1>2, <1>5, <1>6, <1>9 DEF Numbering
  <2> QED
    BY <1>11, <2>1, <2>2 DEF Account
<1>13. TrueDatagram(p, Data(f))'
  <2>1. TrueDatagram(p, Data(f))
    BY <1>3, <1>9, TrueAsSent
  <2> QED
    BY <1>3, <1>7, <1>10, <2>1, StaysTrue
<1>14. Numbering'
  BY <1>6, <1>7, <1>8, <1>10, <1>12, <1>13, NumberingStep
<1>15. NothingForgotten'
  <2>1. Kept(n)
    BY DEF NothingForgotten, Kept
  <2>2. ASSUME Remembered(n)
        PROVE  Remembered(n)'
    <3>1. \A h \in schedq'[n] : h.retries = -1 => h.n < acked[n]
      BY <1>5, <1>6, <2>2 DEF Remembered
    <3>2. ASSUME NEW k \in acked[n] .. sent[n] - 1, ~timedOut'[n]
          PROVE  \E h \in schedq'[n] : h.n = k /\ h.retries >= 0
      <4>1. PICK h \in schedq[n] : h.n = k /\ h.retries >= 0
        BY <1>6, <2>2, <3>2 DEF Remembered
      <4>2. CASE h # f
        BY <1>6, <4>1, <4>2
      <4>3. CASE h = f
        BY <1>3, <1>5, <1>6, <3>2, <4>1, <4>3
      <4> QED
        BY <4>2, <4>3
    <3> QED
      BY <1>6, <3>1, <3>2 DEF Remembered
  <2>3. \A h \in schedq'[n] : h.n < acked[n] => h.retries = -1
    BY <1>3, <1>5, <1>6, <2>1 DEF Kept
  <2>4. Kept(n)'
    BY <1>6, <2>1, <2>2, <2>3 DEF Kept
  <2> QED
    BY <1>8, <2>4, KeptStep
<1> QED
  BY <1>7, <1>14, <1>15

-----------------------------------------------------------------------------
(* Receiving *)

(* the schedule after the implicit acknowledgement in m *)
Rest(n, m) == Settle(schedq[n], session[n], m)

(* What the implicit acknowledgement leaves in the schedule: true frames, the
   arrived ones done and the others as they were. *)
LEMMA RestKept ==
  ASSUME IInv, NEW n \in Nodes, NEW m \in net[n], Fresh(n, m), ~closed[n]
  PROVE  /\ Rest(n, m) \subseteq Frame
         /\ \A f \in Rest(n, m) : /\ TrueFrame(n, f)
                                  /\ f.retries = -1 <=> f.n < Learnt(n, m)
         /\ \A k \in Learnt(n, m) .. sent[n] - 1 :
              timedOut[n] \/ \E f \in Rest(n, m) : f.n = k /\ f.retries >= 0
<1> USE DEF IInv
<1> DEFINE b == Learnt(n, m)
           Mark(f) == IF f.n < b THEN [f EXCEPT !.retries = -1] ELSE f
<1>1. Rest(n, m) = {Mark(f) : f \in schedq[n]}
  BY Settles DEF Rest
<1>2. acked[n] \in Nat /\ sent[n] \in Nat /\ schedq[n] \subseteq Frame
  BY Counters
<1>3. b \in Nat /\ acked[n] <= b
  BY <1>2, Counters DEF Learnt, Datagram
<1>4. Remembered(n)
  BY DEF NothingForgotten
<1>5. ASSUME NEW f \in schedq[n]
      PROVE  /\ Mark(f) \in Frame /\ TrueFrame(n, Mark(f)) /\ Mark(f).n = f.n
             /\ Mark(f).retries = -1 <=> f.n < b
             /\ b <= f.n => Mark(f) = f
  <2>1. f \in Frame /\ f.n \in Nat /\ TrueFrame(n, f) /\ f.retries \in Int
    BY <1>2, DoneRetries DEF Numbering, Frame
  <2>2. f.retries = -1 => f.n < b
    BY <1>2, <1>3, <1>4, <2>1 DEF Remembered
  <2>3. CASE f.n < b
    <3>1. Mark(f) = [f EXCEPT !.retries = -1]
      BY <2>3
    <3>2. ~(b <= f.n)
      BY <1>3, <2>1, <2>3
    <3> QED
      BY <2>1, <2>3, <3>1, <3>2, Remarked, DoneRetries
  <2>4. CASE ~(f.n < b)
    <3>1. Mark(f) = f
      BY <2>4
    <3> QED
      BY <2>1, <2>2, <2>4, <3>1
  <2> QED
    BY <2>3, <2>4
<1> HIDE DEF Mark, b
<1>6. ASSUME NEW k \in b .. sent[n] - 1, ~timedOut[n]
      PROVE  \E f \in Rest(n, m) : f.n = k /\ f.retries >= 0
  <2>1. k \in acked[n] .. sent[n] - 1 /\ b <= k
    BY <1>2, <1>3
  <2>2. PICK f \in schedq[n] : f.n = k /\ f.retries >= 0
    BY <1>4, <1>6, <2>1 DEF Remembered
  <2>3. Mark(f) = f
    BY <1>5, <2>1, <2>2
  <2> QED
    BY <1>1, <2>2, <2>3
<1>7. \A f \in Rest(n, m) : f \in Frame /\ TrueFrame(n, f) /\ (f.retries = -1 <=> f.n < b)
  BY <1>1, <1>5
<1> QED
  BY <1>6, <1>7 DEF b

(* The session after the implicit acknowledgement in m. *)
LEMMA AbsorbedSession ==
  ASSUME IInv, NEW n \in Nodes, NEW m \in net[n], Fresh(n, m), NEW s,
         s = Acknowledge(session[n], m)
  PROVE  /\ s \in Session /\ s.rseqno = Wrap(Learnt(n, m))
         /\ s.oseqno = Wrap(sent[n]) /\ s.iseqno = Wrap(Len(got[n]))
<1>1. TypeOK /\ Numbering
  BY DEF IInv
<1>2. s = [session[n] EXCEPT !.rseqno = Wrap(Learnt(n, m))]
  BY <1>1, Absorb
<1>3. Learnt(n, m) \in Nat
  BY <1>1, Counters DEF Learnt, Datagram
<1>4. Wrap(Learnt(n, m)) \in Numbers
  BY <1>3, WrapType
<1>5. session[n] \in Session /\ Counting(n)
  BY <1>1, Counters DEF Numbering
<1> QED
  BY <1>2, <1>4, <1>5 DEF Session, Counting

(* what is common to the handlers: n has read m, the account of n is right for
   what it has sent and accepted by now, a new frame is there to be sent again
   and what it sends is true *)
Read(n, m) ==
  /\ load' = load
  /\ acked' = [acked EXCEPT ![n] = Learnt(n, m)]
  /\ timedOut' = timedOut /\ closed' = closed /\ missed' \in [Nodes -> BOOLEAN]
  /\ \E s \in Session :
       /\ session' = [session EXCEPT ![n] = s]
       /\ s.rseqno = Wrap(Learnt(n, m))
       /\ s.oseqno = Wrap(sent'[n]) /\ s.iseqno = Wrap(Len(got'[n]))
  /\ \/ sent' = sent /\ schedq' = [schedq EXCEPT ![n] = Rest(n, m)]
     \/ /\ sent' = [sent EXCEPT ![n] = @ + 1] /\ sent[n] < acked[n] + Window
        /\ \E f \in Frame : /\ schedq' = [schedq EXCEPT ![n] = Rest(n, m) \cup {f}]
                            /\ TrueFrame(n, f)' /\ f.n = sent[n] /\ f.retries >= 0
  /\ \/ got' = got
     \/ /\ got' = [got EXCEPT ![n] = Append(@, Len(@))]
        /\ Len(got[n]) < sent[Peer(n)]
  /\ \E D \in SUBSET Datagram :
       /\ net' = [net EXCEPT ![Peer(n)] = @ \cup D]
       /\ \A d \in D : TrueDatagram(Peer(n), d)'

(* Reading a datagram keeps the invariant. *)
LEMMA ReadKeeps ==
  ASSUME IInv, NEW n \in Nodes, NEW m \in net[n], Fresh(n, m), ~closed[n], Read(n, m)
  PROVE  IInv'
<1> USE DEF IInv
<1> DEFINE p == Peer(n)
           b == Learnt(n, m)
<1>1. p \in Nodes /\ p # n /\ Peer(p) = n /\ \A k \in Nodes : k = n \/ k = p
  BY Peers
<1>2. /\ sent[n] \in Nat /\ acked[n] \in Nat /\ got[n] \in Seq(Nat) /\ Len(got[n]) \in Nat
      /\ net[p] \subseteq Datagram /\ Len(got[p]) \in Nat
  BY <1>1, Counters
<1>3. b \in Nat /\ acked[n] <= b /\ b <= Len(got[p])
  <2>1. Learnt(n, m) \in acked[n] .. Len(got[Peer(n)])
    BY Absorb
  <2> QED
    BY <1>2, <2>1
<1>4. Counting(n) /\ Counting(p)
  BY <1>1 DEF Numbering
<1>5. PICK s \in Session : /\ session' = [session EXCEPT ![n] = s] /\ s.rseqno = Wrap(b)
                           /\ s.oseqno = Wrap(sent'[n]) /\ s.iseqno = Wrap(Len(got'[n]))
  BY DEF Read
<1>6. PICK D \in SUBSET Datagram : /\ net' = [net EXCEPT ![p] = @ \cup D]
                                   /\ \A d \in D : TrueDatagram(p, d)'
  BY DEF Read
<1>7. /\ load' = load /\ acked' = [acked EXCEPT ![n] = b]
      /\ timedOut' = timedOut /\ closed' = closed /\ missed' \in [Nodes -> BOOLEAN]
  BY DEF Read
<1>8. /\ got' = [got EXCEPT ![n] = got'[n]] /\ got'[n] \in Seq(Nat) /\ Len(got'[n]) \in Nat
      /\ Len(got[n]) <= Len(got'[n]) /\ Len(got'[n]) <= sent[p]
  <2>1. CASE got' = got
    BY <1>1, <1>2, <1>4, <2>1 DEF TypeOK, Counting
  <2>2. CASE /\ got' = [got EXCEPT ![n] = Append(@, Len(@))]
             /\ Len(got[n]) < sent[Peer(n)]
    <3>1. got' = [got EXCEPT ![n] = Append(@, Len(@))]
      BY <2>2
    <3>2. got'[n] = Append(got[n], Len(got[n]))
      BY <3>1 DEF TypeOK
    <3>3. Len(got'[n]) = Len(got[n]) + 1 /\ got'[n] \in Seq(Nat)
      BY <1>2, <3>2, AppendProperties
    <3>4. sent[p] \in Nat
      BY <1>1, Counters
    <3>5. got' = [got EXCEPT ![n] = got'[n]]
      BY <3>1, <3>2
    <3> QED
      BY <1>2, <2>2, <3>3, <3>4, <3>5
  <2> QED
    BY <2>1, <2>2 DEF Read
<1>9. Rest(n, m) \subseteq Frame /\ \A f \in Rest(n, m) : TrueFrame(n, f)
  BY RestKept
<1>10. PICK F \in SUBSET Frame :
         /\ schedq' = [schedq EXCEPT ![n] = Rest(n, m) \cup F]
         /\ \A f \in F : TrueFrame(n, f)' /\ f.n = sent[n] /\ f.retries >= 0
         /\ \/ sent' = sent
            \/ sent' = [sent EXCEPT ![n] = @ + 1] /\ F # {} /\ sent[n] < acked[n] + Window
  <2>1. CASE sent' = sent /\ schedq' = [schedq EXCEPT ![n] = Rest(n, m)]
    <3>1. Rest(n, m) = Rest(n, m) \cup {} /\ {} \in SUBSET Frame
      OBVIOUS
    <3>2. schedq' = [schedq EXCEPT ![n] = Rest(n, m) \cup {}]
      BY <2>1, <3>1
    <3> QED
      BY <2>1, <3>1, <3>2
  <2>2. CASE /\ sent' = [sent EXCEPT ![n] = @ + 1] /\ sent[n] < acked[n] + Window
             /\ \E f \in Frame : /\ schedq' = [schedq EXCEPT ![n] = Rest(n, m) \cup {f}]
                                 /\ TrueFrame(n, f)' /\ f.n = sent[n] /\ f.retries >= 0
    <3>1. PICK f \in Frame : /\ schedq' = [schedq EXCEPT ![n] = Rest(n, m) \cup {f}]
                             /\ TrueFrame(n, f)' /\ f.n = sent[n] /\ f.retries >= 0
      BY <2>2
    <3>2. {f} \in SUBSET Frame /\ {f} # {} /\ \A g \in {f} : g = f
      OBVIOUS
    <3> QED
      BY <2>2, <3>1, <3>2
  <2> QED
    BY <2>1, <2>2 DEF Read
<1>11. /\ sent' = [sent EXCEPT ![n] = sent'[n]] /\ sent'[n] \in Nat
       /\ sent[n] <= sent'[n] /\ sent'[n] <= b + Window
       /\ sent'[n] = sent[n] \/ (sent'[n] = sent[n] + 1 /\ F # {})
  <2>1. sent[n] <= acked[n] + Window
    BY <1>4 DEF Counting
  <2>2. CASE sent' = sent
    BY <1>2, <1>3, <2>1, <2>2, NumbersAssumption DEF TypeOK
  <2>3. CASE sent' = [sent EXCEPT ![n] = @ + 1] /\ F # {} /\ sent[n] < acked[n] + Window
    <3>1. sent'[n] = sent[n] + 1
      BY <2>3 DEF TypeOK
    <3>2. sent' = [sent EXCEPT ![n] = sent'[n]]
      BY <2>3, <3>1
    <3> QED
      BY <1>2, <1>3, <2>3, <3>1, <3>2, NumbersAssumption, SMTT(30)
  <2> QED
    BY <1>10, <2>2, <2>3
<1>12. Frame' = Frame
  BY <1>7 DEF Frame
<1>13. TypeOK'
  BY <1>1, <1>2, <1>3, <1>5, <1>6, <1>7, <1>8, <1>9, <1>10, <1>11, <1>12 DEF TypeOK
<1>14. Elsewhere(n)
  BY <1>1, <1>5, <1>6, <1>7, <1>8, <1>10, <1>11 DEF Elsewhere, TypeOK
<1>15. Grows(n)
  BY <1>8, <1>11 DEF Grows
<1>16. /\ session'[n] = s /\ acked'[n] = b /\ schedq'[n] = Rest(n, m) \cup F
       /\ net'[p] = net[p] \cup D /\ got'[p] = got[p]
  BY <1>1, <1>5, <1>6, <1>7, <1>8, <1>10 DEF TypeOK
<1>17. Account(n)'
  <2>1. Counting(n)'
    BY <1>1, <1>2, <1>3, <1>4, <1>5, <1>11, <1>16 DEF Counting
  <2>2. \A f \in Rest(n, m) : TrueFrame(n, f)'
    BY <1>9, <1>13, <1>15, StaysTrue
  <2> QED
    BY <1>10, <1>16, <2>1, <2>2 DEF Account
<1>18. Numbering'
  BY <1>6, <1>13, <1>14, <1>15, <1>16, <1>17, NumberingStep
<1>19. NothingForgotten'
  <2>1. \A f \in Rest(n, m) : f.retries = -1 <=> f.n < b
    BY RestKept
  <2>2. \A f \in F : f.n >= b /\ f.retries # -1
    BY <1>2, <1>3, <1>4, <1>10 DEF Counting
  <2>3. \A f \in schedq'[n] : f.retries = -1 <=> f.n < b
    BY <1>2, <1>3, <1>16, <2>1, <2>2, <1>10
  <2>4. ASSUME NEW k \in b .. sent'[n] - 1, ~timedOut'[n]
        PROVE  \E f \in schedq'[n] : f.n = k /\ f.retries >= 0
    <3>1. CASE k <= sent[n] - 1
      <4>1. k \in b .. sent[n] - 1
        BY <1>2, <1>3, <1>11, <3>1
      <4>2. PICK f \in Rest(n, m) : f.n = k /\ f.retries >= 0
        BY <1>7, <2>4, <4>1, RestKept
      <4> QED
        BY <1>16, <4>2
    <3>2. CASE ~(k <= sent[n] - 1)
      <4>1. k = sent[n] /\ F # {}
        BY <1>2, <1>3, <1>11, <3>2
      <4> QED
        BY <1>10, <1>16, <4>1
    <3> QED
      BY <3>1, <3>2
  <2>5. Kept(n)'
    BY <1>16, <2>3, <2>4 DEF Kept, Remembered
  <2> QED
    BY <1>14, <2>5, KeptStep
<1> QED
  BY <1>13, <1>18, <1>19

-----------------------------------------------------------------------------
(* The handlers *)

(* The session after an answer, or after a VNAK. *)
LEMMA AnsweredType ==
  ASSUME NEW s \in Session
  PROVE  \A t \in {Answered(s), [Answered(s) EXCEPT !.lastvnak = s.iseqno]} :
           /\ t \in Session
           /\ t.oseqno = s.oseqno /\ t.iseqno = s.iseqno /\ t.rseqno = s.rseqno
BY DEF Answered, Session

(* An ACK or VNAK of n says how many frames n has accepted. *)
LEMMA TrueControl ==
  ASSUME TypeOK, NEW n \in Nodes, NEW s \in Session, NEW a \in Nat, NEW kind \in {"ack", "vnak"},
         s.iseqno = Wrap(a), a <= Len(got'[n])
  PROVE  /\ Control(kind, s, a) \in Datagram
         /\ TrueDatagram(Peer(n), Control(kind, s, a))'
<1>1. Control(kind, s, a) \in Datagram
  BY Made
<1>2. /\ Control(kind, s, a).iseqno = s.iseqno /\ Control(kind, s, a).a = a
      /\ Control(kind, s, a).kind # "data"
  BY DEF Control
<1> QED
  BY <1>1, <1>2, Peers DEF TrueDatagram

(* A handler that neither accepts nor sends a frame: it reads the
   acknowledgement, and what it sends besides is true. *)
LEMMA Listens ==
  ASSUME IInv, NEW n \in Nodes, NEW m \in net[n], Fresh(n, m), Implicit(n, m),
         load' = load, timedOut' = timedOut, closed' = closed, missed' \in [Nodes -> BOOLEAN],
         schedq' = [schedq EXCEPT ![n] = Settle(@, session[n], m)],
         sent' = sent, got' = got,
         NEW s \in Session, session' = [session EXCEPT ![n] = s],
         s.rseqno = Wrap(Learnt(n, m)),
         s.oseqno = Wrap(sent[n]), s.iseqno = Wrap(Len(got[n])),
         NEW D \in SUBSET Datagram, net' = [net EXCEPT ![Peer(n)] = @ \cup D],
         \A d \in D : TrueDatagram(Peer(n), d)'
  PROVE  Read(n, m)
<1>1. acked' = [acked EXCEPT ![n] = Learnt(n, m)]
  BY Absorb DEF IInv, Implicit
<1>2. schedq' = [schedq EXCEPT ![n] = Rest(n, m)]
  BY DEF Rest
<1> QED
  BY <1>1, <1>2 DEF Read

(* An ACK is read, and answered only if a frame is still unacknowledged. *)
LEMMA AckReads ==
  ASSUME IInv, NEW n \in Nodes, NEW m \in net[n], Fresh(n, m), Implicit(n, m),
         UNCHANGED load, ReceiveAck(n, m)
  PROVE  Read(n, m)
<1> DEFINE p == Peer(n)
<1>1. TypeOK /\ missed \in [Nodes -> BOOLEAN]
  BY DEF IInv, TypeOK
<1>2. PICK s : s = Acknowledge(session[n], m)
  OBVIOUS
<1>3. PICK a \in Nat : a = Len(got[n])
  BY <1>1, Counters
<1>4. /\ s \in Session /\ s.rseqno = Wrap(Learnt(n, m))
      /\ s.oseqno = Wrap(sent[n]) /\ s.iseqno = Wrap(a)
  BY <1>2, <1>3, AbsorbedSession
<1>5. /\ schedq' = [schedq EXCEPT ![n] = Settle(@, session[n], m)]
      /\ sent' = sent /\ got' = got
      /\ timedOut' = timedOut /\ closed' = closed /\ missed' = missed
  BY DEF ReceiveAck
<1>6. CASE s.aseqno # s.iseqno
  <2>1. PICK t \in Session : t = Answered(s)
    BY <1>4, AnsweredType
  <2>2. PICK c \in Datagram : c = Control("ack", s, a) /\ TrueDatagram(p, c)'
    BY <1>1, <1>3, <1>4, <1>5, TrueControl
  <2>3. /\ session' = [session EXCEPT ![n] = t]
        /\ net' = [net EXCEPT ![p] = @ \cup {c}]
    BY <1>2, <1>3, <1>6, <2>1, <2>2 DEF ReceiveAck
  <2>4. t.oseqno = s.oseqno /\ t.iseqno = s.iseqno /\ t.rseqno = s.rseqno
    BY <1>4, <2>1, AnsweredType
  <2>5. {c} \in SUBSET Datagram /\ \A d \in {c} : TrueDatagram(p, d)'
    BY <2>2
  <2> QED
    BY <1>1, <1>3, <1>4, <1>5, <2>3, <2>4, <2>5, Listens
<1>7. CASE s.aseqno = s.iseqno
  <2>1. session' = [session EXCEPT ![n] = s] /\ net' = net
    BY <1>2, <1>7 DEF ReceiveAck
  <2>2. net' = [net EXCEPT ![p] = @ \cup {}]
    BY <1>1, <2>1 DEF TypeOK
  <2>3. {} \in SUBSET Datagram /\ \A d \in {} : TrueDatagram(p, d)'
    OBVIOUS
  <2> QED
    BY <1>1, <1>3, <1>4, <1>5, <2>1, <2>2, <2>3, Listens
<1> QED
  BY <1>6, <1>7

(* A VNAK is read: the frames it makes n send again say what they said. *)
LEMMA VnakReads ==
  ASSUME IInv, NEW n \in Nodes, NEW m \in net[n], Fresh(n, m), Implicit(n, m),
         UNCHANGED load, ReceiveVnak(n, m)
  PROVE  Read(n, m)
<1> DEFINE p == Peer(n)
<1>1. TypeOK /\ Numbering /\ missed \in [Nodes -> BOOLEAN]
  BY DEF IInv, TypeOK
<1>2. PICK s : s = Acknowledge(session[n], m)
  OBVIOUS
<1>3. PICK a \in Nat : a = Len(got[n])
  BY <1>1, Counters
<1>4. /\ s \in Session /\ s.rseqno = Wrap(Learnt(n, m))
      /\ s.oseqno = Wrap(sent[n]) /\ s.iseqno = Wrap(a)
  BY <1>2, <1>3, AbsorbedSession
<1>5. /\ schedq' = [schedq EXCEPT ![n] = Settle(@, session[n], m)]
      /\ sent' = sent /\ got' = got
      /\ timedOut' = timedOut /\ closed' = closed /\ missed' = missed
  BY DEF ReceiveVnak
<1>6. PICK R : R = Resent(schedq[n], s, m)
  OBVIOUS
<1>7. R \in SUBSET Datagram /\ \A d \in R : TrueDatagram(p, d)'
  <2>1. ASSUME NEW f \in schedq[n]
        PROVE  Data(f) \in Datagram /\ TrueDatagram(p, Data(f))
    BY <1>1, Counters, TrueAsSent, SentAs DEF Numbering
  <2>2. \A d \in R : d \in Datagram /\ TrueDatagram(p, d)
    BY <1>6, <2>1 DEF Resent
  <2> QED
    BY <1>5, <2>2 DEF TrueDatagram
<1>8. CASE s.aseqno # s.iseqno
  <2>1. PICK t \in Session : t = Answered(s)
    BY <1>4, AnsweredType
  <2>2. PICK c \in Datagram : c = Control("ack", s, a) /\ TrueDatagram(p, c)'
    BY <1>1, <1>3, <1>4, <1>5, TrueControl
  <2>3. /\ session' = [session EXCEPT ![n] = t]
        /\ net' = [net EXCEPT ![p] = @ \cup R \cup {c}]
    BY <1>2, <1>3, <1>6, <1>8, <2>1, <2>2 DEF ReceiveVnak
  <2>4. t.oseqno = s.oseqno /\ t.iseqno = s.iseqno /\ t.rseqno = s.rseqno
    BY <1>4, <2>1, AnsweredType
  <2>5. R \cup {c} \in SUBSET Datagram /\ \A d \in R \cup {c} : TrueDatagram(p, d)'
    BY <1>7, <2>2
  <2>6. net' = [net EXCEPT ![p] = @ \cup (R \cup {c})]
    BY <2>3
  <2> QED
    BY <1>1, <1>3, <1>4, <1>5, <2>3, <2>4, <2>5, <2>6, Listens
<1>9. CASE s.aseqno = s.iseqno
  <2>1. session' = [session EXCEPT ![n] = s] /\ net' = [net EXCEPT ![p] = @ \cup R]
    BY <1>2, <1>6, <1>9 DEF ReceiveVnak
  <2> QED
    BY <1>1, <1>3, <1>4, <1>5, <1>7, <2>1, Listens
<1> QED
  BY <1>8, <1>9

(* A frame seen before is read and acknowledged once more. *)
LEMMA OldReads ==
  ASSUME IInv, NEW n \in Nodes, NEW m \in net[n], Fresh(n, m), Implicit(n, m),
         UNCHANGED load, Old(n, m)
  PROVE  Read(n, m)
<1> DEFINE p == Peer(n)
<1>1. TypeOK /\ missed \in [Nodes -> BOOLEAN]
  BY DEF IInv, TypeOK
<1>2. PICK s : s = Acknowledge(session[n], m)
  OBVIOUS
<1>3. PICK a \in Nat : a = Len(got[n])
  BY <1>1, Counters
<1>4. /\ s \in Session /\ s.rseqno = Wrap(Learnt(n, m))
      /\ s.oseqno = Wrap(sent[n]) /\ s.iseqno = Wrap(a)
  BY <1>2, <1>3, AbsorbedSession
<1>5. /\ schedq' = [schedq EXCEPT ![n] = Settle(@, session[n], m)]
      /\ sent' = sent /\ got' = got
      /\ timedOut' = timedOut /\ closed' = closed /\ missed' = missed
  BY DEF Old
<1>6. PICK t \in Session : t = Answered(s)
  BY <1>4, AnsweredType
<1>7. PICK c \in Datagram : c = Control("ack", s, a) /\ TrueDatagram(p, c)'
  BY <1>1, <1>3, <1>4, <1>5, TrueControl
<1>8. /\ session' = [session EXCEPT ![n] = t]
      /\ net' = [net EXCEPT ![p] = @ \cup {c}]
  BY <1>2, <1>3, <1>6, <1>7 DEF Old
<1>9. t.oseqno = s.oseqno /\ t.iseqno = s.iseqno /\ t.rseqno = s.rseqno
  BY <1>4, <1>6, AnsweredType
<1>10. {c} \in SUBSET Datagram /\ \A d \in {c} : TrueDatagram(p, d)'
  BY <1>7
<1> QED
  BY <1>1, <1>3, <1>4, <1>5, <1>8, <1>9, <1>10, Listens

(* A frame from behind a gap is read, and asked for unless it has been. *)
LEMMA AheadReads ==
  ASSUME IInv, NEW n \in Nodes, NEW m \in net[n], Fresh(n, m), Implicit(n, m),
         UNCHANGED load, Ahead(n, m)
  PROVE  Read(n, m)
<1> DEFINE p == Peer(n)
<1>1. TypeOK /\ missed \in [Nodes -> BOOLEAN]
  BY DEF IInv, TypeOK
<1>2. PICK s : s = Acknowledge(session[n], m)
  OBVIOUS
<1>3. PICK a \in Nat : a = Len(got[n])
  BY <1>1, Counters
<1>4. /\ s \in Session /\ s.rseqno = Wrap(Learnt(n, m))
      /\ s.oseqno = Wrap(sent[n]) /\ s.iseqno = Wrap(a)
  BY <1>2, <1>3, AbsorbedSession
<1>5. /\ schedq' = [schedq EXCEPT ![n] = Settle(@, session[n], m)]
      /\ sent' = sent /\ got' = got
      /\ timedOut' = timedOut /\ closed' = closed /\ missed' \in [Nodes -> BOOLEAN]
  BY <1>1 DEF Ahead
<1>6. CASE ~VnakSent(s)
  <2>1. PICK t \in Session : t = [Answered(s) EXCEPT !.lastvnak = s.iseqno]
    BY <1>4, AnsweredType
  <2>2. PICK c \in Datagram : c = Control("vnak", s, a) /\ TrueDatagram(p, c)'
    BY <1>1, <1>3, <1>4, <1>5, TrueControl
  <2>3. /\ session' = [session EXCEPT ![n] = t]
        /\ net' = [net EXCEPT ![p] = @ \cup {c}]
    BY <1>2, <1>3, <1>6, <2>1, <2>2 DEF Ahead
  <2>4. t.oseqno = s.oseqno /\ t.iseqno = s.iseqno /\ t.rseqno = s.rseqno
    BY <1>4, <2>1, AnsweredType
  <2>5. {c} \in SUBSET Datagram /\ \A d \in {c} : TrueDatagram(p, d)'
    BY <2>2
  <2> QED
    BY <1>1, <1>3, <1>4, <1>5, <2>3, <2>4, <2>5, Listens
<1>7. CASE VnakSent(s)
  <2>1. session' = [session EXCEPT ![n] = s] /\ net' = net
    BY <1>2, <1>7 DEF Ahead
  <2>2. net' = [net EXCEPT ![p] = @ \cup {}]
    BY <1>1, <2>1 DEF TypeOK
  <2>3. {} \in SUBSET Datagram /\ \A d \in {} : TrueDatagram(p, d)'
    OBVIOUS
  <2> QED
    BY <1>1, <1>3, <1>4, <1>5, <2>1, <2>2, <2>3, Listens
<1> QED
  BY <1>6, <1>7

(* A frame whose number is the expected one is the next frame of the peer: the
   numbers wrap, but no datagram that is accepted is so old, and no frame so far
   ahead, that another frame has the same number. *)
LEMMA Expected ==
  ASSUME TypeOK, Numbering, NEW n \in Nodes, NEW m \in net[n], Fresh(n, m),
         m.kind = "data", m.oseqno = session[n].iseqno
  PROVE  m.n \in Nat /\ m.n = Len(got[n]) /\ Len(got[n]) < sent[Peer(n)]
<1> DEFINE p == Peer(n)
<1>1. p \in Nodes /\ Peer(p) = n
  BY Peers
<1>2. Len(got[n]) \in Nat /\ sent[p] \in Nat /\ acked[p] \in Nat
  BY <1>1, Counters
<1>3. m.n \in Nat
  BY Counters DEF Datagram
<1>4. m.oseqno = Wrap(m.n) /\ m.n < sent[p]
  BY DEF Numbering, TrueDatagram
<1>5. session[n].iseqno = Wrap(Len(got[n]))
  BY DEF Numbering, Counting
<1>6. acked[p] <= Len(got[n]) /\ sent[p] <= acked[p] + Window
  BY <1>1 DEF Numbering, Counting
<1>7. m.n + Lifetime >= Len(got[n])
  BY DEF Fresh
<1>8. m.n < Len(got[n]) + M /\ Len(got[n]) < m.n + M
  BY <1>2, <1>3, <1>4, <1>6, <1>7, NumbersAssumption, SMTT(30)
<1>9. Wrap(m.n) = Wrap(Len(got[n]))
  BY <1>4, <1>5
<1>10. m.n = Len(got[n])
  BY <1>2, <1>3, <1>8, <1>9, SameNumber
<1> QED
  BY <1>3, <1>4, <1>10

(* The expected frame is accepted and acknowledged, answered, or neither. *)
LEMMA AcceptReads ==
  ASSUME IInv, NEW n \in Nodes, NEW m \in net[n], Fresh(n, m), Implicit(n, m),
         UNCHANGED load, Accept(n, m)
  PROVE  Read(n, m)
<1> DEFINE p == Peer(n)
<1>1. TypeOK /\ Numbering
  BY DEF IInv
<1>2. /\ sent[n] \in Nat /\ acked[n] \in Nat /\ Len(got[n]) \in Nat /\ got[n] \in Seq(Nat)
      /\ p \in Nodes
  BY <1>1, Counters, Peers
<1>3. m.n \in Nat /\ m.n = Len(got[n]) /\ Len(got[n]) < sent[p]
  BY <1>1, Expected DEF Accept
<1>4. PICK a \in Nat : a = Len(got[n]) + 1
  BY <1>2
<1>5. PICK s0 : s0 = Acknowledge(session[n], m)
  OBVIOUS
<1>6. PICK s : s = [s0 EXCEPT !.iseqno = Succ(@)]
  OBVIOUS
<1>7. /\ s \in Session /\ s.rseqno = Wrap(Learnt(n, m))
      /\ s.oseqno = Wrap(sent[n]) /\ s.iseqno = Wrap(a)
  <2>1. /\ s0 \in Session /\ s0.rseqno = Wrap(Learnt(n, m))
        /\ s0.oseqno = Wrap(sent[n]) /\ s0.iseqno = Wrap(Len(got[n]))
    BY <1>5, AbsorbedSession
  <2>2. Succ(s0.iseqno) = Wrap(a) /\ Wrap(a) \in Numbers
    BY <1>2, <1>4, <2>1, WrapSucc, WrapType
  <2> QED
    BY <1>6, <2>1, <2>2 DEF Session
<1>8. PICK q : q = Settle(schedq[n], session[n], m)
  OBVIOUS
<1>9. q = Rest(n, m)
  BY <1>8 DEF Rest
<1>10. PICK f : f = NewFrame(n, s, a)
  OBVIOUS
<1>11. /\ got' = [got EXCEPT ![n] = Append(@, m.n)]
       /\ missed' = [missed EXCEPT ![n] = FALSE]
       /\ load' = load /\ timedOut' = timedOut /\ closed' = closed
       /\ \/ /\ session' = [session EXCEPT ![n] = Answered(s)]
             /\ net' = [net EXCEPT ![p] = @ \cup {Control("ack", s, a)}]
             /\ schedq' = [schedq EXCEPT ![n] = q]
             /\ sent' = sent
          \/ /\ MaySend(n)
             /\ session' = [session EXCEPT ![n] = Numbered(s)]
             /\ net' = [net EXCEPT ![p] = @ \cup {Data(f)}]
             /\ schedq' = [schedq EXCEPT ![n] = q \cup {f}]
             /\ sent' = [sent EXCEPT ![n] = @ + 1]
          \/ /\ session' = [session EXCEPT ![n] = s]
             /\ schedq' = [schedq EXCEPT ![n] = q]
             /\ net' = net /\ sent' = sent
  BY <1>4, <1>5, <1>6, <1>8, <1>10 DEF Accept
<1>12. got'[n] = Append(got[n], m.n) /\ Len(got'[n]) = a
  <2>1. got'[n] = Append(got[n], m.n)
    BY <1>1, <1>11 DEF TypeOK
  <2> QED
    BY <1>2, <1>3, <1>4, <2>1, AppendProperties
<1>13. acked' = [acked EXCEPT ![n] = Learnt(n, m)]
  BY <1>1, Absorb DEF Implicit
<1>14. /\ load' = load /\ timedOut' = timedOut /\ closed' = closed
       /\ missed' \in [Nodes -> BOOLEAN]
       /\ got' = [got EXCEPT ![n] = Append(@, Len(@))]
  BY <1>1, <1>3, <1>11 DEF TypeOK
<1>15. CASE /\ session' = [session EXCEPT ![n] = Answered(s)]
            /\ net' = [net EXCEPT ![p] = @ \cup {Control("ack", s, a)}]
            /\ schedq' = [schedq EXCEPT ![n] = q]
            /\ sent' = sent
  <2>1. PICK t \in Session : t = Answered(s)
    BY <1>7, AnsweredType
  <2>2. t.oseqno = s.oseqno /\ t.iseqno = s.iseqno /\ t.rseqno = s.rseqno
    BY <1>7, <2>1, AnsweredType
  <2>3. PICK c \in Datagram : c = Control("ack", s, a) /\ TrueDatagram(p, c)'
    BY <1>1, <1>2, <1>4, <1>7, <1>12, TrueControl
  <2>4. {c} \in SUBSET Datagram /\ \A d \in {c} : TrueDatagram(p, d)'
    BY <2>3
  <2>5. session' = [session EXCEPT ![n] = t] /\ net' = [net EXCEPT ![p] = @ \cup {c}]
    BY <1>15, <2>1, <2>3
  <2> QED
    BY <1>3, <1>7, <1>9, <1>12, <1>13, <1>14, <1>15, <2>2, <2>4, <2>5 DEF Read
<1>16. CASE /\ MaySend(n)
            /\ session' = [session EXCEPT ![n] = Numbered(s)]
            /\ net' = [net EXCEPT ![p] = @ \cup {Data(f)}]
            /\ schedq' = [schedq EXCEPT ![n] = q \cup {f}]
            /\ sent' = [sent EXCEPT ![n] = @ + 1]
  <2>1. sent'[n] = sent[n] + 1 /\ sent[n] < acked[n] + Window
    BY <1>1, <1>16 DEF TypeOK, MaySend
  <2>2. PICK t \in Session : /\ t = Numbered(s) /\ t.oseqno = Wrap(sent'[n])
                             /\ t.iseqno = s.iseqno /\ t.rseqno = s.rseqno
    BY <1>2, <1>7, <2>1, NumberedType
  <2>3. /\ f \in Frame /\ f.oseqno = s.oseqno /\ f.iseqno = s.iseqno
        /\ f.n = sent[n] /\ f.a = a /\ f.retries >= 0 /\ Data(f) \in Datagram
    BY <1>1, <1>7, <1>10, Made, SentAs
  <2>4. TrueFrame(n, f)'
    BY <1>2, <1>4, <1>7, <1>12, <2>1, <2>3 DEF TrueFrame
  <2>5. TrueDatagram(p, Data(f))'
    BY <1>2, <2>3, <2>4, SentAs, Peers DEF TrueFrame, TrueDatagram
  <2>6. {Data(f)} \in SUBSET Datagram /\ \A d \in {Data(f)} : TrueDatagram(p, d)'
    BY <2>3, <2>5
  <2>7. session' = [session EXCEPT ![n] = t]
    BY <1>16, <2>2
  <2>8. \E g \in Frame : /\ schedq' = [schedq EXCEPT ![n] = Rest(n, m) \cup {g}]
                         /\ TrueFrame(n, g)' /\ g.n = sent[n] /\ g.retries >= 0
    BY <1>9, <1>16, <2>3, <2>4
  <2>9. \E D \in SUBSET Datagram : /\ net' = [net EXCEPT ![p] = @ \cup D]
                                   /\ \A d \in D : TrueDatagram(p, d)'
    BY <1>16, <2>6
  <2> QED
    BY <1>3, <1>7, <1>12, <1>13, <1>14, <1>16, <2>1, <2>2, <2>7, <2>8, <2>9 DEF Read
<1>17. CASE /\ session' = [session EXCEPT ![n] = s]
            /\ schedq' = [schedq EXCEPT ![n] = q]
            /\ net' = net /\ sent' = sent
  <2>1. net' = [net EXCEPT ![p] = @ \cup {}]
    BY <1>1, <1>17 DEF TypeOK
  <2>2. {} \in SUBSET Datagram /\ \A d \in {} : TrueDatagram(p, d)'
    OBVIOUS
  <2> QED
    BY <1>3, <1>7, <1>9, <1>12, <1>13, <1>14, <1>17, <2>1, <2>2 DEF Read
<1> QED
  BY <1>11, <1>15, <1>16, <1>17

-----------------------------------------------------------------------------
(* The theorems *)

(* A new session has sent, accepted and heard nothing. *)
LEMMA InitIInv == Init => IInv
<1> SUFFICES ASSUME Init
             PROVE  IInv
  OBVIOUS
<1>1. Wrap(0) = 0 /\ 0 \in Numbers /\ M - 1 \in Numbers
  <2>1. 0 \in 0 .. M - 1
    BY NumbersAssumption
  <2> QED
    BY <2>1, Small, NumbersAssumption DEF Wrap, Numbers
<1>2. NewSession \in Session
  BY <1>1 DEF NewSession, Session
<1>3. << >> \in Seq(Nat) /\ Len(<< >>) = 0
  OBVIOUS
<1>4. TypeOK
  BY <1>2, <1>3 DEF Init, TypeOK
<1>5. ASSUME NEW n \in Nodes
      PROVE  /\ session[n] = NewSession /\ sent[n] = 0 /\ acked[n] = 0
             /\ Len(got[n]) = 0 /\ schedq[n] = {} /\ net[n] = {}
  BY <1>3 DEF Init
<1>6. Numbering
  BY <1>1, <1>5, Peers, NumbersAssumption DEF Numbering, Counting, NewSession
<1>7. NothingForgotten
  BY <1>5 DEF NothingForgotten, Remembered
<1> QED
  BY <1>4, <1>6, <1>7 DEF IInv

(* Every handler reads the acknowledgement and keeps the invariant. *)
LEMMA ReceiveReads ==
  ASSUME IInv, NEW n \in Nodes, Receive(n)
  PROVE  \E m \in net[n] : Fresh(n, m) /\ ~closed[n] /\ Read(n, m)
<1>1. PICK m \in net[n] :
        /\ ~closed[n] /\ Fresh(n, m) /\ Implicit(n, m) /\ UNCHANGED load
        /\ ReceiveAck(n, m) \/ ReceiveVnak(n, m) \/ Accept(n, m) \/ Old(n, m) \/ Ahead(n, m)
  BY DEF Receive
<1>2. Read(n, m)
  BY <1>1, AckReads, VnakReads, AcceptReads, OldReads, AheadReads
<1> QED
  BY <1>1, <1>2

(* Every step of either end keeps the invariant. *)
LEMMA NextIInv == IInv /\ [Next]_vars => IInv'
<1> SUFFICES ASSUME IInv, [Next]_vars
             PROVE  IInv'
  OBVIOUS
<1>1. CASE Next
  <2>1. PICK n \in Nodes : Send(n) \/ HangUp(n) \/ Receive(n) \/ Timer(n)
    BY <1>1 DEF Next
  <2>2. CASE Send(n)
    BY <2>2, SendKeeps
  <2>3. CASE HangUp(n)
    BY <2>3, HangUpKeeps
  <2>4. CASE Receive(n)
    BY <2>4, ReceiveReads, ReadKeeps
  <2>5. CASE Timer(n)
    BY <2>5, TimerKeeps DEF Timer
  <2> QED
    BY <2>1, <2>2, <2>3, <2>4, <2>5
<1>2. CASE UNCHANGED vars
  BY <1>2 DEF vars, IInv, TypeOK, Frame, Numbering, Counting, TrueFrame, TrueDatagram,
              NothingForgotten, Remembered
<1> QED
  BY <1>1, <1>2

(* The numbering holds in every state of every behaviour. *)
LEMMA Invariant == Spec => []IInv
<1> QED
  BY InitIInv, NextIInv, PTL DEF Spec

(* The sequence numbers stay bytes, and no frame is sent again more often than
   maxretries says: iax_send, iax_get_event. *)
THEOREM TypeCorrect == Spec => []TypeOK
<1>1. IInv => TypeOK
  BY DEF IInv
<1> QED
  BY <1>1, Invariant, PTL

(* A frame leaves the schedule without a timeout only if it arrived, and a frame
   that was acknowledged is never sent again nor raises a timeout: iax_send,
   iax_get_event and the implicit acknowledgement of iax_header_to_event, for
   any window and any delay that together fit into the sequence numbers. *)
THEOREM Remembers == Spec => []NothingForgotten
<1>1. IInv => NothingForgotten
  BY DEF IInv
<1> QED
  BY <1>1, Invariant, PTL

-----------------------------------------------------------------------------
(* The refinement *)

(* The channel has the same ends. *)
LEMMA SameEnds == Channel!Nodes = Nodes /\ \A n \in Nodes : Channel!Peer(n) = Peer(n)
BY DEF Nodes, Peer, Channel!Nodes, Channel!Peer

(* An end that knows no more than before still knows something true. *)
LEMMA Relearns ==
  ASSUME TypeOK, Numbering, NEW n \in Nodes, acked' = acked
  PROVE  Channel!Learns(n)
<1>1. acked[n] \in Nat /\ Len(got[Peer(n)]) \in Nat /\ acked[n] <= Len(got[Peer(n)])
  BY Peers, Counters DEF Numbering, Counting
<1>2. acked' = [acked EXCEPT ![n] = acked[n]]
  BY DEF TypeOK
<1>3. acked[n] \in acked[n] .. Len(got[Channel!Peer(n)])
  BY <1>1, SameEnds
<1> QED
  BY <1>2, <1>3 DEF Channel!Learns

(* Reading a datagram is an exchange: n believes no more than what arrived and
   accepts nothing but the next frame. *)
LEMMA ReadExchanges ==
  ASSUME TypeOK, Numbering, NEW n \in Nodes, NEW m \in net[n], Fresh(n, m), Read(n, m)
  PROVE  Channel!Exchange(n)
<1>1. Channel!Sends(n) \/ UNCHANGED sent
  BY DEF Read, Channel!Sends
<1>2. Channel!Accepts(n) \/ UNCHANGED got
  BY SameEnds DEF Read, Channel!Accepts
<1>3. Channel!Learns(n)
  <2>1. Learnt(n, m) \in acked[n] .. Len(got[Channel!Peer(n)])
    BY Absorb, SameEnds
  <2> QED
    BY <2>1 DEF Read, Channel!Learns
<1> QED
  BY <1>1, <1>2, <1>3 DEF Channel!Exchange

(* Every step of the ends is a step of the channel, or none. *)
LEMMA StepRefines == IInv /\ [Next]_vars => [Channel!ChannelNext]_(Channel!channel)
<1> SUFFICES ASSUME IInv, [Next]_vars
             PROVE  Channel!ChannelNext \/ UNCHANGED <<sent, got, acked>>
  BY DEF Channel!channel
<1>1. TypeOK /\ Numbering
  BY DEF IInv
<1>2. CASE Next
  <2>1. PICK n \in Nodes : Send(n) \/ HangUp(n) \/ Receive(n) \/ Timer(n)
    BY <1>2 DEF Next
  <2>2. Channel!Exchange(n) => Channel!ChannelNext
    BY SameEnds DEF Channel!ChannelNext
  <2>3. CASE Send(n) \/ HangUp(n)
    <3>1. Channel!Sends(n) /\ got' = got /\ acked' = acked
      BY <2>3 DEF Send, HangUp, Channel!Sends
    <3> QED
      BY <1>1, <2>2, <3>1, Relearns DEF Channel!Exchange
  <2>4. CASE Receive(n)
    BY <1>1, <2>2, <2>4, ReceiveReads, ReadExchanges
  <2>5. CASE Timer(n)
    BY <2>5 DEF Timer, Retry
  <2> QED
    BY <2>1, <2>3, <2>4, <2>5
<1>3. CASE UNCHANGED vars
  BY <1>3 DEF vars
<1> QED
  BY <1>2, <1>3

(* What iax2.h promises of full frames: retransmission, duplicate detection and
   acknowledgement implement the reliable channel, in spite of the loss,
   repetition and reordering of datagrams and of the wrap-around of the
   sequence numbers. *)
THEOREM Delivers == Spec => ChannelImplemented
<1>1. Init => Channel!ChannelInit
  BY SameEnds DEF Init, Channel!ChannelInit
<1> QED
  BY <1>1, StepRefines, Invariant, PTL DEF Spec, ChannelImplemented, Channel!ChannelSpec

(* what n has accepted: the frames 0, 1, 2, ... of the peer, as far as it has
   sent them, and at least those it knows to have arrived *)
Prefix(n) ==
  /\ \A i \in 1 .. Len(got[n]) : got[n][i] = i - 1
  /\ acked[Peer(n)] <= Len(got[n]) /\ Len(got[n]) <= sent[Peer(n)]

(* A step accepts the next frame or none. *)
LEMMA PrefixStep ==
  ASSUME TypeOK, NEW n \in Nodes, \A i \in 1 .. Len(got[n]) : got[n][i] = i - 1,
         got'[n] = got[n] \/ got'[n] = Append(got[n], Len(got[n]))
  PROVE  \A i \in 1 .. Len(got'[n]) : got'[n][i] = i - 1
<1>1. got[n] \in Seq(Nat) /\ Len(got[n]) \in Nat
  BY Counters
<1>2. CASE got'[n] = Append(got[n], Len(got[n]))
  <2>1. /\ Len(got'[n]) = Len(got[n]) + 1
        /\ \A i \in 1 .. Len(got[n]) : got'[n][i] = got[n][i]
        /\ got'[n][Len(got[n]) + 1] = Len(got[n])
    BY <1>1, <1>2, AppendProperties
  <2>2. \A i \in 1 .. Len(got[n]) + 1 : i \in 1 .. Len(got[n]) \/ i = Len(got[n]) + 1
    BY <1>1
  <2> QED
    BY <1>1, <2>1, <2>2
<1> QED
  BY <1>2

(* Exactly once and in order, as a statement about states: each end has accepted
   a prefix of what the other one sent, and nothing is taken for acknowledged
   that is not in it. *)
THEOREM ExactlyOnce == Spec => [](\A n \in Nodes : Prefix(n))
<1> DEFINE InOrder == \A n \in Nodes : \A i \in 1 .. Len(got[n]) : got[n][i] = i - 1
<1>1. Init => InOrder
  <2> SUFFICES ASSUME Init, NEW n \in Nodes, NEW i \in 1 .. Len(got[n])
               PROVE  FALSE
    OBVIOUS
  <2>1. got[n] = << >>
    BY DEF Init
  <2> QED
    BY <2>1
<1>2. IInv /\ InOrder /\ [Next]_vars => InOrder'
  <2> SUFFICES ASSUME IInv, InOrder, [Next]_vars, NEW k \in Nodes
               PROVE  \A i \in 1 .. Len(got'[k]) : got'[k][i] = i - 1
    OBVIOUS
  <2>1. TypeOK
    BY DEF IInv
  <2>2. got'[k] = got[k] \/ got'[k] = Append(got[k], Len(got[k]))
    <3>1. CASE got' = got
      BY <3>1
    <3>2. CASE Next /\ got' # got
      <4>1. PICK n \in Nodes : Send(n) \/ HangUp(n) \/ Receive(n) \/ Timer(n)
        BY <3>2 DEF Next
      <4>2. Receive(n)
        BY <3>2, <4>1 DEF Send, HangUp, Timer, Retry
      <4>3. got' = [got EXCEPT ![n] = Append(@, Len(@))]
        BY <3>2, <4>2, ReceiveReads DEF Read
      <4> QED
        BY <2>1, <4>3 DEF TypeOK
    <3> QED
      BY <3>1, <3>2 DEF vars
  <2> QED
    BY <2>1, <2>2, PrefixStep
<1>3. IInv /\ InOrder => \A n \in Nodes : Prefix(n)
  <2> SUFFICES ASSUME IInv, InOrder, NEW n \in Nodes
               PROVE  Prefix(n)
    OBVIOUS
  <2>1. Counting(Peer(n)) /\ Peer(Peer(n)) = n
    BY Peers DEF IInv, Numbering
  <2> QED
    BY <2>1 DEF Prefix, Counting
<1> QED
  BY <1>1, <1>2, <1>3, Invariant, PTL DEF Spec

=============================================================================
