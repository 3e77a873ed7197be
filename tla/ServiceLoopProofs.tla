-------------------------- MODULE ServiceLoopProofs --------------------------
(***************************************************************************)
(* Proofs about ServiceLoop, for every width of a DWORD, every expiry and   *)
(* retry time and any number of datagrams: its type, that the service never *)
(* sleeps on a datagram, and that without a registration it never sleeps    *)
(* longer than until the next timer.                                        *)
(***************************************************************************)
EXTENDS ServiceLoop, WellFoundedInduction, TLAPS

USE WidthAssumption, TimesAssumption

-----------------------------------------------------------------------------
(* A number cut to a DWORD is a DWORD, and a small one stays what it is. *)
LEMMA UnsignedType ==
  ASSUME NEW x \in Int
  PROVE  /\ Unsigned(x) \in 0 .. M - 1
         /\ x \in 0 .. M - 1 => Unsigned(x) = x
BY DEF Unsigned

(* The signed reading of a number is a number. *)
LEMMA SignedType ==
  ASSUME NEW x \in Int
  PROVE  Signed(x) \in Int
<1>1. x % M \in Int
  OBVIOUS
<1> QED
  BY <1>1 DEF Signed

(* A schedule that is not empty has an earliest timer. *)
LEMMA EarliestType ==
  ASSUME NEW S \in SUBSET Nat, S # {}
  PROVE  Earliest(S) \in S /\ \A u \in S : Earliest(S) <= u
<1> DEFINE R == OpToRel(<, Nat)
<1>1. PICK t \in S : \A u \in S : <<u, t>> \notin R
  <2>1. IsWellFoundedOn(R, Nat)
    BY NatLessThanWellFounded
  <2> HIDE DEF R
  <2> QED
    BY <2>1, WFMin
<1>2. \A u \in S : t <= u
  <2> TAKE u \in S
  <2>1. ~(u < t)
    BY <1>1 DEF OpToRel
  <2> QED
    BY <2>1
<1> QED
  BY <1>2 DEF Earliest

(* iax_time_to_next_event returns INFINITE or a time, and a wait that long
   ends by the earliest timer or at once. *)
LEMMA TimeToNextType ==
  ASSUME TypeOK
  PROVE  /\ TimeToNextEvent \in -1 .. MaxTime + RetryTime
         /\ schedq # {} => /\ TimeToNextEvent # INFINITE
                           /\ \A t \in schedq : now + TimeToNextEvent <= t
                                                 \/ TimeToNextEvent = 0
<1>1. CASE schedq = {}
  BY <1>1 DEF TimeToNextEvent
<1>2. CASE schedq # {}
  <2>1. schedq \in SUBSET Nat /\ now \in 0 .. MaxTime
    BY DEF TypeOK
  <2>2. Earliest(schedq) \in schedq /\ \A u \in schedq : Earliest(schedq) <= u
    BY <1>2, <2>1, EarliestType
  <2>3. Earliest(schedq) \in 0 .. MaxTime + RetryTime
    BY <2>2 DEF TypeOK
  <2> QED
    BY <1>2, <2>1, <2>2, <2>3 DEF TimeToNextEvent, INFINITE
<1> QED
  BY <1>1, <1>2

(* waitTimeForEvent is a number. *)
LEMMA WaitType ==
  ASSUME TypeOK
  PROVE  WaitTime \in Int
<1>1. nextReg - GetTickCount \in Int
  BY DEF GetTickCount, TypeOK
<1>2. WaitForRegister \in Int
  BY <1>1, SignedType DEF WaitForRegister
<1> QED
  BY <1>2, TimeToNextType DEF WaitTime

(* A timer that is scheduled now keeps the schedule inside its bound. *)
LEMMA ScheduleType ==
  ASSUME TypeOK, NEW S \in SUBSET schedq
  PROVE  /\ S \subseteq 0 .. MaxTime + RetryTime
         /\ S \cup {now + RetryTime} \subseteq 0 .. MaxTime + RetryTime
<1>1. schedq \subseteq 0 .. MaxTime + RetryTime
  BY DEF TypeOK
<1>2. now + RetryTime \in 0 .. MaxTime + RetryTime
  BY DEF TypeOK
<1> QED
  BY <1>1, <1>2, Zenon

(* Answering an event keeps the schedule and the time of the registration
   inside their bounds. *)
LEMMA AnswerType ==
  ASSUME TypeOK, NEW S \in SUBSET schedq, Answer(S)
  PROVE  /\ schedq' \subseteq 0 .. MaxTime + RetryTime
         /\ nextReg' \in 0 .. M - 1
<1>1. GetTickCount + Expire \in Int
  BY DEF GetTickCount, TypeOK
<1>2. nextReg' \in 0 .. M - 1
  BY <1>1, UnsignedType DEF Answer, TypeOK
<1> QED
  BY <1>2, ScheduleType DEF Answer

-----------------------------------------------------------------------------
(* Every reachable state of the loop is well-typed: a wait that is a negative
   number of ticks is still a DWORD. *)
THEOREM TypeCorrect == Spec => []TypeOK
<1>1. Init => TypeOK
  <2> SUFFICES ASSUME Init PROVE TypeOK
    OBVIOUS
  <2>1. nextReg \in 0 .. M - 1 /\ now \in 0 .. MaxTime /\ deadline \in 0 .. Forever
    BY UnsignedType DEF Init, Forever
  <2>2. RetryTime \in 0 .. MaxTime + RetryTime
    OBVIOUS
  <2>3. schedq \subseteq 0 .. MaxTime + RetryTime
    BY <2>2 DEF Init
  <2>4. packets \in 0 .. MaxPackets /\ arrived \in packets .. MaxPackets
    BY DEF Init
  <2> QED
    BY <2>1, <2>3, <2>4 DEF Init, TypeOK
<1>2. TypeOK /\ [Next]_vars => TypeOK'
  <2> SUFFICES ASSUME TypeOK, [Next]_vars PROVE TypeOK'
    OBVIOUS
  <2>1. CASE Wait
    <3>1. deadline' \in 0 .. Forever
      BY <2>1, WaitType, UnsignedType DEF Wait, Forever, TypeOK
    <3> QED
      BY <2>1, <3>1 DEF Wait, socket, TypeOK
  <2>2. CASE WakeShutdown
    BY <2>2 DEF WakeShutdown, socket, TypeOK
  <2>3. CASE WakeNetwork
    BY <2>3 DEF WakeNetwork, TypeOK
  <2>4. CASE WakeWave
    BY <2>4 DEF WakeWave, socket, TypeOK
  <2>5. CASE WakeTimeout
    <3>1. GetTickCount + Expire \in Int
      BY DEF GetTickCount, TypeOK
    <3>2. nextReg' \in 0 .. M - 1
      BY <2>5, <3>1, UnsignedType DEF WakeTimeout, TypeOK
    <3>3. schedq' \subseteq 0 .. MaxTime + RetryTime
      BY <2>5, ScheduleType DEF WakeTimeout
    <3> QED
      BY <2>5, <3>2, <3>3 DEF WakeTimeout, socket, TypeOK
  <2>6. CASE Timer
    <3>1. /\ schedq' \subseteq 0 .. MaxTime + RetryTime
          /\ nextReg' \in 0 .. M - 1
      BY <2>6, AnswerType DEF Timer
    <3> QED
      BY <2>6, <3>1 DEF Timer, socket, TypeOK
  <2>7. CASE Event
    <3>1. queue' \subseteq queue
      BY <2>7 DEF Event
    <3>2. /\ schedq' \subseteq 0 .. MaxTime + RetryTime
          /\ nextReg' \in 0 .. M - 1
      BY <2>7, AnswerType DEF Event
    <3> QED
      BY <2>7, <3>1, <3>2 DEF Event, socket, TypeOK
  <2>8. CASE Read
    <3>1. queue' \subseteq Nat
      <4>1. \A d \in Delays : now + d \in Nat
        BY DEF TypeOK
      <4>2. queue \subseteq Nat
        BY DEF TypeOK
      <4> QED
        BY <2>8, <4>1, <4>2 DEF Read
    <3>2. schedq' \subseteq 0 .. MaxTime + RetryTime
      BY <2>8, ScheduleType DEF Read
    <3>3. netEvent' \in BOOLEAN /\ armed' \in BOOLEAN
      BY <2>8, Zenon DEF Read, Received, TypeOK
    <3>4. packets' \in 0 .. MaxPackets /\ arrived' \in packets' .. MaxPackets
      <4>1. Received /\ packets > 0
        BY <2>8 DEF Read
      <4>2. packets' = packets - 1 /\ arrived' = arrived
        BY <4>1 DEF Received
      <4> QED
        BY <4>1, <4>2 DEF TypeOK
    <3> QED
      BY <2>8, <3>1, <3>2, <3>3, <3>4 DEF Read, TypeOK
  <2>9. CASE ReadNothing
    BY <2>9 DEF ReadNothing, TypeOK
  <2>10. CASE Tick
    BY <2>10 DEF Tick, socket, TypeOK
  <2>11. CASE Arrive
    <3>1. netEvent' \in BOOLEAN /\ armed' \in BOOLEAN
      BY <2>11, Zenon DEF Arrive, TypeOK
    <3>2. packets' \in 0 .. MaxPackets /\ arrived' \in packets' .. MaxPackets
      BY <2>11 DEF Arrive, TypeOK
    <3> QED
      BY <2>11, <3>1, <3>2 DEF Arrive, TypeOK
  <2>12. CASE Stop
    BY <2>12 DEF Stop, socket, TypeOK
  <2>13. CASE UNCHANGED vars
    BY <2>13 DEF vars, socket, TypeOK
  <2> QED
    BY <2>1, <2>2, <2>3, <2>4, <2>5, <2>6, <2>7, <2>8, <2>9, <2>10, <2>11, <2>12, <2>13
    DEF Next, Loop
<1> QED
  BY <1>1, <1>2, PTL DEF Spec

-----------------------------------------------------------------------------
(* Outside of the inner loop a datagram is announced, and the next one will
   be.  Inside neither need be so: WSAResetEvent was called and recvfrom not
   yet. *)
Announced ==
  pc # "handle" => /\ packets > 0 => netEvent
                   /\ armed \/ netEvent

(* The service never sleeps on a datagram: NoLostDatagram is an invariant,
   because the inner loop is only left through a recvfrom. *)
THEOREM DatagramSafe == Spec => []NoLostDatagram
<1>1. Init => Announced
  BY DEF Init, Announced
<1>2. TypeOK /\ Announced /\ [Next]_vars => Announced'
  <2> SUFFICES ASSUME TypeOK, Announced, [Next]_vars PROVE Announced'
    OBVIOUS
  <2>1. CASE Wait \/ WakeShutdown \/ WakeNetwork \/ WakeWave \/ WakeTimeout
    BY <2>1 DEF Wait, WakeShutdown, WakeNetwork, WakeWave, WakeTimeout, socket, Announced
  <2>2. CASE Timer \/ Event
    BY <2>2 DEF Timer, Event, Announced
  <2>3. CASE Read
    BY <2>3 DEF Read, Received, Announced, TypeOK
  <2>4. CASE ReadNothing
    BY <2>4 DEF ReadNothing, Announced
  <2>5. CASE Arrive
    BY <2>5 DEF Arrive, Announced, TypeOK
  <2>6. CASE Tick \/ Stop \/ UNCHANGED vars
    BY <2>6 DEF Tick, Stop, vars, socket, Announced
  <2> QED
    BY <2>1, <2>2, <2>3, <2>4, <2>5, <2>6 DEF Next, Loop
<1>3. Announced => NoLostDatagram
  BY DEF Announced, NoLostDatagram
<1> QED
  BY <1>1, <1>2, <1>3, TypeCorrect, PTL DEF Spec

(* Without a registration no wait outlasts a timer: NoOversleep is an
   invariant.  It is the registration's negative wait that breaks it. *)
THEOREM TimersAwaited == Spec => []NoOversleep
<1>1. Init => NoOversleep
  BY DEF Init, NoOversleep
<1>2. TypeOK /\ NoOversleep /\ [Next]_vars => NoOversleep'
  <2> SUFFICES ASSUME TypeOK, NoOversleep, [Next]_vars PROVE NoOversleep'
    OBVIOUS
  <2>1. CASE Wait
    <3> SUFFICES ASSUME NEW t \in schedq, ~register
                 PROVE  deadline' <= t \/ deadline' <= now
      BY <2>1 DEF Wait, NoOversleep
    <3>1. /\ TimeToNextEvent \in 0 .. MaxTime + RetryTime
          /\ now + TimeToNextEvent <= t \/ TimeToNextEvent = 0
      BY TimeToNextType DEF INFINITE
    <3>2. WaitTime = TimeToNextEvent
      BY DEF WaitTime
    <3>3. Unsigned(WaitTime) = WaitTime /\ WaitTime # INFINITE
      BY <3>1, <3>2, UnsignedType DEF INFINITE
    <3> QED
      BY <2>1, <3>1, <3>2, <3>3 DEF Wait, TypeOK
  <2>2. CASE WakeShutdown \/ WakeNetwork \/ WakeWave \/ WakeTimeout
    BY <2>2 DEF WakeShutdown, WakeNetwork, WakeWave, WakeTimeout, NoOversleep
  <2>3. CASE Timer \/ Event \/ Read \/ ReadNothing
    BY <2>3 DEF Timer, Event, Read, ReadNothing, NoOversleep
  <2>4. CASE Tick
    BY <2>4 DEF Tick, NoOversleep, TypeOK, Forever
  <2>5. CASE Arrive \/ Stop \/ UNCHANGED vars
    BY <2>5 DEF Arrive, Stop, vars, NoOversleep
  <2> QED
    BY <2>1, <2>2, <2>3, <2>4, <2>5 DEF Next, Loop
<1> QED
  BY <1>1, <1>2, TypeCorrect, PTL DEF Spec

=============================================================================
