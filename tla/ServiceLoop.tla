----------------------------- MODULE ServiceLoop -----------------------------
(***************************************************************************)
(* How long the service sleeps and what wakes it: the outer loop of         *)
(* ServiceMain (src/main.c) over WaitForServiceEvents (src/service.c), the  *)
(* order in which iax_get_event (src/libiax2/iax.c) looks for work, and the  *)
(* socket's FD_READ notification as WSAEventSelect delivers it.             *)
(*                                                                         *)
(* Time is counted in ticks and may pass anywhere, so that handling takes   *)
(* time too.  GetTickCount wraps at M, and a wait is a DWORD: a negative    *)
(* number of ticks becomes a very long wait, and -1 is INFINITE.  What an    *)
(* event does is left to Wave and Sessions.                                 *)
(***************************************************************************)
EXTENDS Integers

CONSTANTS M,           \* values of a DWORD: 2^32
          Expire,      \* IAX_DEFAULT_REG_EXPIRE in ticks
          RetryTime,   \* ticks until a frame's timer
          Delays,      \* delays the jitterbuffer may give an event
          MaxTime,     \* bound: ticks
          MaxPackets   \* bound: datagrams that arrive

ASSUME TimesAssumption ==
  /\ Expire \in Nat \ {0} /\ RetryTime \in Nat \ {0} /\ Delays \subseteq Nat
  /\ MaxTime \in Nat /\ MaxPackets \in Nat
ASSUME WidthAssumption ==
  M \in Nat \ {0} /\ M % 2 = 0 /\ 2 * Expire < M /\ 2 * (MaxTime + RetryTime) < M

VARIABLES
  register,  \* Settings->Register, which nothing changes
  now,       \* ticks since the service started
  schedq,    \* libiax2: when the timers in the schedule are due
  queue,     \* libiax2: when the events in the jitterbuffers are due
  nextReg,   \* main.c: nextRegistration
  pc,        \* where the service loop is
  deadline,  \* when the wait that is running ends
  shutdown,  \* is the shutdown event set?
  netEvent,  \* is the network event set?
  armed,     \* will the next datagram set it?
  packets,   \* datagrams in the socket
  arrived    \* datagrams that ever arrived

socket == <<netEvent, armed, packets, arrived>>
vars == <<register, now, schedq, queue, nextReg, pc, deadline, shutdown, socket>>

Forever == MaxTime + M     \* INFINITE, and later than any other deadline

TypeOK ==
  /\ register \in BOOLEAN
  /\ now \in 0 .. MaxTime /\ nextReg \in 0 .. M - 1
  /\ schedq \subseteq 0 .. MaxTime + RetryTime
  /\ queue \subseteq Nat
  /\ pc \in {"top", "waiting", "handle", "left"}
  /\ deadline \in 0 .. Forever
  /\ shutdown \in BOOLEAN /\ netEvent \in BOOLEAN /\ armed \in BOOLEAN
  /\ packets \in 0 .. MaxPackets /\ arrived \in packets .. MaxPackets

-----------------------------------------------------------------------------
(* Clocks *)

GetTickCount == now % M
Signed(x) == IF x % M < M \div 2 THEN x % M ELSE (x % M) - M   \* (INT)x
Unsigned(x) == x % M                                        \* (DWORD)x
INFINITE == -1

Earliest(S) == CHOOSE t \in S : \A u \in S : t <= u

\* mutant: a timer that is overdue gives a negative time
TimeToNextUnclipped == IF schedq = {} THEN -1 ELSE Earliest(schedq) - now

(* iax_time_to_next_event *)
TimeToNextEvent ==
  IF schedq = {} THEN -1
  ELSE IF Earliest(schedq) < now THEN 0 ELSE Earliest(schedq) - now

WaitForRegister == Signed(nextReg - GetTickCount)

(* waitTimeForEvent *)
WaitTime ==
  IF register /\ (TimeToNextEvent = INFINITE \/ WaitForRegister < TimeToNextEvent)
  THEN WaitForRegister
  ELSE TimeToNextEvent

-----------------------------------------------------------------------------
Init ==
  /\ register \in BOOLEAN
  /\ now = 0 /\ queue = {}
  /\ nextReg = Unsigned(Expire)
  /\ schedq \in IF register THEN {{}, {RetryTime}} ELSE {{}}     \* REG_START
  /\ pc = "top" /\ deadline = 0 /\ shutdown = FALSE
  /\ netEvent = FALSE /\ armed = TRUE /\ packets = 0 /\ arrived = 0

\* mutant: the event is reset before the wait and not after it
WaitResets ==
  /\ pc = "top" /\ pc' = "waiting"
  /\ deadline' = IF WaitTime = INFINITE THEN Forever ELSE now + Unsigned(WaitTime)
  /\ netEvent' = FALSE
  /\ UNCHANGED <<register, now, schedq, queue, nextReg, shutdown, armed, packets, arrived>>

(* WaitForServiceEvents is called *)
Wait ==
  /\ pc = "top" /\ pc' = "waiting"
  /\ deadline' = IF WaitTime = INFINITE THEN Forever ELSE now + Unsigned(WaitTime)
  /\ UNCHANGED <<register, now, schedq, queue, nextReg, shutdown, socket>>

(* ... and returns; the event with the lowest index comes first *)
WakeShutdown ==
  /\ pc = "waiting" /\ shutdown
  /\ pc' = "left"
  /\ UNCHANGED <<register, now, schedq, queue, nextReg, deadline, shutdown, socket>>

WakeNetwork ==
  /\ pc = "waiting" /\ ~shutdown /\ netEvent
  /\ netEvent' = FALSE
  /\ pc' = "handle"
  /\ UNCHANGED <<register, now, schedq, queue, nextReg, deadline, shutdown, armed, packets, arrived>>

(* the audio device may signal at any time, see Wave *)
WakeWave ==
  /\ pc = "waiting" /\ ~shutdown /\ ~netEvent
  /\ pc' = "handle"
  /\ UNCHANGED <<register, now, schedq, queue, nextReg, deadline, shutdown, socket>>

WakeTimeout ==
  /\ pc = "waiting" /\ ~shutdown /\ ~netEvent /\ now >= deadline
  /\ IF register /\ Signed(GetTickCount - nextReg) > 0
     THEN /\ nextReg' = Unsigned(GetTickCount + Expire)       \* REG_REFRESH; without
          /\ schedq' = schedq \/ schedq' = schedq \cup {now + RetryTime}  \* a frame if the
                                               \* host's name cannot be resolved
     ELSE UNCHANGED <<nextReg, schedq>>
  /\ pc' = "handle"
  /\ UNCHANGED <<register, now, queue, deadline, shutdown, socket>>

-----------------------------------------------------------------------------
(* iax_get_event: timers, then the jitterbuffers, then the socket *)

TimerDue == \E t \in schedq : t <= now
EventDue == \E t \in queue : t < now

\* mutant: the time to the next retry is multiplied and not limited
TimerUnlimited ==
  /\ pc = "handle" /\ TimerDue
  /\ schedq' = (schedq \ {Earliest(schedq)}) \cup {now + 4 * RetryTime}
  /\ UNCHANGED <<register, now, queue, nextReg, pc, deadline, shutdown, socket>>

(* What the service does about an event leaves rest in the schedule: it may
   answer with a frame, and at the end of the registration's session REG_START
   registers anew, without a frame if the host's name cannot be resolved. *)
Answer(rest) ==
  /\ schedq' = rest \/ schedq' = rest \cup {now + RetryTime}
  /\ \/ UNCHANGED nextReg
     \/ register /\ nextReg' = Unsigned(GetTickCount + Expire)

(* a timer: its frame is dropped, or sent again and scheduled anew, or it has
   timed out, which is an event *)
Timer ==
  /\ pc = "handle" /\ TimerDue
  /\ Answer(schedq \ {Earliest(schedq)})
  /\ UNCHANGED <<register, now, queue, pc, deadline, shutdown, socket>>

(* an event of a jitterbuffer; a hangup drops whatever else its session has
   queued *)
Event ==
  /\ pc = "handle" /\ ~TimerDue /\ EventDue
  /\ \E t \in queue, dropped \in SUBSET queue :
       t < now /\ queue' = queue \ (dropped \cup {t})
  /\ Answer(schedq)
  /\ UNCHANGED <<register, now, pc, deadline, shutdown, socket>>

(* recvfrom: with datagrams left it sets the event, without it arms it *)
Received ==
  /\ packets' = packets - 1
  /\ IF packets > 1 THEN netEvent' = TRUE /\ armed' = FALSE
                    ELSE armed' = TRUE /\ UNCHANGED netEvent
  /\ UNCHANGED arrived

(* iax_net_read: what arrived is dealt with at once or queued, and the loop goes
   on; or it was a PING, which handle_event answers and turns into NULL *)
Read ==
  /\ pc = "handle" /\ ~TimerDue /\ ~EventDue /\ packets > 0
  /\ Received
  /\ \/ /\ queue' = queue \/ \E d \in Delays : queue' = queue \cup {now + d}
        /\ schedq' = schedq \/ schedq' = schedq \cup {now + RetryTime}
        /\ UNCHANGED pc
     \/ /\ schedq' = schedq \cup {now + RetryTime}
        /\ pc' = "top" /\ UNCHANGED queue
  /\ UNCHANGED <<register, now, nextReg, deadline, shutdown>>

(* WSAEWOULDBLOCK *)
ReadNothing ==
  /\ pc = "handle" /\ ~TimerDue /\ ~EventDue /\ packets = 0
  /\ pc' = "top" /\ armed' = TRUE
  /\ UNCHANGED <<register, now, schedq, queue, nextReg, deadline, shutdown, netEvent, packets, arrived>>

-----------------------------------------------------------------------------
(* The world *)

Tick ==
  /\ now < MaxTime /\ now' = now + 1
  /\ UNCHANGED <<register, schedq, queue, nextReg, pc, deadline, shutdown, socket>>

Arrive ==
  /\ arrived < MaxPackets
  /\ arrived' = arrived + 1 /\ packets' = packets + 1
  /\ netEvent' = (netEvent \/ armed) /\ armed' = FALSE
  /\ UNCHANGED <<register, now, schedq, queue, nextReg, pc, deadline, shutdown>>

(* Handler: SERVICE_CONTROL_STOP or _SHUTDOWN *)
Stop ==
  /\ ~shutdown /\ shutdown' = TRUE
  /\ UNCHANGED <<register, now, schedq, queue, nextReg, pc, deadline, socket>>

Loop == Wait \/ WakeShutdown \/ WakeNetwork \/ WakeTimeout \/ Timer \/ Event \/ Read \/ ReadNothing

Next == Loop \/ WakeWave \/ Tick \/ Arrive \/ Stop

Spec == Init /\ [][Next]_vars

(* Time passes and the service thread runs. *)
FairSpec == Spec /\ WF_vars(Tick) /\ WF_vars(Loop)

-----------------------------------------------------------------------------
(* Properties *)

(* The service never sleeps on a datagram: the event is set again by the
   recvfrom that leaves one behind, which every round of the loop reaches, and
   WSAResetEvent comes before the reading. *)
NoLostDatagram == pc = "waiting" /\ packets > 0 => netEvent

(* Without a registration the loop waits for the next scheduled timer, not
   longer, as main.c:110 says, whether or not the timer is overdue already. *)
NoOversleep ==
  pc = "waiting" /\ ~register => \A t \in schedq : deadline <= t \/ deadline <= now

(* main.c:141 says that a timeout updates the registration: with one, a wait
   ends when it is due, at once if it is overdue. *)
RegistrationAwaited ==
  pc = "waiting" /\ register /\ ~shutdown /\ ~netEvent =>
    deadline <= now \/ (WaitForRegister >= 0 /\ deadline <= now + WaitForRegister)

(* Without a registration every timer that falls due is served, unless the
   service is stopped. *)
TimersServed ==
  \A t \in 0 .. MaxTime : t \in schedq /\ ~register ~> t \notin schedq \/ pc = "left"

=============================================================================
