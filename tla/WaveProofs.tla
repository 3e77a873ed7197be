----------------------------- MODULE WaveProofs -----------------------------
(* Proofs about Wave for every number of headers, every set of events, every
   ring tone and settings and every outcome of the device calls. *)
EXTENDS Wave, TLAPS

USE DEF Slots

(* Succ walks the headers in order and wraps once, at the last of them. *)
LEMMA SuccWraps ==
  ASSUME NEW i \in Slots
  PROVE  Succ(i) = IF i = Buffers - 1 THEN 0 ELSE i + 1
BY BuffersAssumption DEF Succ

LEMMA SuccType ==
  ASSUME NEW i \in Slots
  PROVE  Succ(i) \in Slots
BY BuffersAssumption, SuccWraps

(* What InitWave set up stays as it is ... *)
LEMMA WaveKept ==
  ASSUME [Next]_vars
  PROVE  wave' = wave
<1> USE DEF ring, volume, memory
<1>1. (\E i \in Slots : DeviceDone(i)) \/ (\E e \in Events : Voice(e)) => wave' = wave
  BY DEF DeviceDone, Voice
<1>2. StopCall \/ FreeWave => wave' = wave
  BY DEF StopCall, FreeWave, StopWave, StopWaveFails
<1>3. DeviceSignal \/ StartCall \/ WaveEvent \/ Drain \/ DrainEnd \/ DrainFails \/ Play
      \/ PlayEnd \/ Leave \/ Closed \/ UNCHANGED vars => wave' = wave
  BY DEF DeviceSignal, StartCall, WaveEvent, Drain, DrainEnd, DrainFails, Play, PlayEnd,
         Leave, Closed, vars
<1> QED BY <1>1, <1>2, <1>3 DEF Next, Device, Service

(* ... and describes a tone whose end is not before its start. *)
LEMMA ToneType ==
  ASSUME wave \in Waves
  PROVE  /\ RingTone \in BOOLEAN /\ PlayLoop \in BOOLEAN /\ SetVolume \in BOOLEAN
         /\ StartOffset \in Nat \ {0} /\ EndOffset \in Nat /\ BlockSize \in Nat \ {0}
         /\ StartOffset <= EndOffset
BY WavesAssumption DEF RingTone, PlayLoop, SetVolume, StartOffset, EndOffset, BlockSize

-----------------------------------------------------------------------------
(* Type correctness *)

LEMMA EnqueueType ==
  ASSUME TypeOK, NEW user \in Events \cup {NoEvent}, NEW from \in Nat, NEW size \in Nat,
         Enqueue(user, from, size)
  PROVE  /\ first' \in Slots /\ next' \in Slots /\ full' \in BOOLEAN
         /\ headers' \in [Slots -> Header]
BY SuccType DEF Enqueue, TypeOK, Header

LEMMA BlockType ==
  ASSUME TypeOK
  PROVE  Rewound \in Nat /\ BlockLeft \in Nat
BY ToneType DEF TypeOK, Rewound, BlockLeft

LEMMA ResetType ==
  ASSUME TypeOK, Reset
  PROVE  headers' \in [Slots -> Header] /\ signalling' \in BOOLEAN
BY DEF Reset, TypeOK, Header

(* The variables keep their types: in particular both ring indices stay
   inside wave->Headers and the block sizes PlayData computes never wrap
   below zero. *)
THEOREM TypeCorrect == Spec => []TypeOK
<1>1. Init => TypeOK
  <2>1. Idle \in Header
    BY DEF Idle, Header
  <2> SUFFICES ASSUME Init PROVE TypeOK
    OBVIOUS
  <2>2. first \in Slots /\ next \in Slots
    BY BuffersAssumption DEF Init
  <2>3. headers \in [Slots -> Header]
    BY <2>1 DEF Init
  <2> QED BY <2>2, <2>3 DEF Init, TypeOK, Volumes
<1>2. TypeOK /\ [Next]_vars => TypeOK'
  <2> SUFFICES ASSUME TypeOK, [Next]_vars PROVE TypeOK'
    OBVIOUS
  <2> USE DEF ring, volume, memory
  <2>1. ASSUME NEW i \in Slots, DeviceDone(i) PROVE TypeOK'
    BY <2>1 DEF DeviceDone, TypeOK, Header
  <2>2. CASE DeviceSignal
    BY <2>2 DEF DeviceSignal, TypeOK
  <2>3. CASE StartCall
    <3>1. offset' \in Nat
      BY <2>3, ToneType DEF StartCall, TypeOK
    <3>2. /\ hasLast' \in BOOLEAN /\ lastVol' \in Volumes /\ devVol' \in Volumes
          /\ failed' \in BOOLEAN
      BY <2>3 DEF StartCall, RaiseVolume, TypeOK, Volumes
    <3> QED BY <2>3, <3>1, <3>2 DEF StartCall, TypeOK
  <2>4. ASSUME NEW e \in Events, Voice(e) PROVE TypeOK'
    <3>1. CASE Enqueue(e, 0, 0)
      BY <2>4, <3>1, EnqueueType DEF Voice, DeviceError, TypeOK
    <3>2. CASE ~Enqueue(e, 0, 0)
      BY <2>4, <3>2 DEF Voice, DeviceError, TypeOK
    <3> QED BY <3>1, <3>2
  <2>5. CASE WaveEvent
    BY <2>5 DEF WaveEvent, TypeOK
  <2>6. CASE Drain
    <3>1. first' \in Slots
      BY <2>6, SuccType DEF Drain, TypeOK
    <3>2. headers' \in [Slots -> Header]
      BY <2>6 DEF Drain, TypeOK, Header, Idle
    <3>3. held' \subseteq Events /\ badFree' \in BOOLEAN
      BY <2>6 DEF Drain, FreeEvent, TypeOK
    <3> QED BY <2>6, <3>1, <3>2, <3>3 DEF Drain, TypeOK
  <2>7. CASE DrainEnd
    BY <2>7 DEF DrainEnd, TypeOK
  <2>8. CASE DrainFails
    BY <2>8 DEF DrainFails, TypeOK
  <2>9. CASE Play
    <3>1. offset' \in Nat
      BY <2>9, BlockType, ToneType DEF Play, TypeOK
    <3>2. /\ first' \in Slots /\ next' \in Slots /\ full' \in BOOLEAN
          /\ headers' \in [Slots -> Header]
      BY <2>9, BlockType, EnqueueType DEF Play, DeviceError, TypeOK
    <3>3. pc' \in {"play", "leave"} /\ failed' \in BOOLEAN
      BY <2>9 DEF Play, DeviceError, TypeOK
    <3> QED BY <2>9, <3>1, <3>2, <3>3 DEF Play, TypeOK
  <2>10. CASE PlayEnd
    BY <2>10 DEF PlayEnd, TypeOK
  <2>11. CASE StopCall \/ FreeWave
    <3>1. headers' \in [Slots -> Header] /\ signalling' \in BOOLEAN
      BY <2>11, ResetType DEF StopCall, FreeWave, StopWave, StopWaveFails, TypeOK
    <3>2. hasLast' \in BOOLEAN /\ lastVol' \in Volumes /\ devVol' \in Volumes
      BY <2>11 DEF StopCall, FreeWave, StopWave, StopWaveFails, RestoreVolume, TypeOK, Volumes
    <3>3. failed' \in BOOLEAN
      BY <2>11 DEF StopCall, FreeWave, StopWave, StopWaveFails, RestoreVolume, TypeOK
    <3>4. /\ pc' \in {"loop", "drain", "play", "leave", "closed"}
          /\ after' \in {"HandleDone", "StopCall", "FreeWave"}
      BY <2>11 DEF StopCall, FreeWave, StopWave, StopWaveFails, TypeOK
    <3> QED BY <2>11, <3>1, <3>2, <3>3, <3>4
            DEF StopCall, FreeWave, StopWave, StopWaveFails, TypeOK
  <2>12. CASE Leave
    BY <2>12 DEF Leave, TypeOK
  <2>13. CASE Closed \/ UNCHANGED vars
    BY <2>13 DEF Closed, vars, TypeOK
  <2> QED
    BY <2>1, <2>2, <2>3, <2>4, <2>5, <2>6, <2>7, <2>8, <2>9, <2>10, <2>11, <2>12, <2>13
    DEF Next, Device, Service
<1> QED BY <1>1, <1>2, PTL DEF Spec

-----------------------------------------------------------------------------
(* The ring *)

(* The ring grows by the header that is enqueued ... *)
LEMMA EnqueueGrows ==
  ASSUME TypeOK, RingExact, ~full,
         NEW user, NEW from, NEW size, Enqueue(user, from, size), NEW i \in Slots
  PROVE  InRing(i)' <=> (InRing(i) \/ i = next)
<1>1. first' = first /\ next' = Succ(next) /\ (full' <=> Succ(next) = first)
  BY DEF Enqueue
<1>2. /\ first \in Slots /\ next \in Slots
      /\ Succ(next) = IF next = Buffers - 1 THEN 0 ELSE next + 1
  BY SuccWraps DEF TypeOK
<1>3. CASE next = Buffers - 1
  BY <1>1, <1>2, <1>3, BuffersAssumption DEF InRing
<1>4. CASE next # Buffers - 1 /\ next + 1 = first
  BY <1>1, <1>2, <1>4, BuffersAssumption DEF InRing
<1>5. CASE next # Buffers - 1 /\ next + 1 # first
  BY <1>1, <1>2, <1>5, BuffersAssumption DEF InRing
<1> QED BY <1>3, <1>4, <1>5

LEMMA EnqueueRing ==
  ASSUME TypeOK, RingExact, ~full,
         NEW user, NEW from, NEW size, Enqueue(user, from, size)
  PROVE  RingExact'
<1>1. /\ \A i \in Slots : headers'[i].state # "idle" <=> (headers[i].state # "idle" \/ i = next)
      /\ first' = first /\ next' = Succ(next) /\ (full' <=> Succ(next) = first)
  BY DEF Enqueue, TypeOK
<1>2. \A i \in Slots : InRing(i)' <=> (InRing(i) \/ i = next)
  BY EnqueueGrows
<1> QED BY <1>1, <1>2 DEF RingExact

(* ... and shrinks by the one that is reclaimed. *)
LEMMA DrainShrinks ==
  ASSUME TypeOK, RingExact, Drain, NEW i \in Slots
  PROVE  InRing(i)' <=> (InRing(i) /\ i # first)
<1>1. first' = Succ(first) /\ next' = next /\ full' = FALSE
  BY DEF Drain
<1>2. /\ first \in Slots /\ next \in Slots
      /\ Succ(first) = IF first = Buffers - 1 THEN 0 ELSE first + 1
      /\ full \/ first # next
      /\ full => first = next
  BY SuccWraps DEF TypeOK, Drain, Empty, RingExact
<1> QED BY <1>1, <1>2, BuffersAssumption DEF InRing

LEMMA DrainRing ==
  ASSUME TypeOK, RingExact, Drain
  PROVE  RingExact'
<1>1. /\ \A i \in Slots : headers'[i].state # "idle" <=> (headers[i].state # "idle" /\ i # first)
      /\ first' = Succ(first) /\ next' = next /\ full' = FALSE
  BY DEF Drain, TypeOK, Idle
<1>2. \A i \in Slots : InRing(i)' <=> (InRing(i) /\ i # first)
  BY DrainShrinks
<1> QED BY <1>1, <1>2 DEF RingExact

(* waveOutReset changes nothing but the state of the queued headers. *)
LEMMA ResetHeaders ==
  ASSUME TypeOK, Reset, NEW i \in Slots
  PROVE  /\ headers'[i].state # "idle" <=> headers[i].state # "idle"
         /\ headers'[i].user = headers[i].user
         /\ headers'[i].from = headers[i].from
         /\ headers'[i].size = headers[i].size
<1>1. headers[i] \in Header
  BY DEF TypeOK
<1>2. headers'[i] = IF headers[i].state = "queued" THEN [headers[i] EXCEPT !.state = "done"]
                                                  ELSE headers[i]
  BY DEF Reset
<1>3. ASSUME NEW h \in Header
      PROVE  LET d == [h EXCEPT !.state = "done"]
             IN d.state = "done" /\ d.user = h.user /\ d.from = h.from /\ d.size = h.size
  BY DEF Header
<1> QED BY <1>1, <1>2, <1>3

(* A step that flags headers as done, or leaves them alone, keeps the ring. *)
LEMMA FlagsRing ==
  ASSUME RingExact, UNCHANGED <<first, next, full>>,
         \A i \in Slots : headers'[i].state # "idle" <=> headers[i].state # "idle"
  PROVE  RingExact'
BY DEF RingExact, InRing

(* FirstPreparedHeader, NextAvailableHeader and NoAvailableHeaders describe
   exactly the headers the driver has been given and not been relieved of. *)
THEOREM RingSafe == Spec => []RingExact
<1>1. Init => RingExact
  BY BuffersAssumption DEF Init, RingExact, InRing, Idle
<1>2. TypeOK /\ RingExact /\ [Next]_vars => RingExact'
  <2> SUFFICES ASSUME TypeOK, RingExact, [Next]_vars PROVE RingExact'
    OBVIOUS
  <2> USE DEF ring
  <2>1. ASSUME NEW i \in Slots, DeviceDone(i) PROVE RingExact'
    BY <2>1, FlagsRing DEF DeviceDone, TypeOK
  <2>2. ASSUME NEW e \in Events, Voice(e) PROVE RingExact'
    <3>1. CASE ~full /\ Enqueue(e, 0, 0)
      BY <3>1, EnqueueRing
    <3>2. CASE UNCHANGED ring
      BY <3>2, FlagsRing
    <3> QED BY <2>2, <3>1, <3>2 DEF Voice
  <2>3. CASE Drain
    BY <2>3, DrainRing
  <2>4. CASE Play
    <3>1. CASE ~full /\ Enqueue(NoEvent, Rewound, BlockLeft)
      BY <3>1, EnqueueRing
    <3>2. CASE UNCHANGED ring
      BY <3>2, FlagsRing
    <3> QED BY <2>4, <3>1, <3>2 DEF Play, MorePlay
  <2>5. CASE StopCall \/ FreeWave
    <3>1. UNCHANGED <<first, next, full>>
      BY <2>5 DEF StopCall, FreeWave, StopWave, StopWaveFails
    <3>2. ASSUME NEW i \in Slots
          PROVE  headers'[i].state # "idle" <=> headers[i].state # "idle"
      BY <2>5, ResetHeaders DEF StopCall, FreeWave, StopWave, StopWaveFails
    <3> QED BY <3>1, <3>2, FlagsRing
  <2>6. CASE DeviceSignal \/ StartCall \/ WaveEvent \/ DrainEnd \/ DrainFails \/ PlayEnd
             \/ Leave \/ Closed \/ UNCHANGED vars
    BY <2>6, FlagsRing
    DEF DeviceSignal, StartCall, WaveEvent, DrainEnd, DrainFails, PlayEnd, Leave, Closed, vars
  <2> QED
    BY <2>1, <2>2, <2>3, <2>4, <2>5, <2>6 DEF Next, Device, Service
<1> QED BY <1>1, <1>2, TypeCorrect, PTL DEF Spec

-----------------------------------------------------------------------------
(* The wake-up *)

(* NoLostCompletion is not inductive: the service also comes back to its loop
   from PlayData, where the condition must hold already. *)
WakeInv ==
  pc \in {"loop", "play"} /\ ~Empty /\ headers[first].state = "done" => event \/ signalling

LEMMA EnqueueWake ==
  ASSUME TypeOK, WakeInv, pc \in {"loop", "play"}, ~full,
         NEW user, NEW from, NEW size, Enqueue(user, from, size),
         UNCHANGED <<pc, event, signalling>>
  PROVE  WakeInv'
<1>1. first = next => headers'[first'].state = "queued"
  BY DEF Enqueue, TypeOK
<1>2. first # next => headers'[first'] = headers[first] /\ ~Empty
  BY DEF Enqueue, TypeOK, Empty
<1> QED BY <1>1, <1>2 DEF WakeInv

(* No completion is lost between the device's two steps and the service's
   reset, look and wait. *)
THEOREM WakeSafe == Spec => []NoLostCompletion
<1>1. Init => WakeInv
  BY DEF Init, WakeInv, Empty
<1>2. TypeOK /\ WakeInv /\ [Next]_vars => WakeInv'
  <2> SUFFICES ASSUME TypeOK, WakeInv, [Next]_vars PROVE WakeInv'
    OBVIOUS
  <2> USE DEF ring
  <2>1. ASSUME NEW i \in Slots, DeviceDone(i) PROVE WakeInv'
    BY <2>1 DEF DeviceDone, WakeInv
  <2>2. ASSUME NEW e \in Events, Voice(e) PROVE WakeInv'
    <3>1. CASE ~full /\ Enqueue(e, 0, 0) /\ pc' = pc
      BY <2>2, <3>1, EnqueueWake DEF Voice
    <3>2. CASE UNCHANGED ring
      BY <2>2, <3>2 DEF Voice, DeviceError, WakeInv, Empty
    <3> QED BY <2>2, <3>1, <3>2 DEF Voice
  <2>3. CASE Play
    <3>1. CASE ~full /\ Enqueue(NoEvent, Rewound, BlockLeft) /\ pc' = pc
      BY <2>3, <3>1, EnqueueWake DEF Play
    <3>2. CASE UNCHANGED ring
      BY <2>3, <3>2 DEF Play, DeviceError, WakeInv, Empty
    <3> QED BY <2>3, <3>1, <3>2 DEF Play, MorePlay
  <2>4. CASE Drain \/ WaveEvent \/ StopCall \/ FreeWave \/ DrainFails \/ Leave
    BY <2>4
    DEF Drain, WaveEvent, StopCall, FreeWave, StopWave, StopWaveFails, DrainFails, Leave, WakeInv
  <2>5. CASE DrainEnd
    BY <2>5 DEF DrainEnd, WakeInv, Empty
  <2>6. CASE DeviceSignal \/ StartCall \/ PlayEnd \/ Closed \/ UNCHANGED vars
    BY <2>6 DEF DeviceSignal, StartCall, PlayEnd, Closed, vars, WakeInv, Empty
  <2> QED
    BY <2>1, <2>2, <2>3, <2>4, <2>5, <2>6 DEF Next, Device, Service
<1>3. WakeInv => NoLostCompletion
  BY DEF WakeInv, NoLostCompletion
<1> QED BY <1>1, <1>2, <1>3, TypeCorrect, PTL DEF Spec

-----------------------------------------------------------------------------
(* Who owns the voice events *)

(* EventsOwned needs to know that an idle header holds no event and a prepared
   one does, unless there is a ring tone: then there are no events at all. *)
OwnedInv ==
  /\ EventsOwned
  /\ pc = "play" => RingTone
  /\ \A i \in Slots :
       headers[i].user # NoEvent <=> headers[i].state # "idle" /\ ~RingTone

(* One event more is enqueued. *)
LEMMA EnqueueOwned ==
  ASSUME TypeOK, RingExact, OwnedInv, ~RingTone, ~full, pc' = pc, wave' = wave,
         NEW e \in Events \ held, Enqueue(e, 0, 0), held' = held \cup {e}, badFree' = badFree
  PROVE  OwnedInv'
<1> USE DEF RingTone
<1>1. next \in Slots /\ headers[next].state = "idle"
  BY DEF TypeOK, RingExact, InRing
<1>2. /\ headers'[next].user = e /\ headers'[next].state = "queued"
      /\ \A i \in Slots \ {next} : headers'[i] = headers[i]
  BY <1>1 DEF Enqueue, TypeOK
<1>3. e # NoEvent /\ \A i \in Slots : headers[i].user # e
  BY NoEventAssumption DEF OwnedInv, EventsOwned
<1>4. headers[next].user = NoEvent
  BY <1>1 DEF OwnedInv
<1>5. EventsOwned'
  <2>1. \A f \in held' : \E i \in Slots : headers'[i].user = f
    BY <1>1, <1>2, <1>3, <1>4, NoEventAssumption DEF OwnedInv, EventsOwned, TypeOK
  <2> QED BY <1>1, <1>2, <1>3, <2>1 DEF OwnedInv, EventsOwned
<1> QED BY <1>1, <1>2, <1>3, <1>5 DEF OwnedInv

(* The head of the ring is drained and its event freed. *)
LEMMA DrainOwned ==
  ASSUME TypeOK, OwnedInv, Drain, wave' = wave
  PROVE  OwnedInv'
<1> USE DEF RingTone
<1>1. /\ first \in Slots /\ headers[first].state = "done" /\ pc' = pc
      /\ \A i \in Slots : headers'[i] = IF i = first THEN Idle ELSE headers[i]
  BY DEF Drain, TypeOK
<1>2. CASE RingTone
  BY <1>1, <1>2 DEF OwnedInv, EventsOwned, Drain, Idle, memory
<1>3. CASE ~RingTone
  <2> DEFINE e == headers[first].user
  <2>1. e # NoEvent /\ e \in held
    BY <1>1, <1>3 DEF OwnedInv, EventsOwned
  <2>2. held' = held \ {e} /\ ~badFree'
    BY <1>3, <2>1 DEF Drain, FreeEvent, OwnedInv, EventsOwned
  <2>3. \A i \in Slots : headers[i].user = e => i = first
    BY <1>1, <2>1 DEF OwnedInv, EventsOwned
  <2> HIDE DEF e
  <2> QED BY <1>1, <1>3, <2>1, <2>2, <2>3 DEF OwnedInv, EventsOwned, Idle
<1> QED BY <1>2, <1>3

(* Every step keeps who owns which event. *)
LEMMA OwnedAlways == Spec => []OwnedInv
<1>1. Init => OwnedInv
  BY DEF Init, OwnedInv, EventsOwned, Idle
<1>2. TypeOK /\ RingExact /\ OwnedInv /\ [Next]_vars => OwnedInv'
  <2> SUFFICES ASSUME TypeOK, RingExact, OwnedInv, [Next]_vars PROVE OwnedInv'
    OBVIOUS
  <2>0. wave' = wave
    BY WaveKept
  <2> USE <2>0 DEF ring, memory, RingTone
  <2>1. ASSUME NEW i \in Slots, DeviceDone(i) PROVE OwnedInv'
    <3>1. \A j \in Slots : /\ headers'[j].user = headers[j].user
                           /\ headers'[j].state # "idle" <=> headers[j].state # "idle"
      BY <2>1 DEF DeviceDone, TypeOK, Header
    <3> QED BY <2>1, <3>1 DEF DeviceDone, OwnedInv, EventsOwned
  <2>2. ASSUME NEW e \in Events, Voice(e) PROVE OwnedInv'
    <3>1. CASE ~full /\ Enqueue(e, 0, 0) /\ held' = held \cup {e} /\ UNCHANGED <<badFree, pc>>
      BY <2>2, <3>1, EnqueueOwned DEF Voice
    <3>2. CASE UNCHANGED <<headers, held, badFree>> /\ pc' \in {pc, "leave"}
      BY <3>2 DEF OwnedInv, EventsOwned
    <3> QED BY <2>2, <3>1, <3>2 DEF Voice, DeviceError
  <2>3. CASE Drain
    BY <2>3, DrainOwned
  <2>4. CASE Play
    <3>1. RingTone /\ UNCHANGED <<held, badFree>>
      BY <2>4 DEF Play, OwnedInv
    <3>2. ASSUME NEW i \in Slots
          PROVE  headers[i].user = NoEvent /\ headers'[i].user = NoEvent
      <4>1. \/ UNCHANGED headers
            \/ headers'[i] = headers[i]
            \/ headers'[i] = [state |-> "queued", user |-> NoEvent,
                             from |-> Rewound, size |-> BlockLeft]
        BY <2>4 DEF Play, Enqueue, TypeOK
      <4> QED BY <3>1, <4>1 DEF OwnedInv
    <3> QED BY <3>1, <3>2 DEF OwnedInv, EventsOwned
  <2>5. CASE StopCall \/ FreeWave
    <3>1. UNCHANGED <<held, badFree>> /\ pc' # "play"
      BY <2>5 DEF StopCall, FreeWave, StopWave, StopWaveFails
    <3>2. \A i \in Slots : /\ headers'[i].user = headers[i].user
                           /\ headers'[i].state # "idle" <=> headers[i].state # "idle"
      BY <2>5, ResetHeaders DEF StopCall, FreeWave, StopWave, StopWaveFails
    <3>3. EventsOwned'
      <4>1. \A e \in held : \E i \in Slots : headers'[i].user = e
        BY <3>2 DEF OwnedInv, EventsOwned
      <4> QED BY <3>1, <3>2, <4>1 DEF OwnedInv, EventsOwned
    <3> QED BY <3>1, <3>2, <3>3 DEF OwnedInv
  <2>6. CASE DeviceSignal \/ StartCall \/ WaveEvent \/ DrainEnd \/ DrainFails \/ PlayEnd
             \/ Leave \/ Closed \/ UNCHANGED vars
    <3>1. UNCHANGED <<headers, held, badFree>> /\ (pc' = "play" => pc = "play" \/ RingTone)
      BY <2>6
      DEF DeviceSignal, StartCall, WaveEvent, DrainEnd, DrainFails, PlayEnd, Leave, Closed, vars
    <3> QED BY <3>1 DEF OwnedInv, EventsOwned
  <2> QED
    BY <2>1, <2>2, <2>3, <2>4, <2>5, <2>6 DEF Next, Device, Service
<1> QED BY <1>1, <1>2, TypeCorrect, RingSafe, PTL DEF Spec

(* Each voice event is owned by one header, and is freed once: when its header
   is reclaimed, after the device is done with it. *)
THEOREM EventsSafe == Spec => []EventsOwned
<1>1. OwnedInv => EventsOwned
  BY DEF OwnedInv
<1> QED BY <1>1, OwnedAlways, PTL

-----------------------------------------------------------------------------
(* The volume and the ring tone *)

VolumeInv ==
  /\ hasLast => lastVol = "user"
  /\ VolumeRecoverable
  /\ ~SetVolume => ~hasLast

(* Every step keeps where the user's volume is. *)
LEMMA VolumeAlways == Spec => []VolumeInv
<1>1. Init => VolumeInv
  BY DEF Init, VolumeInv, VolumeRecoverable
<1>2. TypeOK /\ VolumeInv /\ [Next]_vars => VolumeInv'
  <2> SUFFICES ASSUME TypeOK, VolumeInv, [Next]_vars PROVE VolumeInv'
    OBVIOUS
  <2>0. wave' = wave
    BY WaveKept
  <2> USE <2>0 DEF SetVolume
  <2>1. CASE UNCHANGED volume
    BY <2>1 DEF volume, VolumeInv, VolumeRecoverable
  <2>2. CASE StartCall
    BY <2>2 DEF StartCall, RaiseVolume, volume, VolumeInv, VolumeRecoverable, TypeOK, Volumes
  <2>3. CASE StopCall \/ FreeWave
    BY <2>3 DEF StopCall, FreeWave, StopWave, StopWaveFails, RestoreVolume, volume,
                VolumeInv, VolumeRecoverable
  <2>4. (\E i \in Slots : DeviceDone(i)) => UNCHANGED volume
    BY DEF DeviceDone
  <2>5. (\E e \in Events : Voice(e)) => UNCHANGED volume
    BY DEF Voice
  <2>6. DeviceSignal \/ WaveEvent \/ Drain \/ DrainEnd \/ DrainFails \/ Play \/ PlayEnd
        \/ Leave \/ Closed \/ UNCHANGED vars => UNCHANGED volume
    BY DEF DeviceSignal, WaveEvent, Drain, DrainEnd, DrainFails, Play, PlayEnd, Leave, Closed, vars
  <2> QED
    BY <2>1, <2>2, <2>3, <2>4, <2>5, <2>6 DEF Next, Device, Service
<1> QED BY <1>1, <1>2, TypeCorrect, PTL DEF Spec

(* Whatever volume call fails, the user's volume is on the device or is
   remembered: a later StartWave never overwrites it with the pager's. *)
THEOREM VolumeSafe == Spec => []VolumeRecoverable
<1>1. VolumeInv => VolumeRecoverable
  BY DEF VolumeInv
<1> QED BY <1>1, VolumeAlways, PTL

(* NextBlockOffset is zero (stopped) or inside or behind the data. *)
ToneInv ==
  /\ offset = 0 \/ offset >= StartOffset
  /\ pc = "play" => RingTone /\ offset >= StartOffset
  /\ \A i \in Slots : RingTone /\ headers[i].state # "idle" =>
       StartOffset <= headers[i].from /\ headers[i].from + headers[i].size <= EndOffset

(* The block PlayData hands out next lies inside the data chunk. *)
LEMMA BlockInside ==
  ASSUME TypeOK, offset >= StartOffset
  PROVE  StartOffset <= Rewound /\ Rewound + BlockLeft <= EndOffset
BY ToneType DEF TypeOK, Rewound, BlockLeft

(* Every step keeps the blocks inside the tone. *)
LEMMA ToneAlways == Spec => []ToneInv
<1>1. Init => ToneInv
  BY DEF Init, ToneInv, Idle
<1>2. TypeOK /\ ToneInv /\ [Next]_vars => ToneInv'
  <2> SUFFICES ASSUME TypeOK, ToneInv, [Next]_vars PROVE ToneInv'
    OBVIOUS
  <2>0. wave' = wave
    BY WaveKept
  <2> USE <2>0 DEF ring, RingTone, StartOffset, EndOffset
  <2>1. ASSUME NEW i \in Slots, DeviceDone(i) PROVE ToneInv'
    <3>1. ASSUME NEW j \in Slots
          PROVE  /\ headers'[j].from = headers[j].from /\ headers'[j].size = headers[j].size
                 /\ headers'[j].state # "idle" <=> headers[j].state # "idle"
      BY <2>1 DEF DeviceDone, TypeOK, Header
    <3> QED BY <2>1, <3>1 DEF DeviceDone, ToneInv
  <2>2. ASSUME NEW e \in Events, Voice(e) PROVE ToneInv'
    <3>1. ~RingTone /\ offset' = offset /\ pc' # "play"
      BY <2>2 DEF Voice, DeviceError
    <3> QED BY <3>1 DEF ToneInv
  <2>3. CASE StartCall
    BY <2>3, ToneType DEF StartCall, ToneInv, TypeOK
  <2>4. CASE Drain
    <3>1. \A j \in Slots : headers'[j] = headers[j] \/ headers'[j] = Idle
      BY <2>4 DEF Drain, TypeOK
    <3> QED BY <2>4, <3>1 DEF Drain, ToneInv, Idle
  <2>5. CASE Play
    <3>1. RingTone /\ offset >= StartOffset /\ pc' \in {pc, "leave"}
      BY <2>5 DEF Play, ToneInv, DeviceError
    <3>2. offset' >= StartOffset
      BY <2>5, <3>1, BlockInside, BlockType, ToneType DEF Play, TypeOK
    <3>3. ASSUME NEW j \in Slots, headers'[j].state # "idle"
          PROVE  StartOffset <= headers'[j].from /\ headers'[j].from + headers'[j].size <= EndOffset
      <4>1. \/ headers'[j] = headers[j]
            \/ headers'[j] = [state |-> "queued", user |-> NoEvent,
                              from |-> Rewound, size |-> BlockLeft]
        BY <2>5 DEF Play, Enqueue, TypeOK
      <4> QED BY <3>1, <3>3, <4>1, BlockInside DEF ToneInv
    <3> QED BY <3>1, <3>2, <3>3 DEF ToneInv
  <2>6. CASE StopCall \/ FreeWave
    <3>1. ASSUME NEW j \in Slots
          PROVE  /\ headers'[j].from = headers[j].from /\ headers'[j].size = headers[j].size
                 /\ headers'[j].state # "idle" <=> headers[j].state # "idle"
      BY <2>6, ResetHeaders DEF StopCall, FreeWave, StopWave, StopWaveFails
    <3>2. offset' \in {0, offset} /\ pc' # "play"
      BY <2>6 DEF StopCall, FreeWave, StopWave, StopWaveFails
    <3> QED BY <3>1, <3>2 DEF ToneInv
  <2>7. CASE DrainEnd
    BY <2>7 DEF DrainEnd, ToneInv
  <2>8. CASE DeviceSignal \/ WaveEvent \/ DrainFails \/ PlayEnd
             \/ Leave \/ Closed \/ UNCHANGED vars
    BY <2>8 DEF DeviceSignal, WaveEvent, DrainFails, PlayEnd, Leave, Closed, vars, ToneInv
  <2> QED
    BY <2>1, <2>2, <2>3, <2>4, <2>5, <2>6, <2>7, <2>8 DEF Next, Device, Service
<1> QED BY <1>1, <1>2, TypeCorrect, PTL DEF Spec

(* The device never reads outside the mapped tone, for every length of the
   data chunk and every block size: the last block is cut exactly. *)
THEOREM ToneSafe == Spec => []BlocksInsideTone
<1>1. ToneInv => BlocksInsideTone
  BY DEF ToneInv, BlocksInsideTone
<1> QED BY <1>1, ToneAlways, PTL

-----------------------------------------------------------------------------
(* The end of a call and of the service *)

(* StopWave took every header back from the device and the volume with it, if
   no waveOut call failed; when the drain is over nothing is held. *)
Stopped == devVol = "user" /\ \A i \in Slots : headers[i].state # "queued"
StopInv ==
  /\ pc = "drain" /\ after # "HandleDone" /\ ~failed => Stopped
  /\ CleanExit

(* An empty ring holds no event. *)
LEMMA EmptyHoldsNothing ==
  ASSUME RingExact, OwnedInv, TypeOK, Empty
  PROVE  held = {}
<1>1. \A i \in Slots : ~InRing(i)
  BY DEF Empty, InRing, TypeOK
<1>2. \A i \in Slots : headers[i].user = NoEvent
  BY <1>1 DEF RingExact, OwnedInv
<1>3. \A e \in held : e \in Events
  BY DEF TypeOK
<1> QED
  BY <1>2, <1>3, NoEventAssumption DEF OwnedInv, EventsOwned

(* Where the drain stops after waveOutReset, the ring is empty. *)
LEMMA DrainedEmpty ==
  ASSUME RingExact, TypeOK, Empty \/ headers[first].state # "done",
         \A i \in Slots : headers[i].state # "queued"
  PROVE  Empty
<1>1. ~Empty => InRing(first)
  BY DEF Empty, InRing, TypeOK
<1>2. ~Empty => headers[first].state \in {"queued", "done"}
  BY <1>1 DEF RingExact, TypeOK, Header
<1> QED BY <1>2 DEF TypeOK

(* waveOutReset leaves no header queued. *)
LEMMA ResetReturns ==
  ASSUME TypeOK, Reset, NEW i \in Slots
  PROVE  headers'[i].state # "queued"
<1>1. headers[i] \in Header
  BY DEF TypeOK
<1>2. headers'[i] = IF headers[i].state = "queued" THEN [headers[i] EXCEPT !.state = "done"]
                                                  ELSE headers[i]
  BY DEF Reset
<1> QED BY <1>1, <1>2 DEF Header

(* The service that meets no failing waveOut call leaves no event, no header and
   not the pager's volume behind, whenever it is told to stop. *)
THEOREM ExitSafe == Spec => []CleanExit
<1>1. Init => StopInv
  BY DEF Init, StopInv, CleanExit
<1>2. TypeOK /\ RingExact /\ OwnedInv /\ VolumeInv /\ StopInv /\ [Next]_vars => StopInv'
  <2> SUFFICES ASSUME TypeOK, RingExact, OwnedInv, VolumeInv, StopInv, [Next]_vars
               PROVE  StopInv'
    OBVIOUS
  <2> USE DEF ring, volume, memory
  <2>1. ASSUME NEW i \in Slots, DeviceDone(i) PROVE StopInv'
    <3>1. \A j \in Slots : headers'[j].state = "queued" => headers[j].state = "queued"
      BY <2>1 DEF DeviceDone, TypeOK, Header
    <3> QED BY <2>1, <3>1 DEF DeviceDone, StopInv, Stopped, CleanExit, Empty
  <2>2. ASSUME NEW e \in Events, Voice(e) PROVE StopInv'
    <3>1. pc' \notin {"drain", "closed"}
      BY <2>2 DEF Voice, DeviceError
    <3> QED BY <3>1 DEF StopInv, CleanExit
  <2>3. CASE StartCall \/ WaveEvent \/ Play \/ PlayEnd \/ Leave
    <3>1. pc' # "closed" /\ (pc' = "drain" => after' = "HandleDone")
      BY <2>3 DEF StartCall, WaveEvent, Play, DeviceError, PlayEnd, Leave
    <3> QED BY <3>1 DEF StopInv, CleanExit
  <2>4. CASE Drain
    <3>1. \A j \in Slots : headers'[j].state = "queued" => headers[j].state = "queued"
      BY <2>4 DEF Drain, TypeOK, Idle
    <3> QED BY <2>4, <3>1 DEF Drain, StopInv, Stopped, CleanExit
  <2>5. CASE DrainEnd
    <3>1. ASSUME pc' = "closed", ~failed'
          PROVE  held' = {} /\ Empty' /\ devVol' = "user"
      <4>1. Stopped /\ (Empty \/ headers[first].state # "done")
        BY <2>5, <3>1 DEF DrainEnd, StopInv
      <4>2. Empty
        BY <4>1, DrainedEmpty DEF Stopped
      <4>3. held = {}
        BY <4>2, EmptyHoldsNothing
      <4> QED BY <2>5, <4>1, <4>2, <4>3 DEF DrainEnd, Stopped, Empty
    <3>2. pc' # "drain"
      BY <2>5 DEF DrainEnd
    <3> QED BY <3>1, <3>2 DEF StopInv, CleanExit
  <2>6. CASE DrainFails
    BY <2>6 DEF DrainFails, StopInv, CleanExit
  <2>7. ASSUME NEW who, StopWave(who) PROVE StopInv'
    <3>1. ~failed' => devVol' = "user"
      BY <2>7 DEF StopWave, RestoreVolume, VolumeInv, VolumeRecoverable, TypeOK, Volumes
    <3>2. \A i \in Slots : headers'[i].state # "queued"
      BY <2>7, ResetReturns DEF StopWave
    <3>3. pc' = "drain"
      BY <2>7 DEF StopWave
    <3> QED BY <3>1, <3>2, <3>3 DEF StopInv, Stopped, CleanExit
  <2>8. ASSUME NEW then \in {"leave", "closed"}, StopWaveFails(then) PROVE StopInv'
    BY <2>8 DEF StopWaveFails, StopInv, CleanExit
  <2>9. CASE StopCall \/ FreeWave
    BY <2>7, <2>8, <2>9 DEF StopCall, FreeWave
  <2>10. CASE DeviceSignal \/ Closed \/ UNCHANGED vars
    BY <2>10 DEF DeviceSignal, Closed, vars, StopInv, Stopped, CleanExit, Empty
  <2> QED
    BY <2>1, <2>2, <2>3, <2>4, <2>5, <2>6, <2>9, <2>10 DEF Next, Device, Service
<1>3. StopInv => CleanExit
  BY DEF StopInv
<1> QED
  BY <1>1, <1>2, <1>3, TypeCorrect, RingSafe, OwnedAlways, VolumeAlways, PTL DEF Spec

-----------------------------------------------------------------------------
(* The tone without a gap *)

(* the service is in its loop or in HandleDoneWaveHeaders, on its way there *)
Serving == pc \in {"loop", "play"} \/ (pc = "drain" /\ after = "HandleDone")

(* NextBlockOffset is where the newest header's block ends.  A PlayData that
   fails breaks this, and the service leaves. *)
Continued ==
  offset # 0 /\ pc \notin {"leave", "closed"} =>
    \A p \in Slots : InRing(p) /\ Succ(p) = next =>
      headers[p].from + headers[p].size = IF offset >= EndOffset THEN EndOffset ELSE offset

(* ToneContinuous is not inductive: the next block is appended by its offset,
   not by what the newest header holds, and a call must start from an empty ring
   or its first block would follow the last one of the call before.  StopWave
   sees to that in two steps, the reset and the drain. *)
ToneCall ==
  /\ inCall /\ Serving => offset # 0
  /\ ~inCall /\ Serving => pc # "play" /\ offset = 0 /\ Empty
  /\ pc = "drain" /\ after # "HandleDone" =>
       offset = 0 /\ \A i \in Slots : headers[i].state # "queued"
  /\ PlayLoop /\ pc = "loop" /\ inCall => full
ChainInv == RingTone => Consecutive /\ Continued /\ ToneCall

(* Different headers have different successors. *)
LEMMA SuccInjective ==
  ASSUME NEW i \in Slots, NEW j \in Slots, Succ(i) = Succ(j)
  PROVE  i = j
BY SuccWraps, BuffersAssumption

(* A ring that is not full ends before next, and what follows is its head, or
   next itself if there is one header only. *)
LEMMA NextIsFree ==
  ASSUME TypeOK, ~full
  PROVE  /\ ~InRing(next)
         /\ InRing(Succ(next)) \/ Succ(next) = next => Succ(next) = first
BY SuccWraps, BuffersAssumption DEF TypeOK, InRing

(* A step that leaves the ring and what its headers hold alone keeps the order
   of the blocks. *)
LEMMA BlocksKept ==
  ASSUME Consecutive, wave' = wave, UNCHANGED <<first, next, full>>,
         \A i \in Slots : headers'[i].from = headers[i].from /\ headers'[i].size = headers[i].size
  PROVE  Consecutive'
<1>1. \A i \in Slots : InRing(i)' <=> InRing(i)
  BY DEF InRing
<1>2. \A i \in Slots : Succ(i) \in Slots
  BY SuccType
<1> QED BY <1>1, <1>2 DEF Consecutive, EndOffset, StartOffset, PlayLoop

(* ... and where the newest one ends. *)
LEMMA EndKept ==
  ASSUME Continued, wave' = wave, UNCHANGED <<first, next, full>>,
         \A i \in Slots : headers'[i].from = headers[i].from /\ headers'[i].size = headers[i].size,
         offset' = offset \/ offset' = 0 \/ pc' \in {"leave", "closed"},
         pc' \in {"leave", "closed"} \/ pc \notin {"leave", "closed"} \/ offset' = 0
  PROVE  Continued'
<1>1. \A i \in Slots : InRing(i)' <=> InRing(i)
  BY DEF InRing
<1> QED BY <1>1 DEF Continued, EndOffset

(* The block PlayData enqueues continues the newest one, or starts the tone
   again where that ended it. *)
LEMMA PlayContinues ==
  ASSUME TypeOK, RingExact, ToneInv, Consecutive, Continued, wave' = wave,
         pc = "play", MorePlay, offset' = Rewound + BlockSize,
         Enqueue(NoEvent, Rewound, BlockLeft)
  PROVE  Consecutive' /\ Continued'
<1> DEFINE from == Rewound
           size == BlockLeft
<1>0. /\ ~full /\ (offset >= EndOffset => PlayLoop)
      /\ offset # 0 /\ offset \in Nat
  BY ToneType DEF MorePlay, ToneInv, TypeOK
<1>1. /\ StartOffset \in Nat \ {0} /\ EndOffset \in Nat /\ BlockSize \in Nat \ {0}
      /\ StartOffset <= EndOffset
  BY ToneType DEF TypeOK
<1>2. /\ from \in Nat /\ size \in Nat
      /\ from = IF offset >= EndOffset THEN StartOffset ELSE offset
      /\ from + size = IF offset' >= EndOffset THEN EndOffset ELSE offset'
  BY <1>0, <1>1, BlockType DEF Rewound, BlockLeft
<1>3. /\ EndOffset' = EndOffset /\ StartOffset' = StartOffset /\ PlayLoop' = PlayLoop
  BY DEF EndOffset, StartOffset, PlayLoop
<1>4. /\ headers'[next].from = from /\ headers'[next].size = size
      /\ next \in Slots /\ first' = first /\ next' = Succ(next)
      /\ \A i \in Slots : i # next => headers'[i] = headers[i]
  BY DEF Enqueue, TypeOK
<1> HIDE DEF from, size
<1>5. \A i \in Slots : InRing(i)' <=> (InRing(i) \/ i = next)
  BY <1>0, EnqueueGrows
<1>6. Consecutive'
  <2> SUFFICES ASSUME NEW i \in Slots, NEW j \in Slots, j = Succ(i),
                      InRing(i)', InRing(j)', j # first
               PROVE  IF headers'[i].from + headers'[i].size = EndOffset
                      THEN PlayLoop /\ headers'[j].from = StartOffset
                      ELSE headers'[j].from = headers'[i].from + headers'[i].size
    BY <1>3, <1>4, SuccType DEF Consecutive
  <2>1. i # next
    BY <1>0, <1>4, <1>5, NextIsFree
  <2>2. CASE j = next
    <3>1. headers[i].from + headers[i].size = IF offset >= EndOffset THEN EndOffset ELSE offset
      BY <1>0, <1>5, <2>1, <2>2 DEF Continued
    <3> QED BY <1>0, <1>1, <1>2, <1>4, <2>1, <2>2, <3>1
  <2>3. CASE j # next
    BY <1>4, <1>5, <2>1, <2>3 DEF Consecutive
  <2> QED BY <2>2, <2>3
<1>7. Continued'
  <2> SUFFICES ASSUME NEW p \in Slots, Succ(p) = next'
               PROVE  headers'[p].from + headers'[p].size
                        = IF offset' >= EndOffset THEN EndOffset ELSE offset'
    BY <1>3 DEF Continued
  <2>1. p = next
    BY <1>4, SuccInjective
  <2> QED BY <1>2, <1>4, <2>1
<1> QED BY <1>6, <1>7

(* A drain reclaims the oldest block. *)
LEMMA DrainKeepsOrder ==
  ASSUME TypeOK, RingExact, Consecutive, Continued, Drain, wave' = wave
  PROVE  Consecutive' /\ Continued'
<1>1. /\ next' = next /\ first' = Succ(first) /\ offset' = offset /\ pc' = pc
      /\ \A i \in Slots : i # first => headers'[i] = headers[i]
  BY DEF Drain, TypeOK
<1>2. \A i \in Slots : InRing(i)' <=> (InRing(i) /\ i # first)
  BY DrainShrinks
<1>3. \A i \in Slots : Succ(i) \in Slots
  BY SuccType
<1> USE DEF EndOffset, StartOffset, PlayLoop
<1>4. Consecutive'
  BY <1>1, <1>2, <1>3 DEF Consecutive
<1>5. Continued'
  BY <1>1, <1>2 DEF Continued
<1> QED BY <1>4, <1>5

(* A ring tone is heard without a gap, block after block and round after round,
   in every call, and a looped one keeps the whole ring with the device. *)
THEOREM ContinuousSafe == Spec => []ToneContinuous
<1>1. Init => ChainInv
  <2> SUFFICES ASSUME Init PROVE ChainInv
    OBVIOUS
  <2>1. ~full /\ first = next /\ offset = 0 /\ ~inCall /\ pc = "loop"
    BY DEF Init
  <2>2. \A i \in Slots : ~InRing(i)
    BY <2>1, BuffersAssumption DEF Init, InRing
  <2> QED BY <2>1, <2>2 DEF ChainInv, Consecutive, Continued, ToneCall, Empty
<1>2. TypeOK /\ RingExact /\ ToneInv /\ ChainInv /\ [Next]_vars => ChainInv'
  <2> SUFFICES ASSUME TypeOK, RingExact, ToneInv, ChainInv, [Next]_vars
               PROVE  ChainInv'
    OBVIOUS
  <2>0. wave' = wave
    BY WaveKept
  <2> SUFFICES ASSUME RingTone
               PROVE  (Consecutive /\ Continued /\ ToneCall)'
    BY <2>0 DEF ChainInv, RingTone
  <2>a. Consecutive /\ Continued /\ ToneCall
    BY DEF ChainInv
  <2> USE <2>0 DEF ring, RingTone, PlayLoop
  <2>1. ASSUME NEW i \in Slots, DeviceDone(i) PROVE (Consecutive /\ Continued /\ ToneCall)'
    <3>1. \A j \in Slots : /\ headers'[j].from = headers[j].from
                           /\ headers'[j].size = headers[j].size
                           /\ headers'[j].state = "queued" => headers[j].state = "queued"
      BY <2>1 DEF DeviceDone, TypeOK, Header
    <3>2. UNCHANGED <<first, next, full, offset, pc, after, inCall>>
      BY <2>1 DEF DeviceDone
    <3>3. Consecutive'
      BY <2>a, <3>1, <3>2, BlocksKept
    <3>4. Continued'
      BY <2>a, <3>1, <3>2, EndKept
    <3>5. ToneCall'
      BY <2>a, <3>1, <3>2 DEF ToneCall, Serving, Empty
    <3> QED BY <3>3, <3>4, <3>5
  <2>3. CASE StartCall
    <3>1. UNCHANGED <<first, next, full, headers, after>> /\ pc' = "play" /\ inCall'
          /\ offset' = StartOffset /\ StartOffset # 0 /\ pc = "loop" /\ ~inCall
      BY <2>3, ToneType DEF StartCall, TypeOK
    <3>2. Consecutive'
      BY <2>a, <3>1, BlocksKept
    <3>3. Empty
      BY <2>a, <3>1 DEF ToneCall, Serving
    <3>4. \A i \in Slots : ~InRing(i)'
      BY <3>1, <3>3 DEF Empty, InRing, TypeOK
    <3>5. Continued'
      BY <3>4 DEF Continued
    <3>6. ToneCall'
      BY <3>1 DEF ToneCall
    <3> QED BY <3>2, <3>5, <3>6
  <2>4. CASE WaveEvent \/ DrainFails \/ PlayEnd \/ Leave
             \/ DeviceSignal \/ Closed \/ UNCHANGED vars
    <3>1. UNCHANGED <<first, next, full, headers, offset, inCall>>
      BY <2>4 DEF WaveEvent, DrainFails, PlayEnd, Leave, DeviceSignal, Closed, vars
    <3>2. pc' \in {"leave", "closed"} \/ pc \notin {"leave", "closed"}
      BY <2>4 DEF WaveEvent, DrainFails, PlayEnd, Leave, DeviceSignal, Closed, vars
    <3>3. Consecutive'
      BY <2>a, <3>1, BlocksKept
    <3>4. Continued'
      BY <2>a, <3>1, <3>2, EndKept
    <3>5. CASE WaveEvent
      <4>1. pc = "loop" /\ pc' = "drain" /\ after' = "HandleDone"
        BY <3>5 DEF WaveEvent
      <4> QED BY <2>a, <3>1, <3>3, <3>4, <4>1 DEF ToneCall, Serving, Empty
    <3>6. CASE PlayEnd
      <4>1. pc = "play" /\ pc' = "loop" /\ ~MorePlay
        BY <3>6 DEF PlayEnd
      <4>2. PlayLoop => full
        BY <4>1 DEF MorePlay
      <4> QED BY <2>a, <3>1, <3>3, <3>4, <4>1, <4>2 DEF ToneCall, Serving, Empty
    <3>7. CASE DrainFails \/ Leave
      <4>1. pc' \in {"leave", "closed"}
        BY <3>7 DEF DrainFails, Leave
      <4> QED BY <3>3, <3>4, <4>1 DEF ToneCall, Serving
    <3>8. CASE DeviceSignal \/ Closed \/ UNCHANGED vars
      <4>1. pc' = pc /\ after' = after
        BY <3>8 DEF DeviceSignal, Closed, vars
      <4> QED BY <2>a, <3>1, <3>3, <3>4, <4>1 DEF ToneCall, Serving, Empty
    <3> QED BY <2>4, <3>5, <3>6, <3>7, <3>8
  <2>5. CASE Drain
    <3>1. Consecutive' /\ Continued'
      BY <2>5, <2>a, DrainKeepsOrder
    <3>2. pc = "drain" /\ ~Empty /\ UNCHANGED <<pc, after, offset, inCall>>
      BY <2>5 DEF Drain
    <3>3. \A i \in Slots : headers'[i].state = "queued" => headers[i].state = "queued"
      BY <2>5 DEF Drain, TypeOK, Idle
    <3> QED BY <2>a, <3>1, <3>2, <3>3 DEF ToneCall, Serving
  <2>6. CASE DrainEnd
    <3>1. /\ UNCHANGED <<first, next, full, headers, offset, after>> /\ pc = "drain"
          /\ Empty \/ headers[first].state # "done"
          /\ \/ after = "HandleDone" /\ offset = 0 /\ pc' = "loop" /\ inCall' = inCall
             \/ after = "HandleDone" /\ offset # 0 /\ pc' = "play" /\ inCall' = inCall
             \/ after = "StopCall" /\ pc' = "loop" /\ inCall' = FALSE
             \/ after = "FreeWave" /\ pc' = "closed" /\ inCall' = inCall
      BY <2>6 DEF DrainEnd
    <3>2. Consecutive'
      BY <2>a, <3>1, BlocksKept
    <3>3. Continued'
      BY <2>a, <3>1, EndKept
    <3>4. after # "HandleDone" => offset = 0 /\ Empty
      BY <2>a, <3>1, DrainedEmpty DEF ToneCall
    <3>5. ToneCall'
      BY <2>a, <3>1, <3>4 DEF ToneCall, Serving, Empty
    <3> QED BY <3>2, <3>3, <3>5
  <2>7. CASE Play
    <3>1. CASE Enqueue(NoEvent, Rewound, BlockLeft) /\ pc' = pc
      <4>1. pc = "play" /\ MorePlay /\ offset' = Rewound + BlockSize
            /\ UNCHANGED <<inCall, after>>
        BY <2>7 DEF Play
      <4>2. Consecutive' /\ Continued'
        BY <2>a, <3>1, <4>1, PlayContinues
      <4>3. offset' # 0
        BY <4>1, BlockType, ToneType DEF TypeOK
      <4>4. inCall
        BY <2>a, <4>1 DEF ToneCall, Serving
      <4> QED BY <3>1, <4>1, <4>2, <4>3, <4>4 DEF ToneCall, Serving
    <3>2. CASE UNCHANGED ring /\ pc' = "leave"
      <4>1. Consecutive'
        BY <2>a, <3>2, BlocksKept
      <4> QED BY <3>2, <4>1 DEF Continued, ToneCall, Serving
    <3> QED BY <2>7, <3>1, <3>2 DEF Play, DeviceError
  <2>8. ASSUME NEW who \in {"StopCall", "FreeWave"}, StopWave(who)
        PROVE  (Consecutive /\ Continued /\ ToneCall)'
    <3>1. UNCHANGED <<first, next, full>> /\ offset' = 0 /\ pc' = "drain" /\ after' = who
      BY <2>8 DEF StopWave
    <3>2. Reset
      BY <2>8 DEF StopWave
    <3>3. \A i \in Slots : /\ headers'[i].from = headers[i].from
                           /\ headers'[i].size = headers[i].size
                           /\ headers'[i].state # "queued"
      BY <3>2, ResetHeaders, ResetReturns
    <3>4. Consecutive'
      BY <2>a, <3>1, <3>3, BlocksKept
    <3> QED BY <3>1, <3>3, <3>4 DEF Continued, ToneCall, Serving
  <2>9. ASSUME NEW then \in {"leave", "closed"}, StopWaveFails(then)
        PROVE  (Consecutive /\ Continued /\ ToneCall)'
    <3>1. UNCHANGED <<first, next, full, headers>> /\ pc' \in {"leave", "closed"}
      BY <2>9 DEF StopWaveFails
    <3>2. Consecutive'
      BY <2>a, <3>1, BlocksKept
    <3> QED BY <3>1, <3>2 DEF Continued, ToneCall, Serving
  <2>10. CASE StopCall \/ FreeWave
    BY <2>8, <2>9, <2>10 DEF StopCall, FreeWave
  <2>2. ~(\E e \in Events : Voice(e))
    BY DEF Voice
  <2> QED
    BY <2>1, <2>3, <2>4, <2>5, <2>6, <2>7, <2>10, <2>2 DEF Next, Device, Service
<1>3. ChainInv => ToneContinuous
  BY DEF ChainInv, ToneCall, ToneContinuous
<1> QED
  BY <1>1, <1>2, <1>3, TypeCorrect, RingSafe, ToneAlways, PTL DEF Spec

=============================================================================
