-------------------------------- MODULE Wave --------------------------------
(***************************************************************************)
(* The audio output: src/wave.c with the part of main.c's service loop      *)
(* that drives it.  Two threads share the wave headers: the service loop,   *)
(* which enqueues and reclaims them, and the audio device, which flags a    *)
(* header WHDR_DONE and, a moment later, sets the wave event.  What the     *)
(* service does in one call without looking at a flag the device writes is  *)
(* one action; the loops of InternalHandleDoneWaveHeaders and PlayData take *)
(* one action per round, so the device runs in between.                     *)
(***************************************************************************)
EXTENDS Naturals

CONSTANTS Buffers,      \* WAVE_BUFFERS, the number of headers
          Events,       \* the memory the voice events (struct iax_event) use
          NoEvent,      \* a NULL dwUser
          Waves,        \* what InitWave may leave in the structure: see wave
          DeviceFails   \* may a waveOut call report an error?

ASSUME BuffersAssumption == Buffers \in Nat \ {0}
ASSUME NoEventAssumption == NoEvent \notin Events
ASSUME WavesAssumption ==
  /\ Waves \subseteq [ringTone : BOOLEAN, playLoop : BOOLEAN, setVolume : BOOLEAN,
                     start : Nat \ {0}, end : Nat, block : Nat \ {0}]
  /\ \A w \in Waves : w.start <= w.end
  /\ DeviceFails \in BOOLEAN

VARIABLES
  wave,      \* the fields that InitWave sets and nothing changes
  first,     \* wave->FirstPreparedHeader
  next,      \* wave->NextAvailableHeader
  full,      \* wave->NoAvailableHeaders
  headers,   \* wave->Headers: driver state, dwUser, and the block in the tone
  offset,    \* wave->NextBlockOffset
  hasLast,   \* wave->HasLastVolume
  lastVol,   \* wave->LastVolume
  devVol,    \* the volume the device is set to
  event,     \* is the wave event set?
  signalling,\* the device flagged a header but has not set the event yet
  pc,        \* where the service thread is
  after,     \* which caller of InternalHandleDoneWaveHeaders is running
  inCall,    \* session != NULL in main.c
  held,      \* events the library handed out and nobody freed
  badFree,   \* an event was freed that was not held
  failed     \* a waveOut call has failed

ring == <<first, next, full, headers>>
volume == <<hasLast, lastVol, devVol>>
memory == <<held, badFree>>
vars == <<wave, ring, offset, volume, event, signalling, pc, after, inCall, memory, failed>>

RingTone == wave.ringTone      \* wave->Data # NULL: a ring tone is configured
PlayLoop == wave.playLoop      \* Settings->PlayLoop
SetVolume == wave.setVolume    \* Settings->Volume > -1
StartOffset == wave.start      \* the tone's data chunk in its file
EndOffset == wave.end
BlockSize == wave.block

Slots == 0 .. Buffers - 1
Volumes == {"user", "pager"}
Header == [state : {"idle", "queued", "done"}, user : Events \cup {NoEvent},
           from : Nat, size : Nat]
Idle == [state |-> "idle", user |-> NoEvent, from |-> 0, size |-> 0]

TypeOK ==
  /\ wave \in Waves
  /\ first \in Slots /\ next \in Slots /\ full \in BOOLEAN
  /\ headers \in [Slots -> Header]
  /\ offset \in Nat
  /\ hasLast \in BOOLEAN /\ lastVol \in Volumes /\ devVol \in Volumes
  /\ event \in BOOLEAN /\ signalling \in BOOLEAN
  /\ pc \in {"loop", "drain", "play", "leave", "closed"}
  /\ after \in {"HandleDone", "StopCall", "FreeWave"}
  /\ inCall \in BOOLEAN
  /\ held \subseteq Events /\ badFree \in BOOLEAN
  /\ failed \in BOOLEAN

Init ==
  /\ wave \in Waves
  /\ first = 0 /\ next = 0 /\ full = FALSE
  /\ headers = [i \in Slots |-> Idle]
  /\ offset = 0
  /\ hasLast = FALSE /\ lastVol = "user" /\ devVol = "user"
  /\ event = FALSE /\ signalling = FALSE
  /\ pc = "loop" /\ after = "HandleDone" /\ inCall = FALSE
  /\ held = {} /\ badFree = FALSE
  /\ failed = FALSE

-----------------------------------------------------------------------------
(* Operators *)

\* mutant: the index does not wrap
SuccPastEnd(i) == i + 1

Succ(i) == (i + 1) % Buffers

Empty == ~full /\ first = next

(* HeaderDone, the callback: iax_event_free on the header's user data *)
FreeEvent(e) ==
  /\ held' = held \ {e}
  /\ badFree' = (badFree \/ e \notin held)

(* a waveOut call fails: every caller gives up and main.c goes to LEAVE *)
DeviceError ==
  /\ DeviceFails
  /\ failed' = TRUE
  /\ pc' = "leave"

\* mutant: NoAvailableHeaders is never set
EnqueueNeverFull(user, from, size) ==
  /\ headers' = [headers EXCEPT ![next] =
                   [state |-> "queued", user |-> user, from |-> from, size |-> size]]
  /\ next' = Succ(next)
  /\ UNCHANGED <<full, first>>

(* InternalEnqueueWaveHeader succeeds *)
Enqueue(user, from, size) ==
  /\ headers' = [headers EXCEPT ![next] =
                   [state |-> "queued", user |-> user, from |-> from, size |-> size]]
  /\ next' = Succ(next)
  /\ full' = (Succ(next) = first)
  /\ UNCHANGED first

-----------------------------------------------------------------------------
(* The device *)

(* WHDR_DONE appears in a header ... *)
DeviceDone(i) ==
  /\ headers[i].state = "queued"
  /\ headers' = [headers EXCEPT ![i].state = "done"]
  /\ signalling' = TRUE
  /\ UNCHANGED <<wave, first, next, full, offset, volume, event, pc, after, inCall, memory, failed>>

(* ... and then the event is set (CALLBACK_EVENT) *)
DeviceSignal ==
  /\ signalling
  /\ signalling' = FALSE
  /\ event' = TRUE
  /\ UNCHANGED <<wave, ring, offset, volume, pc, after, inCall, memory, failed>>

-----------------------------------------------------------------------------
(* The service loop *)

\* mutant: StartWave does not ask whether it already remembers a volume
RaiseVolumeAlways ==
  IF SetVolume
  THEN lastVol' = devVol /\ devVol' = "pager" /\ hasLast' = TRUE /\ UNCHANGED failed
  ELSE UNCHANGED <<volume, failed>>

(* waveOutGetVolume and waveOutSetVolume as StartWave calls them *)
RaiseVolume ==
  IF SetVolume /\ ~hasLast
  THEN \/ /\ lastVol' = devVol /\ devVol' = "pager" /\ hasLast' = TRUE
          /\ UNCHANGED failed
       \/ /\ DeviceFails /\ failed' = TRUE            \* the get or the set fails
          /\ lastVol' \in {lastVol, devVol}
          /\ UNCHANGED <<devVol, hasLast>>
  ELSE UNCHANGED <<volume, failed>>

(* waveOutSetVolume as StopWave calls it; wasFailed is the outcome so far *)
RestoreVolume ==
  IF SetVolume /\ hasLast
  THEN \/ devVol' = lastVol /\ hasLast' = FALSE /\ UNCHANGED <<lastVol, failed>>
       \/ DeviceFails /\ failed' = TRUE /\ UNCHANGED volume
  ELSE UNCHANGED <<volume, failed>>

(* IAX_EVENT_CONNECT that main.c accepts: StartWave *)
StartCall ==
  /\ pc = "loop" /\ ~inCall
  /\ inCall' = TRUE
  /\ RaiseVolume
  /\ IF RingTone THEN offset' = StartOffset /\ pc' = "play" ELSE UNCHANGED <<offset, pc>>
  /\ UNCHANGED <<wave, ring, event, signalling, after, memory>>

\* mutant: main.c frees the event it has just enqueued (break for continue)
VoiceFreedToo(e) ==
  /\ pc = "loop" /\ inCall /\ ~RingTone
  /\ e \notin held /\ ~full
  /\ Enqueue(e, 0, 0)
  /\ UNCHANGED <<wave, offset, volume, event, signalling, pc, after, inCall, memory, failed>>

(* IAX_EVENT_VOICE of the call: EnqueueWaveHeader *)
Voice(e) ==
  /\ pc = "loop" /\ inCall /\ ~RingTone
  /\ e \notin held
  /\ \/ /\ full                           \* skip the block: callback at once
        /\ UNCHANGED <<ring, pc, failed, held, badFree>>
     \/ /\ ~full
        /\ Enqueue(e, 0, 0)
        /\ held' = held \cup {e}
        /\ UNCHANGED <<pc, failed, badFree>>
     \/ /\ ~full                          \* CHECK frees the event and leaves
        /\ DeviceError
        /\ UNCHANGED <<ring, held, badFree>>
  /\ UNCHANGED <<wave, offset, volume, event, signalling, after, inCall>>

(* WSA_WAIT_EVENT_0 + SERVICE_EVENT_WAVEFORM: HandleDoneWaveHeaders *)
WaveEvent ==
  /\ pc = "loop" /\ event
  /\ event' = FALSE
  /\ pc' = "drain" /\ after' = "HandleDone"
  /\ UNCHANGED <<wave, ring, offset, volume, signalling, inCall, memory, failed>>

\* mutant: HandleDoneWaveHeaders looks at one header only
DrainOnce ==
  /\ pc = "drain"
  /\ ~Empty /\ headers[first].state = "done"
  /\ headers' = [headers EXCEPT ![first] = Idle]
  /\ full' = FALSE
  /\ first' = Succ(first)
  /\ IF RingTone THEN UNCHANGED memory ELSE FreeEvent(headers[first].user)
  /\ pc' = CASE after # "HandleDone" -> "drain"
             [] after = "HandleDone" /\ RingTone /\ offset # 0 -> "play"
             [] OTHER -> "loop"
  /\ UNCHANGED <<wave, next, offset, volume, event, signalling, after, inCall, failed>>

(* one round of the loop in InternalHandleDoneWaveHeaders *)
Drain ==
  /\ pc = "drain"
  /\ ~Empty /\ headers[first].state = "done"
  /\ headers' = [headers EXCEPT ![first] = Idle]
  /\ full' = FALSE
  /\ first' = Succ(first)
  /\ IF RingTone THEN UNCHANGED memory ELSE FreeEvent(headers[first].user)
  /\ UNCHANGED <<wave, next, offset, volume, event, signalling, pc, after, inCall, failed>>

(* the loop ends, and its caller goes on *)
DrainEnd ==
  /\ pc = "drain"
  /\ Empty \/ headers[first].state # "done"
  /\ \/ after = "HandleDone" /\ (~RingTone \/ offset = 0) /\ pc' = "loop" /\ UNCHANGED inCall
     \/ after = "HandleDone" /\ RingTone /\ offset # 0 /\ pc' = "play" /\ UNCHANGED inCall
     \/ after = "StopCall" /\ pc' = "loop" /\ inCall' = FALSE
     \/ after = "FreeWave" /\ pc' = "closed" /\ UNCHANGED inCall
  /\ UNCHANGED <<wave, ring, offset, volume, event, signalling, after, memory, failed>>

(* waveOutUnprepareHeader fails; FreeWave does not look at the outcome *)
DrainFails ==
  /\ pc = "drain" /\ DeviceFails
  /\ ~Empty /\ headers[first].state = "done"
  /\ failed' = TRUE
  /\ pc' = IF after = "FreeWave" THEN "closed" ELSE "leave"
  /\ UNCHANGED <<wave, ring, offset, volume, event, signalling, after, inCall, memory>>

\* mutant: the part of the last block that is missing is skipped at the start
RewoundTooFar == IF offset >= EndOffset THEN StartOffset + (offset - EndOffset) ELSE offset

(* where PlayData reads the next block from *)
Rewound == IF offset >= EndOffset THEN StartOffset ELSE offset

\* mutant: the last block is not cut to what is left of the data
BlockWhole == BlockSize

(* ... and its size: the last one is shorter *)
BlockLeft ==
  IF Rewound + BlockSize > EndOffset THEN BlockSize - (Rewound + BlockSize - EndOffset)
                                     ELSE BlockSize

MorePlay == ~full /\ (offset < EndOffset \/ PlayLoop)

(* one round of the loop in PlayData *)
Play ==
  /\ pc = "play" /\ MorePlay
  /\ offset' = Rewound + BlockSize
  /\ \/ /\ Enqueue(NoEvent, Rewound, BlockLeft)
        /\ UNCHANGED <<pc, failed>>
     \/ /\ DeviceError
        /\ UNCHANGED ring
  /\ UNCHANGED <<wave, volume, event, signalling, after, inCall, memory>>

\* mutant: HandleDoneWaveHeaders resets the event at its end
PlayEndResets ==
  /\ pc = "play" /\ ~MorePlay
  /\ pc' = "loop" /\ event' = FALSE
  /\ UNCHANGED <<wave, ring, offset, volume, signalling, after, inCall, memory, failed>>

PlayEnd ==
  /\ pc = "play" /\ ~MorePlay
  /\ pc' = "loop"
  /\ UNCHANGED <<wave, ring, offset, volume, event, signalling, after, inCall, memory, failed>>

(* waveOutReset hands every queued header back as done *)
Reset ==
  /\ headers' = [i \in Slots |-> IF headers[i].state = "queued"
                                 THEN [headers[i] EXCEPT !.state = "done"]
                                 ELSE headers[i]]
  /\ signalling' = (signalling \/ \E i \in Slots : headers[i].state = "queued")

(* StopWave up to its drain; who is the code that called it *)
StopWave(who) ==
  /\ RestoreVolume
  /\ Reset
  /\ offset' = IF RingTone THEN 0 ELSE offset
  /\ pc' = "drain" /\ after' = who
  /\ UNCHANGED <<wave, first, next, full, event, inCall, memory>>

(* StopWave when waveOutReset fails: the volume is already dealt with *)
StopWaveFails(then) ==
  /\ DeviceFails /\ failed' = TRUE
  /\ IF SetVolume /\ hasLast
     THEN UNCHANGED lastVol /\ \/ devVol' = lastVol /\ hasLast' = FALSE
                               \/ UNCHANGED <<devVol, hasLast>>
     ELSE UNCHANGED volume
  /\ pc' = then
  /\ UNCHANGED <<wave, ring, offset, event, signalling, after, inCall, memory>>

(* IAX_EVENT_REJECT, _HANGUP or _TIMEOUT for the call *)
StopCall ==
  /\ pc = "loop" /\ inCall
  /\ StopWave("StopCall") \/ StopWaveFails("leave")

(* SERVICE_EVENT_SHUTDOWN, or the loop fails for a reason of its own *)
Leave ==
  /\ pc = "loop"
  /\ pc' = "leave"
  /\ UNCHANGED <<wave, ring, offset, volume, event, signalling, after, inCall, memory, failed>>

\* mutant: the device is closed without StopWave
CloseWithoutStop ==
  /\ pc = "leave"
  /\ pc' = "closed"
  /\ UNCHANGED <<wave, ring, offset, volume, event, signalling, after, inCall, memory, failed>>

(* FreeWave: StopWave, its result ignored, and waveOutClose *)
FreeWave ==
  /\ pc = "leave"
  /\ StopWave("FreeWave") \/ StopWaveFails("closed")

-----------------------------------------------------------------------------
Device == DeviceSignal \/ \E i \in Slots : DeviceDone(i)

Service ==
  \/ StartCall \/ StopCall \/ Leave \/ FreeWave
  \/ \E e \in Events : Voice(e)
  \/ WaveEvent \/ Drain \/ DrainEnd \/ DrainFails \/ Play \/ PlayEnd

(* the process is gone; nothing the device does can be seen any more *)
Closed == pc = "closed" /\ UNCHANGED vars

Next == Device \/ Service \/ Closed

Spec == Init /\ [][Next]_vars

(* The device finishes what it was given and signals it.  The service serves
   a set wave event: WaitForServiceEvents prefers the network event, so this
   asks the network to leave gaps.  Nobody is bound to call or to hang up. *)
Fairness ==
  /\ \A i \in Slots : WF_vars(DeviceDone(i))
  /\ WF_vars(DeviceSignal)
  /\ WF_vars(WaveEvent)
  /\ WF_vars(Drain \/ DrainEnd) /\ WF_vars(Play \/ PlayEnd)
  /\ WF_vars(FreeWave)

FairSpec == Spec /\ Fairness

-----------------------------------------------------------------------------
(* Properties *)

(* the headers from FirstPreparedHeader up to NextAvailableHeader, cyclically *)
InRing(i) ==
  \/ full
  \/ first <= i /\ i < next
  \/ next < first /\ (first <= i \/ i < next)

(* The three ring fields say exactly which headers the driver has: no header
   is handed to waveOutPrepareHeader twice or reused while it plays, and none
   is forgotten (full and empty are told apart by NoAvailableHeaders only). *)
RingExact ==
  /\ \A i \in Slots : InRing(i) <=> headers[i].state # "idle"
  /\ full => first = next

(* Every voice event in memory hangs on exactly one prepared header, and
   no event was ever freed twice: main.c, which continues without freeing
   what it enqueued, the skip of a full ring and the drain agree on who frees. *)
EventsOwned ==
  /\ ~badFree
  /\ \A e \in held : \E i \in Slots : headers[i].user = e
  /\ \A i \in Slots : headers[i].user # NoEvent => headers[i].user \in held
  /\ \A i, j \in Slots : headers[i].user = headers[j].user
                           => i = j \/ headers[i].user = NoEvent

(* While the service waits, a header that could be reclaimed has its wake-up:
   the event is set or about to be.  HandleDoneWaveHeaders must reset the event
   before it looks at the flags for this to hold. *)
NoLostCompletion ==
  pc = "loop" /\ ~Empty /\ headers[first].state = "done" => event \/ signalling

(* No block of the tone reaches outside the file's data chunk, however
   BlockSize and the chunk's length relate. *)
BlocksInsideTone ==
  RingTone => \A i \in Slots : headers[i].state # "idle" =>
    /\ StartOffset <= headers[i].from
    /\ headers[i].from + headers[i].size <= EndOffset

(* Two neighbouring headers hold consecutive blocks, or, if the tone is to be
   looped, the end and the start of the data. *)
Consecutive ==
  \A i \in Slots :
    LET j == Succ(i)
        end == headers[i].from + headers[i].size
    IN InRing(i) /\ InRing(j) /\ j # first =>
         IF end = EndOffset THEN PlayLoop /\ headers[j].from = StartOffset
                            ELSE headers[j].from = end

(* The tone is played without a gap: its blocks follow each other, and a looped
   tone never runs dry: whenever the service waits during a call, all headers are
   with the device or on their way back from it. *)
ToneContinuous ==
  RingTone => Consecutive /\ (PlayLoop /\ pc = "loop" /\ inCall => full)

(* While the pager's volume is on the device the user's own is remembered,
   whichever of the volume calls failed in this call or an earlier one. *)
VolumeRecoverable == devVol = "pager" => hasLast /\ lastVol = "user"

(* If no waveOut call fails, nothing is left behind at the end: the device has
   no header, every event was freed and the user's volume is back. *)
CleanExit ==
  pc = "closed" /\ ~failed => held = {} /\ Empty /\ devVol = "user"

(* A ring tone that is not looped is played to its end and its last header
   reclaimed, unless the call or the service ends before or a waveOut call
   fails. *)
ToneEnds ==
  RingTone /\ ~PlayLoop /\ inCall
    ~> (Empty /\ offset >= EndOffset) \/ ~inCall \/ pc = "closed" \/ failed

=============================================================================
