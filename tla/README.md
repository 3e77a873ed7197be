# Verification of IAX Pager

IAX Pager is a Windows service that registers with an IAX2 server, accepts
calls and plays them, or a ring tone, on a sound device. This directory holds
TLA+ models of it, TLC configurations that check them on small instances, and
TLAPS proofs of what they should satisfy on every instance. Every definition is
translated from the C source; `PROJECT.json` names the lines.

## The system

| Component | Source | State | Operations |
| --- | --- | --- | --- |
| Service loop | `main.c`, `service.c` | `session`, `registeredSession`, `nextRegistration`, the shutdown, network and wave events | wait, wake, handle every pending event, refresh the registration, leave |
| Audio output | `wave.c` | a ring of 100 wave headers, the ring tone and the place in it, the user's volume | start, stop, enqueue a voice block, reclaim done headers, play the next blocks of the tone |
| Session lifetime | `iax.c` | the list of sessions, the schedule of frames and pings, events in jitterbuffers | create, find, destroy, hand out an event, free it |
| Full-frame transport | `iax.c` | `oseqno`, `iseqno`, `rseqno`, `aseqno`, `lastvnak` of a session, its frames in the schedule | send, retry, time out, acknowledge, detect old and missing frames, VNAK |
| Jitterbuffer | `jitterbuf.c` | queue by timestamp, delay history, playout point | put, get, next, reset |
| Native transfer | `iax.c` | `transferring`, the second address and call number, beside the session's own | TXREQ, TXCNT, TXACC, TXREADY, TXREL, TXREJ, find the session of a datagram |
| Service status | `service.c`, `main.c` | status record and target state, shared with the control handler's thread; what has been initialised | begin, progress, end; the steps of the start, and their release |
| Settings, host filter | `settings.c`, `host.c` | parsed settings, lists of subnets | parse, match an address |
| Information elements | `iax2-parser.c` | a buffer of 1024 bytes to append to; the copy in an event, with the places of the texts in it | append, parse |
| Timestamps, codecs | `iax.c` | `last_ts`, `lastsent`, preferences | stamp, unwrap, choose mini or full frames |

How they interact. One thread, `ServiceMain`, runs nearly everything: it waits
for one of three events or a timeout, then calls `iax_get_event` until that
returns NULL. `iax_get_event` first serves the schedule (retries, timeouts,
pings), then the jitterbuffers, then the socket. An event of a call starts or
stops the audio output or is enqueued as a voice block; its memory is then owned
by a wave header until the device is done with it. Two more threads exist: the
audio device, which flags headers and sets the wave event, and the service
control dispatcher, which sets the shutdown event. The peer and the network are
the rest of the world.

What is hard here: the device runs between any two instructions of the service
(`Wave`); the network loses, duplicates and reorders (`Transport`); pointers to
sessions outlive sessions (`Sessions`); a wait must end in time for four kinds
of work that are noticed in different ways (`ServiceLoop`). The full list, line
by line, is under "hazards" in `PROJECT.json`.

What makes each component correct:

- service loop: it never sleeps on a datagram, a timer or its registration;
- audio output: the ring and the device agree, each event is freed once, the
  tone is played without a gap, the user's volume comes back;
- session lifetime: nobody uses a freed session, none is forgotten but those that
  stray frames make, a dead call ends;
- transport: a reliable, ordered channel, in which nothing is given up silently;
- jitterbuffer: control events are never dropped and stay in order, voice is
  played forward, polling ends, the cache of extremes equals the history's;
- native transfer: nobody goes direct unless both do, and the direct call is
  reliable from its first frame;
- service status: the SCM is told the truth and hears of the stop, and whatever
  step of the start fails, what was taken is given back;
- settings and host filter: the service starts on exactly the command lines that
  `src/README.md` describes, with the exceptions listed below, and an address
  matches exactly the subnets it is in;
- timestamps: a frame is scheduled under the time it was sent at;
- information elements: exactly the messages are accepted, each says what was put
  into it, and every text found in one ends there.

## Modules

| Module | Models | Proofs |
| --- | --- | --- |
| `Wave` | `wave.c`, the device, and `main.c`'s calls of it | `WaveProofs` |
| `ServiceLoop` | the outer loop, `iax_time_to_next_event`, the order of `iax_get_event`, `WSAEventSelect` | `ServiceLoopProofs` |
| `ReliableChannel` | what `iax2.h` promises of full frames; the abstract specification | |
| `Transport` | `iax_send`, the retry timer, the head of `iax_header_to_event`, ACK, VNAK, final frames; implements `ReliableChannel` | `TransportProofs` |
| `Jitterbuffer` | `jitterbuf.c` and the calls `iax.c` makes of it | `JitterbufferProofs` |
| `Sessions` | `iax_session_new`, `destroy_session`, `handle_event`, `iax_event_free`, and the switch in `main.c` | `SessionsProofs` |
| `Handover` | what a native transfer promises; the abstract specification | |
| `Transfer` | the transfer handlers of `iax.c` in the two ends and the bridge between them; implements `Handover` | `TransferProofs` |
| `Settings` | `settings.c`, `host.c`, the screening of callers: operators without state | |
| `Startup` | `ServiceMain` from start to end, `service.c`, the control handler's thread; extends `Settings` | `StartupProofs` |
| `Timestamps` | mini frames, `last_ts`, `unwrap_timestamp`, `schedule_delivery` | `DatagramsProofs` |
| `Elements` | `iax_ie_append` and its kin, `iax_parse_ies`, the copy it works on | `DatagramsProofs` |

An `MC` module of the same name extends each with the values a configuration
cannot write down; `MCDatagrams` extends both `Timestamps` and `Elements`, the
time and the content of a datagram, which the receiver keeps apart: a behaviour of
its run is one of the one or of the other.

### Wave

One action is what the service does without looking at a flag the device may
write: a round of the loop in `InternalHandleDoneWaveHeaders` (`Drain`), of the
loop in `PlayData` (`Play`), a whole call otherwise. `pc` says which loop runs
and `after` who called the drain. The device flags a header (`DeviceDone`) and
sets the event in a second step (`DeviceSignal`), as `CALLBACK_EVENT` does. Each
`waveOut` call may fail; every caller then gives up and `main.c` leaves.
`wave` holds what `InitializeWave` sets once: the
settings and the tone's place in its file. `hasLast`, `lastVol` and `devVol` follow the order of the volume calls,
failures in between included. A header keeps which part of the tone it holds
(`from`, `size`), so that continuity can be stated. `held` is ghost state: the
events in memory.

### Transport

Two ends, each with the five numbers of a session, its schedule as a set of
frames, and the set `net` of all datagrams ever sent to it: reading one leaves
it there, so loss, duplication and reordering need no action of their own. The
handlers are one action per branch of `iax_header_to_event`, each with the
implicit acknowledgement that precedes it (`Implicit`, `Settle`) and the ACK
that follows when `aseqno` and `iseqno` differ. A datagram carries beside its
wrapped numbers the true ones (`n`, `a`), which no handler reads; `sent`, `got`
and `acked` count in true numbers and are the refinement mapping to
`ReliableChannel`. Two assumptions bound what byte-sized numbers can tell apart,
and the code relies on them without enforcing them: an end has at most `Window`
frames unacknowledged (the pager sends a few per call), and the network drops a
datagram that is more than `Lifetime` numbers late (`Fresh`), with
`Window + Lifetime < M`.

### Sessions

An address is what the program sees; the generation `lib.heap` keeps beside it
is what it means. `Valid` compares both, and the program's own tests compare
addresses only. `world.reuse` says whether `malloc` hands out an address again. What a
session has queued, the frames it has scheduled and its ping all hold its
address, as in the code. The switch of `main.c` is one action per branch;
between `handle_event` and `iax_event_free` the model is in `pc = "event"` and
`"free"`, so that what the library did before and does after is seen. A full
frame of somebody unknown that names no session makes one (`FromUnknown`),
whatever it is: a NEW that is in order and parses queues a CONNECT (`NewCall`), a
POKE is answered and its session destroyed (`Poke`), and every other one is a
`Stray`, dropped with a VNAK or without, or answered, or queued as a HANGUP. `strays`
is ghost state, the sessions made by those; the NEW that a stray frame overtook
may still make a call of it (`LateNew`). A call has one NEW. Memory does not run
out.

### ServiceLoop

Time advances in ticks, at any point, by `Tick`. `Wait` computes the deadline
with the widths the code has: `Signed` is the cast to INT, `Unsigned` the cast
to DWORD. The socket's event is set by a datagram when it is armed, and armed
again by a `recvfrom` that leaves nothing; a `recvfrom` that leaves something
sets it. In the inner loop an action is one `iax_get_event` with what the
service does about the outcome (`Answer`): it may send a frame, or register
again. The jitterbuffer is a set of due times.

### Jitterbuffer

One action per outcome of `jb_put` and of `jb_get`; `Current` is the state in
which `jb_get` decides, after `history_get` and the new target. `jb_get` is
called as `iax_get_event` does, only when `jb_next` is in the past (`Due`).
`info` has the fields of `jb->info` that decide anything, `hist` the ring of
delays with its two sorted ends and whether they are valid. The insertion sort of
`history_calc_maxbuf` is modelled by what it computes: the k-th `Greatest`
and the k-th `Least` of the delays are those with fewer than k before them and k up
to them. When the result may be kept (`StillExact`) is modelled as it is. The options that are 0 in every
session and the statistics are left out. Ghost state: `window`, the delays the
history should hold, `done` and `full`, the full frames handed out and put in,
`spurt`, the last two voice frames handed out, forgotten at a silence. Time
starts with the first frame, as `rxcore` does. Full frames carry timestamps that
do not go back, for the transport delivers them in the order sent.

### Transfer

Four sessions: one of the pager, one of the phone, and the two the bridge has
with them. All run the same handlers, so these are operators on a record of
every session's numbers, schedule and datagrams to send, and an action is one
received datagram (`Receive`), one timer, one frame of the application (`Send`)
or the bridge's decision (`Setup`, `iax_setup_transfer`; the pager never makes it,
but the library it is linked with is the best description of the bridge there
is). `FindSession` is the lookup by address and call number that every datagram
passes. `fresh` is ghost state: has the session's count been started anew?
`taken` are the frames handled since. `Agreement` maps a session to `Handover`:
fresh is direct, `TRANSFER_READY` is ready. Frames that are done stay in the
schedule, where `iax_handle_vnak` still finds them. How many retries are left is
a choice made when the timer fires; only transfer frames may time out, for the
call goes on.

### Settings and Startup

An argument is what the parser can tell of it: a flag, a flag written out, a
number, a subnet, a text, the empty string. `Take` is one round of
`ParseSettings`. `WellFormed` and `MayCall` are what `src/README.md` says of a whole
command line, without a parser's state: `Tiled` is a row of flags, short or written
out, with their parameters, and `Uint` a number of the width it gives.
`AsWritten` compares the two. They disagree, and `Agreed` says where: on a flag
written out, on a number beyond its width and on one with something behind it.
Everywhere else, and for everything that is no row of flags and parameters, the
parser must do what the document says. Addresses have `W` bits; `shift32` is what
the build makes of the undefined shift by 32.

`Startup` has one action per step of `ServiceMain`. What a step writes to the
status record is a list, `todo`, that `Write` works off field by field, so that
the handler's thread (`HandleInterrogate`) may report the record between any two
writes. `held` is ghost state, the resources the process has, with `Needs` saying
what the release of each uses; the program has only its variables (`settings`,
`iaxPort`, the pointers). The service control manager is external: it sends
controls from the registration of the handler on, for the record accepts stops
from the start (`service.c:146`); it copies the record it is told (`Tell`), and
takes the first STOPPED for the last. Then the dispatcher returns and `main` ends
the process, wherever ServiceMain's thread is (`ProcessEnds`).

### Timestamps

`now` is the peer's clock, `net` the frames on their way with their whole time
and `placed` the last one scheduled, with the time it was sent at and the time
it got. A mini frame shows `Low` of its time. Which frames are full, and whether
one is lost, late, doubled or overtaken, is open. `Late` bounds how old a frame
may be when it arrives and how long the receiver goes without one.

### Elements

`mem` is the receiver's copy with the one byte behind it, `at` and `left` the
parser's `data` and `datalen`, and an element of the message is one step. `sent`
is ghost state, what the message was made of. The fifty types of the protocol
fall into four kinds, which the constants name: texts (`Texts`), of which the
place is kept; the one address, a record of fixed size (`Records`); flags; and
numbers, with their width and what stands for none. A byte has `Base` values.
The message is one this program appended, any sequence of elements another
implementation may send, or no message at all. `pc = "overrun"` stands for the
undefined behaviour when the content of an element fits in the buffer and its
header does not.

## Runs

| Run | Instance | Shows |
| --- | --- | --- |
| `wave` | 3 headers; 4 voice events, or a tone of 5 or 6 bytes in blocks of 2, looped or not; a device that may fail | `RingExact`, `EventsOwned`, `NoLostCompletion`, `VolumeRecoverable`, `CleanExit`, `BlocksInsideTone`, `ToneContinuous`, `ToneEnds` |
| `transport` | `Mixed`: 5 frames one way; 4 against 1; 2 against 1 with 1 retry, ends that may hang up, frames nobody answers; 4 numbers | `ChannelImplemented`, `NothingForgotten`, `Settled` |
| `transfer` | `Tried`: frames sent before, during and after; a router before the phone; a bridge that is told twice; a direct path that fails; 16 numbers | `HandoverImplemented`, `Recognised`, `OldFramesHeldBack`, `DirectReliable` |
| `sessions` | `Both`: 3 addresses, 3 sessions, registration; 2 callers that may vanish and audio that may fail | `NoDangling`, `PointersLive`, `OrphansAreStrays`, `DeadCallEnds` |
| `loop` | 7 ticks, 2 datagrams, with and without a registration | `NoLostDatagram`; without one `NoOversleep`, `TimersServed` |
| `jitterbuffer` | 4 frames sent at 0, 2 or 5 arriving in 6 half frames; history of 3, 2 of them sorted | `CacheExact`, `FullInOrder`, `VoiceForward`, `PollEnds` |
| `startup` | `Typed`: every two of 20 options and every three of 3 subnets; each of 26 options and every three of the account, whole or without the last argument; addresses of 3 bits, ports 0 to 3 | `Unwound`, `ScmTold`, `AsWritten`, `StopAnswered` |
| `datagrams` | gaps of 5000 and 10535 ms over 135 s, two frames on their way, up to 15535 ms late; bytes of 6 values, 3 elements in a buffer of 8, 6 bytes of any content | `Reconstructed`; `ParserSafe`, `Understood` |

`transport`, `transfer`, `sessions`, `wave` and `loop` each check several small
instances in one run: `Init` picks one of the records in `Loads`, `Plans`,
`Worlds`, `Waves` and `Delays`.

The bounds are chosen so that the cases that matter happen. Three headers wrap,
fill and overflow with four events; the tone's last block is short, and the ring
wraps at another place than the tone. Four sequence numbers wrap within five
frames; `Half` is two, the window too. The first two loads of `transport` have no
retries because a retry puts a datagram into `net` that is there already: the
network may repeat and delay it as it is. In `transfer` a call sends at most
three frames in an end's numbering and the count is started anew in between;
`most` cuts longer behaviours off, chiefly those in which a frame that is never
acknowledged is sent for ever. Three generations of sessions allow a
registration, a call, and a renewal or a second call that is rejected. Seven ticks let the
registration (3) fall due twice and timers (2) be served late; 32 values of a
DWORD tell a small negative wait from a long one. In `jitterbuffer` four delays
wrap the history of three, drop an outlier at each end and, with one discontinuity
allowed instead of three, resync; the delays of growing and shrinking keep their
order, so that every outcome of `jb_get` occurs. In `startup` the subnets nest,
overlap and are single addresses, so that both lists and both orders matter, and the
options are those that fit and those that fail in each way the parser tells apart;
the six that say no more than that a number is read are not paired with others. In
`datagrams` a frame sent before a wrap arrives after it, by 15535 ms, one less
than what `unwrap_timestamp` can tell from a wrap. Its six bytes hold
three elements without or two with content, so that a type comes twice, a text is
followed by each other kind, and a message breaks off in a header or a content;
the texts appended may be as long as a byte can tell, or longer.

Some runs are restricted so that a finding below does not hide everything else:
the world of `sessions` with a registration has no reuse of addresses, and
`NoDangling` asks for audio that works; the properties about waits ask for no
registration; `FinalFrameRemembered` is checked by its own run. The
runs that show the findings lift one restriction each.

### Findings

| Run | What the code does |
| --- | --- |
| `final_frame` | `destroy_session` marks the final frame that `send_command_final` has just scheduled as done: a HANGUP or REJECT is sent once and never again. |
| `vnak_once` | `lastvnak` starts as 255, which suppresses VNAKs for numbers 128 to 255 in a new session. |
| `sessions_reuse` | After a HANGUP of the registration, `iax_event_free` destroys the new registration session if it got the old one's address. |
| `loop_register` | An overdue registration makes the loop wait for seven weeks or forever. |

More observations are visible in the models and have no run of their own:

- `main.c:209`: if `StopWave` fails on a HANGUP of the call, CHECK leaves the
  loop before `session = NULL`, and `LEAVE` hangs up the session that
  `handle_event` has freed (`EndCallFails`, then `Leave`, with `waveFails`:
  `NoDangling` fails).
- `iax-client.h:46` says that the session of a TIMEOUT event is freed memory.
  The library hands out the live session (`FrameTimeout`) and nobody frees it
  afterwards, which is why `OrphansAreStrays` excepts `timedOut`.
- `iax_find_session` makes a session for any full frame that names none
  (`iax.c:2271`). If the frame is not the first of a call, or does not parse
  (`iax.c:2604`, `2666`), the session stays without an event (`Stray`). Its ping is
  answered by nobody, and `main.c` ignores the TIMEOUT of a session it does not know
  (`EndCall`): the session is never freed, and with each such frame the list grows.
- `iax.c:1606` says that the session of a hangup is left to `iax_event_free`,
  "because the user may need to look at it"; the code below it destroys the
  session before the event is returned (`Deliver`).
- `iax-client.h:149` says that `iax_time_to_next_event` finds the time of the
  next event. It looks at the schedule only (`TimeToNextEvent`), so an event that
  waits in a jitterbuffer does not shorten the wait.
- `jitterbuf.h:135` says of JB_DROP "Ask me again for this time"; `iax_get_event`
  goes on with the next session instead (`iax.c:3325`). The frame behind a
  dropped one waits until the loop comes round again.
- A comfort-noise frame that arrives late starts a silence at its own, old
  timestamp, and voice from before what was already played is then played again:
  `VoiceForward` speaks of the voice between two silences. One with the
  timestamp 0 starts no silence, for 0 stands for none (`Silent`).
- After a resync the frames in the queue keep the old offset, so that a full
  frame put in later may come out first: `FullInOrder` excepts it.
- Transfer. `iax.c:1393` says that `complete_transfer` dumps "anything we were
  going to (re)transmit". It sets `retries` to -1, but the frames stay in the
  schedule until they fall due, and `iax_handle_vnak` does not look at `retries`
  (`iax.c:2431`): with two frames under way a VNAK of the new peer makes an end
  send frames of the old call, whose numbers then pass for new ones. The third of
  `Calls` reaches it with a TXREADY. So the second part of
  `OldFramesHeldBack` and `DirectReliable` ask for a window of one, and the first
  part speaks of timers only.
- `iax_finish_transfer` dumps the TXREL it has just scheduled (`iax.c:1464`): like a
  final frame it is sent once, and an end that misses it stays with the bridge
  until the bridge's answer to its repeated TXREADY. If that TXREADY comes after
  both legs were released, the bridge releases them again, with call numbers
  that have been exchanged meanwhile (`late`).
- The TXREJ for a transfer frame that timed out goes to the transfer address, the
  one that does not answer, and is itself a transfer frame: it times out and is
  sent again, and `transferring` is not reset.
- Start. `src/README.md:38-46` says that only the first character of each parameter
  counts (`-allow`); the parser takes flags of one character only (`settings.c:48`)
  and the service does not start. It gives the port as a 16-bit number; the parser
  reduces any number to 16 bits and takes one with something behind it, a subnet
  even (`settings.c:94`, likewise `74` and `79`). `Agreed` keeps both out of
  `AsWritten`.
- A subnet written with bits of a host matches nobody (`host.c:32`, `51`), and the
  shift for a /0 is undefined: `AsWritten` says of neither which hosts may call.
- `-p 0` never starts: `iax_init` takes the default port and ServiceMain compares
  with 0.
- If `bind` fails `iax_init` leaves the socket open and says -1 (`iax.c:955`): only
  `WSACleanup` closes it (`stray`).
- The exit code is lost. `EndServiceStatus` reports STOPPED with the code 0
  (`main.c:275`), `FreeService` stores the code and reports once more (`service.c:167`),
  but the SCM takes the first STOPPED for the last and the process may end in
  between. The handler may read a freed record after that. `ScmTold` says nothing
  of the code.
- While events keep coming the inner loop does not look at the shutdown event
  (`main.c:157`): `StopAnswered` excepts it.
- The second half of `unwrap_timestamp`, for the 15 bits of video, is never
  reached: where the upper 17 bits of two times agree, the upper 16 do.

### Fairness

`Wave`: the device finishes what it was given and signals it (a driver that does
not is broken); the service serves a wave event that stays set, goes on with a
loop it is in, and leaves once it has decided to. `WaitForServiceEvents` prefers
the network event, so the second asks the network to leave gaps. Nobody is bound
to call or to hang up. `Transport`: only the timers; nothing is asked of the
network. `Sessions`: the service handles the event it was given, and the
schedule, which is ordered by time and served first, lets no frame, ping or
queued event wait forever behind others that keep coming back (strong fairness,
for another event may disable it for a while). `ServiceLoop`: time passes and the
service thread runs. `Jitterbuffer`: `jb_get` is called again while a frame is due.
`Startup`: the service's thread makes its next write or step of the start and the
end, and wakes up for the shutdown event; not that events run dry, nor that
anybody stops it. `Transfer`, `Timestamps` and `Elements` state safety only.

## Proofs

TLAPS proves the following for every value of the constants that the named
assumptions admit.

`WaveProofs`, from `BuffersAssumption`, `NoEventAssumption` and
`WavesAssumption`:

- `TypeCorrect`: type correctness. The ring's indices stay in `Slots` because
  `Succ` wraps.
- `RingSafe`: `RingExact` is inductive. The arithmetic is in lemmas about how
  enqueueing and reclaiming move the boundary of `InRing`; the case of one header,
  where full and empty have the same indices, is the reason `full` is part of it.
- `WakeSafe`: `NoLostCompletion` needs to know that the flags can only be raised
  by the device, and that the drain ends only on a header that is not done.
- `EventsSafe`: `EventsOwned` from the ring: a header is idle when its event is
  freed, and idle headers hold none.
- `VolumeSafe`: `VolumeRecoverable`.
- `ToneSafe`: `BlocksInsideTone`, strengthened by where `offset` may be while
  the service plays.
- `ContinuousSafe`: `ToneContinuous`. The chain of blocks in the ring has to be
  known to go on at `offset`, and during a call the place in `PlayWave` at which a
  looped tone may have a header that the device does not.
- `ExitSafe`: `CleanExit`, from the ring, the owners of the events and the volume,
  and from what each step of the drain leaves to the next.

`ServiceLoopProofs`, from `TimesAssumption` and `WidthAssumption`:

- `TypeCorrect`: every wait is a DWORD, also a negative one.
- `DatagramSafe`: `NoLostDatagram`, through the inductive `Announced`, which
  holds outside the inner loop only.
- `TimersAwaited`: `NoOversleep`, which speaks of a service without a
  registration; `loop_register` shows what happens with one.

`StartupProofs`, from `WidthsAssumption` for every set of command lines:

- `NothingLeft`: `Unwound`. It is not inductive, for `LEAVE` releases by its
  variables and the order of its lines, not by what is held. The strengthening has
  two parts: `Phase`, what is held when ServiceMain comes to each step, and `Usable`,
  which adds to the first conjunct of `Unwound` that a socket is held only if
  `iaxPort` is a port, the test `LEAVE` makes. A step that fails keeps what it had
  and more, so nothing but `Usable` is known at the beginning of `LEAVE`.

- `SafelyTold`: `ScmTold`. The record is written field by field and reported in
  between, so the state alone is not inductive: what is still to be written counts.
  The strengthening `Told` says for each part of ServiceMain's way which state the
  record and the SCM may show (`Shown`) and where the writes that are left lead
  (`Leads`): they set one state only, a pending one is aimed at its own end, and a
  list of writes ends with a report (`Reported`); what a report tells is `Heard`,
  nothing new after a stop. `WriteStep` is one write for all of that at once; `Moved`
  lists the ten ways ServiceMain goes on, `MovedTold` has a step for each;
  `ManagerTold` is the handler's thread and `EndTold` the end of the process, which
  can only come while ServiceMain has nothing left but the service. That "running"
  may still show at the beginning of `LEAVE` is why `Shown` asks there for all a
  call needs.
- `UnderstoodAsWritten`: `AsWritten`, also from `LettersAssumption` and
  `LinesAssumption` (a line is a sequence of the arguments the parser tells apart).
  It goes by what the parser makes of a line (`Split`, `Understood`), which is what
  `src/README.md` says where the two agree (`AsDescribed`).
  The invariant is `Parsing`: after n arguments `Reads` relates the settings to the
  places of the flags among them, says that every parameter so far fitted its flag,
  and (`Alone`) that however the whole line is taken apart, these n are taken apart
  like this. So `TakeReads` can conclude from one argument that is refused that there
  is no well-formed reading at all, and `Ended` from a missing one. `Listed` is the
  screening: clearing the low bits of an address gives the subnet's exactly if the
  address is in it (`Cleared`). That powers of 2 are positive is what the library
  says of the number of subsets (`Powers`); the prover knows nothing else of `^`.
- `TypeCorrect`, from the same invariant as `SafelyTold`.

`TransportProofs`, from `EndsAssumption`, `NumbersAssumption` and
`LoadsAssumption`:

- `Remembers`: `NothingForgotten`. The numbers on the wire wrap, so nothing can be
  said of them alone. The invariant `Numbering` says of every number in a session, a
  schedule and a datagram that it is the remainder of the number it stands for, and
  that the true numbers are within a window and a datagram's lifetime of each other;
  the lemmas on remainders turn each of the code's comparisons into one of true
  numbers. That the window and the lifetime fit into M, `NumbersAssumption`, is what
  the proof needs of them.
- `Delivers`: `ChannelImplemented`, the refinement, step by step: a step of the
  code is a step of `ReliableChannel` or changes nothing it speaks of.
- `ExactlyOnce`: the same as a statement about states, `Prefix`.
- `TypeCorrect`, from the same invariant.

`SessionsProofs`, from `AddrsAssumption` and `WorldsAssumption`:

- `OnlyStraysLost`: `OrphansAreStrays`, in every world. The invariant `Watched`
  follows each session through an event: who cares for it before `handle_event`,
  while `main.c` looks at it and after `iax_event_free`; that a stray frame's session
  has nobody is said there and not hidden.
- `NeverDangles` and `AlwaysLive`: `NoDangling` and `PointersLive`, in the worlds in
  which `malloc` hands out no address twice. The condition is needed: with it
  dropped `PointersLive` is wrong, which is the run `sessions_reuse`. Where it holds an
  address names one session for ever, and the invariant `Owned` says that a pointer
  that outlives its session is one that the event in hand is about to clear.
- `TypeCorrect`, in every world.

`JitterbufferProofs`, from `HistoryAssumption`, `DelaysAssumption` and
`InputsAssumption`:

- `CacheSafe`: `CacheExact`. The invariant `Held` says which place of the ring holds
  which delay, across its wrap and a resync; `GreatestKept` and `LeastKept` say that
  what comes and what goes strictly inside the ends leaves the k-th greatest and
  least as they were, by counting how many are greater before and after. Existence
  and uniqueness of the k-th greatest (`GreatestExists`, `GreatestOrder`) are proved
  for sequences of any length.
- `FullFramesSafe`: `FullInOrder`. `queue_put` inserts at a place that `PutInOrder`
  finds, in front of everything later and of nothing else. `Numbered` adds to the
  property that the full frames that wait have the timestamps they were sent with, as
  long as there was no resync: it is why one that comes later goes behind them.
- `VoiceSafe`: `VoiceForward`, if all frames have one size that is no less than what
  is interpolated (`OneSize`), as those of a sender do that packs voice by the
  20 ms of `get_interp_len`. Nothing in the code makes a peer do so. If sizes change
  within a call a frame may overlap what was played, for `IsOverlapping` looks at the
  size of the last one, and be sent before it; so the condition belongs to the
  theorem. The run has one size too.
- `TypeCorrect`, from the same invariant, `Shape`.

`TransferProofs`, from `HostsAssumption`, `NumbersAssumption` and `PlansAssumption`;
who is told what, when it arrives and what times out is left to the environment:

- `HandoverSafe`: `HandoverImplemented`, the refinement, action by action. None of
  what the handlers test says that the other end has agreed: an end believes the
  bridge's TXREL, the bridge a TXREADY. The invariant `IInv` therefore says of every
  frame that may be sent again and of every datagram on its way what is true as long
  as it exists: a TXREADY that its sender has agreed, a TXREL that both have, a TXREQ
  the peer's address, a TXCNT or TXACC which of the phone's two addresses works.
  These stay true because of `Goes`: no handler takes back what was agreed to or
  restarts a count twice.
- `HeldBack`: `OldFramesHeldBack`. That no timer sends an old frame is a conjunct of
  `IInv`, for every plan. That nothing old goes between the ends at all, with one
  frame under way at a time and no transfer frame given up, needs `DirectInv`, by
  which no direct frame is ever missing and so no VNAK is sent.
- `RecognisedSafe`: `Recognised`, under the condition `Harmless`: the bridge sees no
  TXREADY after it has released the call, or both ends have the same call number.
  The condition is needed. A bridge that gets the TXREADY again releases again, with
  call numbers it has exchanged already, and the end takes over its own number for
  its peer's: with different numbers it is no longer recognised. The run has plans
  of both kinds that are `Harmless`.
- `DirectSafe`: `DirectReliable`, for a window of one and no transfer frame given up,
  with any loss, repetition and overtaking, and with `rseqno` kept from the call
  before, wherever it stands within the number space. `PlansAssumption` keeps an
  end's counts from 1 to below half of that, before the release and after it. The
  code enforces none of these conditions: a count that had wrapped to 0 before the
  release would let a direct frame be taken before and after it (`iax.c:2566`).
  `DirectInv` counts what an end has said and heard directly (`Said`, `Heard`:
  nothing before its release, its `oseqno` and `iseqno` after) and says that all
  its frames from the first on are in the schedule, that only the last may be sent
  again, and that the others were taken. The lemmas it turns on: `OneAhead`, an
  end is at most one frame ahead of what the other has taken, so a frame is the
  next one or one taken before and none is asked for (`NextOrBefore`), and one
  that comes before the release has number 0 where the old call's count is at
  least 1 (`TakesNone`); `AckedLast`, wherever the kept `rseqno` is, the last
  frame is taken for acknowledged only by an answer that counts it. With two
  frames under way `OneAhead` fails.
- `TypeCorrect`, from the same invariant.

`DatagramsProofs`, of `Timestamps`, from `LateAssumption` and `GapsAssumption`:

- `TimesRestored`: `Reconstructed`. The invariant `Close` bounds the distance
  between `last_ts`, the clock and every frame under way; the lemma `Rebuilt` is
  the arithmetic: two times less than 65536 - 50000 ms apart are told apart by
  their low halves, in each of the three cases of `Unwrap`. The bound in
  `LateAssumption` is what the proof needs and cannot be weakened: at 15536 ms a
  frame is misplaced by a whole wrap.
- `TypeCorrect`, `TypeOK`, from the same invariant; no run checks it.

`DatagramsProofs`, of `Elements`, from its assumptions:

- `ParserAlwaysSafe`: `ParserSafe`, for messages of any length. The inductive
  invariant `Parsing` adds `Behind`: while the message is read, no place of a text
  is beyond the pointer, so the 0 that is written there ends it.
- `MessagesUnderstood`: `Understood`, for elements and buffers of any size. The
  invariant `Following` relates the parser, which goes through a copy it writes to,
  to the elements the message was put together from: `Origin`, what is read is the
  message of what was sent or is none; `Walked`, the parser is at the beginning of
  some element, and every field holds what the last one before it says; `Unread`,
  of what is no message the parser has read whole elements only, so it never comes
  to the end of one. `NumberParts` and `DigitsOfNumber` say that a number is what was
  appended as its bytes, `MessageParts` how a message is made of its elements.

That a message and a number are made of bytes is an induction over their length.
The library's induction theorems take an operator as a parameter, which the
installed provers cannot use; `Induction` and `Recursion` say the same of sets and
functions and follow from the library's `WFMin`, that a set has a least member.

Every invariant and every action property of the passing runs is stated by a theorem.
Out of the prover's reach: liveness, which is model-checked only.

## Plan

Done: `Wave`, `ReliableChannel` and `Transport` with the refinement, `Sessions`,
`ServiceLoop`, `Jitterbuffer`, `Handover` and `Transfer` with the refinement,
`Settings` and `Startup`, `Timestamps`, `Elements`, and the proofs listed above for
every one of them. Left, in this order:

1. A call that ends while it is transferred: `Transfer` with destroyed sessions,
   where `complete_transfer` frees a queued HANGUP.
2. `calc_timestamp`, the sender's half of `Timestamps`, against a peer's receiver.

## Not modelled

- Of the information elements: the flag that comes with `IAX_IE_PROVVER` and the
  length kept with `IAX_IE_FWBLOCKDATA`, which nobody reads, and the second copy
  that `iax_txcnt_session` parses, which is like the event's; and what `iax.c` does
  with a text or an address afterwards: a TXREQ copies a whole `sockaddr`
  (`iax.c:2797`) however short the element was.
- MD5 and authentication: no control depends on the digest.
- The parts of the client API the pager never calls, and what only they reach:
  dialling, DTMF, images, text, the quelch commands, sending audio and video.
- Debug output.
- Running out of memory (except for a session in `REG_START`), and event objects
  that fail after they were created.
- Of native transfer: calls that end meanwhile, the reset of clock and
  jitterbuffer (the latter is `Reset` in `Jitterbuffer`), a second transfer.
