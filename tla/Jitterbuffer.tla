---------------------------- MODULE Jitterbuffer ----------------------------
(***************************************************************************)
(* The jitterbuffer of a session (src/libiax2/jitterbuf.c) and the calls    *)
(* iax.c makes of it: jb_put in schedule_delivery, jb_next and jb_get in     *)
(* iax_get_event, jb_getinfo for a PONG, jb_reset at the end of a transfer.  *)
(* One action is one call.  The options max_jitterbuf and max_contig_interp  *)
(* are 0 in every session (iax.c:498-500), so what they guard is left out,   *)
(* and so are the statistics.                                               *)
(***************************************************************************)
EXTENDS Integers, FiniteSets, SequencesExt

CONSTANTS HistSize,     \* JB_HISTORY_SZ
          MaxBuf,       \* JB_HISTORY_MAXBUF_SZ
          DropPct,      \* JB_HISTORY_DROPPCT
          TargetExtra,  \* JB_TARGET_EXTRA
          AdjustDelay,  \* JB_ADJUST_DELAY
          ShrinkDelay, EmptyDelay, SilenceDelay, \* 500, 80 and 10 ms
          Threshold,    \* resync_threshold
          MaxDiscont,   \* discontinuous delays before a resync: 3
          Interp,       \* get_interp_len
          LongMin, LongMax,  \* JB_LONGMIN, JB_LONGMAX
          Sizes,        \* bound: durations of voice frames
          Stamps,       \* bound: timestamps the peer sends
          Types,        \* bound: types of the full frames
          MaxTime,      \* bound: time since the first frame
          MaxFrames     \* bound: frames that arrive

ASSUME HistoryAssumption ==
  /\ HistSize \in Nat /\ MaxBuf \in 1 .. HistSize /\ DropPct \in 0 .. 100
  /\ HistSize * DropPct < 100 * MaxBuf
ASSUME DelaysAssumption ==
  /\ {TargetExtra, AdjustDelay, ShrinkDelay, EmptyDelay, SilenceDelay} \subseteq Nat
  /\ Threshold \in Nat /\ MaxDiscont \in Nat /\ Interp \in Nat \ {0}
  /\ LongMin \in Int /\ LongMax \in Int /\ LongMin < LongMax
ASSUME InputsAssumption ==
  /\ Sizes \subseteq Nat \ {0} /\ Stamps \subseteq Nat
  /\ Types \subseteq {"CONTROL", "SILENCE"}
  /\ MaxTime \in Nat /\ MaxFrames \in Nat

VARIABLES
  now,      \* time since the session's rxcore
  info,     \* jb->info
  hist,     \* jb->history and its sorted ends
  queue,    \* jb->frames, from the head on
  window,   \* what the history should hold: the last delays since a resync
  done,     \* the full frames handed out with JB_OK
  spurt,    \* when the last two voice frames were sent that were handed out in a row
  put,      \* frames that arrived since rxcore was set
  full,     \* the timestamps of the full frames among them
  resynced  \* was there a resync?

ghosts == <<window, done, spurt, put, full, resynced>>
vars == <<now, info, hist, queue, ghosts>>

Frame == [type : Types \cup {"VOICE"}, ts : Int, ms : Sizes \cup {0}, id : 0 .. MaxFrames]

TypeOK ==
  /\ now \in 0 .. MaxTime
  /\ info \in [jitter : Int, min : Int, current : Int, target : Int, next_voice_ts : Int,
               last_voice_ms : Nat, silence_begin_ts : Int, last_adjustment : Nat,
               last_delay : Int, cnt_delay_discont : 0 .. MaxDiscont, resync_offset : Int]
  /\ hist.entries \in [0 .. HistSize - 1 -> Int] /\ hist.ptr \in 0 .. MaxFrames
  /\ hist.maxbuf \in [1 .. MaxBuf -> Int] /\ hist.minbuf \in [1 .. MaxBuf -> Int]
  /\ hist.valid \in BOOLEAN
  /\ queue \in Seq(Frame) /\ done \in Seq(1 .. MaxFrames) /\ spurt \in Seq(Int)
  /\ put \in 0 .. MaxFrames /\ resynced \in BOOLEAN

(* jb_reset, and jb_setconf in iax_session_new *)
NewInfo ==
  [jitter |-> 0, min |-> 0, current |-> TargetExtra, target |-> TargetExtra,
   next_voice_ts |-> 0, last_voice_ms |-> 0, silence_begin_ts |-> -1, last_adjustment |-> 0,
   last_delay |-> 0, cnt_delay_discont |-> 0, resync_offset |-> 0]

NewHistory ==
  [entries |-> [k \in 0 .. HistSize - 1 |-> 0], ptr |-> 0,
   maxbuf |-> [k \in 1 .. MaxBuf |-> 0], minbuf |-> [k \in 1 .. MaxBuf |-> 0], valid |-> FALSE]

Init ==
  /\ now = 0 /\ info = NewInfo /\ hist = NewHistory /\ queue = << >>
  /\ window = << >> /\ done = << >> /\ spurt = << >> /\ put = 0 /\ full = << >> /\ resynced = FALSE

-----------------------------------------------------------------------------
(* The history of delays *)

Distance(x, y) == IF x < y THEN y - x ELSE x - y

\* mutant: what falls out of the history is not looked at
StillExactNoKicked(h, delay, kicked) ==
  /\ h.ptr >= HistSize
  /\ h.minbuf[MaxBuf] <= delay /\ delay <= h.maxbuf[MaxBuf]

(* can the sorted ends stay after delay came and kicked went? *)
StillExact(h, delay, kicked) ==
  /\ h.ptr >= HistSize
  /\ h.minbuf[MaxBuf] <= delay /\ delay <= h.maxbuf[MaxBuf]
  /\ h.minbuf[MaxBuf] < kicked /\ kicked < h.maxbuf[MaxBuf]

(* history_put from kicked on *)
HistoryPut(h, delay) ==
  LET at == h.ptr % HistSize
      g == [h EXCEPT !.entries[at] = delay, !.ptr = @ + 1]
  IN [g EXCEPT !.valid = @ /\ StillExact(g, delay, h.entries[at])]

\* v is the k-th of the delays: fewer than k come before it, k do or are the same
IsGreatest(delays, k, v) ==
  /\ Cardinality({i \in 1 .. Len(delays) : delays[i] > v}) < k
  /\ k <= Cardinality({i \in 1 .. Len(delays) : delays[i] >= v})
IsLeast(delays, k, v) ==
  /\ Cardinality({i \in 1 .. Len(delays) : delays[i] < v}) < k
  /\ k <= Cardinality({i \in 1 .. Len(delays) : delays[i] <= v})

(* history_calc_maxbuf: the first MaxBuf of the delays, sorted by insertion *)
Greatest(delays) ==
  [k \in 1 .. MaxBuf |-> IF k > Len(delays) THEN LongMin
                         ELSE CHOOSE v \in ToSet(delays) : IsGreatest(delays, k, v)]
Least(delays) ==
  [k \in 1 .. MaxBuf |-> IF k > Len(delays) THEN LongMax
                         ELSE CHOOSE v \in ToSet(delays) : IsLeast(delays, k, v)]

Calculated(h) ==
  LET first == IF h.ptr > HistSize THEN h.ptr - HistSize ELSE 0
      delays == [k \in 1 .. h.ptr - first |-> h.entries[(first + k - 1) % HistSize]]
  IN IF h.valid \/ h.ptr = 0 THEN h
     ELSE [h EXCEPT !.maxbuf = Greatest(delays), !.minbuf = Least(delays), !.valid = TRUE]

(* history_get: the jitter without the outliers *)
Measured(h) ==
  LET count == IF h.ptr < HistSize THEN h.ptr ELSE HistSize
      wanted == (count * DropPct) \div 100
      index == 1 + (IF wanted > MaxBuf - 1 THEN MaxBuf - 1 ELSE wanted)
  IN [info EXCEPT !.min = h.minbuf[index], !.jitter = h.maxbuf[index] - h.minbuf[index]]

-----------------------------------------------------------------------------
(* jb_put *)

\* mutant: a frame goes before others of its time
QueuedBefore(f) ==
  LET at == SelectInSeq(queue, LAMBDA g : g.ts >= f.ts)
  IN IF at = 0 THEN Append(queue, f) ELSE InsertAt(queue, at, f)

(* queue_put: from the tail on, behind everything that is not later *)
Queued(f) ==
  LET at == SelectInSeq(queue, LAMBDA g : g.ts > f.ts)
  IN IF at = 0 THEN Append(queue, f) ELSE InsertAt(queue, at, f)

Arrives == put < MaxFrames /\ put' = put + 1

(* a full frame that is not voice; the transport delivers those in the order in
   which they were sent *)
PutFull(type, ts) ==
  /\ Arrives
  /\ \A k \in DOMAIN full : full[k] <= ts
  /\ full' = Append(full, ts)
  /\ queue' = Queued([type |-> type, ts |-> ts - info.resync_offset, ms |-> 0, id |-> Len(full) + 1])
  /\ UNCHANGED <<now, info, hist, window, done, spurt, resynced>>

Delay(ts) == now - (ts - info.resync_offset)
Discontinuous(ts) ==
  Distance(Delay(ts), info.last_delay) > 2 * info.jitter + Threshold
Voice(ts, ms, offset) == [type |-> "VOICE", ts |-> ts - offset, ms |-> ms, id |-> 0]
Recent(s) == IF Len(s) > HistSize THEN Tail(s) ELSE s

(* a voice frame whose delay is like the last one's, or that has no history *)
PutVoice(ts, ms) ==
  /\ Arrives
  /\ \/ /\ ts <= 0
        /\ UNCHANGED <<info, hist, window>>
     \/ /\ ts > 0 /\ ~Discontinuous(ts)
        /\ info' = [info EXCEPT !.last_delay = Delay(ts), !.cnt_delay_discont = 0]
        /\ hist' = HistoryPut(hist, Delay(ts))
        /\ window' = Recent(Append(window, Delay(ts)))
  /\ queue' = Queued(Voice(ts, ms, info.resync_offset))
  /\ UNCHANGED <<now, done, spurt, full, resynced>>

\* mutant: one discontinuity too many
PutDiscontinuousAgain(ts) ==
  /\ Arrives
  /\ ts > 0 /\ Discontinuous(ts) /\ info.cnt_delay_discont <= MaxDiscont
  /\ info' = [info EXCEPT !.cnt_delay_discont = @ + 1]
  /\ UNCHANGED <<now, hist, queue, window, done, spurt, full, resynced>>

(* ... whose delay is not, for the first times: JB_DROP *)
PutDiscontinuous(ts) ==
  /\ Arrives
  /\ ts > 0 /\ Discontinuous(ts) /\ info.cnt_delay_discont < MaxDiscont
  /\ info' = [info EXCEPT !.cnt_delay_discont = @ + 1]
  /\ UNCHANGED <<now, hist, queue, window, done, spurt, full, resynced>>

(* ... and again: the jitterbuffer resyncs to it *)
Resync(ts, ms) ==
  /\ Arrives
  /\ ts > 0 /\ Discontinuous(ts) /\ info.cnt_delay_discont = MaxDiscont
  /\ info' = [info EXCEPT !.cnt_delay_discont = 0, !.resync_offset = ts - now, !.last_delay = 0]
  /\ hist' = HistoryPut([hist EXCEPT !.ptr = 0, !.valid = FALSE], 0)
  /\ queue' = Queued(Voice(ts, ms, ts - now))
  /\ window' = <<0>> /\ resynced' = TRUE
  /\ UNCHANGED <<now, done, spurt, full>>

-----------------------------------------------------------------------------
(* jb_next and jb_get as iax_get_event calls them *)

Silent == info.silence_begin_ts # 0

(* jb_next *)
NextTime ==
  IF ~Silent THEN info.next_voice_ts
  ELSE IF queue = << >> THEN LongMax
  ELSE IF info.target - info.current < -TargetExtra THEN info.last_adjustment + SilenceDelay
  ELSE Head(queue).ts + info.target

Due == now > NextTime

(* jb_getinfo, or jb_next in silence when nothing is due *)
GetInfo ==
  /\ hist' = Calculated(hist) /\ info' = Measured(hist')
  /\ UNCHANGED <<now, queue, ghosts>>

(* the state jb_get decides on *)
Current(h) ==
  LET jb == Measured(h) IN [jb EXCEPT !.target = jb.jitter + jb.min + TargetExtra]
Diff(jb) == jb.target - jb.current
Span == IF queue = << >> THEN 0 ELSE Last(queue).ts - Head(queue).ts

\* the timestamp whose turn it is
Playing(jb) == jb.next_voice_ts - jb.current

Grows(jb) == Diff(jb) > 0 /\ (jb.last_adjustment + AdjustDelay < now \/ Diff(jb) > Span)
Takes(ts) == queue # << >> /\ Head(queue).ts <= ts      \* queue_get

HandOut ==
  LET f == Head(queue)
      row == Append(spurt, f.ts)
  IN /\ queue' = Tail(queue)
     /\ done' = IF f.type = "VOICE" THEN done ELSE Append(done, f.id)
     /\ spurt' = CASE f.type = "VOICE" -> (IF Len(row) > 2 THEN Tail(row) ELSE row)
                  [] f.type = "SILENCE" -> << >>
                  [] OTHER -> spurt
Drop == queue' = Tail(queue) /\ UNCHANGED <<done, spurt>>
Keep == UNCHANGED <<queue, done, spurt>>

(* JB_INTERP: the buffer grows *)
GetGrow(jb) ==
  /\ ~Silent /\ Grows(jb)
  /\ info' = [jb EXCEPT !.current = @ + Interp, !.next_voice_ts = @ + Interp,
                        !.last_voice_ms = Interp, !.last_adjustment = now]
  /\ Keep

(* JB_OK: a frame that is not voice; silence starts with one *)
GetFull(jb) ==
  /\ ~Silent /\ ~Grows(jb) /\ Takes(Playing(jb)) /\ Head(queue).type # "VOICE"
  /\ info' = IF Head(queue).type = "SILENCE"
             THEN [jb EXCEPT !.silence_begin_ts = Head(queue).ts] ELSE jb
  /\ HandOut

TakesVoice(jb) == ~Silent /\ ~Grows(jb) /\ Takes(Playing(jb)) /\ Head(queue).type = "VOICE"
IsEarlier(jb) == Head(queue).ts < Playing(jb)
IsOverlapping(jb) == Head(queue).ts > Playing(jb) - jb.last_voice_ms

(* JB_OK: voice that was interpolated past, or came a little too quick *)
GetOverlapping(jb) ==
  /\ TakesVoice(jb) /\ IsEarlier(jb) /\ IsOverlapping(jb)
  /\ info' = [jb EXCEPT !.next_voice_ts = Head(queue).ts + jb.current + Head(queue).ms]
  /\ HandOut

\* mutant: late voice is handed out
GetLateAnyway(jb) ==
  /\ TakesVoice(jb) /\ IsEarlier(jb) /\ ~IsOverlapping(jb)
  /\ info' = jb
  /\ HandOut

(* JB_DROP: voice that is late *)
GetLate(jb) ==
  /\ TakesVoice(jb) /\ IsEarlier(jb) /\ ~IsOverlapping(jb)
  /\ info' = jb
  /\ Drop

Shrinks(jb, delay) == Diff(jb) < -TargetExtra /\ jb.last_adjustment + delay < now

OnTime(jb) == TakesVoice(jb) /\ ~IsEarlier(jb)

(* JB_DROP: the buffer shrinks by a frame *)
GetShrink(jb) ==
  /\ OnTime(jb) /\ Shrinks(jb, ShrinkDelay)
  /\ info' = [jb EXCEPT !.last_voice_ms = Head(queue).ms, !.last_adjustment = now,
                        !.current = @ - Head(queue).ms]
  /\ Drop

(* JB_OK: the frame that is expected *)
GetVoice(jb) ==
  /\ OnTime(jb) /\ ~Shrinks(jb, ShrinkDelay)
  /\ info' = [jb EXCEPT !.last_voice_ms = Head(queue).ms, !.next_voice_ts = @ + Head(queue).ms]
  /\ HandOut

Nothing(jb) == ~Silent /\ ~Grows(jb) /\ ~Takes(Playing(jb))

(* JB_NOFRAME: the buffer shrinks where a frame is missing *)
GetShrinkEmpty(jb) ==
  /\ Nothing(jb) /\ (Shrinks(jb, EmptyDelay) \/ Shrinks(jb, ShrinkDelay))
  /\ info' = [jb EXCEPT !.last_adjustment = now, !.current = @ - jb.last_voice_ms]
  /\ Keep

\* mutant: the time of the next frame does not move
GetLostInPlace(jb) ==
  /\ Nothing(jb) /\ ~(Shrinks(jb, EmptyDelay) \/ Shrinks(jb, ShrinkDelay))
  /\ info' = [jb EXCEPT !.last_voice_ms = Interp]
  /\ Keep

(* JB_INTERP: a frame is lost *)
GetLost(jb) ==
  /\ Nothing(jb) /\ ~(Shrinks(jb, EmptyDelay) \/ Shrinks(jb, ShrinkDelay))
  /\ info' = [jb EXCEPT !.next_voice_ts = @ + Interp, !.last_voice_ms = Interp]
  /\ Keep

(* silence: the buffer may shrink by what is not played *)
InSilence(jb) ==
  IF Diff(jb) < -TargetExtra /\ jb.last_adjustment + SilenceDelay <= now
  THEN [jb EXCEPT !.current = @ - Interp, !.last_adjustment = now]
  ELSE jb

TakesSilent(jb) == Takes(now - InSilence(jb).current)

(* JB_NOFRAME *)
SilentNothing(jb) ==
  /\ Silent /\ ~TakesSilent(jb)
  /\ info' = InSilence(jb)
  /\ Keep

(* JB_OK: a frame that is not voice *)
SilentFull(jb) ==
  /\ Silent /\ TakesSilent(jb) /\ Head(queue).type # "VOICE"
  /\ info' = InSilence(jb)
  /\ HandOut

(* JB_DROP: voice from before the silence *)
SilentLate(jb) ==
  /\ Silent /\ TakesSilent(jb) /\ Head(queue).type = "VOICE"
  /\ Head(queue).ts < InSilence(jb).silence_begin_ts
  /\ info' = InSilence(jb)
  /\ Drop

(* JB_OK: voice starts again *)
SilentVoice(jb) ==
  /\ Silent /\ TakesSilent(jb) /\ Head(queue).type = "VOICE"
  /\ Head(queue).ts >= InSilence(jb).silence_begin_ts
  /\ info' = [InSilence(jb) EXCEPT !.current = InSilence(jb).target, !.silence_begin_ts = 0,
                !.next_voice_ts = Head(queue).ts + InSilence(jb).target + Head(queue).ms,
                !.last_voice_ms = Head(queue).ms]
  /\ HandOut

Get ==
  /\ Due
  /\ hist' = Calculated(hist) /\ UNCHANGED <<now, window, put, full, resynced>>
  /\ \E jb \in {Current(hist')} :
       \/ GetGrow(jb) \/ GetFull(jb) \/ GetOverlapping(jb) \/ GetLate(jb) \/ GetShrink(jb)
       \/ GetVoice(jb) \/ GetShrinkEmpty(jb) \/ GetLost(jb)
       \/ SilentNothing(jb) \/ SilentFull(jb) \/ SilentLate(jb) \/ SilentVoice(jb)

-----------------------------------------------------------------------------
(* complete_transfer: the queue is drained, jb_reset, rxcore starts anew *)
Reset ==
  /\ now' = 0 /\ info' = NewInfo /\ hist' = NewHistory /\ queue' = << >>
  /\ window' = << >> /\ done' = << >> /\ spurt' = << >> /\ put' = 0
  /\ full' = << >> /\ resynced' = FALSE

(* calc_rxstamp sets rxcore when the first frame arrives *)
Tick ==
  /\ put > 0 /\ now < MaxTime /\ now' = now + 1
  /\ UNCHANGED <<info, hist, queue, ghosts>>

Put ==
  \E ts \in Stamps :
    \/ \E type \in Types : PutFull(type, ts)
    \/ \E ms \in Sizes : PutVoice(ts, ms) \/ Resync(ts, ms)
    \/ PutDiscontinuous(ts)

Next == Put \/ Get \/ GetInfo \/ Reset \/ Tick

Spec == Init /\ [][Next]_vars

(* ServiceMain calls iax_get_event as long as there are events, and again after
   every wait. *)
FairSpec == Spec /\ WF_vars(Get)

-----------------------------------------------------------------------------
(* Properties *)

(* Whenever the sorted ends of the history are taken for valid they are what
   sorting the recorded delays gives: history_put invalidates them when it must,
   across the wrap of the ring and a resync. *)
CacheExact ==
  hist.valid => hist.maxbuf = Greatest(window) /\ hist.minbuf = Least(window)

(* No full frame is dropped or handed out twice, whatever is decided about the
   voice around it, and unless there was a resync they come out in the order in
   which they were sent. *)
FullInOrder ==
  LET Waiting == {k \in DOMAIN queue : queue[k].type # "VOICE"}
      ids == {queue[k].id : k \in Waiting}
  IN /\ ToSet(done) \cup ids = 1 .. Len(full) /\ ToSet(done) \cap ids = {}
     /\ \A j, k \in DOMAIN done : j < k => done[j] # done[k]
     /\ \A j, k \in Waiting : j < k => queue[j].id # queue[k].id
     /\ resynced \/ /\ \A j, k \in DOMAIN done : j < k => done[j] < done[k]
                    /\ \A j \in DOMAIN done, k \in Waiting : done[j] < queue[k].id
                    /\ \A j, k \in Waiting : j < k => queue[j].id < queue[k].id

(* Voice is played forward: between two silences no voice is handed out that was
   not sent after what was handed out before. *)
VoiceForward == Len(spurt) = 2 => spurt[1] < spurt[2]

(* The calls of jb_get that ServiceMain's loop makes come to an end without time
   passing or a frame arriving: in the end nothing is due, or there is no frame
   in silence, which is not an event. *)
PollEnds == Due ~> ~Due \/ (Silent /\ ~TakesSilent(Current(Calculated(hist))))

=============================================================================
