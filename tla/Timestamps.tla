------------------------------ MODULE Timestamps ------------------------------
(***************************************************************************)
(* The timestamps of what a session receives (src/libiax2/iax.c): a full     *)
(* frame carries all 32 bits of its time, a mini frame, which most of the    *)
(* audio comes in, the low 16 only.  The receiver puts the high ones back    *)
(* from last_ts and guesses where they must have changed in between, before  *)
(* it hands the frame to the jitterbuffer.                                  *)
(*                                                                         *)
(* The peer decides when a frame is full.  The network loses, duplicates and *)
(* reorders frames, but one that is more than Late ms old never arrives, and *)
(* the receiver never goes without news of the peer's clock for longer.      *)
(***************************************************************************)
EXTENDS Integers, FiniteSets

CONSTANTS Late,     \* ms a frame may be late, and the receiver without one
          Gaps,     \* ms between two frames
          MaxTime,  \* bound: ms
          MaxNet    \* bound: frames on their way

Wrap == 65536       \* values of a mini frame's timestamp
Jump == 50000       \* more than this is a wrap and not a delay

ASSUME LateAssumption == Late \in Nat /\ Late < Wrap - Jump
ASSUME GapsAssumption == Gaps \subseteq Nat \ {0} /\ MaxTime \in Nat /\ MaxNet \in Nat

VARIABLES
  now,       \* the peer's clock
  net,       \* the frames on their way, with the time they were sent at
  last_ts,   \* session->last_ts
  format,    \* is session->voiceformat set?
  placed     \* the frame scheduled last: when it was sent, and under what time

vars == <<now, net, last_ts, format, placed>>

Frames == [kind : {"mini", "voice", "iax"}, ts : Nat]

TypeOK ==
  /\ now \in Nat /\ last_ts \in Nat /\ format \in BOOLEAN
  /\ net \subseteq Frames /\ placed \in [sent : Nat, got : Nat]

-----------------------------------------------------------------------------
High(ts) == ts - (ts % Wrap)       \* ts & 0xFFFF0000
Low(ts) == ts % Wrap               \* ts & 0xFFFF

\* mutant: an old mini frame after a wrap is not pushed back
UnwrapForward(ts, last) ==
  IF High(ts) = High(last) /\ ts - last < -Jump THEN High(last) + Wrap + Low(ts) ELSE ts

(* unwrap_timestamp; its second half, for the video's 15 bits, is never reached,
   for where the upper 17 bits agree the upper 16 do too *)
Unwrap(ts, last) ==
  IF High(ts) # High(last) THEN ts
  ELSE IF ts - last < -Jump THEN High(last) + Wrap + Low(ts)
  ELSE IF ts - last > Jump THEN High(last) - Wrap + Low(ts)
  ELSE ts

Later(x, y) == IF x > y THEN x ELSE y

(* schedule_delivery, of a frame sent at sent that shows ts *)
Schedule(sent, ts, last) ==
  /\ placed' = [sent |-> sent, got |-> Unwrap(ts, last)]
  /\ last_ts' = Later(last, Unwrap(ts, last))

Init ==
  /\ now = 0 /\ net = {} /\ last_ts = 0 /\ format = FALSE
  /\ placed = [sent |-> 0, got |-> 0]

(* the peer sends a frame, and what has become too old in the meantime is lost *)
Send(kind) ==
  \E gap \in Gaps :
    /\ now + gap <= MaxTime /\ Cardinality(net) < MaxNet
    /\ now + gap <= last_ts + Late
    /\ now' = now + gap
    /\ net' = {m \in net : now' <= m.ts + Late} \cup {[kind |-> kind, ts |-> now']}
    /\ UNCHANGED <<last_ts, format, placed>>

SendMini == Send("mini")
SendVoice == Send("voice")
SendIax == Send("iax")

Lose ==
  /\ \E m \in net : net' = net \ {m}
  /\ UNCHANGED <<now, last_ts, format, placed>>

(* a frame arrives, and may again *)
Arrive(m) ==
  /\ m \in net /\ net' \in {net, net \ {m}}
  /\ UNCHANGED now

(* iax_miniheader_to_event *)
MiniArrives ==
  /\ format
  /\ \E m \in net :
       /\ m.kind = "mini" /\ Arrive(m)
       /\ Schedule(m.ts, High(last_ts) + Low(m.ts), last_ts)
  /\ UNCHANGED format

(* iax_header_to_event: a voice frame in its turn *)
VoiceArrives ==
  /\ \E m \in net :
       /\ m.kind = "voice" /\ Arrive(m)
       /\ Schedule(m.ts, m.ts, last_ts)
  /\ format' = TRUE

(* ... and one of the library's own, which moves the clock before its sequence
   number is looked at, whether or not it has an event that is scheduled *)
IaxArrives ==
  /\ \E m \in net :
       /\ m.kind = "iax" /\ Arrive(m)
       /\ \/ last_ts' = Later(last_ts, m.ts) /\ UNCHANGED placed
          \/ Schedule(m.ts, m.ts, Later(last_ts, m.ts))
  /\ UNCHANGED format

Next ==
  \/ SendMini \/ SendVoice \/ SendIax \/ Lose
  \/ MiniArrives \/ VoiceArrives \/ IaxArrives

Spec == Init /\ [][Next]_vars

-----------------------------------------------------------------------------
(* Properties *)

(* Every frame is scheduled under the time it was sent at, however the network
   loses and reorders what comes around the wrap of the 16 bits, and whichever
   of the frames there the peer sends in full. *)
Reconstructed == placed.got = placed.sent

=============================================================================
