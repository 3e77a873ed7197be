------------------------------ MODULE Sessions ------------------------------
(***************************************************************************)
(* The life of a struct iax_session: libiax2's session list, the schedule   *)
(* and the jitterbuffer queues that point to sessions (src/libiax2/iax.c),  *)
(* and the two pointers the service keeps, session and registeredSession    *)
(* (src/main.c).                                                            *)
(*                                                                         *)
(* Everything here runs in one thread.  The hard part is memory: an event,  *)
(* a scheduled frame and main.c's variables keep addresses of sessions that *)
(* may be freed, and the allocator may hand the same address out again.  A  *)
(* session made later has a higher generation; the program sees addresses.  *)
(***************************************************************************)
EXTENDS Naturals, Sequences

CONSTANTS Addrs,        \* addresses a session can have
          NoAddr,       \* NULL
          Worlds        \* what may happen, see world

ASSUME AddrsAssumption == Addrs \subseteq Nat \ {0} /\ NoAddr \notin Addrs
ASSUME WorldsAssumption ==
  Worlds \subseteq [sessions : Nat \ {0},     \* bound: sessions made
                    events : Nat,           \* bound: events queued for a session
                    register : BOOLEAN,     \* Settings->Register
                    reuse : BOOLEAN,        \* does malloc hand out freed addresses again?
                    waveFails : BOOLEAN,    \* may StartWave or StopWave fail?
                    peersVanish : BOOLEAN]  \* may a peer disappear for good?

VARIABLES
  world,     \* the world of this behaviour, which does not change
  lib,       \* the library: heap, queue and frames, see TypeOK
  pings,     \* addresses send_ping is scheduled for
  made,      \* how many sessions were made
  call,      \* main.c: session
  reg,       \* main.c: registeredSession
  evt,       \* main.c: evt
  pc,        \* where the service loop is
  gone,      \* generations whose peer has disappeared
  strays,    \* generations made for a frame that was no NEW, or one that did not parse
  timedOut,  \* generations a TIMEOUT was raised for
  badUse     \* a function of the library was given a freed session

main == <<call, reg, evt, pc>>
vars == <<world, lib, pings, made, main, gone, strays, timedOut, badUse>>

Gens == 1 .. world.sessions
Ref == [addr : Addrs \cup {NoAddr}, gen : 0 .. world.sessions]
NoRef == [addr |-> NoAddr, gen |-> 0]
Kinds == {"CONNECT", "TIMEOUT", "HANGUP"}   \* a REJECT is treated as a HANGUP is
NoEvt == [kind |-> "NULL", addr |-> NoAddr, gen |-> 0]
Frame == [addr : Addrs, gen : 0 .. world.sessions, final : BOOLEAN, done : BOOLEAN]

TypeOK ==
  /\ world \in Worlds
  /\ lib.heap \in [Addrs -> 0 .. world.sessions]      \* generation at an address, 0: free
  /\ lib.queue \in [Addrs -> Seq(Kinds)]      \* control events in session->jb
  /\ lib.frames \subseteq Frame               \* frames in schedq
  /\ pings \subseteq Addrs /\ made \in 0 .. world.sessions
  /\ call \in Ref /\ reg \in Ref
  /\ evt \in [kind : Kinds, addr : Addrs, gen : Gens] \cup {NoEvt}
  /\ pc \in {"idle", "event", "free", "leave", "down"}
  /\ pc \in {"event", "free"} <=> evt # NoEvt
  /\ gone \subseteq Gens /\ strays \subseteq Gens /\ timedOut \subseteq Gens /\ badUse \in BOOLEAN

-----------------------------------------------------------------------------
(* The library's operations on its own state l *)

Live(l) == {a \in Addrs : l.heap[a] # 0}
Valid(l, ref) == ref.addr \in Addrs /\ l.heap[ref.addr] # 0 /\ l.heap[ref.addr] = ref.gen

\* mutant: iax_session_new takes an address that is still in use
AnyAddr(l, a) == a \in Addrs

(* malloc; the first address that no session had stands for all of them *)
MayAllocate(l, a) ==
  /\ a \in Addrs \ Live(l)
  /\ world.reuse \/ a = made + 1

Create(l, a, events) ==
  [l EXCEPT !.heap[a] = made + 1, !.queue[a] = events]

(* destroy_session: frames of the address are marked, a listed session freed *)
Destroy(l, a) ==
  [heap |-> [l.heap EXCEPT ![a] = 0],
   queue |-> [l.queue EXCEPT ![a] = << >>],
   frames |-> {IF f.addr = a THEN [f EXCEPT !.done = TRUE] ELSE f : f \in l.frames}]

(* iax_send of a full frame *)
SendFrame(l, a, isFinal) ==
  [l EXCEPT !.frames = @ \cup {[addr |-> a, gen |-> l.heap[a], final |-> isFinal, done |-> FALSE]}]

\* mutant: send_command_final leaves the session alone
SendOnly(l, a) == SendFrame(l, a, TRUE)

(* send_command_final *)
SendFinal(l, a) == Destroy(SendFrame(l, a, TRUE), a)

-----------------------------------------------------------------------------
(* REG_START: iax_session_new, and iax_register, which sends nothing if the
   host's name cannot be resolved *)
Registered(l, a) == {SendFrame(Create(l, a, << >>), a, FALSE), Create(l, a, << >>)}

Init ==
  /\ world \in Worlds
  /\ LET none == [heap |-> [a \in Addrs |-> 0], queue |-> [a \in Addrs |-> << >>], frames |-> {}]
     IN IF world.register
        THEN \E a \in Addrs :
               /\ world.reuse \/ a = 1
               /\ LET l == [none EXCEPT !.heap[a] = 1]
                  IN lib = l \/ lib = SendFrame(l, a, FALSE)
               /\ reg = [addr |-> a, gen |-> 1] /\ made = 1
        ELSE lib = none /\ reg = NoRef /\ made = 0
  /\ pings = {} /\ call = NoRef /\ evt = NoEvt /\ pc = "idle"
  /\ gone = {} /\ strays = {} /\ timedOut = {} /\ badUse = FALSE

(* A full frame no session matches and that names none: iax_find_session makes
   a session and schedules its ping, whatever the frame is. *)
FromUnknown(a) ==
  /\ pc = "idle" /\ made < world.sessions /\ MayAllocate(lib, a)
  /\ pings' = pings \cup {a}
  /\ made' = made + 1

(* ... a NEW: it queues IAX_EVENT_CONNECT *)
NewCall(a) ==
  /\ FromUnknown(a)
  /\ lib' = Create(lib, a, <<"CONNECT">>)
  /\ UNCHANGED <<world, main, gone, strays, timedOut, badUse>>

(* ... anything else, or a NEW whose elements do not parse: it is dropped, with
   a VNAK if its number is not the first, or answered as a PING is, or queues a
   HANGUP; the session stays *)
Stray(a) ==
  /\ FromUnknown(a)
  /\ \/ lib' = Create(lib, a, << >>)
     \/ lib' = SendFrame(Create(lib, a, << >>), a, FALSE)
     \/ lib' = Create(lib, a, <<"HANGUP">>)
  /\ strays' = strays \cup {made + 1}
  /\ UNCHANGED <<world, main, gone, timedOut, badUse>>

(* the NEW that the stray frame had overtaken *)
LateNew(a) ==
  /\ pc = "idle" /\ a \in Live(lib) /\ lib.heap[a] \in strays \ gone
  /\ lib.queue[a] = << >>
  /\ lib' = [lib EXCEPT !.queue[a] = <<"CONNECT">>]
  /\ strays' = strays \ {lib.heap[a]}
  /\ UNCHANGED <<world, pings, made, main, gone, timedOut, badUse>>

(* HANGUP, REJECT or INVAL arrives: schedule_delivery *)
PeerEnds(a) ==
  /\ pc = "idle" /\ a \in Live(lib) /\ lib.heap[a] \notin gone
  /\ Len(lib.queue[a]) < world.events
  /\ lib' = [lib EXCEPT !.queue[a] = Append(@, "HANGUP")]
  /\ UNCHANGED <<world, pings, made, main, gone, strays, timedOut, badUse>>

(* the peer's acknowledgement of what the session has sent *)
PeerAcks(a) ==
  /\ pc = "idle" /\ a \in Live(lib) /\ lib.heap[a] \notin gone
  /\ lib' = [lib EXCEPT !.frames = {IF f.addr = a THEN [f EXCEPT !.done = TRUE] ELSE f : f \in @}]
  /\ UNCHANGED <<world, pings, made, main, gone, strays, timedOut, badUse>>

(* a PING arrives: handle_event answers it, and the service sees no event *)
PeerPings(a) ==
  /\ pc = "idle" /\ a \in Live(lib) /\ lib.heap[a] \notin gone
  /\ lib' = SendFrame(lib, a, FALSE)
  /\ UNCHANGED <<world, pings, made, main, gone, strays, timedOut, badUse>>

(* a POKE arrives from somebody unknown: iax_find_session makes a session and
   handle_event answers and destroys it, but its ping stays scheduled *)
Poke(a) ==
  /\ FromUnknown(a)
  /\ lib' = Destroy(SendFrame(Create(lib, a, << >>), a, FALSE), a)
  /\ UNCHANGED <<world, main, gone, strays, timedOut, badUse>>

(* the peer crashes or the network to it fails for good *)
PeerGone(a) ==
  /\ world.peersVanish /\ a \in Live(lib) /\ gone' = gone \cup {lib.heap[a]}
  /\ UNCHANGED <<world, lib, pings, made, main, strays, timedOut, badUse>>

(* send_ping: nothing for an address that is no session any more *)
Ping(a) ==
  /\ pc = "idle" /\ a \in pings
  /\ IF a \in Live(lib) THEN lib' = SendFrame(lib, a, FALSE) /\ UNCHANGED pings
                        ELSE pings' = pings \ {a} /\ UNCHANGED lib
  /\ UNCHANGED <<world, made, main, gone, strays, timedOut, badUse>>

(* iax_get_event on a frame that is done: a final one destroys the session *)
FrameDone(f) ==
  /\ pc = "idle" /\ f \in lib.frames /\ f.done
  /\ LET l == [lib EXCEPT !.frames = @ \ {f}]
     IN lib' = IF f.final THEN Destroy(l, f.addr) ELSE l
  /\ UNCHANGED <<world, pings, made, main, gone, strays, timedOut, badUse>>

\* mutant: a timeout is swallowed
FrameForgotten(f) ==
  /\ pc = "idle" /\ f \in lib.frames /\ ~f.done
  /\ lib' = [lib EXCEPT !.frames = @ \ {f}]
  /\ UNCHANGED <<world, pings, made, main, gone, strays, timedOut, badUse>>

(* ... and on one whose retries are used up: IAX_EVENT_TIMEOUT, which
   handle_event passes on if the address is a session *)
FrameTimeout(f) ==
  /\ pc = "idle" /\ f \in lib.frames /\ ~f.done /\ ~f.final
  /\ lib' = [lib EXCEPT !.frames = @ \ {f}]
  /\ IF f.addr \in Live(lib)
     THEN /\ evt' = [kind |-> "TIMEOUT", addr |-> f.addr, gen |-> lib.heap[f.addr]]
          /\ pc' = "event"
          /\ timedOut' = timedOut \cup {lib.heap[f.addr]}
     ELSE UNCHANGED <<world, evt, pc, timedOut>>
  /\ UNCHANGED <<world, pings, made, call, reg, gone, strays, badUse>>

(* jb_get: handle_event destroys the session of a hangup or a reject before it
   returns the event *)
Deliver(a) ==
  /\ pc = "idle" /\ a \in Live(lib) /\ lib.queue[a] # << >>
  /\ LET kind == Head(lib.queue[a])
         l == [lib EXCEPT !.queue[a] = Tail(@)]
     IN /\ evt' = [kind |-> kind, addr |-> a, gen |-> lib.heap[a]]
        /\ lib' = IF kind = "HANGUP" THEN Destroy(l, a) ELSE l
  /\ pc' = "event"
  /\ UNCHANGED <<world, pings, made, call, reg, gone, strays, timedOut, badUse>>

-----------------------------------------------------------------------------
(* The service loop's switch *)

(* IAX_EVENT_CONNECT, accepted; a failing StartWave leaves *)
Accept ==
  /\ pc = "event" /\ evt.kind = "CONNECT"
  /\ call = NoRef
  /\ call' = [addr |-> evt.addr, gen |-> evt.gen]
  /\ lib' = SendFrame(lib, evt.addr, FALSE)
  /\ badUse' = (badUse \/ ~Valid(lib, evt))
  /\ \/ pc' = "free" /\ UNCHANGED evt
     \/ world.waveFails /\ pc' = "leave" /\ evt' = NoEvt
  /\ UNCHANGED <<world, pings, made, reg, gone, strays, timedOut>>

(* ... rejected: the service is busy or the host not welcome *)
Reject ==
  /\ pc = "event" /\ evt.kind = "CONNECT"
  /\ lib' = SendFinal(lib, evt.addr)
  /\ badUse' = (badUse \/ ~Valid(lib, evt))
  /\ pc' = "free"
  /\ UNCHANGED <<world, pings, made, call, reg, evt, gone, strays, timedOut>>

(* IAX_EVENT_REJECT, _HANGUP, _TIMEOUT of neither the call nor the registration,
   or of the call when StopWave succeeds *)
EndCall ==
  /\ pc = "event" /\ evt.kind # "CONNECT"
  /\ evt.addr # reg.addr
  /\ call' = IF evt.addr = call.addr THEN NoRef ELSE call
  /\ pc' = "free"
  /\ UNCHANGED <<world, lib, pings, made, reg, evt, gone, strays, timedOut, badUse>>

(* ... of the call when StopWave fails: CHECK frees the event and leaves *)
EndCallFails ==
  /\ world.waveFails
  /\ pc = "event" /\ evt.kind # "CONNECT"
  /\ evt.addr = call.addr
  /\ lib' = IF evt.kind = "HANGUP" THEN Destroy(lib, evt.addr) ELSE lib
  /\ evt' = NoEvt
  /\ pc' = "leave"
  /\ UNCHANGED <<world, pings, made, call, reg, gone, strays, timedOut, badUse>>

\* mutant: the pointer is kept
RenewDestroyOnly ==
  /\ pc = "event" /\ evt.kind # "CONNECT"
  /\ evt.addr = reg.addr
  /\ lib' = Destroy(lib, reg.addr)
  /\ pc' = "free"
  /\ UNCHANGED <<world, pings, made, call, reg, evt, gone, strays, timedOut, badUse>>

(* ... of the registration: iax_session_destroy and REG_START *)
RenewRegistration ==
  /\ pc = "event" /\ evt.kind # "CONNECT"
  /\ evt.addr = reg.addr /\ made < world.sessions
  /\ call' = IF evt.addr = call.addr THEN NoRef ELSE call
  /\ LET l == Destroy(lib, reg.addr)
     IN \E a \in Addrs :
          /\ MayAllocate(l, a)
          /\ lib' \in Registered(l, a)
          /\ reg' = [addr |-> a, gen |-> made + 1]
          /\ made' = made + 1
  /\ pc' = "free"
  /\ UNCHANGED <<world, pings, evt, gone, strays, timedOut, badUse>>

\* mutant: the variable keeps the event that was freed
FreeKeepsEvt ==
  /\ pc = "free"
  /\ lib' = IF evt.kind = "HANGUP" THEN Destroy(lib, evt.addr) ELSE lib
  /\ pc' = "idle"
  /\ UNCHANGED <<world, pings, made, call, reg, evt, gone, strays, timedOut, badUse>>

(* iax_event_free *)
Free ==
  /\ pc = "free"
  /\ lib' = IF evt.kind = "HANGUP" THEN Destroy(lib, evt.addr) ELSE lib
  /\ evt' = NoEvt /\ pc' = "idle"
  /\ UNCHANGED <<world, pings, made, call, reg, gone, strays, timedOut, badUse>>

(* WSA_WAIT_TIMEOUT: REG_REFRESH *)
Refresh ==
  /\ pc = "idle" /\ reg # NoRef
  /\ lib' = SendFrame(lib, reg.addr, FALSE)
  /\ badUse' = (badUse \/ ~Valid(lib, reg))
  /\ UNCHANGED <<world, pings, made, main, gone, strays, timedOut>>

(* SERVICE_EVENT_SHUTDOWN *)
Shutdown ==
  /\ pc = "idle" /\ pc' = "leave"
  /\ UNCHANGED <<world, lib, pings, made, call, reg, evt, gone, strays, timedOut, badUse>>

(* LEAVE: hang up, which also unschedules the ping, and drop the registration *)
Leave ==
  /\ pc = "leave"
  /\ LET l == IF call = NoRef THEN lib ELSE SendFinal(lib, call.addr)
     IN lib' = IF reg = NoRef THEN l ELSE Destroy(l, reg.addr)
  /\ pings' = pings \ {call.addr}
  /\ badUse' = (badUse \/ (call # NoRef /\ ~Valid(lib, call)))
  /\ reg' = NoRef
  /\ pc' = "down"
  /\ UNCHANGED <<world, made, call, evt, gone, strays, timedOut>>

-----------------------------------------------------------------------------
Library ==
  \/ \E a \in Addrs : Ping(a) \/ Deliver(a)
  \/ \E f \in lib.frames : FrameDone(f) \/ FrameTimeout(f)

Service ==
  \/ Accept \/ Reject \/ EndCall \/ EndCallFails \/ RenewRegistration \/ Free
  \/ Refresh \/ Shutdown \/ Leave

Network ==
  \E a \in Addrs :
    \/ NewCall(a) \/ Stray(a) \/ LateNew(a) \/ Poke(a)
    \/ PeerAcks(a) \/ PeerPings(a) \/ PeerGone(a) \/ PeerEnds(a)

Next == Library \/ Service \/ Network

Spec == Init /\ [][Next]_vars

(* The service handles every event it gets.  The schedule is kept in the order
   of time and iax_get_event serves it first, so no ping and no frame that is
   due waits forever behind others, however often those come back; it is enough
   to ask that for the session of the call. *)
OfCall(a) == a = call.addr

Fairness ==
  /\ WF_vars(Accept \/ Reject \/ EndCall \/ RenewRegistration) /\ WF_vars(Free) /\ WF_vars(Leave)
  /\ SF_vars(\E a \in Addrs : OfCall(a) /\ Ping(a))
  /\ SF_vars(\E a \in Addrs : OfCall(a) /\ Deliver(a))
  /\ SF_vars(\E f \in lib.frames : OfCall(f.addr) /\ (FrameDone(f) \/ FrameTimeout(f)))

FairSpec == Spec /\ Fairness

-----------------------------------------------------------------------------
(* Properties *)

(* While the audio works, main.c never hands a freed session to the library, and
   a frame that may still be sent again belongs to the session it was sent for:
   iax_xmit_frame reads the peer's address through this pointer. *)
NoDangling ==
  /\ badUse => world.waveFails
  /\ \A f \in lib.frames : f.done \/ Valid(lib, f)

(* Between two events main.c's pointers name the sessions they were set to. *)
PointersLive ==
  pc = "idle" => /\ call = NoRef \/ Valid(lib, call)
                 /\ reg = NoRef \/ Valid(lib, reg)

(* Every session but the registration's, which REG_REFRESH renews, has its ping
   scheduled, so that a peer which is gone is noticed.  Between two events no
   session is lost to the service but one a stray frame made: any other is the
   call or the registration, has an event on its way, or had a timeout raised
   for it, which nobody destroys it after. *)
OrphansAreStrays ==
  /\ \A a \in Live(lib) : a = reg.addr \/ a \in pings
  /\ pc = "idle" => \A a \in Live(lib) :
       \/ lib.queue[a] # << >>
       \/ lib.heap[a] \in {call.gen, reg.gen} \cup timedOut \cup strays

(* A peer that disappears does not keep the service in the call: the pings find
   out and the next caller can be accepted. *)
DeadCallEnds ==
  call.gen \in gone ~> call.gen \notin gone \/ pc = "down"

=============================================================================
